--------------------------- MODULE MCAdmissionOrder ---------------------------
(***************************************************************************)
(* TLC instances of DeviceAdmission that remember the order in which the   *)
(* host accepted the channels.                                             *)
(***************************************************************************)
EXTENDS AdmissionOrder, MCDeviceAdmission

=============================================================================
