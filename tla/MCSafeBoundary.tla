---------------------------- MODULE MCSafeBoundary ----------------------------
(***************************************************************************)
(* TLC instances of SafeBoundary: one device, a GM who pauses, changes the *)
(* password or cuts the device off, once or twice.                         *)
(***************************************************************************)
EXTENDS SafeBoundary, TLC

CONSTANTS d1, pause, resume, secret, cut, cut2

MCDevices == {d1}
MCDeviceOf == [c \in Channels |-> d1]
MCKindOf == [m \in Commands |->
                CASE m = pause -> "PAUSE" [] m = resume -> "RESUME"
                  [] m = secret -> "PASSWORD" [] OTHER -> "DISCONNECT"]
MCTargetOf == [m \in Commands |-> d1]
MCSymmetry == Permutations(Channels) \cup Permutations(Retries) \cup Permutations({cut, cut2})

=============================================================================
