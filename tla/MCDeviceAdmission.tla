-------------------------- MODULE MCDeviceAdmission --------------------------
(***************************************************************************)
(* TLC instances of DeviceAdmission: one player, whose transports are      *)
(* numbered in the order it opens them.                                    *)
(***************************************************************************)
EXTENDS DeviceAdmission, TLC

CONSTANTS player, MaxChannels

MCChannels == 1..MaxChannels
MCPeers == {player}
MCPeerOf == [c \in MCChannels |-> player]
MCScopeIds == {"ATTEMPT", "SESSION"} \X Attempts
MCSymmetry == Permutations(Attempts) \cup Permutations(Requests)

=============================================================================
