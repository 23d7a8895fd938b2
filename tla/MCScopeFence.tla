---------------------------- MODULE MCScopeFence ----------------------------
(***************************************************************************)
(* TLC instance of ScopeFence: three channels of one peer and one of       *)
(* another, which compete for a table of one scope.                        *)
(***************************************************************************)
EXTENDS ScopeFence

CONSTANTS c1, c2, c3, c4, alice, bob

MCChannels == {c1, c2, c3, c4}
MCPeers == {alice, bob}
MCPeerOf == [c \in MCChannels |-> IF c = c4 THEN bob ELSE alice]

=============================================================================
