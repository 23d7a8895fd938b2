--------------------------- MODULE MCFinalAdmission ---------------------------
(***************************************************************************)
(* TLC instances of FinalAdmission: p1 asks for one character, p2 for two, *)
(* of which x has a blocker.                                               *)
(***************************************************************************)
EXTENDS FinalAdmission, TLC

CONSTANTS p1, p2, a, b, x

MCPlayers == {p1, p2}
MCCopies == {a, b, x}
MCOwnerOf == a :> p1 @@ b :> p2 @@ x :> p2
MCBlocked == {x}
One == p1 :> 1 @@ p2 :> 1
TwoOne == p1 :> 2 @@ p2 :> 1

=============================================================================
