---------------------------- MODULE DeviceRequest ----------------------------
(***************************************************************************)
(* What a device request promises to its player and to the GM, without     *)
(* channels, outboxes, fences or crashes: DeviceAdmission implements it.   *)
(*                                                                         *)
(* A request has one history of statuses on the host.  The player asks for *)
(* it once, learns the history in order, and may ask to cancel while the   *)
(* history it knows is still PENDING.  Either the CANCEL closes the        *)
(* request or a decision does; the player is told which.                   *)
(***************************************************************************)
EXTENDS Naturals, Sequences

CONSTANTS Requests

VARIABLES
    asked,    \* requests the player pinned
    history,  \* statuses of a request on the host, oldest first
    known,    \* the part of it the player has confirmed
    cancel    \* NO, ASKED, CANCELLED or TOO_LATE

requestVars == <<asked, history, known, cancel>>

Pending(h) == h = <<"PENDING">>
Open(h) == h # <<>> /\ h[Len(h)] \in {"PENDING", "IN_REVIEW"}
Decided(h) == h # <<>> /\ h[Len(h)] \in {"IN_REVIEW", "REJECTED"}

RequestInit ==
    /\ asked = {}
    /\ history = [r \in Requests |-> <<>>]
    /\ known = [r \in Requests |-> <<>>]
    /\ cancel = [r \in Requests |-> "NO"]

Ask(r) ==
    /\ r \notin asked
    /\ \A q \in asked : ~Open(known[q])
    /\ asked' = asked \cup {r}
    /\ UNCHANGED <<history, known, cancel>>

Submit(r) ==
    /\ r \in asked
    /\ history[r] = <<>>
    /\ \A q \in Requests : ~Open(history[q])
    /\ history' = [history EXCEPT ![r] = <<"PENDING">>]
    /\ UNCHANGED <<asked, known, cancel>>

Decide(r, status) ==
    /\ IF status = "REJECTED" THEN Open(history[r]) ELSE Pending(history[r])
    /\ history' = [history EXCEPT ![r] = Append(@, status)]
    /\ UNCHANGED <<asked, known, cancel>>

AskCancel(r) ==
    /\ Pending(known[r])
    /\ cancel[r] = "NO"
    /\ cancel' = [cancel EXCEPT ![r] = "ASKED"]
    /\ UNCHANGED <<asked, history, known>>

Cancel(r) ==
    /\ cancel[r] = "ASKED"
    /\ Pending(history[r])
    /\ history' = [history EXCEPT ![r] = Append(@, "CANCELLED")]
    /\ UNCHANGED <<asked, known, cancel>>

\* The player learns more; a decision settles the CANCEL it waits for.
Learn(r) ==
    /\ \E n \in Len(known[r]) + 1 .. Len(history[r]) :
        known' = [known EXCEPT ![r] = SubSeq(history[r], 1, n)]
    /\ cancel' = IF cancel[r] = "ASKED" /\ Decided(known'[r])
                 THEN [cancel EXCEPT ![r] = "TOO_LATE"]
                 ELSE cancel
    /\ UNCHANGED <<asked, history>>

ConfirmCancel(r) ==
    /\ cancel[r] = "ASKED"
    /\ history[r] = <<"PENDING", "CANCELLED">>
    /\ cancel' = [cancel EXCEPT ![r] = "CANCELLED"]
    /\ known' = [known EXCEPT ![r] = history[r]]
    /\ UNCHANGED <<asked, history>>

RequestNext ==
    \E r \in Requests :
        \/ Ask(r)
        \/ Submit(r)
        \/ \E status \in {"IN_REVIEW", "REJECTED"} : Decide(r, status)
        \/ AskCancel(r)
        \/ Cancel(r)
        \/ Learn(r)
        \/ ConfirmCancel(r)

RequestSpec == RequestInit /\ [][RequestNext]_requestVars

=============================================================================
