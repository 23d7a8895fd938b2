---------------------------- MODULE AdmissionOrder ----------------------------
(***************************************************************************)
(* DeviceAdmission with a history variable, which its actions do not read: *)
(* it remembers the attempts whose OPEN came in on an overtaken channel.   *)
(*                                                                         *)
(* The player opens its channels one after the other, and the host accepts *)
(* each when its device proof arrives.  Nothing orders two arrivals, so a  *)
(* channel the player gave up can be accepted after a newer one.  Such a   *)
(* channel has the larger ordinal (module ScopeFence), and no recovery     *)
(* executed before its arrival has shut it out.                            *)
(***************************************************************************)
EXTENDS DeviceAdmission

VARIABLE overtaken   \* history: attempts that arrived on an overtaken channel

orderVars == <<vars, overtaken>>

\* The host accepts a channel after one that the player opened later.
Overtaken(c) ==
    /\ link[c] = "PROOF"
    /\ link'[c] = "OPEN"
    /\ \E d \in Channels : d > c /\ ordinal[d] # 0

Arriving(a) == \E c \in Channels : Overtaken(c) /\ sent[c] = Rpc("OPEN", a, None)

OrderInit == Init /\ overtaken = {}

OrderNext ==
    /\ Next
    /\ overtaken' = overtaken \cup {a \in Attempts : Arriving(a)}

OrderSpec == OrderInit /\ [][OrderNext]_orderVars

-----------------------------------------------------------------------------
(* Whatever the host committed for the player is owned by a command the    *)
(* player waits for or holds a receipt of: no crash and no lost answer     *)
(* leaves a request or a cancellation nobody knows about.  A session can   *)
(* be left so, in one way only: its OPEN came in on an overtaken channel   *)
(* (INTENT before delivery, ACKNOWLEDGE, CANCEL_SETTLE; recover, assign).  *)
OrphansWereOvertaken ==
    /\ \A a \in opened :
        outbox[OPEN(a)] \in {"PENDING", "ACK"} \/ a \in overtaken
    /\ \A r \in submitted : outbox[SUBMIT(r)] \in {"PENDING", "ACK"}
    /\ \A r \in Requests :
        Status(log[r]) = "CANCELLED" => outbox[CANCEL(r)] \in {"PENDING", "ACK"}

=============================================================================
