------------------------- MODULE FinalAdmissionProofs -------------------------
(***************************************************************************)
(* Proofs about FinalAdmission, for any players, characters, capacities    *)
(* and bounds.                                                             *)
(*                                                                         *)
(* FinalInv is inductive.  What may still be on its way on a channel that  *)
(* the player gave up is told apart by the fence: a DECIDE is either the   *)
(* decision the player waits for, or the scope has another holder, which   *)
(* it keeps until its table is dropped, and then nothing is on its way;    *)
(* a READY is either the one the player waits for, or its channel is       *)
(* behind the barrier.  A recovered absence, or a READY that was refused,  *)
(* is told only after every older request has been shut out in this way.   *)
(***************************************************************************)
EXTENDS FinalAdmission, FiniteSetTheorems, TLAPS

(* Channels are used one after the other; what is on its way is on a       *)
(* channel the host still knows, and each channel carries one request.     *)
WireInOrder(p) ==
    /\ chan[p] \in {0, lastChan[p]}
    /\ replied[p] # None => chan[p] # 0
    /\ \A m \in sent[p] :
        /\ m.ch \in up[p]
        /\ \A n \in sent[p] : n.ch = m.ch => n = m
        /\ m.ch = chan[p] =>
            /\ replied[p] = None
            /\ m.op # "READY" => m.body = pending[p]
            /\ m.op = "READY" => m.body = readying[p]

(* A DECIDE the player does not wait for finds another holder.             *)
OutOfTurn(p, m) == holder[p] \notin {0, m.ch}

DecidesFenced(p) ==
    \A m \in sent[p] : m.op = "DECIDE" => m.body = pending[p] \/ OutOfTurn(p, m)

(* A READY on this channel is refused.                                     *)
ShutOut(p, m) == holder[p] # m.ch /\ m.ch <= barrier[p]

ReadiesFenced(p) ==
    \A m \in sent[p] : m.op = "READY" =>
        /\ m.body \in intents[p]
        /\ m.body = readying[p] \/ ShutOut(p, m)
        /\ holder[p] > m.ch => m.ch <= barrier[p]

(* What an answer says is so, and nothing on its way can change it.        *)
AnswerHolds(p) ==
    replied[p] # None =>
        /\ replied[p].kind \in {"DECIDED", "ABSENT"} =>
            /\ pending[p] = replied[p].body
            /\ decided[p] = IF replied[p].kind = "DECIDED" THEN replied[p].body ELSE None
            /\ \A m \in sent[p] : m.op = "DECIDE" => OutOfTurn(p, m)
        /\ replied[p].kind \in {"READIED", "READY_REFUSED"} =>
            /\ readying[p] = replied[p].body
            /\ \A m \in sent[p] : m.op = "READY" => ShutOut(p, m)
        /\ replied[p].kind = "READY_REFUSED" => ~InJournal(p, replied[p].body.cmd)

(* Decisions are numbered behind those that were proved absent.            *)
DecisionsNumbered(p) ==
    /\ IsFiniteSet(absent[p])
    /\ \A n \in absent[p] : n <= Cardinality(absent[p])
    /\ pending[p] # None => pending[p].cmd = Cardinality(absent[p]) + 1

(* So are READY commands, behind all that were pressed.                    *)
ReadiesNumbered(p) ==
    /\ IsFiniteSet(intents[p])
    /\ \A r \in intents[p] : r.cmd <= Cardinality(intents[p])
    /\ \A n \in refused[p] : n <= Cardinality(intents[p])
    /\ readying[p] # None => readying[p] \in intents[p] /\ readying[p].cmd \notin refused[p]
    /\ \A i \in 1..Len(journal[p]) : journal[p][i] \in intents[p]

(* The stages of a request on both sides.                                  *)
StagesAgree(p) ==
    /\ publication[p] # None => publication[p] = gm[p]
    /\ decided[p] # None => gm[p] = "ACCEPT"
    /\ pending[p] # None => publication[p] = "ACCEPT" /\ receipt[p] = None
    /\ receipt[p] # None => publication[p] = "ACCEPT"
    /\ intents[p] # {} => receipt[p] # None
    /\ returned[p] => Returnable(p)

(* NoOrphanedDecision and AbsenceIsFinal, of one player.                   *)
NotOrphaned(p) ==
    /\ decided[p] # None => receipt[p] = decided[p] \/ pending[p] = decided[p]
    /\ receipt[p] # None => receipt[p] = decided[p]

AbsentForGood(p) ==
    /\ decided[p] # None => decided[p].cmd \notin absent[p]
    /\ \A n \in refused[p] : ~InJournal(p, n)

PlayerInv(p) ==
    /\ WireInOrder(p)
    /\ DecidesFenced(p)
    /\ ReadiesFenced(p)
    /\ AnswerHolds(p)
    /\ DecisionsNumbered(p)
    /\ ReadiesNumbered(p)
    /\ StagesAgree(p)
    /\ NotOrphaned(p)
    /\ AbsentForGood(p)

FinalInv ==
    /\ FinalTypeOK
    /\ \A p \in Players : PlayerInv(p)
    /\ StartedByConsent

-----------------------------------------------------------------------------
(* What a step leaves as it was with a player.                             *)
SameDecision(q) ==
    /\ gm'[q] = gm[q] /\ decided'[q] = decided[q]
    /\ publication'[q] = publication[q] /\ pending'[q] = pending[q]
    /\ absent'[q] = absent[q] /\ receipt'[q] = receipt[q] /\ returned'[q] = returned[q]

SameReady(q) ==
    /\ journal'[q] = journal[q] /\ readying'[q] = readying[q]
    /\ intents'[q] = intents[q] /\ refused'[q] = refused[q]

SameFence(q) == holder'[q] = holder[q] /\ barrier'[q] = barrier[q]

SameWire(q) ==
    /\ sent'[q] = sent[q] /\ replied'[q] = replied[q]
    /\ up'[q] = up[q] /\ chan'[q] = chan[q] /\ lastChan'[q] = lastChan[q]

Same(q) == SameDecision(q) /\ SameReady(q) /\ SameFence(q) /\ SameWire(q)

(* A player none of whose state changed is as it was.                      *)
LEMMA PlayerKept ==
    ASSUME NEW q \in Players, PlayerInv(q), Same(q)
    PROVE  PlayerInv(q)'
<1> USE DEF Same, SameDecision, SameReady, SameFence, SameWire
<1>1. WireInOrder(q)'
    BY DEF PlayerInv, WireInOrder
<1>2. DecidesFenced(q)' /\ ReadiesFenced(q)'
    BY DEF PlayerInv, DecidesFenced, ReadiesFenced, OutOfTurn, ShutOut
<1>3. AnswerHolds(q)'
    BY DEF PlayerInv, AnswerHolds, OutOfTurn, ShutOut, InJournal
<1>4. DecisionsNumbered(q)' /\ ReadiesNumbered(q)'
    BY DEF PlayerInv, DecisionsNumbered, ReadiesNumbered
<1>5. StagesAgree(q)' /\ NotOrphaned(q)' /\ AbsentForGood(q)'
    BY DEF PlayerInv, StagesAgree, Returnable, NotOrphaned, AbsentForGood, InJournal
<1> QED BY <1>1, <1>2, <1>3, <1>4, <1>5 DEF PlayerInv

(* A step of one player.                                                   *)
LEMMA OneMoves ==
    ASSUME FinalInv, NEW p \in Players, PlayerInv(p)',
           \A q \in Players \ {p} : Same(q)
    PROVE  \A q \in Players : PlayerInv(q)'
<1> SUFFICES ASSUME NEW q \in Players PROVE PlayerInv(q)'
    OBVIOUS
<1>1. CASE q = p
    BY <1>1
<1>2. CASE q # p
    BY <1>2, PlayerKept DEF FinalInv
<1> QED BY <1>1, <1>2

(* The consent stands while the lobby and the proofs do.                   *)
LEMMA ConsentKept ==
    ASSUME StartedByConsent, UNCHANGED <<scene, decided, timeRevision, journal>>,
           \A p \in Players : intents[p] \subseteq intents'[p], FinalAssumption
    PROVE  StartedByConsent'
<1> SUFFICES ASSUME scene # None, scene' = scene
             PROVE  StartedByConsent'
    BY DEF StartedByConsent
<1>1. Snapshot' = Snapshot
    BY DEF Snapshot, Included, Placed, Accepted
<1>2. scene' = Snapshot'
    BY <1>1 DEF StartedByConsent
<1>3. ASSUME NEW c \in scene.copies
      PROVE  \E r \in intents'[OwnerOf[c]] :
                /\ r.ready /\ r.snap = scene
                /\ journal[OwnerOf[c]] # << >>
                /\ journal[OwnerOf[c]][Len(journal[OwnerOf[c]])] = r
    <2>1. c \in Copies
        BY <1>3 DEF StartedByConsent, Snapshot, Included, Placed
    <2>2. OwnerOf[c] \in Players
        BY <2>1 DEF FinalAssumption
    <2> QED BY <2>2 DEF StartedByConsent
<1> QED BY <1>2, <1>3 DEF StartedByConsent

(* What the type invariant says of one player.                             *)
LEMMA PlayerTypes ==
    ASSUME FinalTypeOK, NEW p \in Players
    PROVE  /\ gm[p] \in {"ACCEPT", "REJECT", None}
           /\ publication[p] \in {"ACCEPT", "REJECT", None}
           /\ decided[p] \in Decisions \cup {None}
           /\ pending[p] \in Decisions \cup {None}
           /\ receipt[p] \in Decisions \cup {None}
           /\ absent[p] \subseteq Nat /\ refused[p] \subseteq Nat
           /\ journal[p] \in Seq(Readies)
           /\ readying[p] \in Readies \cup {None}
           /\ intents[p] \subseteq Readies
           /\ observed[p] \in Observations \cup {None}
           /\ sent[p] \subseteq Requests
           /\ replied[p] \in Replies \cup {None}
           /\ lastChan[p] \in Nat
           /\ up[p] \subseteq 1..lastChan[p] /\ 0 \notin up[p]
           /\ holder[p] \in 0..lastChan[p] /\ barrier[p] \in 0..lastChan[p]
           /\ chan[p] \in up[p] \cup {0}
<1>1. /\ up[p] \subseteq 1..lastChan[p] /\ lastChan[p] \in Nat
      /\ holder[p] \in 0..lastChan[p] /\ barrier[p] \in 0..lastChan[p]
      /\ chan[p] \in up[p] \cup {0}
    BY DEF FinalTypeOK
<1>2. 0 \notin up[p]
    BY <1>1
<1>3. /\ gm[p] \in {"ACCEPT", "REJECT", None}
      /\ publication[p] \in {"ACCEPT", "REJECT", None}
      /\ decided[p] \in Decisions \cup {None} /\ pending[p] \in Decisions \cup {None}
      /\ receipt[p] \in Decisions \cup {None}
    BY DEF FinalTypeOK
<1>4. /\ absent[p] \subseteq Nat /\ refused[p] \subseteq Nat
      /\ journal[p] \in Seq(Readies) /\ readying[p] \in Readies \cup {None}
      /\ intents[p] \subseteq Readies /\ observed[p] \in Observations \cup {None}
    BY DEF FinalTypeOK
<1>5. sent[p] \subseteq Requests /\ replied[p] \in Replies \cup {None}
    BY DEF FinalTypeOK
<1> QED BY <1>1, <1>2, <1>3, <1>4, <1>5

(* A request carries a decision, or a READY.                               *)
LEMMA RequestTypes ==
    ASSUME NEW m \in Requests
    PROVE  /\ m.op \in {"DECIDE", "RECOVER", "READY"} /\ m.ch \in Nat
           /\ m.op # "READY" => m.body \in Decisions
           /\ m.op = "READY" => m.body \in Readies
    BY DEF Requests

LEMMA ReplyTypes ==
    ASSUME NEW r \in Replies
    PROVE  /\ r.kind \in {"DECIDED", "ABSENT", "READIED", "READY_REFUSED", "REFUSED"}
           /\ r.kind \in {"DECIDED", "ABSENT"} => r.body \in Decisions
           /\ r.kind \in {"READIED", "READY_REFUSED"} => r.body \in Readies
    BY DEF Replies

LEMMA SnapshotType == FinalTypeOK => Snapshot \in Snapshots
    BY DEF FinalTypeOK, Snapshot, Snapshots, Included, Placed

-----------------------------------------------------------------------------
(* The GM.                                                                 *)
LEMMA GmDecidesKeeps ==
    ASSUME FinalInv, NEW p \in Players, NEW kind \in {"ACCEPT", "REJECT"}, GmDecides(p, kind)
    PROVE  FinalInv'
<1> USE DEF GmDecides, hostVars, fenceVars, wireVars, playerVars, decisionVars, readyVars,
            chanVars
<1>1. FinalTypeOK'
    BY DEF FinalInv, FinalTypeOK
<1>2. \A q \in Players \ {p} : Same(q)
    BY DEF FinalInv, FinalTypeOK, Same, SameDecision, SameReady, SameFence, SameWire
<1>3. PlayerInv(p)'
    <2>1. gm[p] = None /\ publication[p] = None /\ decided[p] = None
        BY NoneAssumption DEF FinalInv, PlayerInv, StagesAgree
    <2>2. WireInOrder(p)' /\ DecidesFenced(p)' /\ ReadiesFenced(p)'
        BY DEF FinalInv, PlayerInv, WireInOrder, DecidesFenced, ReadiesFenced, OutOfTurn, ShutOut
    <2>3. AnswerHolds(p)' /\ DecisionsNumbered(p)' /\ ReadiesNumbered(p)'
        BY DEF FinalInv, PlayerInv, AnswerHolds, OutOfTurn, ShutOut, InJournal,
               DecisionsNumbered, ReadiesNumbered
    <2>4. StagesAgree(p)' /\ NotOrphaned(p)' /\ AbsentForGood(p)'
        BY <2>1 DEF FinalInv, PlayerInv, StagesAgree, Returnable, NotOrphaned, AbsentForGood,
                    InJournal
    <2> QED BY <2>2, <2>3, <2>4 DEF PlayerInv
<1>4. StartedByConsent'
    BY FinalAssumption, ConsentKept DEF FinalInv
<1> QED BY <1>1, <1>2, <1>3, <1>4, OneMoves DEF FinalInv

(* Neither the time nor the capacity is a player's, and the start asks for *)
(* the proofs of all whose characters are included.                        *)
LEMMA LobbyKeeps ==
    ASSUME FinalInv,
           \/ GmSetsTime
           \/ \E n \in Capacities : GmSetsCapacity(n)
           \/ GmStarts
    PROVE  FinalInv'
<1> USE DEF GmSetsTime, GmSetsCapacity, GmStarts, hostVars, fenceVars, wireVars, playerVars,
            decisionVars, readyVars, chanVars
<1>1. FinalTypeOK'
    BY SnapshotType DEF FinalInv, FinalTypeOK
<1>2. \A q \in Players : PlayerInv(q)'
    <2>1. \A q \in Players : Same(q)
        BY DEF Same, SameDecision, SameReady, SameFence, SameWire
    <2> QED BY <2>1, PlayerKept DEF FinalInv
<1>3. StartedByConsent'
    <2>1. CASE GmSetsTime
        BY <2>1 DEF StartedByConsent
    <2>2. CASE \E n \in Capacities : GmSetsCapacity(n)
        BY <2>2, FinalAssumption, ConsentKept DEF FinalInv
    <2>3. CASE GmStarts
        <3>1. scene' = Snapshot /\ Snapshot' = Snapshot /\ UNCHANGED <<journal, intents>>
            BY <2>3 DEF Snapshot, Included, Placed, Accepted
        <3>2. ASSUME NEW c \in Included
              PROVE  LET p == OwnerOf[c] IN
                     \E r \in intents[p] :
                        /\ r.ready /\ r.snap = Snapshot
                        /\ journal[p] # << >> /\ journal[p][Len(journal[p])] = r
            <4> DEFINE p == OwnerOf[c]
            <4>1. p \in Players
                BY FinalAssumption DEF Included, Placed
            <4>2. IsReady(p)
                BY <2>3 DEF Preflight
            <4>3. journal[p] \in Seq(Readies)
                BY <4>1, PlayerTypes DEF FinalInv
            <4>4. Len(journal[p]) \in 1..Len(journal[p])
                BY <4>2, <4>3 DEF IsReady
            <4>5. journal[p][Len(journal[p])] \in intents[p]
                BY <4>1, <4>4 DEF FinalInv, PlayerInv, ReadiesNumbered
            <4> QED BY <4>2, <4>5 DEF IsReady
        <3> QED BY <3>1, <3>2 DEF StartedByConsent, Snapshot
    <2> QED BY <2>1, <2>2, <2>3
<1> QED BY <1>1, <1>2, <1>3 DEF FinalInv

-----------------------------------------------------------------------------
(* The player's channels.                                                  *)
LEMMA LoseKeeps ==
    ASSUME FinalInv, NEW p \in Players, Lose(p)
    PROVE  FinalInv'
<1> USE DEF Lose, hostVars, fenceVars, decisionVars, readyVars
<1>1. FinalTypeOK'
    BY DEF FinalInv, FinalTypeOK
<1>2. \A q \in Players \ {p} : Same(q)
    BY DEF FinalInv, FinalTypeOK, Same, SameDecision, SameReady, SameFence, SameWire
<1>3. PlayerInv(p)'
    <2>0. chan'[p] = 0 /\ replied'[p] = None
        BY DEF FinalInv, FinalTypeOK
    <2>1. WireInOrder(p)'
        BY <2>0, PlayerTypes DEF FinalInv, PlayerInv, WireInOrder
    <2>2. DecidesFenced(p)' /\ ReadiesFenced(p)' /\ AnswerHolds(p)'
        BY <2>0 DEF FinalInv, PlayerInv, DecidesFenced, ReadiesFenced, OutOfTurn, ShutOut,
                    AnswerHolds
    <2>3. DecisionsNumbered(p)' /\ ReadiesNumbered(p)'
        BY DEF FinalInv, PlayerInv, DecisionsNumbered, ReadiesNumbered
    <2>4. StagesAgree(p)' /\ NotOrphaned(p)' /\ AbsentForGood(p)'
        BY DEF FinalInv, PlayerInv, StagesAgree, Returnable, NotOrphaned, AbsentForGood,
               InJournal
    <2> QED BY <2>1, <2>2, <2>3, <2>4 DEF PlayerInv
<1>4. StartedByConsent'
    BY FinalAssumption, ConsentKept DEF FinalInv
<1> QED BY <1>1, <1>2, <1>3, <1>4, OneMoves DEF FinalInv

LEMMA ConnectKeeps ==
    ASSUME FinalInv, NEW p \in Players, Connect(p)
    PROVE  FinalInv'
<1> DEFINE c == lastChan[p] + 1
<1> USE DEF hostVars, wireVars, decisionVars, readyVars
<1>1. /\ chan[p] = 0
      /\ lastChan' = [lastChan EXCEPT ![p] = c] /\ chan' = [chan EXCEPT ![p] = c]
      /\ up' = [up EXCEPT ![p] = @ \cup {c}]
      /\ UNCHANGED <<hostVars, wireVars, decisionVars, readyVars>>
      /\ \/ UNCHANGED <<holder, barrier>>
         \/ holder' = [holder EXCEPT ![p] = c] /\ barrier' = [barrier EXCEPT ![p] = c]
    BY DEF Connect
<1>2. FinalTypeOK'
    BY <1>1 DEF FinalInv, FinalTypeOK
<1>3. \A q \in Players \ {p} : Same(q)
    BY <1>1 DEF FinalInv, FinalTypeOK, Same, SameDecision, SameReady, SameFence, SameWire
<1>4. PlayerInv(p)'
    <2>1. /\ chan'[p] = c /\ lastChan'[p] = c /\ up'[p] = up[p] \cup {c}
          /\ SameDecision(p) /\ SameReady(p)
          /\ sent'[p] = sent[p] /\ replied'[p] = replied[p]
          /\ SameFence(p) \/ (holder'[p] = c /\ barrier'[p] = c)
        BY <1>1 DEF FinalInv, FinalTypeOK, SameDecision, SameReady, SameFence
    <2>2. /\ c \in Nat \ {0} /\ replied[p] = None
          /\ \A m \in sent[p] : m.ch \in up[p] /\ m.ch # c /\ m.ch < c /\ m.ch \in Nat /\ m.ch # 0
        BY <1>1, PlayerTypes DEF FinalInv, PlayerInv, WireInOrder
    <2> HIDE DEF c
    <2>3. WireInOrder(p)' /\ AnswerHolds(p)'
        BY <2>1, <2>2 DEF FinalInv, PlayerInv, WireInOrder, AnswerHolds
    <2>4. DecidesFenced(p)'
        BY <2>1, <2>2 DEF FinalInv, PlayerInv, DecidesFenced, OutOfTurn, SameDecision, SameFence
    <2>5. ReadiesFenced(p)'
        BY <2>1, <2>2 DEF FinalInv, PlayerInv, ReadiesFenced, ShutOut, SameReady, SameFence
    <2>6. DecisionsNumbered(p)' /\ ReadiesNumbered(p)'
        BY <2>1 DEF FinalInv, PlayerInv, DecisionsNumbered, ReadiesNumbered, SameDecision,
                    SameReady
    <2>7. StagesAgree(p)' /\ NotOrphaned(p)' /\ AbsentForGood(p)'
        BY <2>1 DEF FinalInv, PlayerInv, StagesAgree, Returnable, NotOrphaned, AbsentForGood,
                    InJournal, SameDecision, SameReady
    <2> QED BY <2>3, <2>4, <2>5, <2>6, <2>7 DEF PlayerInv
<1>5. StartedByConsent'
    BY <1>1, FinalAssumption, ConsentKept DEF FinalInv
<1> QED BY <1>2, <1>3, <1>4, <1>5, OneMoves DEF FinalInv

-----------------------------------------------------------------------------
(* The player's requests.                                                  *)
LEMMA ReturnKeeps ==
    ASSUME FinalInv, NEW p \in Players, Return(p)
    PROVE  FinalInv'
<1> USE DEF Return, hostVars, fenceVars, wireVars, readyVars, chanVars
<1>1. FinalTypeOK'
    BY DEF FinalInv, FinalTypeOK
<1>2. \A q \in Players \ {p} : Same(q)
    BY DEF FinalInv, FinalTypeOK, Same, SameDecision, SameReady, SameFence, SameWire
<1>3. PlayerInv(p)'
    <2>1. WireInOrder(p)' /\ DecidesFenced(p)' /\ ReadiesFenced(p)' /\ AnswerHolds(p)'
        BY DEF FinalInv, PlayerInv, WireInOrder, DecidesFenced, ReadiesFenced, OutOfTurn,
               ShutOut, AnswerHolds, InJournal
    <2>2. DecisionsNumbered(p)' /\ ReadiesNumbered(p)'
        BY DEF FinalInv, PlayerInv, DecisionsNumbered, ReadiesNumbered
    <2>3. StagesAgree(p)' /\ NotOrphaned(p)' /\ AbsentForGood(p)'
        BY DEF FinalInv, FinalTypeOK, PlayerInv, StagesAgree, Returnable, NotOrphaned,
               AbsentForGood, InJournal
    <2> QED BY <2>1, <2>2, <2>3 DEF PlayerInv
<1>4. StartedByConsent'
    BY FinalAssumption, ConsentKept DEF FinalInv
<1> QED BY <1>1, <1>2, <1>3, <1>4, OneMoves DEF FinalInv

(* A new READY has a number of its own; what is on its way is shut out.    *)
LEMMA PressReadyKeeps ==
    ASSUME FinalInv, NEW p \in Players, PressReady(p)
    PROVE  FinalInv'
<1> DEFINE r == [cmd |-> Cardinality(intents[p]) + 1, ready |-> ~observed[p].ready,
                 snap |-> observed[p].snap]
<1>1. /\ receipt[p] # None /\ observed[p] # None /\ readying[p] = None
      /\ readying' = [readying EXCEPT ![p] = r]
      /\ intents' = [intents EXCEPT ![p] = @ \cup {r}]
      /\ UNCHANGED <<hostVars, fenceVars, wireVars, decisionVars, observed, refused, chanVars>>
    BY DEF PressReady
<1> USE DEF hostVars, fenceVars, wireVars, decisionVars, chanVars
<1>2. IsFiniteSet(intents[p]) /\ Cardinality(intents[p]) \in Nat
    BY FS_CardinalityType DEF FinalInv, PlayerInv, ReadiesNumbered
<1>3. r \in Readies /\ r.cmd = Cardinality(intents[p]) + 1
    <2>1. observed[p] \in Observations
        BY <1>1, PlayerTypes DEF FinalInv
    <2> QED BY <1>2, <2>1 DEF Readies, Observations
<1> HIDE DEF r
<1>4. FinalTypeOK'
    BY <1>1, <1>3 DEF FinalInv, FinalTypeOK
<1>5. \A q \in Players \ {p} : Same(q)
    BY <1>1 DEF FinalInv, FinalTypeOK, Same, SameDecision, SameReady, SameFence, SameWire
<1>6. /\ readying'[p] = r /\ intents'[p] = intents[p] \cup {r}
      /\ journal'[p] = journal[p] /\ refused'[p] = refused[p]
      /\ SameDecision(p) /\ SameFence(p) /\ SameWire(p)
    BY <1>1 DEF FinalInv, FinalTypeOK, SameDecision, SameFence, SameWire
<1>7. PlayerInv(p)'
    <2> USE DEF SameDecision, SameFence, SameWire
    <2>1. WireInOrder(p)'
        <3>1. \A m \in sent[p] : m.op = "READY" => m.body \in Readies
            BY PlayerTypes, RequestTypes DEF FinalInv
        <3> QED BY <1>1, <1>6, <3>1, NoneAssumption DEF FinalInv, PlayerInv, WireInOrder
    <2>2. DecidesFenced(p)' /\ ReadiesFenced(p)'
        <3>1. \A m \in sent[p] : m.op = "READY" => ShutOut(p, m)
            <4>1. \A m \in sent[p] : m.op = "READY" => m.body # None
                BY PlayerTypes, RequestTypes, NoneAssumption DEF FinalInv
            <4> QED BY <1>1, <4>1 DEF FinalInv, PlayerInv, ReadiesFenced
        <3>2. DecidesFenced(p)'
            BY <1>6 DEF FinalInv, PlayerInv, DecidesFenced, OutOfTurn
        <3> QED BY <1>6, <3>1, <3>2 DEF FinalInv, PlayerInv, ReadiesFenced, ShutOut
    <2>3. AnswerHolds(p)'
        <3>1. replied[p] # None => replied[p].kind \notin {"READIED", "READY_REFUSED"}
            <4>1. replied[p] # None => replied[p] \in Replies
                BY PlayerTypes DEF FinalInv
            <4> QED BY <1>1, <4>1, ReplyTypes, NoneAssumption DEF FinalInv, PlayerInv, AnswerHolds
        <3> QED BY <1>6, <3>1 DEF FinalInv, PlayerInv, AnswerHolds, OutOfTurn
    <2>4. ReadiesNumbered(p)'
        <3>1. r \notin intents[p] /\ r.cmd \notin refused[p]
            BY <1>2, <1>3 DEF FinalInv, PlayerInv, ReadiesNumbered
        <3>2. /\ IsFiniteSet(intents'[p])
              /\ Cardinality(intents'[p]) = Cardinality(intents[p]) + 1
            <4>1. /\ IsFiniteSet(intents[p] \cup {r})
                  /\ Cardinality(intents[p] \cup {r}) = Cardinality(intents[p]) + 1
                BY <1>2, <3>1, FS_AddElement
            <4> QED BY <1>6, <4>1
        <3>3. \A x \in intents'[p] : x.cmd <= Cardinality(intents'[p])
            <4>1. \A x \in intents[p] : x.cmd \in Nat /\ x.cmd <= Cardinality(intents[p])
                BY PlayerTypes DEF FinalInv, PlayerInv, ReadiesNumbered, Readies
            <4> QED BY <1>2, <1>3, <1>6, <3>2, <4>1
        <3>4. \A n \in refused'[p] : n <= Cardinality(intents'[p])
            BY <1>2, <1>6, <3>2, PlayerTypes DEF FinalInv, PlayerInv, ReadiesNumbered
        <3> QED BY <1>6, <3>1, <3>2, <3>3, <3>4 DEF FinalInv, PlayerInv, ReadiesNumbered
    <2>5. DecisionsNumbered(p)' /\ StagesAgree(p)'
        BY <1>1, <1>6 DEF FinalInv, PlayerInv, DecisionsNumbered, StagesAgree, Returnable
    <2>6. NotOrphaned(p)' /\ AbsentForGood(p)'
        BY <1>6 DEF FinalInv, PlayerInv, NotOrphaned, AbsentForGood, InJournal
    <2> QED BY <2>1, <2>2, <2>3, <2>4, <2>5, <2>6 DEF PlayerInv
<1>8. StartedByConsent'
    <2>1. \A q \in Players : intents[q] \subseteq intents'[q]
        BY <1>1 DEF FinalInv, FinalTypeOK
    <2> QED BY <1>1, <2>1, FinalAssumption, ConsentKept DEF FinalInv
<1> QED BY <1>4, <1>5, <1>7, <1>8, OneMoves DEF FinalInv

(* A pending decision, or READY, is sent on a channel without a request.   *)
LEMMA SendKeeps ==
    ASSUME FinalInv, NEW p \in Players, Recover(p) \/ SendReady(p)
    PROVE  FinalInv'
<1>1. PICK m \in Requests :
        /\ Idle(p) /\ m.ch = chan[p]
        /\ \/ m.op = "RECOVER" /\ m.body = pending[p]
           \/ m.op = "READY" /\ m.body = readying[p] /\ readying[p] # None
        /\ sent' = [sent EXCEPT ![p] = @ \cup {m}]
        /\ UNCHANGED <<replied, hostVars, fenceVars, playerVars>>
    <2>1. CASE Recover(p)
        <3> DEFINE m == [op |-> "RECOVER", ch |-> chan[p], body |-> pending[p]]
        <3>1. m \in Requests
            <4>1. chan[p] \in Nat /\ pending[p] \in Decisions
                BY <2>1, PlayerTypes DEF FinalInv, Recover
            <4> QED BY <4>1 DEF Requests
        <3> QED BY <2>1, <3>1 DEF Recover, Send
    <2>2. CASE SendReady(p)
        <3> DEFINE m == [op |-> "READY", ch |-> chan[p], body |-> readying[p]]
        <3>1. m \in Requests
            <4>1. chan[p] \in Nat /\ readying[p] \in Readies
                BY <2>2, PlayerTypes DEF FinalInv, SendReady
            <4> QED BY <4>1 DEF Requests
        <3> QED BY <2>2, <3>1 DEF SendReady, Send
    <2> QED BY <2>1, <2>2
<1> USE DEF hostVars, fenceVars, playerVars, decisionVars, readyVars, chanVars
<1>2. FinalTypeOK'
    BY <1>1 DEF FinalInv, FinalTypeOK
<1>3. \A q \in Players \ {p} : Same(q)
    BY <1>1 DEF FinalInv, FinalTypeOK, Same, SameDecision, SameReady, SameFence, SameWire
<1>4. PlayerInv(p)'
    <2>1. /\ sent'[p] = sent[p] \cup {m} /\ replied'[p] = None /\ replied[p] = None
          /\ up'[p] = up[p] /\ chan'[p] = chan[p] /\ lastChan'[p] = lastChan[p]
          /\ SameDecision(p) /\ SameReady(p) /\ SameFence(p)
          /\ chan[p] # 0 /\ \A n \in sent[p] : n.ch # chan[p]
        BY <1>1 DEF FinalInv, FinalTypeOK, Idle, SameDecision, SameReady, SameFence
    <2> USE DEF SameDecision, SameReady, SameFence
    <2>2. chan[p] \in up[p] /\ chan[p] = lastChan[p] /\ holder[p] <= chan[p]
        BY <2>1, PlayerTypes DEF FinalInv, PlayerInv, WireInOrder
    <2>3. WireInOrder(p)'
        BY <1>1, <2>1, <2>2 DEF FinalInv, PlayerInv, WireInOrder
    <2>4. DecidesFenced(p)'
        BY <1>1, <2>1 DEF FinalInv, PlayerInv, DecidesFenced, OutOfTurn
    <2>5. ReadiesFenced(p)'
        <3>1. m.op = "READY" => m.body \in intents[p] /\ m.body = readying[p] /\ ~(holder[p] > m.ch)
            BY <1>1, <2>2, PlayerTypes DEF FinalInv, PlayerInv, ReadiesNumbered
        <3> QED BY <2>1, <3>1 DEF FinalInv, PlayerInv, ReadiesFenced, ShutOut
    <2>6. AnswerHolds(p)' /\ DecisionsNumbered(p)' /\ ReadiesNumbered(p)'
        BY <2>1 DEF FinalInv, PlayerInv, AnswerHolds, DecisionsNumbered, ReadiesNumbered
    <2>7. StagesAgree(p)' /\ NotOrphaned(p)' /\ AbsentForGood(p)'
        BY <2>1 DEF FinalInv, PlayerInv, StagesAgree, Returnable, NotOrphaned, AbsentForGood,
                    InJournal
    <2> QED BY <2>3, <2>4, <2>5, <2>6, <2>7 DEF PlayerInv
<1>5. StartedByConsent'
    BY <1>1, FinalAssumption, ConsentKept DEF FinalInv
<1> QED BY <1>2, <1>3, <1>4, <1>5, OneMoves DEF FinalInv

(* A request that binds the scope, on a channel without another.           *)
LEMMA Binds ==
    ASSUME FinalInv, NEW p \in Players, Idle(p), Bind(p, chan[p])
    PROVE  /\ chan[p] \in up[p] /\ chan[p] = lastChan[p] /\ chan[p] # 0 /\ replied[p] = None
           /\ holder' = [holder EXCEPT ![p] = chan[p]] /\ holder'[p] = chan[p]
           /\ UNCHANGED <<up, barrier>>
           /\ \A m \in sent[p] : m.ch # chan[p] /\ m.ch \in Nat /\ m.ch < chan[p]
<1>1. chan[p] # 0 /\ replied[p] = None /\ \A m \in sent[p] : m.ch # chan[p]
    BY DEF Idle
<1>2. holder' = [holder EXCEPT ![p] = chan[p]] /\ UNCHANGED <<up, barrier>>
    BY DEF Bind
<1>3. chan[p] \in up[p] /\ chan[p] = lastChan[p]
    BY <1>1, PlayerTypes DEF FinalInv, PlayerInv, WireInOrder
<1>4. ASSUME NEW m \in sent[p]
      PROVE  m.ch \in Nat /\ m.ch < chan[p]
    <2>1. m.ch \in up[p] /\ m.ch # chan[p]
        BY <1>1 DEF FinalInv, PlayerInv, WireInOrder
    <2> QED BY <1>3, <2>1, PlayerTypes DEF FinalInv
<1>5. holder'[p] = chan[p]
    BY <1>2 DEF FinalInv, FinalTypeOK
<1> QED BY <1>1, <1>2, <1>3, <1>4, <1>5

LEMMA ReceivePublicationKeeps ==
    ASSUME FinalInv, NEW p \in Players, ReceivePublication(p)
    PROVE  FinalInv'
<1>1. /\ Idle(p) /\ Bind(p, chan[p]) /\ publication[p] = None /\ gm[p] # None
      /\ publication' = [publication EXCEPT ![p] = gm[p]]
      /\ UNCHANGED <<hostVars, wireVars, pending, absent, receipt, returned, readyVars, chanVars>>
    BY DEF ReceivePublication
<1>2. /\ chan[p] \in up[p] /\ chan[p] # 0 /\ replied[p] = None
      /\ holder' = [holder EXCEPT ![p] = chan[p]] /\ holder'[p] = chan[p]
      /\ UNCHANGED <<up, barrier>>
      /\ \A m \in sent[p] : m.ch # chan[p]
    BY <1>1, Binds
<1> USE DEF hostVars, wireVars, readyVars, chanVars
<1>3. FinalTypeOK'
    BY <1>1, <1>2 DEF FinalInv, FinalTypeOK
<1>4. \A q \in Players \ {p} : Same(q)
    BY <1>1, <1>2 DEF FinalInv, FinalTypeOK, Same, SameDecision, SameReady, SameFence, SameWire
<1>5. PlayerInv(p)'
    <2>1. /\ publication'[p] = gm[p] /\ pending[p] = None /\ receipt[p] = None /\ ~returned[p]
          /\ intents[p] = {} /\ \A m \in sent[p] : m.op # "READY"
        BY <1>1, NoneAssumption DEF FinalInv, FinalTypeOK, PlayerInv, StagesAgree, Returnable,
                                    ReadiesFenced
    <2>2. WireInOrder(p)' /\ AnswerHolds(p)'
        BY <1>1, <1>2 DEF FinalInv, PlayerInv, WireInOrder, AnswerHolds
    <2>3. DecidesFenced(p)' /\ ReadiesFenced(p)'
        BY <1>1, <1>2, <2>1 DEF DecidesFenced, ReadiesFenced, OutOfTurn
    <2>4. DecisionsNumbered(p)' /\ ReadiesNumbered(p)'
        BY <1>1 DEF FinalInv, PlayerInv, DecisionsNumbered, ReadiesNumbered
    <2>5. StagesAgree(p)' /\ NotOrphaned(p)' /\ AbsentForGood(p)'
        BY <1>1, <2>1 DEF FinalInv, PlayerInv, StagesAgree, NotOrphaned, AbsentForGood, InJournal
    <2> QED BY <2>2, <2>3, <2>4, <2>5 DEF PlayerInv
<1>6. StartedByConsent'
    BY <1>1, FinalAssumption, ConsentKept DEF FinalInv
<1> QED BY <1>3, <1>4, <1>5, <1>6, OneMoves DEF FinalInv

LEMMA ObserveLobbyKeeps ==
    ASSUME FinalInv, NEW p \in Players, ObserveLobby(p)
    PROVE  FinalInv'
<1> DEFINE o == [snap |-> Snapshot, ready |-> IsReady(p), started |-> scene # None]
<1>1. /\ Idle(p) /\ Bind(p, chan[p]) /\ readying[p] = None
      /\ observed' = [observed EXCEPT ![p] = o]
      /\ UNCHANGED <<hostVars, wireVars, decisionVars, readying, intents, refused, chanVars>>
    BY DEF ObserveLobby
<1>2. /\ chan[p] \in up[p] /\ chan[p] # 0 /\ replied[p] = None
      /\ holder' = [holder EXCEPT ![p] = chan[p]] /\ holder'[p] = chan[p]
      /\ UNCHANGED <<up, barrier>>
      /\ \A m \in sent[p] : m.ch # chan[p]
    BY <1>1, Binds
<1>3. o \in Observations
    <2>1. IsReady(p) \in BOOLEAN /\ (scene # None) \in BOOLEAN
        <3>1. CASE journal[p] = << >>
            BY <3>1 DEF IsReady
        <3>2. CASE journal[p] # << >>
            <4>1. journal[p][Len(journal[p])] \in Readies
                BY <3>2, PlayerTypes DEF FinalInv
            <4> QED BY <4>1 DEF IsReady, Readies
        <3> QED BY <3>1, <3>2
    <2> QED BY <2>1, SnapshotType DEF FinalInv, Observations
<1> HIDE DEF o
<1> USE DEF hostVars, wireVars, decisionVars, chanVars
<1>4. FinalTypeOK'
    BY <1>1, <1>2, <1>3 DEF FinalInv, FinalTypeOK
<1>5. \A q \in Players \ {p} : Same(q)
    BY <1>1, <1>2 DEF FinalInv, FinalTypeOK, Same, SameDecision, SameReady, SameFence, SameWire
<1>6. PlayerInv(p)'
    <2>1. \A m \in sent[p] : m.op = "READY" => m.body \in intents[p] /\ m.ch <= barrier[p]
        <3>1. \A m \in sent[p] : m.op = "READY" => m.body # None
            BY PlayerTypes, RequestTypes, NoneAssumption DEF FinalInv
        <3> QED BY <1>1, <3>1 DEF FinalInv, PlayerInv, ReadiesFenced, ShutOut
    <2>2. WireInOrder(p)' /\ AnswerHolds(p)'
        BY <1>1, <1>2 DEF FinalInv, PlayerInv, WireInOrder, AnswerHolds
    <2>3. DecidesFenced(p)' /\ ReadiesFenced(p)'
        BY <1>1, <1>2, <2>1 DEF DecidesFenced, ReadiesFenced, OutOfTurn, ShutOut
    <2>4. DecisionsNumbered(p)' /\ ReadiesNumbered(p)'
        BY <1>1 DEF FinalInv, PlayerInv, DecisionsNumbered, ReadiesNumbered
    <2>5. StagesAgree(p)' /\ NotOrphaned(p)' /\ AbsentForGood(p)'
        BY <1>1 DEF FinalInv, PlayerInv, StagesAgree, Returnable, NotOrphaned, AbsentForGood,
                    InJournal
    <2> QED BY <2>2, <2>3, <2>4, <2>5 DEF PlayerInv
<1>7. StartedByConsent'
    BY <1>1, FinalAssumption, ConsentKept DEF FinalInv
<1> QED BY <1>4, <1>5, <1>6, <1>7, OneMoves DEF FinalInv

(* A decision is new, and the scope is of its channel.                     *)
LEMMA DecideKeeps ==
    ASSUME FinalInv, NEW p \in Players, NEW kind \in Kinds, Decide(p, kind)
    PROVE  FinalInv'
<1> DEFINE d == [cmd |-> Cardinality(absent[p]) + 1, kind |-> kind, exp |-> revision]
           n == [op |-> "DECIDE", ch |-> chan[p], body |-> d]
<1>1. /\ Idle(p) /\ Bind(p, chan[p]) /\ Undecided(p)
      /\ pending' = [pending EXCEPT ![p] = d]
      /\ sent' = [sent EXCEPT ![p] = @ \cup {n}] /\ replied' = replied
      /\ UNCHANGED <<hostVars, publication, absent, receipt, returned, readyVars, chanVars>>
    BY DEF Decide, Send
<1>2. /\ chan[p] \in up[p] /\ chan[p] # 0 /\ replied[p] = None /\ chan[p] \in Nat
      /\ holder' = [holder EXCEPT ![p] = chan[p]] /\ holder'[p] = chan[p]
      /\ UNCHANGED <<up, barrier>>
      /\ \A m \in sent[p] : m.ch # chan[p]
    BY <1>1, Binds, PlayerTypes DEF FinalInv
<1>3. IsFiniteSet(absent[p]) /\ Cardinality(absent[p]) \in Nat
    BY FS_CardinalityType DEF FinalInv, PlayerInv, DecisionsNumbered
<1>4. d \in Decisions /\ d.cmd = Cardinality(absent[p]) + 1 /\ d # None
    BY <1>3, NoneAssumption DEF FinalInv, FinalTypeOK, Decisions
<1> HIDE DEF d
<1>5. n \in Requests /\ n.op = "DECIDE" /\ n.ch = chan[p] /\ n.body = d
    BY <1>2, <1>4 DEF Requests
<1> HIDE DEF n
<1> USE DEF hostVars, readyVars, chanVars
<1>6. FinalTypeOK'
    BY <1>1, <1>2, <1>4, <1>5 DEF FinalInv, FinalTypeOK
<1>7. \A q \in Players \ {p} : Same(q)
    BY <1>1, <1>2 DEF FinalInv, FinalTypeOK, Same, SameDecision, SameReady, SameFence, SameWire
<1>8. PlayerInv(p)'
    <2>1. pending'[p] = d /\ sent'[p] = sent[p] \cup {n}
        BY <1>1 DEF FinalInv, FinalTypeOK
    <2>2. /\ publication[p] = "ACCEPT" /\ receipt[p] = None /\ decided[p] = None
          /\ ~returned[p] /\ intents[p] = {} /\ \A m \in sent[p] : m.op # "READY"
        BY <1>1 DEF Undecided, FinalInv, PlayerInv, StagesAgree, Returnable, NotOrphaned,
                    ReadiesFenced
    <2>3. WireInOrder(p)' /\ AnswerHolds(p)'
        BY <1>1, <1>2, <1>5, <2>1 DEF FinalInv, PlayerInv, WireInOrder, AnswerHolds
    <2>4. DecidesFenced(p)' /\ ReadiesFenced(p)'
        BY <1>2, <1>5, <2>1, <2>2 DEF DecidesFenced, ReadiesFenced, OutOfTurn
    <2>5. DecisionsNumbered(p)' /\ ReadiesNumbered(p)'
        BY <1>1, <1>4, <2>1 DEF FinalInv, PlayerInv, DecisionsNumbered, ReadiesNumbered
    <2>6. StagesAgree(p)' /\ NotOrphaned(p)' /\ AbsentForGood(p)'
        BY <1>1, <2>2 DEF FinalInv, PlayerInv, StagesAgree, NotOrphaned, AbsentForGood, InJournal
    <2> QED BY <2>3, <2>4, <2>5, <2>6 DEF PlayerInv
<1>9. StartedByConsent'
    BY <1>1, FinalAssumption, ConsentKept DEF FinalInv
<1> QED BY <1>6, <1>7, <1>8, <1>9, OneMoves DEF FinalInv

-----------------------------------------------------------------------------
(* What the host executes.  An answer takes its request off the wire.      *)
LEMMA Answers ==
    ASSUME FinalInv, NEW p \in Players, NEW m \in sent[p], NEW r \in Replies,
           sent' = [sent EXCEPT ![p] = @ \ {m}],
           replied' = [replied EXCEPT ![p] = IF m.ch = chan[p] THEN r ELSE @],
           UNCHANGED playerVars, up' = up
    PROVE  /\ sent' \in [Players -> SUBSET Requests]
           /\ replied' \in [Players -> Replies \cup {None}]
           /\ \A q \in Players \ {p} : SameWire(q)
           /\ sent'[p] = sent[p] \ {m}
           /\ replied'[p] = IF m.ch = chan[p] THEN r ELSE replied[p]
           /\ m.ch = chan[p] => replied[p] = None
           /\ WireInOrder(p)' /\ DecisionsNumbered(p)'
<1> USE DEF playerVars, decisionVars, readyVars, chanVars
<1>1. /\ sent' \in [Players -> SUBSET Requests]
      /\ replied' \in [Players -> Replies \cup {None}]
    BY DEF FinalInv, FinalTypeOK
<1>2. \A q \in Players \ {p} : SameWire(q)
    BY DEF FinalInv, FinalTypeOK, SameWire
<1>3. /\ sent'[p] = sent[p] \ {m}
      /\ replied'[p] = IF m.ch = chan[p] THEN r ELSE replied[p]
    BY DEF FinalInv, FinalTypeOK
<1>4. m.ch \in up[p] /\ m.ch # 0 /\ (m.ch = chan[p] => replied[p] = None)
    BY PlayerTypes DEF FinalInv, PlayerInv, WireInOrder
<1>5. WireInOrder(p)'
    <2>1. chan'[p] \in {0, lastChan'[p]} /\ (replied'[p] # None => chan'[p] # 0)
        BY <1>3, <1>4 DEF FinalInv, PlayerInv, WireInOrder
    <2>2. ASSUME NEW n \in sent'[p]
          PROVE  /\ n.ch \in up'[p]
                 /\ \A o \in sent'[p] : o.ch = n.ch => o = n
                 /\ n.ch = chan'[p] =>
                     /\ replied'[p] = None
                     /\ n.op # "READY" => n.body = pending'[p]
                     /\ n.op = "READY" => n.body = readying'[p]
        <3>1. n \in sent[p] /\ n # m /\ n.ch # m.ch
            BY <1>3, <2>2 DEF FinalInv, PlayerInv, WireInOrder
        <3> QED BY <1>3, <3>1 DEF FinalInv, PlayerInv, WireInOrder
    <2> QED BY <2>1, <2>2 DEF WireInOrder
<1>6. DecisionsNumbered(p)'
    BY DEF FinalInv, PlayerInv, DecisionsNumbered
<1> QED BY <1>1, <1>2, <1>3, <1>4, <1>5, <1>6

(* A takeover shuts out what is on its way on every older channel.         *)
LEMMA Fences ==
    ASSUME FinalInv, NEW p \in Players, NEW m \in sent[p], TakeOver(p, m.ch)
    PROVE  /\ up' = up /\ DOMAIN holder' = Players /\ DOMAIN barrier' = Players
           /\ \A q \in Players \ {p} : SameFence(q)
           /\ holder'[p] = m.ch /\ m.ch \in up[p]
           /\ barrier'[p] \in 0..lastChan[p]
           /\ holder[p] = m.ch \/ m.ch > barrier[p]
           /\ \A n \in sent[p] \ {m} :
                /\ OutOfTurn(p, n)'
                /\ n.op = "READY" => (holder'[p] > n.ch => n.ch <= barrier'[p])
                /\ ShutOut(p, n) => ShutOut(p, n)'
                /\ n.op = "READY" /\ m.ch = lastChan[p] => ShutOut(p, n)'
<1>1. /\ up' = up /\ DOMAIN holder' = Players /\ DOMAIN barrier' = Players
      /\ \A q \in Players \ {p} : SameFence(q)
    BY DEF TakeOver, FinalInv, FinalTypeOK, SameFence
<1>2. /\ holder'[p] = m.ch
      /\ barrier'[p] = IF holder[p] = m.ch THEN barrier[p] ELSE lastChan[p]
      /\ holder[p] = m.ch \/ m.ch > barrier[p]
    BY DEF TakeOver, MayHold, FinalInv, FinalTypeOK
<1>3. /\ m.ch \in up[p] /\ m.ch # 0 /\ m.ch \in 1..lastChan[p] /\ lastChan[p] \in Nat
      /\ barrier[p] \in 0..lastChan[p]
    BY PlayerTypes DEF FinalInv, PlayerInv, WireInOrder
<1>4. barrier'[p] \in 0..lastChan[p]
    BY <1>2, <1>3
<1>5. ASSUME NEW n \in sent[p] \ {m}
      PROVE  /\ OutOfTurn(p, n)'
             /\ n.op = "READY" => (holder'[p] > n.ch => n.ch <= barrier'[p])
             /\ ShutOut(p, n) => ShutOut(p, n)'
             /\ n.op = "READY" /\ m.ch = lastChan[p] => ShutOut(p, n)'
    <2>1. n.ch # m.ch /\ n.ch \in 1..lastChan[p]
        BY PlayerTypes DEF FinalInv, PlayerInv, WireInOrder
    <2>2. OutOfTurn(p, n)'
        BY <1>2, <1>3, <2>1 DEF OutOfTurn
    <2>3. n.op = "READY" => (holder'[p] > n.ch => n.ch <= barrier'[p])
        BY <1>2, <1>3, <2>1 DEF FinalInv, PlayerInv, ReadiesFenced
    <2>4. ShutOut(p, n) => ShutOut(p, n)'
        BY <1>2, <1>3, <2>1 DEF ShutOut
    <2>5. n.op = "READY" /\ m.ch = lastChan[p] => ShutOut(p, n)'
        BY <1>2, <1>3, <2>1, <2>3 DEF ShutOut
    <2> QED BY <2>2, <2>3, <2>4, <2>5
<1> QED BY <1>1, <1>2, <1>3, <1>4, <1>5

(* A refusal changes nothing but the wire.                                 *)
LEMMA HostRefusesKeeps ==
    ASSUME FinalInv, NEW p \in Players, NEW m \in sent[p], UNCHANGED playerVars,
           HostRefusesDecision(p, m) \/ HostRefusesStale(p, m)
    PROVE  FinalInv'
<1> DEFINE r == [kind |-> "REFUSED", body |-> None]
<1>1. /\ sent' = [sent EXCEPT ![p] = @ \ {m}]
      /\ replied' = [replied EXCEPT ![p] = IF m.ch = chan[p] THEN r ELSE @]
      /\ UNCHANGED <<hostVars, fenceVars>>
    BY DEF HostRefusesDecision, HostRefusesStale, Refuse, Answer
<1>2. r \in Replies /\ r.kind = "REFUSED"
    BY DEF Replies
<1> HIDE DEF r
<1>3. up' = up
    BY <1>1 DEF fenceVars
<1>4. /\ sent' \in [Players -> SUBSET Requests]
      /\ replied' \in [Players -> Replies \cup {None}]
      /\ \A q \in Players \ {p} : SameWire(q)
      /\ sent'[p] = sent[p] \ {m}
      /\ replied'[p] = IF m.ch = chan[p] THEN r ELSE replied[p]
      /\ WireInOrder(p)' /\ DecisionsNumbered(p)'
    BY <1>1, <1>2, <1>3, Answers
<1> USE DEF hostVars, fenceVars, playerVars, decisionVars, readyVars, chanVars
<1>5. FinalTypeOK'
    BY <1>1, <1>4 DEF FinalInv, FinalTypeOK
<1>6. \A q \in Players \ {p} : Same(q)
    BY <1>1, <1>4 DEF Same, SameDecision, SameReady, SameFence
<1>7. PlayerInv(p)'
    <2>1. DecidesFenced(p)' /\ ReadiesFenced(p)'
        BY <1>1, <1>4 DEF FinalInv, PlayerInv, DecidesFenced, ReadiesFenced, OutOfTurn, ShutOut
    <2>2. AnswerHolds(p)'
        BY <1>1, <1>2, <1>4 DEF FinalInv, PlayerInv, AnswerHolds, OutOfTurn, ShutOut, InJournal
    <2>3. ReadiesNumbered(p)' /\ StagesAgree(p)' /\ NotOrphaned(p)' /\ AbsentForGood(p)'
        BY <1>1 DEF FinalInv, PlayerInv, ReadiesNumbered, StagesAgree, Returnable, NotOrphaned,
                    AbsentForGood, InJournal
    <2> QED BY <1>4, <2>1, <2>2, <2>3 DEF PlayerInv
<1>8. StartedByConsent'
    BY <1>1, FinalAssumption, ConsentKept DEF FinalInv
<1> QED BY <1>5, <1>6, <1>7, <1>8, OneMoves DEF FinalInv

(* A decision is committed by the channel that holds the scope, and it is  *)
(* the one its player waits for.                                           *)
LEMMA HostDecidesKeeps ==
    ASSUME FinalInv, NEW p \in Players, NEW m \in sent[p], UNCHANGED playerVars,
           HostDecides(p, m)
    PROVE  FinalInv'
<1> DEFINE r == [kind |-> "DECIDED", body |-> m.body]
<1>1. /\ m.op = "DECIDE" /\ MayBind(p, m.ch) /\ Decidable(p, m.body)
      /\ holder' = [holder EXCEPT ![p] = m.ch] /\ UNCHANGED <<up, barrier>>
      /\ decided' = [decided EXCEPT ![p] = m.body] /\ revision' = revision + 1
      /\ sent' = [sent EXCEPT ![p] = @ \ {m}]
      /\ replied' = [replied EXCEPT ![p] = IF m.ch = chan[p] THEN r ELSE @]
      /\ UNCHANGED <<gm, capacity, timeRevision, journal, scene>>
    BY DEF HostDecides, Bind, Answer
<1>2. m.body \in Decisions /\ m.body # None /\ m.ch \in up[p] /\ m.ch # 0
    BY <1>1, PlayerTypes, RequestTypes, NoneAssumption DEF FinalInv, PlayerInv, WireInOrder
<1>3. r \in Replies /\ r.kind = "DECIDED" /\ r.body = m.body /\ r # None
    BY <1>2, NoneAssumption DEF Replies
<1> HIDE DEF r
<1>4. /\ sent' \in [Players -> SUBSET Requests]
      /\ replied' \in [Players -> Replies \cup {None}]
      /\ \A q \in Players \ {p} : SameWire(q)
      /\ sent'[p] = sent[p] \ {m}
      /\ replied'[p] = IF m.ch = chan[p] THEN r ELSE replied[p]
      /\ WireInOrder(p)' /\ DecisionsNumbered(p)'
    BY <1>1, <1>3, Answers
<1> USE DEF playerVars, decisionVars, readyVars, chanVars
<1>5. FinalTypeOK'
    BY <1>1, <1>2, <1>4, PlayerTypes DEF FinalInv, FinalTypeOK
<1>6. \A q \in Players \ {p} : Same(q)
    BY <1>1, <1>4 DEF FinalInv, FinalTypeOK, Same, SameDecision, SameReady, SameFence
<1>7. PlayerInv(p)'
    <2>1. ~OutOfTurn(p, m) /\ m.body = pending[p] /\ decided[p] = None /\ gm[p] = "ACCEPT"
        BY <1>1 DEF MayBind, Decidable, OutOfTurn, FinalInv, PlayerInv, DecidesFenced
    <2>2. receipt[p] = None /\ intents[p] = {} /\ \A n \in sent[p] : n.op # "READY"
        BY <1>2, <2>1 DEF FinalInv, PlayerInv, StagesAgree, ReadiesFenced
    <2>3. decided'[p] = m.body /\ holder'[p] = m.ch /\ \A n \in sent'[p] : OutOfTurn(p, n)'
        <3>1. decided'[p] = m.body /\ holder'[p] = m.ch
            BY <1>1 DEF FinalInv, FinalTypeOK
        <3>2. \A n \in sent'[p] : n.ch # m.ch
            BY <1>4 DEF FinalInv, PlayerInv, WireInOrder
        <3> QED BY <1>2, <3>1, <3>2 DEF OutOfTurn
    <2>4. DecidesFenced(p)' /\ ReadiesFenced(p)'
        BY <1>4, <2>2, <2>3 DEF DecidesFenced, ReadiesFenced
    <2>5. AnswerHolds(p)'
        <3>1. CASE m.ch = chan[p]
            BY <1>3, <1>4, <2>1, <2>3, <3>1 DEF AnswerHolds
        <3>2. CASE m.ch # chan[p]
            <4>1. replied[p] # None => replied[p].kind \notin {"DECIDED", "ABSENT"}
                BY <1>1, <2>1 DEF FinalInv, PlayerInv, AnswerHolds
            <4> QED BY <1>1, <1>4, <2>2, <3>2, <4>1 DEF FinalInv, PlayerInv, AnswerHolds, InJournal
        <3> QED BY <3>1, <3>2
    <2>6. ReadiesNumbered(p)'
        BY <1>1 DEF FinalInv, PlayerInv, ReadiesNumbered
    <2>7. StagesAgree(p)' /\ NotOrphaned(p)'
        BY <1>1, <2>1, <2>2, <2>3 DEF FinalInv, PlayerInv, StagesAgree, Returnable, NotOrphaned
    <2>8. AbsentForGood(p)'
        <3>1. m.body.cmd \notin absent[p]
            <4>1. Cardinality(absent[p]) \in Nat
                BY FS_CardinalityType DEF FinalInv, PlayerInv, DecisionsNumbered
            <4> QED BY <1>2, <2>1, <4>1 DEF FinalInv, PlayerInv, DecisionsNumbered
        <3> QED BY <1>1, <2>3, <3>1 DEF FinalInv, PlayerInv, AbsentForGood, InJournal
    <2> QED BY <1>4, <2>4, <2>5, <2>6, <2>7, <2>8 DEF PlayerInv
<1>8. StartedByConsent'
    BY <1>1 DEF Decidable, StartedByConsent
<1> QED BY <1>5, <1>6, <1>7, <1>8, OneMoves DEF FinalInv

(* An outcome is told once no older DECIDE can be executed any more.       *)
LEMMA HostRecoversKeeps ==
    ASSUME FinalInv, NEW p \in Players, NEW m \in sent[p], UNCHANGED playerVars,
           HostRecovers(p, m)
    PROVE  FinalInv'
<1>1. PICK r \in Replies :
        /\ sent' = [sent EXCEPT ![p] = @ \ {m}]
        /\ replied' = [replied EXCEPT ![p] = IF m.ch = chan[p] THEN r ELSE @]
        /\ \/ r.kind = "ABSENT" /\ r.body = m.body /\ decided[p] = None
           \/ r.kind = "DECIDED" /\ r.body = m.body /\ decided[p] = m.body
           \/ r.kind = "REFUSED"
    <2>1. m.body \in Decisions /\ m.body # None
        BY PlayerTypes, RequestTypes, NoneAssumption DEF FinalInv, HostRecovers
    <2>2. CASE decided[p] = None
        <3>1. [kind |-> "ABSENT", body |-> m.body] \in Replies
            BY <2>1 DEF Replies
        <3> QED BY <2>1, <2>2, <3>1 DEF HostRecovers, Answer
    <2>3. CASE decided[p] # None /\ decided[p] = m.body
        <3>1. [kind |-> "DECIDED", body |-> m.body] \in Replies
            BY <2>1 DEF Replies
        <3> QED BY <2>3, <3>1 DEF HostRecovers, Answer
    <2>4. CASE decided[p] # None /\ decided[p] # m.body
        <3>1. [kind |-> "REFUSED", body |-> None] \in Replies
            BY DEF Replies
        <3> QED BY <2>4, <3>1 DEF HostRecovers, Answer
    <2> QED BY <2>2, <2>3, <2>4
<1>2. m.op = "RECOVER" /\ TakeOver(p, m.ch) /\ UNCHANGED hostVars
    BY DEF HostRecovers
<1>3. /\ up' = up /\ DOMAIN holder' = Players /\ DOMAIN barrier' = Players
      /\ \A q \in Players \ {p} : SameFence(q)
      /\ holder'[p] = m.ch /\ m.ch \in up[p] /\ barrier'[p] \in 0..lastChan[p]
      /\ \A n \in sent[p] \ {m} :
           /\ OutOfTurn(p, n)'
           /\ n.op = "READY" => (holder'[p] > n.ch => n.ch <= barrier'[p])
           /\ ShutOut(p, n) => ShutOut(p, n)'
    BY <1>2, Fences
<1>4. /\ sent' \in [Players -> SUBSET Requests]
      /\ replied' \in [Players -> Replies \cup {None}]
      /\ \A q \in Players \ {p} : SameWire(q)
      /\ sent'[p] = sent[p] \ {m}
      /\ replied'[p] = IF m.ch = chan[p] THEN r ELSE replied[p]
      /\ WireInOrder(p)' /\ DecisionsNumbered(p)'
    BY <1>1, <1>3, Answers
<1> USE DEF hostVars, playerVars, decisionVars, readyVars, chanVars
<1>5. FinalTypeOK'
    <2>1. \A q \in Players : /\ up'[q] \subseteq 1..lastChan'[q]
                             /\ holder'[q] \in 0..lastChan'[q] /\ barrier'[q] \in 0..lastChan'[q]
                             /\ chan'[q] \in up'[q] \cup {0}
        <3> TAKE q \in Players
        <3>1. CASE q = p
            BY <1>3, <3>1, PlayerTypes DEF FinalInv
        <3>2. CASE q # p
            BY <1>3, <3>2 DEF FinalInv, FinalTypeOK, SameFence
        <3> QED BY <3>1, <3>2
    <2> QED BY <1>2, <1>3, <1>4, <2>1 DEF FinalInv, FinalTypeOK
<1>6. \A q \in Players \ {p} : Same(q)
    BY <1>2, <1>3, <1>4 DEF Same, SameDecision, SameReady
<1>7. PlayerInv(p)'
    <2>1. DecidesFenced(p)'
        BY <1>3, <1>4 DEF DecidesFenced
    <2>2. ReadiesFenced(p)'
        BY <1>3, <1>4 DEF FinalInv, PlayerInv, ReadiesFenced
    <2>3. AnswerHolds(p)'
        <3>1. CASE m.ch = chan[p]
            <4>1. m.body = pending[p]
                BY <1>2, <3>1 DEF FinalInv, PlayerInv, WireInOrder
            <4> QED BY <1>1, <1>2, <1>3, <1>4, <3>1, <4>1 DEF AnswerHolds
        <3>2. CASE m.ch # chan[p]
            BY <1>2, <1>3, <1>4, <3>2 DEF FinalInv, PlayerInv, AnswerHolds, InJournal
        <3> QED BY <3>1, <3>2
    <2>4. ReadiesNumbered(p)' /\ StagesAgree(p)' /\ NotOrphaned(p)' /\ AbsentForGood(p)'
        BY <1>2 DEF FinalInv, PlayerInv, ReadiesNumbered, StagesAgree, Returnable, NotOrphaned,
                    AbsentForGood, InJournal
    <2> QED BY <1>4, <2>1, <2>2, <2>3, <2>4 DEF PlayerInv
<1>8. StartedByConsent'
    BY <1>2, FinalAssumption, ConsentKept DEF FinalInv
<1> QED BY <1>5, <1>6, <1>7, <1>8, OneMoves DEF FinalInv

(* A READY that is executed is the one its player waits for, and none that *)
(* is older is executed after it.                                          *)
LEMMA HostReadiesKeeps ==
    ASSUME FinalInv, NEW p \in Players, NEW m \in sent[p], UNCHANGED playerVars,
           HostReadies(p, m)
    PROVE  FinalInv'
<1>0. m.op = "READY" /\ m.body \in Readies
    BY PlayerTypes, RequestTypes DEF FinalInv, HostReadies
<1>1. PICK r \in Replies :
        /\ sent' = [sent EXCEPT ![p] = @ \ {m}]
        /\ replied' = [replied EXCEPT ![p] = IF m.ch = chan[p] THEN r ELSE @]
        /\ r.body = m.body
        /\ \/ r.kind = "READIED" /\ journal' = journal
           \/ /\ r.kind = "READIED" /\ journal' = [journal EXCEPT ![p] = Append(@, m.body)]
              /\ scene = None
           \/ r.kind = "READY_REFUSED" /\ journal' = journal /\ ~InJournal(p, m.body.cmd)
    <2>1. [kind |-> "READIED", body |-> m.body] \in Replies
        BY <1>0 DEF Replies
    <2>2. [kind |-> "READY_REFUSED", body |-> m.body] \in Replies
        BY <1>0 DEF Replies
    <2> QED BY <2>1, <2>2 DEF HostReadies, Answer, ReadyApplies
<1>2. TakeOver(p, m.ch) /\ UNCHANGED <<revision, gm, decided, capacity, timeRevision, scene>>
    BY DEF HostReadies
<1>3. /\ up' = up /\ DOMAIN holder' = Players /\ DOMAIN barrier' = Players
      /\ \A q \in Players \ {p} : SameFence(q)
      /\ holder'[p] = m.ch /\ m.ch \in up[p] /\ barrier'[p] \in 0..lastChan[p]
      /\ holder[p] = m.ch \/ m.ch > barrier[p]
      /\ \A n \in sent[p] \ {m} :
           /\ OutOfTurn(p, n)'
           /\ n.op = "READY" => (holder'[p] > n.ch => n.ch <= barrier'[p])
           /\ ShutOut(p, n) => ShutOut(p, n)'
           /\ n.op = "READY" /\ m.ch = lastChan[p] => ShutOut(p, n)'
    BY <1>2, Fences
<1>4. /\ sent' \in [Players -> SUBSET Requests]
      /\ replied' \in [Players -> Replies \cup {None}]
      /\ \A q \in Players \ {p} : SameWire(q)
      /\ sent'[p] = sent[p] \ {m}
      /\ replied'[p] = IF m.ch = chan[p] THEN r ELSE replied[p]
      /\ WireInOrder(p)' /\ DecisionsNumbered(p)'
    BY <1>1, <1>3, Answers
<1> USE DEF playerVars, decisionVars, readyVars, chanVars
<1>5. FinalTypeOK'
    <2>1. \A q \in Players : /\ up'[q] \subseteq 1..lastChan'[q]
                             /\ holder'[q] \in 0..lastChan'[q] /\ barrier'[q] \in 0..lastChan'[q]
                             /\ chan'[q] \in up'[q] \cup {0}
        <3> TAKE q \in Players
        <3>1. CASE q = p
            BY <1>3, <3>1, PlayerTypes DEF FinalInv
        <3>2. CASE q # p
            BY <1>3, <3>2 DEF FinalInv, FinalTypeOK, SameFence
        <3> QED BY <3>1, <3>2
    <2>2. journal' \in [Players -> Seq(Readies)]
        <3>1. journal \in [Players -> Seq(Readies)]
            BY DEF FinalInv, FinalTypeOK
        <3>2. Append(journal[p], m.body) \in Seq(Readies)
            BY <1>0, <3>1
        <3> QED BY <1>1, <3>1, <3>2
    <2> QED BY <1>2, <1>3, <1>4, <2>1, <2>2 DEF FinalInv, FinalTypeOK
<1>6. \A q \in Players \ {p} : Same(q)
    <2>1. \A q \in Players \ {p} : journal'[q] = journal[q]
        BY <1>1 DEF FinalInv, FinalTypeOK
    <2> QED BY <1>2, <1>3, <1>4, <2>1 DEF Same, SameDecision, SameReady
<1>7. PlayerInv(p)'
    <2>1. ~ShutOut(p, m) /\ m.body = readying[p] /\ m.body # None
        <3>1. m.ch \in Nat /\ barrier[p] \in Nat
            BY PlayerTypes, RequestTypes DEF FinalInv
        <3> QED BY <1>0, <1>3, <3>1, NoneAssumption DEF ShutOut, FinalInv, PlayerInv, ReadiesFenced
    <2>2. /\ m.body \in intents[p] /\ m.body.cmd \notin refused[p]
          /\ m.body.cmd \in Nat
        BY <1>0, <2>1 DEF FinalInv, PlayerInv, ReadiesNumbered, Readies
    <2>3. \A i \in 1..Len(journal'[p]) : journal'[p][i] = m.body \/ \E j \in 1..Len(journal[p]) :
                                                            journal'[p][i] = journal[p][j]
        <3>1. journal[p] \in Seq(Readies) /\ journal'[p] \in {journal[p], Append(journal[p], m.body)}
            BY <1>1, PlayerTypes DEF FinalInv, FinalTypeOK
        <3> QED BY <3>1
    <2>4. DecidesFenced(p)'
        BY <1>3, <1>4 DEF DecidesFenced
    <2>5. ReadiesFenced(p)'
        BY <1>3, <1>4 DEF FinalInv, PlayerInv, ReadiesFenced
    <2>6. AnswerHolds(p)'
        <3>1. CASE m.ch = chan[p]
            <4>1. m.ch = lastChan[p]
                BY <1>3, <3>1, PlayerTypes DEF FinalInv, PlayerInv, WireInOrder
            <4>2. \A n \in sent'[p] : n.op = "READY" => ShutOut(p, n)'
                BY <1>3, <1>4, <4>1
            <4>3. r.kind = "READY_REFUSED" => ~InJournal(p, m.body.cmd)'
                BY <1>1 DEF InJournal
            <4> QED BY <1>1, <1>4, <2>1, <3>1, <4>2, <4>3 DEF AnswerHolds
        <3>2. CASE m.ch # chan[p]
            <4>1. replied[p] # None => replied[p].kind \notin {"READIED", "READY_REFUSED"}
                BY <1>0, <2>1 DEF FinalInv, PlayerInv, AnswerHolds
            <4> QED BY <1>2, <1>3, <1>4, <3>2, <4>1 DEF FinalInv, PlayerInv, AnswerHolds
        <3> QED BY <3>1, <3>2
    <2>7. ReadiesNumbered(p)'
        BY <2>2, <2>3 DEF FinalInv, PlayerInv, ReadiesNumbered
    <2>8. StagesAgree(p)' /\ NotOrphaned(p)'
        BY <1>2 DEF FinalInv, PlayerInv, StagesAgree, Returnable, NotOrphaned
    <2>9. AbsentForGood(p)'
        BY <1>2, <2>2, <2>3 DEF FinalInv, PlayerInv, AbsentForGood, InJournal
    <2> QED BY <1>4, <2>4, <2>5, <2>6, <2>7, <2>8, <2>9 DEF PlayerInv
<1>8. StartedByConsent'
    <2>1. CASE journal' = journal
        BY <1>2, <2>1, FinalAssumption, ConsentKept DEF FinalInv
    <2>2. CASE scene = None
        BY <1>2, <2>2 DEF StartedByConsent
    <2> QED BY <1>1, <2>1, <2>2
<1> QED BY <1>5, <1>6, <1>7, <1>8, OneMoves DEF FinalInv

(* With a channel go the requests on it, and with the last channel of all  *)
(* there is nothing left that a fence could hold back.                     *)
LEMMA HostClosesKeeps ==
    ASSUME FinalInv, NEW p \in Players, NEW c \in up[p], HostCloses(p, c)
    PROVE  FinalInv'
<1>1. /\ c # chan[p] /\ up' = [up EXCEPT ![p] = @ \ {c}]
      /\ sent' = [sent EXCEPT ![p] = {m \in @ : m.ch # c}]
      /\ UNCHANGED <<hostVars, replied, playerVars>>
      /\ \/ /\ \A q \in Players : up'[q] = {}
            /\ holder' = [q \in Players |-> 0] /\ barrier' = [q \in Players |-> 0]
         \/ UNCHANGED <<holder, barrier>>
    BY DEF HostCloses
<1> USE DEF hostVars, playerVars, decisionVars, readyVars, chanVars
<1>2. /\ \A q \in Players : /\ sent'[q] \subseteq sent[q] /\ up'[q] \subseteq up[q]
                            /\ chan[q] \in up'[q] \cup {0}
                            /\ \A m \in sent'[q] : m.ch \in up'[q]
      /\ sent' \in [Players -> SUBSET Requests] /\ DOMAIN up' = Players
    <2>1. /\ \A q \in Players \ {p} : sent'[q] = sent[q] /\ up'[q] = up[q]
          /\ sent'[p] = {m \in sent[p] : m.ch # c} /\ up'[p] = up[p] \ {c}
          /\ sent' \in [Players -> SUBSET Requests] /\ DOMAIN up' = Players
        BY <1>1 DEF FinalInv, FinalTypeOK
    <2>2. ASSUME NEW q \in Players
          PROVE  chan[q] \in up'[q] \cup {0} /\ \A m \in sent'[q] : m.ch \in up'[q]
        <3>1. chan[q] \in up[q] \cup {0} /\ \A m \in sent[q] : m.ch \in up[q]
            BY PlayerTypes DEF FinalInv, PlayerInv, WireInOrder
        <3>2. CASE q = p
            BY <1>1, <2>1, <3>1, <3>2
        <3>3. CASE q # p
            BY <2>1, <3>1, <3>3
        <3> QED BY <3>2, <3>3
    <2> QED BY <2>1, <2>2
<1>3. \A q \in Players :
        /\ SameFence(q) \/ (sent'[q] = {} /\ holder'[q] = 0 /\ barrier'[q] = 0)
        /\ holder'[q] \in 0..lastChan[q] /\ barrier'[q] \in 0..lastChan[q]
    <2> TAKE q \in Players
    <2>1. /\ holder[q] \in 0..lastChan[q] /\ barrier[q] \in 0..lastChan[q] /\ lastChan[q] \in Nat
        BY PlayerTypes DEF FinalInv
    <2> QED BY <1>1, <1>2, <2>1 DEF SameFence
<1>4. FinalTypeOK'
    <2>1. \A q \in Players : up'[q] \subseteq 1..lastChan[q]
        BY <1>2, PlayerTypes DEF FinalInv
    <2>2. DOMAIN holder' = Players /\ DOMAIN barrier' = Players
        BY <1>1 DEF FinalInv, FinalTypeOK
    <2> QED BY <1>1, <1>2, <1>3, <2>1, <2>2 DEF FinalInv, FinalTypeOK
<1>5. ASSUME NEW q \in Players PROVE PlayerInv(q)'
    <2>1. /\ sent'[q] \subseteq sent[q] /\ \A m \in sent'[q] : m.ch \in up'[q]
          /\ SameFence(q) \/ sent'[q] = {}
          /\ SameDecision(q) /\ SameReady(q)
          /\ chan'[q] = chan[q] /\ lastChan'[q] = lastChan[q] /\ replied'[q] = replied[q]
        BY <1>1, <1>2, <1>3 DEF SameDecision, SameReady
    <2> USE DEF SameDecision, SameReady, SameFence
    <2>2. WireInOrder(q)'
        BY <2>1 DEF FinalInv, PlayerInv, WireInOrder
    <2>3. DecidesFenced(q)' /\ ReadiesFenced(q)'
        BY <2>1 DEF FinalInv, PlayerInv, DecidesFenced, ReadiesFenced, OutOfTurn, ShutOut
    <2>4. AnswerHolds(q)'
        BY <2>1 DEF FinalInv, PlayerInv, AnswerHolds, OutOfTurn, ShutOut, InJournal
    <2>5. DecisionsNumbered(q)' /\ ReadiesNumbered(q)'
        BY <2>1 DEF FinalInv, PlayerInv, DecisionsNumbered, ReadiesNumbered
    <2>6. StagesAgree(q)' /\ NotOrphaned(q)' /\ AbsentForGood(q)'
        BY <2>1 DEF FinalInv, PlayerInv, StagesAgree, Returnable, NotOrphaned, AbsentForGood,
                    InJournal
    <2> QED BY <2>2, <2>3, <2>4, <2>5, <2>6 DEF PlayerInv
<1>6. StartedByConsent'
    BY <1>1, FinalAssumption, ConsentKept DEF FinalInv
<1> QED BY <1>4, <1>5, <1>6 DEF FinalInv

-----------------------------------------------------------------------------
(* The player saves what an answer says, and what it says stands.          *)
LEMMA ReadKeeps ==
    ASSUME FinalInv, NEW p \in Players, Read(p)
    PROVE  FinalInv'
<1> DEFINE r == replied[p]
<1>1. /\ r # None /\ replied' = [replied EXCEPT ![p] = None]
      /\ pending' = IF r.kind \in {"DECIDED", "ABSENT"}
                    THEN [pending EXCEPT ![p] = None] ELSE pending
      /\ receipt' = IF r.kind = "DECIDED" THEN [receipt EXCEPT ![p] = r.body] ELSE receipt
      /\ absent' = IF r.kind = "ABSENT"
                   THEN [absent EXCEPT ![p] = @ \cup {r.body.cmd}] ELSE absent
      /\ readying' = IF r.kind \in {"READIED", "READY_REFUSED"}
                     THEN [readying EXCEPT ![p] = None] ELSE readying
      /\ refused' = IF r.kind = "READY_REFUSED"
                    THEN [refused EXCEPT ![p] = @ \cup {r.body.cmd}] ELSE refused
      /\ observed' = IF r.kind = "READIED" THEN [observed EXCEPT ![p] = None] ELSE observed
      /\ UNCHANGED <<hostVars, fenceVars, sent, publication, returned, intents, chanVars>>
    BY DEF Read
<1>2. /\ r \in Replies
      /\ r.kind \in {"DECIDED", "ABSENT", "READIED", "READY_REFUSED", "REFUSED"}
      /\ r.kind \in {"DECIDED", "ABSENT"} => r.body \in Decisions /\ r.body # None
      /\ r.kind \in {"READIED", "READY_REFUSED"} => r.body \in Readies /\ r.body # None
    <2>1. r \in Replies
        BY <1>1, PlayerTypes DEF FinalInv
    <2> QED BY <2>1, ReplyTypes, NoneAssumption
<1> HIDE DEF r
<1> USE DEF hostVars, fenceVars, chanVars
<1>3. FinalTypeOK'
    <2>1. /\ r.kind = "ABSENT" => r.body.cmd \in Nat
          /\ r.kind = "READY_REFUSED" => r.body.cmd \in Nat
        BY <1>2 DEF Decisions, Readies
    <2>2. /\ pending' \in [Players -> Decisions \cup {None}]
          /\ receipt' \in [Players -> Decisions \cup {None}]
          /\ readying' \in [Players -> Readies \cup {None}]
          /\ observed' \in [Players -> Observations \cup {None}]
          /\ replied' \in [Players -> Replies \cup {None}]
        BY <1>1, <1>2 DEF FinalInv, FinalTypeOK
    <2>3. absent' \in [Players -> SUBSET Nat] /\ refused' \in [Players -> SUBSET Nat]
        BY <1>1, <2>1 DEF FinalInv, FinalTypeOK
    <2> QED BY <1>1, <2>2, <2>3 DEF FinalInv, FinalTypeOK
<1>4. \A q \in Players \ {p} : Same(q)
    BY <1>1 DEF FinalInv, FinalTypeOK, Same, SameDecision, SameReady, SameFence, SameWire
<1>5. PlayerInv(p)'
    <2>1. /\ replied'[p] = None /\ replied[p] = r /\ replied[p] # None
          /\ pending'[p] = IF r.kind \in {"DECIDED", "ABSENT"} THEN None ELSE pending[p]
          /\ receipt'[p] = IF r.kind = "DECIDED" THEN r.body ELSE receipt[p]
          /\ absent'[p] = IF r.kind = "ABSENT" THEN absent[p] \cup {r.body.cmd} ELSE absent[p]
          /\ readying'[p] = IF r.kind \in {"READIED", "READY_REFUSED"} THEN None ELSE readying[p]
          /\ refused'[p] = IF r.kind = "READY_REFUSED" THEN refused[p] \cup {r.body.cmd}
                           ELSE refused[p]
        BY <1>1 DEF FinalInv, FinalTypeOK, r
    <2>2. /\ r.kind \in {"DECIDED", "ABSENT"} =>
              /\ pending[p] = r.body /\ pending[p] # None
              /\ decided[p] = IF r.kind = "DECIDED" THEN r.body ELSE None
              /\ \A m \in sent[p] : m.op = "DECIDE" => OutOfTurn(p, m)
          /\ r.kind \in {"READIED", "READY_REFUSED"} =>
              /\ readying[p] = r.body
              /\ \A m \in sent[p] : m.op = "READY" => ShutOut(p, m)
          /\ r.kind = "READY_REFUSED" => ~InJournal(p, r.body.cmd)
        BY <1>2, <2>1 DEF FinalInv, PlayerInv, AnswerHolds
    <2>3. WireInOrder(p)' /\ AnswerHolds(p)'
        BY <1>1, <2>1 DEF FinalInv, PlayerInv, WireInOrder, AnswerHolds
    <2>4. DecidesFenced(p)'
        BY <1>1, <2>1, <2>2 DEF FinalInv, PlayerInv, DecidesFenced, OutOfTurn
    <2>5. ReadiesFenced(p)'
        BY <1>1, <2>1, <2>2 DEF FinalInv, PlayerInv, ReadiesFenced, ShutOut
    <2>6. DecisionsNumbered(p)'
        <3>1. CASE r.kind = "ABSENT"
            <4>1. /\ IsFiniteSet(absent[p]) /\ Cardinality(absent[p]) \in Nat
                  /\ r.body.cmd = Cardinality(absent[p]) + 1
                  /\ \A n \in absent[p] : n \in Nat /\ n <= Cardinality(absent[p])
                BY <2>2, <3>1, FS_CardinalityType, PlayerTypes DEF FinalInv, PlayerInv,
                                                                   DecisionsNumbered
            <4>2. r.body.cmd \notin absent[p]
                BY <4>1
            <4>3. /\ IsFiniteSet(absent[p] \cup {r.body.cmd})
                  /\ Cardinality(absent[p] \cup {r.body.cmd}) = Cardinality(absent[p]) + 1
                BY <4>1, <4>2, FS_AddElement
            <4>4. absent'[p] = absent[p] \cup {r.body.cmd} /\ pending'[p] = None
                BY <2>1, <3>1
            <4>5. \A n \in absent[p] \cup {r.body.cmd} : n <= Cardinality(absent[p]) + 1
                BY <4>1
            <4> QED BY <4>3, <4>4, <4>5 DEF DecisionsNumbered
        <3>2. CASE r.kind # "ABSENT"
            BY <2>1, <3>2 DEF FinalInv, PlayerInv, DecisionsNumbered
        <3> QED BY <3>1, <3>2
    <2>7. ReadiesNumbered(p)'
        BY <1>1, <1>2, <2>1, <2>2 DEF FinalInv, PlayerInv, ReadiesNumbered
    <2>8. StagesAgree(p)' /\ NotOrphaned(p)'
        BY <1>1, <1>2, <2>1, <2>2 DEF FinalInv, PlayerInv, StagesAgree, Returnable, NotOrphaned
    <2>9. AbsentForGood(p)'
        BY <1>1, <2>1, <2>2 DEF FinalInv, PlayerInv, AbsentForGood, InJournal
    <2> QED BY <2>3, <2>4, <2>5, <2>6, <2>7, <2>8, <2>9 DEF PlayerInv
<1>6. StartedByConsent'
    BY <1>1, FinalAssumption, ConsentKept DEF FinalInv
<1> QED BY <1>3, <1>4, <1>5, <1>6, OneMoves DEF FinalInv

-----------------------------------------------------------------------------
LEMMA FinalInit ==
    ASSUME Init
    PROVE  FinalInv
<1>1. FinalTypeOK
    BY NoneAssumption DEF Init, FinalTypeOK
<1>2. ASSUME NEW p \in Players PROVE PlayerInv(p)
    BY FS_EmptySet DEF Init, PlayerInv, WireInOrder, DecidesFenced, ReadiesFenced, AnswerHolds,
       DecisionsNumbered, ReadiesNumbered, StagesAgree, NotOrphaned, AbsentForGood
<1>3. StartedByConsent
    BY DEF Init, StartedByConsent
<1> QED BY <1>1, <1>2, <1>3 DEF FinalInv

LEMMA FinalStep ==
    ASSUME FinalInv, [Next]_vars
    PROVE  FinalInv'
<1>1. CASE UNCHANGED vars
    <2> USE <1>1 DEF vars, hostVars, fenceVars, wireVars, playerVars, decisionVars, readyVars,
                     chanVars
    <2>1. FinalTypeOK'
        BY DEF FinalInv, FinalTypeOK
    <2>2. \A p \in Players : PlayerInv(p)'
        BY PlayerKept DEF FinalInv, Same, SameDecision, SameReady, SameFence, SameWire
    <2>3. StartedByConsent'
        BY FinalAssumption, ConsentKept DEF FinalInv
    <2> QED BY <2>1, <2>2, <2>3 DEF FinalInv
<1>2. ASSUME NEW p \in Players, HostExecutes(p)
      PROVE  FinalInv'
    <2>1. PICK m \in sent[p] :
            \/ HostDecides(p, m) \/ HostRefusesDecision(p, m) \/ HostRecovers(p, m)
            \/ HostReadies(p, m) \/ HostRefusesStale(p, m)
        BY <1>2 DEF HostExecutes
    <2>2. UNCHANGED playerVars
        BY <1>2 DEF HostExecutes
    <2> QED BY <2>1, <2>2, HostDecidesKeeps, HostRefusesKeeps, HostRecoversKeeps,
               HostReadiesKeeps
<1>3. ASSUME NEW p \in Players,
             \/ \E kind \in {"ACCEPT", "REJECT"} : GmDecides(p, kind)
             \/ \E c \in up[p] : HostCloses(p, c)
             \/ Connect(p) \/ Lose(p) \/ Return(p)
      PROVE  FinalInv'
    BY <1>3, GmDecidesKeeps, HostClosesKeeps, ConnectKeeps, LoseKeeps, ReturnKeeps
<1>4. ASSUME NEW p \in Players,
             \/ ReceivePublication(p) \/ \E kind \in Kinds : Decide(p, kind)
             \/ Recover(p) \/ PressReady(p) \/ SendReady(p) \/ ObserveLobby(p) \/ Read(p)
      PROVE  FinalInv'
    BY <1>4, ReceivePublicationKeeps, DecideKeeps, SendKeeps, PressReadyKeeps,
       ObserveLobbyKeeps, ReadKeeps
<1> QED BY <1>1, <1>2, <1>3, <1>4, LobbyKeeps DEF Next

-----------------------------------------------------------------------------
THEOREM FinalInvariant == Spec => []FinalInv
<1>1. Init => FinalInv
    BY FinalInit
<1>2. FinalInv /\ [Next]_vars => FinalInv'
    BY FinalStep
<1> QED BY <1>1, <1>2, PTL DEF Spec

(* Channels, fences and messages are what they should be.                  *)
THEOREM FinalTypeCorrect == Spec => []FinalTypeOK
<1>1. FinalInv => FinalTypeOK
    BY DEF FinalInv
<1> QED BY <1>1, FinalInvariant, PTL

(* No crash and no lost answer leaves the host with a decision that its    *)
(* player neither holds a receipt of nor still asks for                    *)
(* (commitAdmissionPlayerDecision, acknowledgeLocalAdmissionDecision).     *)
THEOREM DecisionsNeverOrphaned == Spec => []NoOrphanedDecision
<1>1. FinalInv => NoOrphanedDecision
    BY DEF FinalInv, PlayerInv, NotOrphaned, NoOrphanedDecision
<1> QED BY <1>1, FinalInvariant, PTL

(* What a player was told will not happen never does: a late DECIDE or     *)
(* READY on an older channel finds the fence (leaseAt, FENCED_ABSENT,      *)
(* READY_REFUSED).                                                         *)
THEOREM AbsenceStaysFinal == Spec => []AbsenceIsFinal
<1>1. FinalInv => AbsenceIsFinal
    BY DEF FinalInv, PlayerInv, AbsentForGood, AbsenceIsFinal
<1> QED BY <1>1, FinalInvariant, PTL

(* A RETURN closes no seat of an admitted character, nor of one that could *)
(* still be admitted (returnFromLocalAdmission).                           *)
THEOREM ReturnedSeatsStayFree == Spec => []ReturnedSeatsAreFree
<1>1. FinalInv => ReturnedSeatsAreFree
    <2> SUFFICES ASSUME FinalInv, NEW p \in Players, returned[p]
                 PROVE  ~Accepted(p) /\ pending[p] = None
        BY DEF ReturnedSeatsAreFree
    <2>1. /\ Returnable(p) /\ NotOrphaned(p) /\ StagesAgree(p)
        BY DEF FinalInv, PlayerInv, StagesAgree
    <2>2. pending[p] = None
        BY <2>1 DEF Returnable
    <2>3. CASE decided[p] = None
        BY <2>2, <2>3 DEF Accepted
    <2>4. CASE decided[p] # None
        <3>1. receipt[p] = decided[p] /\ publication[p] = gm[p] /\ gm[p] = "ACCEPT"
            BY <2>1, <2>2, <2>4, NoneAssumption DEF NotOrphaned, StagesAgree
        <3> QED BY <2>1, <2>2, <2>4, <3>1 DEF Returnable, Accepted
    <2> QED BY <2>3, <2>4
<1> QED BY <1>1, FinalInvariant, PTL

(* The campaign starts with what every included player saw and said it was *)
(* ready for, and no late decision joins (planCampaignLobbyEvent).         *)
THEOREM StartByConsent == Spec => []StartedByConsent
<1>1. FinalInv => StartedByConsent
    BY DEF FinalInv
<1> QED BY <1>1, FinalInvariant, PTL

=============================================================================
