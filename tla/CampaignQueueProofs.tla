------------------------- MODULE CampaignQueueProofs -------------------------
(***************************************************************************)
(* Proofs about CampaignQueue for any number of operations, channels and   *)
(* campaigns.                                                              *)
(*                                                                         *)
(* An operation waits for one promise only, that of its predecessor in the *)
(* map.  That this is enough rests on the map: while an operation of the   *)
(* campaign is unresolved, the tail is that operation or a later one       *)
(* (TailIsLast), so that whoever is chained to the tail is chained behind  *)
(* everything unresolved (PriorIsLast).                                    *)
(***************************************************************************)
EXTENDS CampaignQueue, TLAPS

Accepted(o) == phase[o] \in {"QUEUED"} \cup Started

TicketsGrow ==
    /\ \A o \in Ops : Accepted(o) <=> ticket[o] > 0
    /\ \A o \in Ops : ticket[o] <= issued
    /\ \A p, q \in Ops : ticket[p] > 0 /\ ticket[p] = ticket[q] => p = q

TailIsLast ==
    ~closed => \A k \in Campaigns :
        /\ tail[k] # NoOp => /\ Campaign(tail[k]) = k
                             /\ ticket[tail[k]] > 0
        /\ \A p \in Ops : Waiting(p) /\ Campaign(p) = k =>
            /\ tail[k] # NoOp
            /\ ticket[p] <= ticket[tail[k]]

PriorIsLast ==
    \A q \in Ops : Accepted(q) =>
        /\ prior[q] # NoOp => /\ Campaign(prior[q]) = Campaign(q)
                              /\ 0 < ticket[prior[q]]
                              /\ ticket[prior[q]] < ticket[q]
        /\ \A p \in Ops :
            /\ Waiting(p)
            /\ Campaign(p) = Campaign(q)
            /\ ticket[p] < ticket[q]
            => prior[q] # NoOp /\ ticket[p] <= ticket[prior[q]]

CountedIsWaiting == ~closed => \A o \in Ops : Waiting(o) <=> o \in counted

QueueInv ==
    /\ QueueTypeOK
    /\ TicketsGrow
    /\ TailIsLast
    /\ PriorIsLast
    /\ CountedIsWaiting
    /\ ExecutesInTurn

-----------------------------------------------------------------------------
LEMMA CampaignInCampaigns ==
    ASSUME NEW o \in Ops
    PROVE  Campaign(o) \in Campaigns
  BY QueueAssumption DEF Campaign

LEMMA QueueInitEstablishesInv == QueueInit => QueueInv
<1> SUFFICES ASSUME QueueInit PROVE QueueInv
  OBVIOUS
<1>1. QueueTypeOK
  BY DEF QueueInit, QueueTypeOK, Phases
<1>2. \A o \in Ops : ~Accepted(o) /\ ~Waiting(o) /\ ticket[o] = 0 /\ phase[o] = "NEW"
  BY DEF QueueInit, Accepted, Started, Waiting
<1>3. TicketsGrow /\ PriorIsLast /\ ExecutesInTurn
  BY <1>2 DEF QueueInit, TicketsGrow, PriorIsLast, ExecutesInTurn, Started
<1>4. TailIsLast
  BY <1>2 DEF QueueInit, TailIsLast
<1>5. CountedIsWaiting
  BY <1>2 DEF QueueInit, CountedIsWaiting
<1> QED
  BY <1>1, <1>3, <1>4, <1>5 DEF QueueInv

(* A new last operation: it is chained to the old tail, which covers all   *)
(* that is unresolved, and becomes the tail itself.                        *)
LEMMA RunKeepsInv ==
    ASSUME QueueInv, NEW o \in Ops, Run(o)
    PROVE  QueueInv'
<1>1. Campaign(o) \in Campaigns
  BY CampaignInCampaigns
<1> USE DEF QueueInv
<1>2. QueueTypeOK'
  BY <1>1 DEF QueueTypeOK, Run, Phases
<1>3. /\ ticket[o] = 0 /\ ticket'[o] = issued + 1 /\ phase'[o] = "QUEUED"
      /\ \A p \in Ops \ {o} : ticket'[p] = ticket[p] /\ phase'[p] = phase[p]
      /\ \A p \in Ops : Campaign(p)' = Campaign(p)
  BY DEF QueueTypeOK, TicketsGrow, Accepted, Started, Run, Campaign
<1>4. TicketsGrow'
  BY <1>3 DEF QueueTypeOK, TicketsGrow, Accepted, Started, Run
<1>5. TailIsLast'
  <2> SUFFICES ASSUME NEW k \in Campaigns
               PROVE  /\ tail'[k] # NoOp => /\ Campaign(tail'[k]) = k
                                            /\ ticket'[tail'[k]] > 0
                      /\ \A p \in Ops : Waiting(p)' /\ Campaign(p) = k =>
                          /\ tail'[k] # NoOp
                          /\ ticket'[p] <= ticket'[tail'[k]]
    BY <1>3 DEF TailIsLast, Campaign
  <2>1. CASE k = Campaign(o)
    <3>1. tail'[k] = o /\ o # NoOp
      BY <2>1, <1>1, QueueAssumption DEF Run, QueueTypeOK
    <3>2. \A p \in Ops : ticket'[p] <= issued + 1
      BY <1>3 DEF QueueTypeOK, TicketsGrow
    <3> QED
      BY <2>1, <3>1, <3>2, <1>3 DEF QueueTypeOK
  <2>2. CASE k # Campaign(o)
    <3>1. tail'[k] = tail[k] /\ ~closed
      BY <2>2 DEF Run, QueueTypeOK, ChannelLive
    <3>2. \A p \in Ops : Campaign(p) = k => p # o
      BY <2>2
    <3> QED
      BY <3>1, <3>2, <1>3 DEF TailIsLast, Waiting, QueueTypeOK
  <2> QED
    BY <2>1, <2>2
<1>6. PriorIsLast'
  <2> SUFFICES ASSUME NEW q \in Ops, Accepted(q)'
               PROVE  /\ prior'[q] # NoOp => /\ Campaign(prior'[q]) = Campaign(q)
                                             /\ 0 < ticket'[prior'[q]]
                                             /\ ticket'[prior'[q]] < ticket'[q]
                      /\ \A p \in Ops :
                          /\ Waiting(p)'
                          /\ Campaign(p) = Campaign(q)
                          /\ ticket'[p] < ticket'[q]
                          => prior'[q] # NoOp /\ ticket'[p] <= ticket'[prior'[q]]
    BY <1>3 DEF PriorIsLast, Campaign
  <2>1. CASE q = o
    <3>1. prior'[q] = tail[Campaign(o)] /\ ~closed
      BY <2>1 DEF Run, QueueTypeOK, ChannelLive
    <3>2. \A p \in Ops : ticket[p] <= issued
      BY DEF TicketsGrow
    <3>3. tail[Campaign(o)] # NoOp => tail[Campaign(o)] \in Ops \ {o}
      BY <1>1, <1>3, <3>1 DEF TailIsLast, QueueTypeOK
    <3> QED
      BY <2>1, <3>1, <3>2, <3>3, <1>1, <1>3 DEF TailIsLast, Waiting, QueueTypeOK
  <2>2. CASE q # o
    <3>1. prior'[q] = prior[q] /\ Accepted(q)
      BY <2>2, <1>3 DEF Run, QueueTypeOK, Accepted
    <3>2. prior[q] # NoOp => prior[q] \in Ops \ {o}
      BY <3>1, <1>3 DEF PriorIsLast, QueueTypeOK
    <3>3. \A p \in Ops : ticket'[p] < ticket'[q] => p # o
      BY <2>2, <1>3 DEF TicketsGrow, QueueTypeOK
    <3> QED
      BY <2>2, <3>1, <3>2, <3>3, <1>3 DEF PriorIsLast, Waiting
  <2> QED
    BY <2>1, <2>2
<1>7. CountedIsWaiting'
  BY <1>3 DEF CountedIsWaiting, Waiting, Run, QueueTypeOK
<1>8. ExecutesInTurn'
  <2> SUFFICES ASSUME NEW p \in Ops, NEW q \in Ops, Campaign(p) = Campaign(q),
                      0 < ticket'[p], ticket'[p] < ticket'[q], phase'[q] \in Started
               PROVE  phase'[p] = "RESOLVED"
    BY <1>3 DEF ExecutesInTurn, Campaign
  <2>1. q # o
    BY <1>3 DEF Started
  <2>2. p # o
    BY <2>1, <1>3 DEF TicketsGrow, QueueTypeOK
  <2> QED
    BY <2>1, <2>2, <1>3 DEF ExecutesInTurn
<1> QED
  BY <1>2, <1>4, <1>5, <1>6, <1>7, <1>8

LEMMA RejectKeepsInv ==
    ASSUME QueueInv, NEW o \in Ops, Reject(o)
    PROVE  QueueInv'
  BY DEF Reject, QueueInv, QueueTypeOK, Phases, TicketsGrow, TailIsLast, PriorIsLast,
         CountedIsWaiting, ExecutesInTurn, Accepted, Started, Waiting, Campaign

(* The heart of the argument: the predecessor is resolved, hence so is all *)
(* before it; and nothing unresolved lies between the two.                 *)
LEMMA StartKeepsInv ==
    ASSUME QueueInv, NEW o \in Ops, Start(o)
    PROVE  QueueInv'
<1> USE DEF QueueInv
<1>1. /\ phase[o] = "QUEUED" /\ phase'[o] \in {"EXECUTING", "SETTLED"}
      /\ \A p \in Ops \ {o} : phase'[p] = phase[p]
      /\ phase' \in [Ops -> Phases]
  BY DEF Start, QueueTypeOK, Phases
<1>2. UNCHANGED <<closed, gone, ticket, issued, prior, tail, counted>>
  BY DEF Start
<1>3. /\ QueueTypeOK' /\ TicketsGrow' /\ TailIsLast' /\ PriorIsLast' /\ CountedIsWaiting'
  BY <1>1, <1>2
  DEF QueueTypeOK, TicketsGrow, TailIsLast, PriorIsLast, CountedIsWaiting, Accepted,
      Started, Waiting, Campaign
<1>4. ASSUME NEW p \in Ops, Campaign(p) = Campaign(o), 0 < ticket[p], ticket[p] < ticket[o]
      PROVE  phase[p] = "RESOLVED"
  <2>1. SUFFICES ASSUME phase[p] # "RESOLVED"
                 PROVE  FALSE
    OBVIOUS
  <2>2. Waiting(p)
    BY <1>4, <2>1 DEF TicketsGrow, Accepted, Started, Waiting
  <2>3. /\ prior[o] \in Ops
        /\ Campaign(prior[o]) = Campaign(o)
        /\ ticket[p] <= ticket[prior[o]]
    BY <1>1, <1>4, <2>2 DEF PriorIsLast, Accepted, QueueTypeOK
  <2>4. phase[prior[o]] = "RESOLVED"
    BY <1>1, <1>4, <2>2 DEF Start, PriorIsLast, Accepted
  <2>5. p # prior[o] /\ ticket[p] < ticket[prior[o]]
    BY <1>4, <2>1, <2>3, <2>4 DEF TicketsGrow, QueueTypeOK
  <2> QED
    BY <1>4, <2>1, <2>3, <2>4, <2>5 DEF ExecutesInTurn, Started
<1>5. ExecutesInTurn'
  <2> SUFFICES ASSUME NEW p \in Ops, NEW q \in Ops, Campaign(p) = Campaign(q),
                      0 < ticket[p], ticket[p] < ticket[q], phase'[q] \in Started
               PROVE  phase'[p] = "RESOLVED"
    BY <1>2 DEF ExecutesInTurn, Campaign
  <2>1. phase[p] = "RESOLVED"
    BY <1>1, <1>4 DEF ExecutesInTurn
  <2> QED
    BY <2>1, <1>1
<1> QED
  BY <1>3, <1>5

LEMMA FinishKeepsInv ==
    ASSUME QueueInv, NEW o \in Ops, Finish(o)
    PROVE  QueueInv'
<1> USE DEF QueueInv
<1>1. /\ phase[o] = "EXECUTING" /\ phase'[o] = "SETTLED"
      /\ \A p \in Ops \ {o} : phase'[p] = phase[p]
      /\ phase' \in [Ops -> Phases]
      /\ UNCHANGED <<closed, gone, ticket, issued, prior, tail, counted>>
  BY DEF Finish, QueueTypeOK, Phases
<1> QED
  BY <1>1
  DEF QueueTypeOK, TicketsGrow, TailIsLast, PriorIsLast, CountedIsWaiting, ExecutesInTurn,
      Accepted, Started, Waiting, Campaign

LEMMA SettleKeepsInv ==
    ASSUME QueueInv, NEW o \in Ops, Settle(o)
    PROVE  QueueInv'
<1> USE DEF QueueInv
<1>1. /\ phase[o] = "SETTLED" /\ phase'[o] = "RESOLVED"
      /\ \A p \in Ops \ {o} : phase'[p] = phase[p]
      /\ phase' \in [Ops -> Phases]
      /\ counted' = counted \ {o}
      /\ UNCHANGED <<closed, gone, ticket, issued, prior, tail>>
  BY DEF Settle, QueueTypeOK, Phases
<1> QED
  BY <1>1
  DEF QueueTypeOK, TicketsGrow, TailIsLast, PriorIsLast, CountedIsWaiting, ExecutesInTurn,
      Accepted, Started, Waiting, Campaign

(* The forgotten tail is resolved, and so is everything before it.         *)
LEMMA ForgetKeepsInv ==
    ASSUME QueueInv, NEW o \in Ops, Forget(o)
    PROVE  QueueInv'
<1> USE DEF QueueInv
<1>1. Campaign(o) \in Campaigns
  BY CampaignInCampaigns
<1>2. UNCHANGED <<closed, gone, phase, ticket, issued, prior, counted>>
  BY DEF Forget
<1>3. /\ QueueTypeOK' /\ TicketsGrow' /\ PriorIsLast' /\ CountedIsWaiting' /\ ExecutesInTurn'
  BY <1>1, <1>2
  DEF Forget, QueueTypeOK, TicketsGrow, PriorIsLast, CountedIsWaiting, ExecutesInTurn,
      Accepted, Waiting, Campaign
<1>4. ASSUME ~closed, NEW p \in Ops, Waiting(p), Campaign(p) = Campaign(o)
      PROVE  FALSE
  <2>1. tail[Campaign(o)] = o /\ phase[o] = "RESOLVED"
    BY DEF Forget
  <2>2. ticket[p] <= ticket[o]
    BY <1>1, <1>4, <2>1 DEF TailIsLast
  <2>3. p # o /\ ticket[p] > 0 /\ phase[p] # "RESOLVED"
    BY <1>4, <2>1 DEF Waiting, TicketsGrow, Accepted, Started
  <2>4. ticket[p] < ticket[o]
    BY <2>2, <2>3 DEF TicketsGrow, QueueTypeOK
  <2> QED
    BY <1>4, <2>1, <2>3, <2>4 DEF ExecutesInTurn, Started
<1>5. TailIsLast'
  <2> SUFFICES ASSUME ~closed, NEW k \in Campaigns
               PROVE  /\ tail'[k] # NoOp => /\ Campaign(tail'[k]) = k
                                            /\ ticket[tail'[k]] > 0
                      /\ \A p \in Ops : Waiting(p) /\ Campaign(p) = k =>
                          /\ tail'[k] # NoOp
                          /\ ticket[p] <= ticket[tail'[k]]
    BY <1>2 DEF TailIsLast, Campaign, Waiting
  <2>1. CASE k = Campaign(o)
    <3>1. tail'[k] = NoOp
      BY <2>1, <1>1 DEF Forget, QueueTypeOK
    <3> QED
      BY <2>1, <3>1, <1>4
  <2>2. CASE k # Campaign(o)
    <3>1. tail'[k] = tail[k]
      BY <2>2 DEF Forget, QueueTypeOK
    <3> QED
      BY <3>1 DEF TailIsLast
  <2> QED
    BY <2>1, <2>2
<1> QED
  BY <1>3, <1>5

LEMMA EndingKeepsInv ==
    ASSUME QueueInv, (\E c \in Channels : EndChannel(c)) \/ CloseQueue
    PROVE  QueueInv'
<1> USE DEF QueueInv, TicketsGrow, TailIsLast, PriorIsLast, CountedIsWaiting, ExecutesInTurn,
            Accepted, Waiting, Campaign
<1>1. CASE \E c \in Channels : EndChannel(c)
  BY <1>1 DEF EndChannel, QueueTypeOK
<1>2. CASE CloseQueue
  BY <1>2 DEF CloseQueue, QueueTypeOK
<1> QED
  BY <1>1, <1>2

LEMMA QueueStepKeepsInv ==
    ASSUME QueueInv, [QueueNext]_queueVars
    PROVE  QueueInv'
<1>1. CASE UNCHANGED queueVars
  BY <1>1
  DEF queueVars, QueueInv, QueueTypeOK, TicketsGrow, TailIsLast, PriorIsLast,
      CountedIsWaiting, ExecutesInTurn, Accepted, Waiting, Campaign
<1>2. ASSUME NEW o \in Ops, Run(o) PROVE QueueInv'
  BY <1>2, RunKeepsInv
<1>3. ASSUME NEW o \in Ops, Reject(o) PROVE QueueInv'
  BY <1>3, RejectKeepsInv
<1>4. ASSUME NEW o \in Ops, Start(o) PROVE QueueInv'
  BY <1>4, StartKeepsInv
<1>5. ASSUME NEW o \in Ops, Finish(o) PROVE QueueInv'
  BY <1>5, FinishKeepsInv
<1>6. ASSUME NEW o \in Ops, Settle(o) PROVE QueueInv'
  BY <1>6, SettleKeepsInv
<1>7. ASSUME NEW o \in Ops, Forget(o) PROVE QueueInv'
  BY <1>7, ForgetKeepsInv
<1>8. CASE (\E c \in Channels : EndChannel(c)) \/ CloseQueue
  BY <1>8, EndingKeepsInv
<1> QED
  BY <1>1, <1>2, <1>3, <1>4, <1>5, <1>6, <1>7, <1>8 DEF QueueNext

(* The strengthened invariant of the queue holds for ever (run, close).    *)
THEOREM QueueInvariantHolds == QueueSpec => []QueueInv
<1>1. QueueInit => QueueInv
  BY QueueInitEstablishesInv
<1>2. QueueInv /\ [QueueNext]_queueVars => QueueInv'
  BY QueueStepKeepsInv
<1> QED
  BY <1>1, <1>2, PTL DEF QueueSpec

(* Every variable of the queue keeps its type.                             *)
THEOREM QueueTypeCorrect == QueueSpec => []QueueTypeOK
<1>1. QueueInv => QueueTypeOK
  BY DEF QueueInv
<1> QED
  BY <1>1, QueueInvariantHolds, PTL

(* One campaign, one operation at a time, in the order of their arrival,   *)
(* for any number of peers and across a close of the executor (run).       *)
THEOREM OperationsExecuteInTurn == QueueSpec => []ExecutesInTurn
<1>1. QueueInv => ExecutesInTurn
  BY DEF QueueInv
<1> QED
  BY <1>1, QueueInvariantHolds, PTL

(* A lifecycle guard that finds nothing pending is right: no operation of  *)
(* the campaign is queued, executing or about to settle (hasPending,       *)
(* pendingCounts).                                                         *)
THEOREM PendingWorkIsSeen == QueueSpec => []PendingIsSeen
<1>1. QueueInv => PendingIsSeen
  BY CampaignInCampaigns DEF QueueInv, TailIsLast, CountedIsWaiting, PendingIsSeen
<1> QED
  BY <1>1, QueueInvariantHolds, PTL

=============================================================================
