---------------------------- MODULE CampaignQueue ----------------------------
(***************************************************************************)
(* The serial work of a campaign on its host: `run' of                     *)
(* campaign-network-executor.ts chains every mutating peer operation of a  *)
(* campaign behind the promise of the one before it, and counts what is    *)
(* queued or executing, so that a pause, a shutdown or a disconnect can    *)
(* wait for a boundary with nothing in flight.                             *)
(*                                                                         *)
(* The callbacks of a promise run one by one, in an order this model       *)
(* leaves open: the next operation may start before or after the tail of   *)
(* the former one was taken from the map.                                  *)
(***************************************************************************)
EXTENDS Naturals

CONSTANTS
    Ops,         \* calls of run
    Channels,    \* registered server channels
    Campaigns,
    ChannelOf,   \* the channel an operation came in on
    CampaignOf,  \* the campaign of a channel
    NoOp         \* no promise in the map

ASSUME QueueAssumption ==
    /\ ChannelOf \in [Ops -> Channels]
    /\ CampaignOf \in [Channels -> Campaigns]
    /\ NoOp \notin Ops

Campaign(o) == CampaignOf[ChannelOf[o]]

VARIABLES
    closed,   \* the executor was closed
    gone,     \* channels that ended
    phase,    \* progress of an operation's promise
    ticket,   \* history: position of an accepted operation, 0 for others
    issued,   \* history: tickets given so far
    prior,    \* operation whose tail an operation was chained to
    tail,     \* queues: the last operation of a campaign
    counted   \* operations: what pendingCounts sees

queueVars == <<closed, gone, phase, ticket, issued, prior, tail, counted>>

Phases == {"NEW", "REJECTED", "QUEUED", "EXECUTING", "SETTLED", "RESOLVED"}

QueueTypeOK ==
    /\ closed \in BOOLEAN
    /\ gone \subseteq Channels
    /\ phase \in [Ops -> Phases]
    /\ ticket \in [Ops -> Nat]
    /\ issued \in Nat
    /\ prior \in [Ops -> Ops \cup {NoOp}]
    /\ tail \in [Campaigns -> Ops \cup {NoOp}]
    /\ counted \subseteq Ops

QueueInit ==
    /\ closed = FALSE
    /\ gone = {}
    /\ phase = [o \in Ops |-> "NEW"]
    /\ ticket = [o \in Ops |-> 0]
    /\ issued = 0
    /\ prior = [o \in Ops |-> NoOp]
    /\ tail = [k \in Campaigns |-> NoOp]
    /\ counted = {}

ChannelLive(o) == ~closed /\ ChannelOf[o] \notin gone

-----------------------------------------------------------------------------
\* run: chain the operation, or reject it when its channel is not live.
Run(o) ==
    /\ phase[o] = "NEW"
    /\ ChannelLive(o)
    /\ phase' = [phase EXCEPT ![o] = "QUEUED"]
    /\ issued' = issued + 1
    /\ ticket' = [ticket EXCEPT ![o] = issued + 1]
    /\ prior' = [prior EXCEPT ![o] = tail[Campaign(o)]]
    /\ tail' = [tail EXCEPT ![Campaign(o)] = o]
    /\ counted' = counted \cup {o}
    /\ UNCHANGED <<closed, gone>>

Reject(o) ==
    /\ phase[o] = "NEW"
    /\ ~ChannelLive(o)
    /\ phase' = [phase EXCEPT ![o] = "REJECTED"]
    /\ UNCHANGED <<closed, gone, ticket, issued, prior, tail, counted>>

\* Mutant: an operation whose channel ended ends in a state nobody settles.
StartDropped(o) ==
    /\ phase[o] = "QUEUED"
    /\ prior[o] # NoOp => phase[prior[o]] = "RESOLVED"
    /\ phase' = [phase EXCEPT ![o] = IF ChannelLive(o) THEN "EXECUTING" ELSE "DROPPED"]
    /\ UNCHANGED <<closed, gone, ticket, issued, prior, tail, counted>>

\* Mutant: ... or is never looked at again.
StartLive(o) ==
    /\ phase[o] = "QUEUED"
    /\ ChannelLive(o)
    /\ prior[o] # NoOp => phase[prior[o]] = "RESOLVED"
    /\ phase' = [phase EXCEPT ![o] = "EXECUTING"]
    /\ UNCHANGED <<closed, gone, ticket, issued, prior, tail, counted>>

\* The tail of the former operation resolved: execute, unless the channel ended
\* in the meantime.
Start(o) ==
    /\ phase[o] = "QUEUED"
    /\ prior[o] # NoOp => phase[prior[o]] = "RESOLVED"
    /\ phase' = [phase EXCEPT ![o] = IF ChannelLive(o) THEN "EXECUTING" ELSE "SETTLED"]
    /\ UNCHANGED <<closed, gone, ticket, issued, prior, tail, counted>>

\* execute() returned, threw, or its promise settled.
Finish(o) ==
    /\ phase[o] = "EXECUTING"
    /\ phase' = [phase EXCEPT ![o] = "SETTLED"]
    /\ UNCHANGED <<closed, gone, ticket, issued, prior, tail, counted>>

\* Mutant: an operation of a channel that ended is counted for ever.
SettleLive(o) ==
    /\ phase[o] = "SETTLED"
    /\ phase' = [phase EXCEPT ![o] = "RESOLVED"]
    /\ counted' = IF ChannelLive(o) THEN counted \ {o} ELSE counted
    /\ UNCHANGED <<closed, gone, ticket, issued, prior, tail>>

\* settled(): the operation is no longer counted, its tail resolves.
Settle(o) ==
    /\ phase[o] = "SETTLED"
    /\ phase' = [phase EXCEPT ![o] = "RESOLVED"]
    /\ counted' = counted \ {o}
    /\ UNCHANGED <<closed, gone, ticket, issued, prior, tail>>

\* Mutant: the map forgets the campaign, whatever its last operation is.
ForgetAny(o) ==
    /\ phase[o] = "RESOLVED"
    /\ tail' = [tail EXCEPT ![Campaign(o)] = NoOp]
    /\ UNCHANGED <<closed, gone, phase, ticket, issued, prior, counted>>

\* Mutant: ... or only while its channel lives.
ForgetLive(o) ==
    /\ phase[o] = "RESOLVED"
    /\ tail[Campaign(o)] = o
    /\ ChannelLive(o)
    /\ tail' = [tail EXCEPT ![Campaign(o)] = NoOp]
    /\ UNCHANGED <<closed, gone, phase, ticket, issued, prior, counted>>

\* The map forgets a tail that resolved, if it is still the last one.
Forget(o) ==
    /\ phase[o] = "RESOLVED"
    /\ tail[Campaign(o)] = o
    /\ tail' = [tail EXCEPT ![Campaign(o)] = NoOp]
    /\ UNCHANGED <<closed, gone, phase, ticket, issued, prior, counted>>

EndChannel(c) ==
    /\ c \notin gone
    /\ gone' = gone \cup {c}
    /\ UNCHANGED <<closed, phase, ticket, issued, prior, tail, counted>>

\* close(): the maps are emptied; what was chained before is still resolved.
CloseQueue ==
    /\ ~closed
    /\ closed' = TRUE
    /\ gone' = Channels
    /\ tail' = [k \in Campaigns |-> NoOp]
    /\ counted' = {}
    /\ UNCHANGED <<phase, ticket, issued, prior>>

QueueNext ==
    \/ \E o \in Ops :
        \/ Run(o)
        \/ Reject(o)
        \/ Start(o)
        \/ Finish(o)
        \/ Settle(o)
        \/ Forget(o)
    \/ \E c \in Channels : EndChannel(c)
    \/ CloseQueue

QueueSpec == QueueInit /\ [][QueueNext]_queueVars

(* Fairness: the event loop runs every promise callback that is due, and   *)
(* execute() ends: every operation of the repository is synchronous or     *)
(* bounded by a deadline.                                                  *)
FairQueueSpec ==
    /\ QueueSpec
    /\ \A o \in Ops :
        /\ WF_queueVars(Start(o))
        /\ WF_queueVars(Finish(o))
        /\ WF_queueVars(Settle(o))
        /\ WF_queueVars(Forget(o))

-----------------------------------------------------------------------------
Started == {"EXECUTING", "SETTLED", "RESOLVED"}
Waiting(o) == phase[o] \in {"QUEUED", "EXECUTING", "SETTLED"}

(* The operations of one campaign execute one at a time and in the order   *)
(* they were accepted, whatever channels they came in on and also across   *)
(* a close: none starts before every earlier one has resolved (run).       *)
ExecutesInTurn ==
    \A p, q \in Ops :
        /\ Campaign(p) = Campaign(q)
        /\ 0 < ticket[p] /\ ticket[p] < ticket[q]
        /\ phase[q] \in Started
        => phase[p] = "RESOLVED"

(* A lifecycle guard that reads hasPending or pendingCounts never takes a  *)
(* campaign with unfinished work for a quiet one, and finished work is not *)
(* counted for ever (run's bookkeeping, hasPending, pendingCounts).        *)
PendingIsSeen ==
    ~closed => \A o \in Ops :
        /\ Waiting(o) => tail[Campaign(o)] # NoOp
        /\ Waiting(o) <=> o \in counted

(* Every accepted operation settles, so that its peer gets an answer, also *)
(* when channels end or the executor closes while it waits (run).          *)
EveryOpResolves == \A o \in Ops : phase[o] = "QUEUED" ~> phase[o] = "RESOLVED"

(* A campaign becomes quiet again: its entry in the map does not outlive   *)
(* the work, else no pause would ever find a safe boundary (run, close).   *)
QueueDrains == \A k \in Campaigns : tail[k] # NoOp ~> tail[k] = NoOp

=============================================================================
