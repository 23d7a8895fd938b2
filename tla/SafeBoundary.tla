----------------------------- MODULE SafeBoundary -----------------------------
(***************************************************************************)
(* Lifecycle commands of the GM at a safe boundary.  A campaign is paused, *)
(* resumed, given another password, or a device is cut off, only while     *)
(* nothing else is in flight: no peer operation queued or executing, no    *)
(* staged upload, no other accepted GM call (pendingOperations in          *)
(* network-application.ts).  The GM's calls are chained behind each other  *)
(* by createCampaignGmScheduler; the call that asks is itself in flight    *)
(* and counts itself out.                                                  *)
(*                                                                         *)
(* The peers' serial queue is taken in the form CampaignQueue proves of    *)
(* it: a line of accepted operations that execute one by one, each counted *)
(* until it has settled.  A handler that awaits is several actions, and    *)
(* the guards are evaluated anew behind each await.                        *)
(***************************************************************************)
EXTENDS ConnectionGate, FiniteSets

CONSTANTS
    KindOf,      \* lifecycle command -> PAUSE, RESUME, PASSWORD, DISCONNECT
    TargetOf,    \* the device a DISCONNECT names
    MaxCalls     \* bound on the GM calls that wait at a time

ASSUME BoundaryAssumption ==
    /\ KindOf \in [Commands -> {"PAUSE", "RESUME", "PASSWORD", "DISCONNECT"}]
    /\ TargetOf \in [Commands -> Devices]
    /\ MaxCalls \in Nat \ {0}

VARIABLES
    status,      \* durable campaign.lifecycle_state of a started campaign
    ledger,      \* durable campaign_lifecycle_event; its length is the revision
    asked,       \* the revision a command of the GM's browser expects
    line,        \* the peers' operations, in order; the first may be executing
    running,     \* ... and is
    stage,       \* the revision an upload of a channel (a tracked COMMAND transfer)
                 \* was begun under, None without one
    calls,       \* GM calls in order; the first may be executing
    step,        \* ... and where: QUEUED, HASHING, PUBLISHING
    atCampaign,  \* the durable cursor of the GM points at this campaign
    closing      \* the scheduler was closed

boundaryVars ==
    <<status, ledger, asked, line, running, stage, calls, step, atCampaign, closing>>
vars == <<gateVars, boundaryVars>>

Bodies == {"ACT", "BEGIN", "COMMIT", "RETRY"}
PeerOp == [chan : Channels, body : Bodies, retry : Retries \cup {None},
           names : Commands \cup {None}, since : Nat]
GmCall == [what : Commands \cup {"NAVIGATE", "POLL"}, scoped : BOOLEAN, since : Nat]

TypeOK ==
    /\ GateTypeOK
    /\ status \in {"PAUSED", "HOSTING"}
    /\ ledger \in Seq(Commands)
    /\ asked \in [Commands -> Nat \cup {None}]
    /\ line \in Seq(PeerOp)
    /\ running \in BOOLEAN
    /\ stage \in [Channels -> Nat \cup {None}]
    /\ calls \in Seq(GmCall)
    /\ step \in {"QUEUED", "HASHING", "PUBLISHING"}
    /\ atCampaign \in BOOLEAN
    /\ closing \in BOOLEAN

Init ==
    /\ GateInit
    /\ status = "HOSTING"
    /\ ledger = <<>>
    /\ asked = [m \in Commands |-> None]
    /\ line = <<>>
    /\ running = FALSE
    /\ stage = [c \in Channels |-> None]
    /\ calls = <<>>
    /\ step = "QUEUED"
    /\ atCampaign = TRUE
    /\ closing = FALSE

Revision == Len(ledger)
Committed(m) == \E i \in DOMAIN ledger : ledger[i] = m
Staged == {c \in Channels : stage[c] # None}
OpsOf(c) == {i \in DOMAIN line : line[i].chan = c}

-----------------------------------------------------------------------------
\* Mutant: a staged upload is no pending work.
PeerPendingNoUploads == Len(line)

\* operationCounts: queued, executing and staged work of the peers.
PeerPending == Len(line) + Cardinality(Staged)

\* pendingCounts of the scheduler without the call that asks: the other calls
\* accepted for this campaign.  A poll has no record and does not count.
GmPending == Cardinality({i \in 2..Len(calls) : calls[i].scoped})

Pending == PeerPending + GmPending

-----------------------------------------------------------------------------
\* Peers.
Connect(c) == Register(c) /\ UNCHANGED boundaryVars

Close(c) == Drop(c) /\ UNCHANGED boundaryVars

\* Mutant: the upload of a channel that ended stays tracked.
LoopEndsStaged(c) ==
    /\ OpsOf(c) = {}
    /\ EndLoop(c)
    /\ UNCHANGED <<status, ledger, asked, line, running, stage, calls, step, atCampaign, closing>>

\* The loop awaits its own operation; it drops its stage when it ends.
LoopEnds(c) ==
    /\ OpsOf(c) = {}
    /\ EndLoop(c)
    /\ stage' = [stage EXCEPT ![c] = None]
    /\ UNCHANGED <<status, ledger, asked, line, running, calls, step, atCampaign, closing>>

Enqueue(c, body, r, n) ==
    line' = Append(line, [chan |-> c, body |-> body, retry |-> r, names |-> n,
                          since |-> Revision])

\* A request arrives.  All but RETRY ask for the gate at once; a channel that
\* may not act is closed.
Receive(c, body) ==
    /\ Live(c)
    /\ OpsOf(c) = {}
    /\ body = "BEGIN" => c \notin Staged
    /\ body = "COMMIT" => c \in Staged
    /\ IF Admitted(c)
       THEN Enqueue(c, body, None, None) /\ UNCHANGED gateVars
       ELSE Drop(c) /\ UNCHANGED line
    /\ UNCHANGED <<status, ledger, asked, running, stage, calls, step, atCampaign, closing>>

ReceiveRetry(c, r, n) ==
    /\ Live(c)
    /\ OpsOf(c) = {}
    /\ Known(n)
    /\ Enqueue(c, "RETRY", r, n)
    /\ UNCHANGED <<gateVars, status, ledger, asked, running, stage, calls, step,
                   atCampaign, closing>>

\* The body of an operation; one whose channel has ended is skipped, one that is
\* refused changes nothing.
Effect(o) ==
    IF ~Live(o.chan) THEN UNCHANGED <<gateVars, stage>>
    ELSE IF o.body = "RETRY"
    THEN /\ \/ Retry(o.chan, o.retry, o.names)
            \/ RetryRefused(o.chan, o.retry, o.names)
         /\ UNCHANGED stage
    ELSE IF ~Admitted(o.chan) THEN UNCHANGED <<gateVars, stage>>
    ELSE /\ Act(o.chan)
         /\ stage' = CASE o.body = "BEGIN" -> [stage EXCEPT ![o.chan] = Revision]
                       [] o.body = "COMMIT" -> [stage EXCEPT ![o.chan] = None]
                       [] OTHER -> stage

PeerExecutes ==
    /\ line # <<>> /\ ~running
    /\ running' = TRUE
    /\ Effect(line[1])
    /\ UNCHANGED <<status, ledger, asked, line, calls, step, atCampaign, closing>>

PeerSettles ==
    /\ running
    /\ running' = FALSE
    /\ line' = Tail(line)
    /\ UNCHANGED <<gateVars, status, ledger, asked, stage, calls, step, atCampaign, closing>>

-----------------------------------------------------------------------------
\* GM.
Accept(what, scoped) ==
    /\ ~closing
    /\ Len(calls) < MaxCalls
    /\ calls' = Append(calls, [what |-> what, scoped |-> scoped, since |-> Revision])

\* The browser sends a command, or the same frame again.
GmSends(m) ==
    /\ Accept(m, atCampaign)
    /\ asked' = [asked EXCEPT ![m] = IF @ = None THEN Revision ELSE @]
    /\ UNCHANGED <<gateVars, status, ledger, line, running, stage, step, atCampaign, closing>>

GmNavigates ==
    /\ Accept("NAVIGATE", atCampaign)
    /\ UNCHANGED <<gateVars, status, ledger, asked, line, running, stage, step, atCampaign,
                   closing>>

\* pollGm: the next poll is armed when the former one has settled.
GmPolls ==
    /\ \A i \in DOMAIN calls : calls[i].what # "POLL"
    /\ Accept("POLL", FALSE)
    /\ UNCHANGED <<gateVars, status, ledger, asked, line, running, stage, step, atCampaign,
                   closing>>

\* assertFresh, and the guard commitCampaignLifecycleCommand evaluates inside its
\* transaction: still this campaign, nothing pending, the view the GM saw.
Fresh(m) == atCampaign /\ ~closing /\ Pending = 0 /\ asked[m] = Revision

\* planCampaignLifecycleEvent, prepareDisconnect.
Possible(m) ==
    CASE KindOf[m] = "PAUSE" -> status = "HOSTING"
      [] KindOf[m] = "RESUME" -> status = "PAUSED"
      [] KindOf[m] = "PASSWORD" -> TRUE
      [] KindOf[m] = "DISCONNECT" -> MayDisconnect(TargetOf[m])

\* The transaction of a lifecycle command and, for a DISCONNECT, retire behind it:
\* the leases of the captured channels are revoked with their uploads.
Commit(m) ==
    /\ ledger' = Append(ledger, m)
    /\ status' = CASE KindOf[m] = "PAUSE" -> "PAUSED"
                   [] KindOf[m] = "RESUME" -> "HOSTING"
                   [] OTHER -> status
    /\ IF KindOf[m] = "DISCONNECT"
       THEN /\ Disconnect(TargetOf[m], m)
            /\ stage' = [c \in Channels |->
                            IF c \in Captured(TargetOf[m]) THEN None ELSE stage[c]]
       ELSE UNCHANGED <<gateVars, stage>>

\* Mutant: what was free before the await is taken to be free behind it.
DecideChecked(m) ==
    IF ~Committed(m) /\ atCampaign /\ Possible(m)
    THEN Commit(m)
    ELSE UNCHANGED <<gateVars, status, ledger, stage>>

\* Mutant: a command that was sent again is applied again.
DecideAgain(m) ==
    IF atCampaign /\ ~closing /\ Pending = 0 /\ Possible(m)
    THEN Commit(m)
    ELSE UNCHANGED <<gateVars, status, ledger, stage>>

\* Replay a known command, apply a new one, or refuse.
Decide(m) ==
    IF ~Committed(m) /\ Fresh(m) /\ Possible(m)
    THEN Commit(m)
    ELSE UNCHANGED <<gateVars, status, ledger, stage>>

\* The scheduler turns to the next call: its handler runs up to its first await.
GmStarts ==
    /\ calls # <<>> /\ step = "QUEUED"
    /\ ~closing
    /\ LET m == calls[1].what IN
       IF m \notin Commands
       THEN /\ step' = "PUBLISHING"
            /\ atCampaign' \in (IF m = "NAVIGATE" THEN BOOLEAN ELSE {atCampaign})
            /\ UNCHANGED <<gateVars, status, ledger, stage>>
       ELSE /\ UNCHANGED atCampaign
            /\ IF KindOf[m] = "PASSWORD" /\ (Committed(m) \/ Fresh(m))
               THEN step' = "HASHING" /\ UNCHANGED <<gateVars, status, ledger, stage>>
               ELSE step' = "PUBLISHING" /\ Decide(m)
    /\ UNCHANGED <<asked, line, running, calls, closing>>

\* Behind verifyMasterSecret and prepareMasterSecret.
GmHashed ==
    /\ step = "HASHING"
    /\ step' = "PUBLISHING"
    /\ Decide(calls[1].what)
    /\ UNCHANGED <<asked, line, running, calls, atCampaign, closing>>

\* The answer was sent, or the scheduler was closed before the call's turn.
GmEnds ==
    /\ calls # <<>>
    /\ step = "PUBLISHING" \/ (step = "QUEUED" /\ closing)
    /\ calls' = Tail(calls)
    /\ step' = "QUEUED"
    /\ UNCHANGED <<gateVars, status, ledger, asked, line, running, stage, atCampaign, closing>>

\* preClose of the host.
Shutdown ==
    /\ ~closing
    /\ closing' = TRUE
    /\ UNCHANGED <<gateVars, status, ledger, asked, line, running, stage, calls, step,
                   atCampaign>>

Restart ==
    /\ RestartGate
    /\ line' = <<>>
    /\ running' = FALSE
    /\ stage' = [c \in Channels |-> None]
    /\ calls' = <<>>
    /\ step' = "QUEUED"
    /\ closing' = FALSE
    /\ UNCHANGED <<status, ledger, asked, atCampaign>>

PeerNext ==
    \/ \E c \in Channels :
        \/ Connect(c)
        \/ Close(c)
        \/ LoopEnds(c)
        \/ \E body \in Bodies \ {"RETRY"} : Receive(c, body)
        \/ \E r \in Retries, n \in Commands : ReceiveRetry(c, r, n)
    \/ PeerExecutes
    \/ PeerSettles

GmNext ==
    \/ \E m \in Commands : GmSends(m)
    \/ GmNavigates
    \/ GmPolls
    \/ GmStarts
    \/ GmHashed
    \/ GmEnds
    \/ Shutdown

Next == PeerNext \/ GmNext \/ Restart

Spec == Init /\ [][Next]_vars

\* receiveRequest arms a timer: a channel nobody uses is closed.
Idle(c) == OpsOf(c) = {} /\ Close(c)

(* Fairness: the event loop runs every callback that is due, the hashing   *)
(* of a password ends, and the timer of an idle channel fires.             *)
FairSpec ==
    /\ Spec
    /\ WF_vars(PeerExecutes) /\ WF_vars(PeerSettles)
    /\ WF_vars(GmStarts) /\ WF_vars(GmHashed) /\ WF_vars(GmEnds)
    /\ \A c \in Channels : WF_vars(LoopEnds(c)) /\ WF_vars(Idle(c))

-----------------------------------------------------------------------------
(* No work straddles a lifecycle change: what the host accepted under one  *)
(* revision of the campaign (a peer operation, an upload, a call of the GM *)
(* for this campaign) has ended before the revision moves on, also when    *)
(* the change was asked for before an await (pendingOperations,            *)
(* assertFresh, the guard of commitCampaignLifecycleCommand).              *)
NothingStraddlesABoundary ==
    /\ \A i \in DOMAIN line : line[i].since = Revision
    /\ \A c \in Staged : stage[c] = Revision
    /\ \A i \in DOMAIN calls :
        calls[i].scoped /\ (i > 1 \/ step = "QUEUED") => calls[i].since = Revision

(* A lifecycle command takes effect once, however often its frame is sent  *)
(* again, on whatever connection and across restarts (the ledger lookup of *)
(* the handler and of commitCampaignLifecycleCommand).                     *)
EffectOnce ==
    \A i, j \in DOMAIN ledger : ledger[i] = ledger[j] => i = j

(* When the devices and the GM fall silent the campaign comes to a safe    *)
(* boundary: no operation, upload or call is counted for ever, whatever    *)
(* was cut off, closed or refused in between (settled, drop, the finally   *)
(* of enqueue).                                                            *)
Arrives == Len(line') > Len(line) \/ Len(calls') > Len(calls)
QuietReachesBoundary == <>[][~Arrives]_vars => []<>(Pending = 0 /\ calls = <<>>)

=============================================================================
