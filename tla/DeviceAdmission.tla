--------------------------- MODULE DeviceAdmission ---------------------------
(***************************************************************************)
(* How one player installation asks the campaign host to admit its         *)
(* characters, across lost channels, late frames and crashes of both       *)
(* sides.                                                                  *)
(*                                                                         *)
(* The player pins each command in a durable outbox (OPEN an attempt,      *)
(* SUBMIT a request, CANCEL it), delivers it over an authenticated         *)
(* channel and keeps it PENDING until the host's answer is saved.  After a *)
(* lost answer it asks the host what became of the command: RECOVER takes  *)
(* over the scope first (module ScopeFence), so that a NOT_FOUND is meant  *)
(* to stay true.  The GM decides a request on the host while all this goes *)
(* on, so a CANCEL and a decision race.                                    *)
(*                                                                         *)
(* One action is one synchronous turn: the host executes a received RPC    *)
(* to completion inside one SQLite transaction; the player's own host      *)
(* serialises all its work, so one delivery (`flow') runs at a time, one   *)
(* RPC after the other.  Where two durable writes follow each other, or    *)
(* two scopes are taken, each is an action of its own.                     *)
(***************************************************************************)
EXTENDS ScopeFence, Sequences

CONSTANTS
    Attempts,      \* planned opening attempts, each used once
    Requests,      \* prepared device requests
    MaxCampaign,   \* bound: last campaign checkpoint
    MaxTransfers   \* limits.maxActiveTransfers

None == <<>>   \* no command, message, stage, session or request

(* All channels are those of one installation, which has one device key.   *)
ASSUME AdmissionAssumption ==
    /\ Channels \subseteq Nat \ {0}
    /\ NoChannel = 0
    /\ \A c, d \in Channels : PeerOf[c] = PeerOf[d]
    /\ None \notin Attempts \cup Requests
    /\ ScopeIds = {"ATTEMPT", "SESSION"} \X Attempts
    /\ TransferIds = {"STAGE"}
    /\ MaxCampaign \in Nat \ {0}
    /\ MaxTransfers \in Nat \ {0}

Attempt(a) == <<"ATTEMPT", a>>
Session(a) == <<"SESSION", a>>

OPEN(a) == <<"OPEN", a>>
SUBMIT(r) == <<"SUBMIT", r>>
CANCEL(r) == <<"CANCEL", r>>
Commands == ({"OPEN"} \X Attempts) \cup ({"SUBMIT", "CANCEL"} \X Requests)

Closing == {"CANCELLED", "REJECTED"}
Statuses == {"IN_REVIEW"} \cup Closing

\* A request's history after its SUBMIT; its length is the requestRevision.
Histories == {<<>>, <<"CANCELLED">>, <<"REJECTED">>, <<"IN_REVIEW">>,
              <<"IN_REVIEW", "REJECTED">>}

Status(h) == IF h = <<>> THEN "PENDING" ELSE h[Len(h)]

\* Mutant: a request in review no longer counts as active.
ActiveOnlyPending(h) == Status(h) = "PENDING"
Active(h) == Status(h) \notin Closing
Extends(new, old) == Len(old) <= Len(new) /\ SubSeq(new, 1, Len(old)) = old

VARIABLES
    \* Host, durable (hosted_technical_session, hosted_device_request, ...)
    opened,       \* attempts that have a technical session
    submitted,    \* requests stored by a SUBMIT
    log,          \* history of a stored request
    campaign,     \* current campaign checkpoint
    \* Host, RAM (with the variables of ScopeFence)
    stage,        \* chunked SUBMIT being received on a channel
    busy,         \* channel whose RPC has taken its first of two scopes
    \* The wire
    link,         \* host side of a channel
    sent,         \* RPC in flight to the host, or being executed there
    answer,       \* reply in flight to the player
    \* Player, durable (local outbox and its journal)
    outbox,       \* what the player knows of a command
    proof,        \* campaign checkpoint pinned in an OPEN or SUBMIT
    session,      \* sessionOrNull
    request,      \* requestOrNull
    view,         \* confirmed history of a request
    \* Player, RAM
    chan,         \* current channel
    lastChan,     \* transports opened so far
    flow          \* the delivery in progress

hostVars == <<opened, submitted, log, campaign, stage, busy>>
wireVars == <<link, sent, answer>>
playerVars == <<outbox, proof, session, request, view>>
flowVars == <<chan, lastChan, flow>>
vars == <<hostVars, fenceVars, wireVars, playerVars, flowVars>>

Rpc(op, id, s) == [op |-> op, id |-> id, session |-> s]
Reply(kind, h) == [kind |-> kind, log |-> h]
Flow(cmd, step) == [cmd |-> cmd, step |-> step, log |-> <<>>]
Idle == Flow(None, "IDLE")

Rpcs ==
    [op : {"OPEN", "RECOVER_OPEN"}, id : Attempts, session : {None}]
    \cup [op : {"RECOVER", "BEGIN", "CHUNK", "COMMIT", "CANCEL"},
          id : Requests, session : Attempts]
Replies ==
    [kind : {"ACK", "NOT_FOUND", "READY", "CHUNK_OK", "REFUSED"}, log : Histories]
Steps == {"IDLE", "RECONCILE", "DELIVER", "RECOVER", "RECOVER_AGAIN",
          "REDELIVER", "RECHECK", "LASTCHECK", "APPLY"}

TypeOK ==
    /\ FenceTypeOK
    /\ opened \subseteq Attempts
    /\ submitted \subseteq Requests
    /\ log \in [Requests -> Histories]
    /\ campaign \in 1..MaxCampaign
    /\ stage \in [Channels -> [request : Requests, session : Attempts,
                               received : 0..1] \cup {None}]
    /\ busy \in Channels \cup {NoChannel}
    /\ link \in [Channels -> {"NONE", "PROOF", "OPEN", "GONE"}]
    /\ sent \in [Channels -> Rpcs \cup {None}]
    /\ answer \in [Channels -> Replies \cup {None}]
    /\ outbox \in [Commands -> {"NONE", "PENDING", "ACK", "ABSENT", "SETTLED"}]
    /\ proof \in [Commands -> 0..MaxCampaign]
    /\ session \in Attempts \cup {None}
    /\ request \in Requests \cup {None}
    /\ view \in [Requests -> Histories]
    /\ chan \in Channels \cup {NoChannel}
    /\ lastChan \in Nat
    /\ flow \in [cmd : Commands \cup {None}, step : Steps, log : Histories]

Init ==
    /\ FenceInit
    /\ opened = {}
    /\ submitted = {}
    /\ log = [r \in Requests |-> <<>>]
    /\ campaign = 1
    /\ stage = [c \in Channels |-> None]
    /\ busy = NoChannel
    /\ link = [c \in Channels |-> "NONE"]
    /\ sent = [c \in Channels |-> None]
    /\ answer = [c \in Channels |-> None]
    /\ outbox = [m \in Commands |-> "NONE"]
    /\ proof = [m \in Commands |-> 0]
    /\ session = None
    /\ request = None
    /\ view = [r \in Requests |-> <<>>]
    /\ chan = NoChannel
    /\ lastChan = 0
    /\ flow = Idle

-----------------------------------------------------------------------------
(***************************************************************************)
(* The host: each action executes the RPC of one channel.                  *)
(***************************************************************************)

Executing(c, ops) ==
    /\ busy = NoChannel
    /\ Live(c)
    /\ sent[c] # None
    /\ sent[c].op \in ops

Respond(c, reply) ==
    /\ sent' = [sent EXCEPT ![c] = None]
    /\ answer' = [answer EXCEPT ![c] = IF c = chan THEN reply ELSE None]
    /\ UNCHANGED <<link, playerVars, flowVars>>

Refuse(c) ==
    /\ Respond(c, Reply("REFUSED", <<>>))
    /\ UNCHANGED fenceVars

NoHostWrite == UNCHANGED <<opened, submitted, log, campaign>>

\* Mutant: a recovery does not take the scope.
AssignNothing(c, scope) == UNCHANGED fenceVars

\* recoverScope: the lease the channel already has, or a takeover.
Assign(c, scope) ==
    \/ Leased(c, Key(c, scope)) /\ UNCHANGED fenceVars
    \/ Recover(c, scope, FALSE)

MayRecover(c, scope) == MayAssign(c, Key(c, scope))

\* Mutant: a revoke leaves the stages alone.
StagesStay(tracked) == UNCHANGED stage

\* A revoke drops the stages whose transfer it signals (drop(stage)).
Stages(tracked) ==
    stage' = [c \in Channels |->
                IF \E t \in tracked : t.channel = c THEN stage[c] ELSE None]

\* The device proof arrives: the channel is accepted and registered.
HostAcceptsProof(c) ==
    /\ link[c] = "PROOF"
    /\ Register(c)
    /\ link' = [link EXCEPT ![c] = "OPEN"]
    /\ UNCHANGED <<hostVars, sent, answer, playerVars, flowVars>>

\* The device proof never arrives, or not before the deadline of the handshake.
HostLosesProof(c) ==
    /\ link[c] = "PROOF"
    /\ link' = [link EXCEPT ![c] = "GONE"]
    /\ sent' = [sent EXCEPT ![c] = None]
    /\ UNCHANGED <<hostVars, fenceVars, answer, playerVars, flowVars>>

\* CONNECTION_OPEN of an attempt the host does not know: it binds the attempt
\* and commits its technical session in one turn.
HostOpens(c) ==
    LET a == sent[c].id IN
    /\ Executing(c, {"OPEN"})
    /\ a \notin opened
    /\ proof[OPEN(a)] = campaign
    /\ Bind(c, Attempt(a))
    /\ opened' = opened \cup {a}
    /\ busy' = c
    /\ UNCHANGED <<submitted, log, campaign, stage, wireVars, playerVars, flowVars>>

\* ... and then binds the new session's scope and answers.  A full table refuses
\* the scope (HostRefusesRecovery) although the session is committed.
HostBindsSession(c) ==
    /\ busy = c
    /\ sent[c].op = "OPEN"
    /\ Bind(c, Session(sent[c].id))
    /\ busy' = NoChannel
    /\ Respond(c, Reply("ACK", <<>>))
    /\ NoHostWrite /\ UNCHANGED stage

HostRefusesOpen(c) ==
    LET k == Key(c, Attempt(sent[c].id)) IN
    /\ Executing(c, {"OPEN"})
    /\ sent[c].id \notin opened
    /\ \/ proof[OPEN(sent[c].id)] # campaign
       \/ ~MayAssign(c, k)
       \/ generation[k] # 0
    /\ Refuse(c)
    /\ UNCHANGED hostVars

\* Mutant: a known attempt is acknowledged without taking its session.
HostRecoversAttemptOnly(c) ==
    LET a == sent[c].id IN
    /\ Executing(c, {"RECOVER_OPEN"})
    /\ MayRecover(c, Attempt(a))
    /\ Assign(c, Attempt(a))
    /\ Respond(c, Reply(IF a \in opened THEN "ACK" ELSE "NOT_FOUND", <<>>))
    /\ NoHostWrite /\ UNCHANGED <<busy, stage>>

\* CONNECTION_RECOVER: take the attempt; an absent one is answered NOT_FOUND, a
\* known one goes on to its session.  (An OPEN of a known attempt would be served
\* alike; the player sends each OPEN once.)
HostRecoversAttempt(c) ==
    LET a == sent[c].id IN
    /\ Executing(c, {"RECOVER_OPEN"})
    /\ MayRecover(c, Attempt(a))
    /\ Assign(c, Attempt(a))
    /\ IF a \in opened
       THEN busy' = c /\ UNCHANGED <<wireVars, playerVars, flowVars>>
       ELSE Respond(c, Reply("NOT_FOUND", <<>>)) /\ UNCHANGED busy
    /\ NoHostWrite /\ UNCHANGED stage

HostRecoversSession(c) ==
    LET s == Session(sent[c].id) IN
    /\ busy = c
    /\ sent[c].op = "RECOVER_OPEN"
    /\ MayRecover(c, s)
    /\ Assign(c, s)
    /\ busy' = NoChannel
    /\ Respond(c, Reply("ACK", <<>>))
    /\ Stages(transfers')
    /\ NoHostWrite

\* DEVICE_REQUEST_RECOVER: take the session, then report the request.
HostRecoversRequest(c) ==
    LET r == sent[c].id IN
    /\ Executing(c, {"RECOVER"})
    /\ MayRecover(c, Session(sent[c].session))
    /\ Assign(c, Session(sent[c].session))
    /\ Respond(c, IF r \in submitted THEN Reply("ACK", log[r])
                                     ELSE Reply("NOT_FOUND", <<>>))
    /\ Stages(transfers')
    /\ NoHostWrite /\ UNCHANGED busy

\* STALE_GENERATION or SCOPE_LIMIT; what was taken or committed before stays.
HostRefusesRecovery(c) ==
    /\ \/ /\ Executing(c, {"RECOVER_OPEN"})
          /\ ~MayRecover(c, Attempt(sent[c].id))
       \/ /\ Executing(c, {"RECOVER"})
          /\ ~MayRecover(c, Session(sent[c].session))
       \/ /\ busy = c
          /\ ~MayRecover(c, Session(sent[c].id))
    /\ busy' = NoChannel
    /\ Refuse(c)
    /\ NoHostWrite /\ UNCHANGED stage

HoldsSession(c) == Leased(c, Key(c, Session(sent[c].session)))

Staging == {c \in Channels : stage[c] # None}

MayBegin(r) ==
    /\ proof[SUBMIT(r)] = campaign
    /\ Cardinality(Staging) < MaxTransfers

\* DEVICE_REQUEST_BEGIN: replay a stored SUBMIT, or reserve a stage for it.
HostBegins(c) ==
    LET r == sent[c].id IN
    /\ Executing(c, {"BEGIN"})
    /\ HoldsSession(c)
    /\ IF r \in submitted
       THEN /\ Respond(c, Reply("ACK", log[r]))
            /\ UNCHANGED <<stage, fenceVars>>
       ELSE /\ stage[c] = None   \* the player never begins again under a stage of its own
            /\ MayBegin(r)
            /\ TrackTransfer(c, Session(sent[c].session), "STAGE")
            /\ stage' = [stage EXCEPT ![c] = [request |-> r, received |-> 0,
                                              session |-> sent[c].session]]
            /\ Respond(c, Reply("READY", <<>>))
    /\ NoHostWrite /\ UNCHANGED busy

StageOf(c) == [channel |-> c, key |-> Key(c, Session(stage[c].session)), id |-> "STAGE"]

\* stageAt: the stage is still there and its lease is still current.
StageUsable(c) ==
    /\ stage[c] # None
    /\ Current(c, StageOf(c).key)

\* DEVICE_REQUEST_CHUNK: one chunk stands for the whole body.
HostTakesChunk(c) ==
    /\ Executing(c, {"CHUNK"})
    /\ StageUsable(c)
    /\ stage' = [stage EXCEPT ![c].received = 1]
    /\ Respond(c, Reply("CHUNK_OK", <<>>))
    /\ NoHostWrite /\ UNCHANGED <<busy, fenceVars>>

\* A session has one active request at a time.  All rows belong to the one
\* session the player ever has.
SessionIsFree == \A q \in submitted : ~Active(log[q])

MayCommit(c) ==
    LET r == stage[c].request IN
    /\ stage[c].received = 1
    /\ proof[SUBMIT(r)] = campaign
    /\ r \in submitted \/ SessionIsFree

\* DEVICE_REQUEST_COMMIT: store the request; the stage is gone either way.
HostCommits(c) ==
    LET r == stage[c].request IN
    /\ Executing(c, {"COMMIT"})
    /\ StageUsable(c)
    /\ ReleaseTransfer(StageOf(c))
    /\ stage' = [stage EXCEPT ![c] = None]
    /\ IF MayCommit(c)
       THEN /\ submitted' = submitted \cup {r}
            /\ Respond(c, Reply("ACK", log[r]))
       ELSE /\ Respond(c, Reply("REFUSED", <<>>))
            /\ UNCHANGED submitted
    /\ UNCHANGED <<opened, log, campaign, busy>>

\* Mutant: a request in review can still be cancelled.
HostCancelsLate(c) ==
    LET r == sent[c].id IN
    /\ Executing(c, {"CANCEL"})
    /\ HoldsSession(c)
    /\ log[r] \in {<<>>, <<"IN_REVIEW">>, <<"CANCELLED">>}
    /\ log' = [log EXCEPT ![r] = <<"CANCELLED">>]
    /\ Respond(c, Reply("ACK", <<"CANCELLED">>))
    /\ UNCHANGED <<opened, submitted, campaign, stage, busy, fenceVars>>

\* DEVICE_REQUEST_CANCEL: only a PENDING request; a repeat is replayed.
HostCancels(c) ==
    LET r == sent[c].id IN
    /\ Executing(c, {"CANCEL"})
    /\ HoldsSession(c)
    /\ log[r] \in {<<>>, <<"CANCELLED">>}
    /\ log' = [log EXCEPT ![r] = <<"CANCELLED">>]
    /\ Respond(c, Reply("ACK", <<"CANCELLED">>))
    /\ UNCHANGED <<opened, submitted, campaign, stage, busy, fenceVars>>

HostRefusesRequest(c) ==
    /\ \/ /\ Executing(c, {"BEGIN"})
          /\ \/ ~HoldsSession(c)
             \/ sent[c].id \notin submitted /\ ~MayBegin(sent[c].id)
       \/ Executing(c, {"CHUNK", "COMMIT"}) /\ ~StageUsable(c)
       \/ /\ Executing(c, {"CANCEL"})
          /\ \/ ~HoldsSession(c)
             \/ log[sent[c].id] \notin {<<>>, <<"CANCELLED">>}
    /\ Refuse(c)
    /\ UNCHANGED hostVars

\* Mutant: a decision replaces the former one.
GmDecidesOver(r, status) ==
    /\ busy = NoChannel
    /\ ~closed
    /\ r \in submitted
    /\ Status(log[r]) \in IF status = "IN_REVIEW" THEN {"PENDING"}
                                                  ELSE {"PENDING", "IN_REVIEW"}
    /\ log' = [log EXCEPT ![r] = <<status>>]
    /\ UNCHANGED <<opened, submitted, campaign, stage, busy, fenceVars,
                   wireVars, playerVars, flowVars>>

\* The GM accepts a request to review, or rejects it.
GmDecides(r, status) ==
    /\ busy = NoChannel
    /\ ~closed
    /\ r \in submitted
    /\ Status(log[r]) \in IF status = "IN_REVIEW" THEN {"PENDING"}
                                                  ELSE {"PENDING", "IN_REVIEW"}
    /\ log' = [log EXCEPT ![r] = Append(@, status)]
    /\ UNCHANGED <<opened, submitted, campaign, stage, busy, fenceVars,
                   wireVars, playerVars, flowVars>>

\* Any other committed work of the campaign moves its checkpoint.
CampaignAdvances ==
    /\ campaign < MaxCampaign
    /\ campaign' = campaign + 1
    /\ UNCHANGED <<opened, submitted, log, stage, busy, fenceVars,
                   wireVars, playerVars, flowVars>>

\* The host's side of a channel ends: transport lost, deadline passed, no request
\* for rpcTimeoutMs, stage timer fired.  The connection's loop drops its stage and
\* closes the handle.
HostLosesChannel(c) ==
    /\ busy # c
    /\ link[c] = "OPEN"
    /\ CloseChannel(c)
    /\ link' = [link EXCEPT ![c] = "GONE"]
    /\ sent' = [sent EXCEPT ![c] = None]
    /\ stage' = [stage EXCEPT ![c] = None]
    /\ UNCHANGED <<opened, submitted, log, campaign, busy, answer, playerVars, flowVars>>

\* The host process ends at any point, also between the two scopes of an RPC.
HostStops ==
    /\ Close
    /\ link' = [c \in Channels |-> IF link[c] = "NONE" THEN "NONE" ELSE "GONE"]
    /\ sent' = [c \in Channels |-> None]
    /\ stage' = [c \in Channels |-> None]
    /\ busy' = NoChannel
    /\ NoHostWrite
    /\ UNCHANGED <<answer, playerVars, flowVars>>

HostStarts ==
    /\ Reopen
    /\ UNCHANGED <<hostVars, wireVars, playerVars, flowVars>>

-----------------------------------------------------------------------------
(***************************************************************************)
(* The player.                                                             *)
(***************************************************************************)

Pending == {m \in Commands : outbox[m] = "PENDING"}
PendingCommand == IF Pending = {} THEN None ELSE CHOOSE m \in Pending : TRUE

\* lifecycle(current) = PROVISIONAL: an unfinished request owns the tab.
Provisional == request # None /\ Active(view[request])

NextChannel == lastChan + 1

\* connect: the player's side resolves as soon as it has sent its device
\* proof, and the first RPC follows it at once.
ConnectAndSend(rpc) ==
    /\ ~closed
    /\ NextChannel \in Channels
    /\ lastChan' = NextChannel
    /\ chan' = NextChannel
    /\ link' = [link EXCEPT ![NextChannel] = "PROOF"]
    /\ sent' = [sent EXCEPT ![NextChannel] = rpc]
    /\ answer' = [c \in Channels |-> None]

Send(rpc) ==
    /\ chan # NoChannel
    /\ sent' = [sent EXCEPT ![chan] = rpc]
    /\ answer' = [answer EXCEPT ![chan] = None]
    /\ UNCHANGED <<link, chan, lastChan>>

NoSend ==
    /\ answer' = [c \in Channels |-> None]
    /\ UNCHANGED <<link, sent, chan, lastChan>>

DeliverRpc(m) ==
    CASE m[1] = "OPEN"   -> Rpc("OPEN", m[2], None)
      [] m[1] = "SUBMIT" -> Rpc("BEGIN", m[2], session)
      [] m[1] = "CANCEL" -> Rpc("CANCEL", m[2], session)

RecoverRpc(m) ==
    IF m[1] = "OPEN" THEN Rpc("RECOVER_OPEN", m[2], None)
                     ELSE Rpc("RECOVER", m[2], session)

\* reconnect: a new transport reconciles the session, through its request if
\* there is one, before it is used.
ReconcileRpc ==
    IF request = None THEN Rpc("RECOVER_OPEN", session, None)
                      ELSE Rpc("RECOVER", request, session)

\* UI-CMD-CONNECTION-OPEN: a fresh transport, then the intent and its RPC.
PlayerOpens(a) ==
    LET m == OPEN(a) IN
    /\ flow = Idle
    /\ Pending = {}
    /\ session = None
    /\ outbox[m] = "NONE"
    /\ ConnectAndSend(Rpc("OPEN", a, None))
    /\ outbox' = [outbox EXCEPT ![m] = "PENDING"]
    /\ proof' = [proof EXCEPT ![m] = campaign]
    /\ flow' = Flow(m, "DELIVER")
    /\ UNCHANGED <<hostVars, fenceVars, session, request, view>>

\* UI-CMD-DEVICE-REQUEST-SUBMIT of a batch prepared for this session.  The
\* first RPC of a command goes out on the channel the player already has.
PlayerSubmits(r) ==
    LET m == SUBMIT(r) IN
    /\ flow = Idle
    /\ Pending = {}
    /\ session # None
    /\ ~Provisional
    /\ outbox[m] = "NONE"
    /\ Send(DeliverRpc(m))
    /\ outbox' = [outbox EXCEPT ![m] = "PENDING"]
    /\ proof' = [proof EXCEPT ![m] = campaign]
    /\ flow' = Flow(m, "DELIVER")
    /\ UNCHANGED <<hostVars, fenceVars, session, request, view>>

\* UI-CMD-DEVICE-REQUEST-CANCEL of a request still shown as PENDING.
PlayerCancels ==
    LET m == CANCEL(request) IN
    /\ flow = Idle
    /\ Pending = {}
    /\ request # None
    /\ view[request] = <<>>
    /\ outbox[m] = "NONE"
    /\ Send(DeliverRpc(m))
    /\ outbox' = [outbox EXCEPT ![m] = "PENDING"]
    /\ flow' = Flow(m, "DELIVER")
    /\ UNCHANGED <<hostVars, fenceVars, proof, session, request, view>>

\* A browser resumes the tab, or repeats the command: deliver(out, recovery).
\* A channel that is still open is kept; otherwise a new one is reconciled
\* first, except for an OPEN, which has no session yet.
PlayerRecovers ==
    LET m == PendingCommand IN
    /\ flow = Idle
    /\ m # None
    /\ IF chan # NoChannel
       THEN Send(RecoverRpc(m)) /\ flow' = Flow(m, "RECOVER")
       ELSE IF m[1] = "OPEN"
            THEN ConnectAndSend(RecoverRpc(m)) /\ flow' = Flow(m, "RECOVER")
            ELSE ConnectAndSend(ReconcileRpc) /\ flow' = Flow(m, "RECONCILE")
    /\ UNCHANGED <<hostVars, fenceVars, playerVars>>

\* Without a pending command: the owner poll refreshes the request, a resumed
\* tab opens a new transport and reconciles it.
PlayerRefreshes ==
    /\ flow = Idle
    /\ session # None
    /\ \/ chan # NoChannel /\ request # None /\ Pending = {} /\ Send(ReconcileRpc)
       \/ (chan = NoChannel \/ Pending = {}) /\ ConnectAndSend(ReconcileRpc)
    /\ flow' = Flow(None, "RECONCILE")
    /\ UNCHANGED <<hostVars, fenceVars, playerVars>>

-----------------------------------------------------------------------------
\* The reply the running delivery waits for.
Answered(steps) ==
    /\ flow.step \in steps
    /\ chan # NoChannel
    /\ answer[chan] # None

Got == answer[chan]

Continue(rpc, step) ==
    /\ Send(rpc)
    /\ flow' = [flow EXCEPT !.step = step]

Finish ==
    /\ NoSend
    /\ flow' = Idle

PlayerOnly == UNCHANGED <<hostVars, fenceVars>>

\* acknowledgement() is null and nothing else follows: UNCONFIRMED_OUTCOME,
\* the command stays pending.
Unconfirmed ==
    /\ Finish
    /\ UNCHANGED playerVars

\* Mutant: the confirmed proof is appended again.
AdvanceTwice(r, h) == view' = [view EXCEPT ![r] = @ \o h]

\* Mutant: only the last status of the proof is kept.
AdvanceToLast(r, h) ==
    view' = [view EXCEPT ![r] = IF h = <<>> THEN h ELSE <<h[Len(h)]>>]

\* commitLocalNetworkRequestAdvance refuses a proof that is not newer.
Advance(r, h) ==
    IF Extends(h, view[r]) THEN view' = [view EXCEPT ![r] = h] ELSE UNCHANGED view

\* Mutant: a CANCEL whose receipt is found again is taken for a lost one.
CancelLostAnyhow(m) ==
    /\ m # None /\ m[1] = "CANCEL"
    /\ Got.kind = "ACK"
    /\ Got.log # <<>>

\* The answer shows that the GM decided before the pending CANCEL arrived.
CancelLost(m) ==
    /\ m # None /\ m[1] = "CANCEL"
    /\ Got.kind = "ACK"
    /\ Status(Got.log) \in {"IN_REVIEW", "REJECTED"}

PlayerSettlesCancel ==
    LET m == PendingCommand IN
    /\ Answered({"RECONCILE", "RECOVER", "RECOVER_AGAIN", "RECHECK", "LASTCHECK"})
    /\ CancelLost(m)
    /\ outbox' = [outbox EXCEPT ![m] = "SETTLED"]
    /\ Advance(m[2], Got.log)
    /\ Finish
    /\ UNCHANGED <<proof, session, request>> /\ PlayerOnly

\* The reconciliation of a new transport, or a refresh, is over.
PlayerReconciles ==
    LET m == flow.cmd IN
    /\ Answered({"RECONCILE"})
    /\ Got.kind = "ACK"
    /\ ~CancelLost(PendingCommand)
    /\ IF request # None THEN Advance(request, Got.log) ELSE UNCHANGED view
    /\ IF m = None THEN Finish ELSE Continue(RecoverRpc(m), "RECOVER")
    /\ UNCHANGED <<outbox, proof, session, request>> /\ PlayerOnly

PlayerReconcileFails ==
    /\ Answered({"RECONCILE"})
    /\ Got.kind # "ACK"
    /\ Unconfirmed /\ PlayerOnly

\* OPEN: ACK stores the session, a fenced NOT_FOUND is a final failure.
PlayerEndsOpen ==
    LET m == flow.cmd IN
    /\ Answered({"DELIVER", "RECOVER"})
    /\ m[1] = "OPEN"
    /\ \/ /\ Got.kind = "ACK"
          /\ outbox' = [outbox EXCEPT ![m] = "ACK"]
          /\ session' = m[2]
       \/ /\ Got.kind = "NOT_FOUND"
          /\ outbox' = [outbox EXCEPT ![m] = "ABSENT"]
          /\ UNCHANGED session
    /\ Finish
    /\ UNCHANGED <<proof, request, view>> /\ PlayerOnly

\* SUBMIT, chunk by chunk.
PlayerSendsBatch ==
    LET r == flow.cmd[2] IN
    /\ Answered({"DELIVER", "REDELIVER"})
    /\ flow.cmd[1] = "SUBMIT"
    /\ \/ Got.kind = "READY" /\ Continue(Rpc("CHUNK", r, session), flow.step)
       \/ Got.kind = "CHUNK_OK" /\ Continue(Rpc("COMMIT", r, session), flow.step)
    /\ UNCHANGED playerVars /\ PlayerOnly

\* The receipt of a SUBMIT is saved; a history the answer also carries is
\* applied afterwards, in a write of its own.
PlayerEndsSubmit ==
    LET m == flow.cmd IN
    /\ Answered({"DELIVER", "REDELIVER", "RECOVER"})
    /\ m[1] = "SUBMIT"
    /\ Got.kind = "ACK"
    /\ outbox' = [outbox EXCEPT ![m] = "ACK"]
    /\ request' = m[2]
    /\ view' = [view EXCEPT ![m[2]] = <<>>]
    /\ NoSend
    /\ flow' = IF Got.log = <<>> THEN Idle
                                 ELSE [Flow(m, "APPLY") EXCEPT !.log = Got.log]
    /\ UNCHANGED <<proof, session>> /\ PlayerOnly

PlayerAppliesCurrent ==
    /\ flow.step = "APPLY"
    /\ Advance(request, flow.log)
    /\ flow' = Idle
    /\ UNCHANGED <<outbox, proof, session, request, wireVars, chan, lastChan>> /\ PlayerOnly

\* CANCEL: the host's receipt, directly or found again by a recovery.
PlayerEndsCancel ==
    LET m == flow.cmd IN
    /\ Answered(Steps \ {"RECONCILE"})
    /\ m[1] = "CANCEL"
    /\ Got = Reply("ACK", <<"CANCELLED">>)
    /\ outbox' = [outbox EXCEPT ![m] = "ACK"]
    /\ view' = [view EXCEPT ![m[2]] = <<"CANCELLED">>]
    /\ Finish
    /\ UNCHANGED <<proof, session, request>> /\ PlayerOnly

\* A recovery proves that the command did not arrive: deliver it again.
PlayerRedelivers ==
    LET m == flow.cmd IN
    /\ Answered({"RECOVER", "RECOVER_AGAIN"})
    /\ \/ m[1] = "SUBMIT" /\ Got.kind = "NOT_FOUND"
       \/ m[1] = "CANCEL" /\ Got = Reply("ACK", <<>>)
    /\ Continue(DeliverRpc(m), "REDELIVER")
    /\ UNCHANGED playerVars /\ PlayerOnly

\* A refused CANCEL, or a refused recovery of one, asks what became of the
\* request; after another refusal it asks a last time.
PlayerRechecks ==
    LET m == flow.cmd
        step == CASE flow.step = "DELIVER" -> "RECHECK"
                  [] flow.step = "RECOVER" -> "RECOVER_AGAIN"
                  [] OTHER -> "LASTCHECK"
    IN
    /\ Answered(Steps \ {"RECONCILE", "LASTCHECK"})
    /\ m[1] = "CANCEL"
    /\ Got.kind = "REFUSED"
    /\ Continue(RecoverRpc(m), step)
    /\ UNCHANGED playerVars /\ PlayerOnly

\* Every other answer leaves the command pending.
PlayerStaysPending ==
    LET m == flow.cmd IN
    /\ \/ /\ Answered({"DELIVER", "REDELIVER", "RECOVER"})
          /\ m[1] # "CANCEL" /\ Got.kind = "REFUSED"
       \/ /\ Answered({"RECHECK", "LASTCHECK"})
          /\ Got = Reply("ACK", <<>>)
       \/ Answered({"LASTCHECK"}) /\ Got.kind = "REFUSED"
    /\ Unconfirmed /\ PlayerOnly

\* The player gives the channel up: crash, deadline, closed tab.  Its RAM
\* goes with it, and so does a reply still on its way.  What it sent can still
\* arrive: the request, and even the device proof that opens the channel.
PlayerLeavesChannel ==
    /\ chan # NoChannel
    /\ answer' = [c \in Channels |-> None]
    /\ chan' = NoChannel
    /\ flow' = Idle
    /\ UNCHANGED <<link, sent, lastChan, playerVars>> /\ PlayerOnly

-----------------------------------------------------------------------------
HostServes(c) ==
    \/ HostOpens(c)
    \/ HostBindsSession(c)
    \/ HostRefusesOpen(c)
    \/ HostRecoversAttempt(c)
    \/ HostRecoversSession(c)
    \/ HostRecoversRequest(c)
    \/ HostRefusesRecovery(c)
    \/ HostBegins(c)
    \/ HostTakesChunk(c)
    \/ HostCommits(c)
    \/ HostCancels(c)
    \/ HostRefusesRequest(c)

PlayerReads ==
    \/ PlayerSettlesCancel
    \/ PlayerReconciles
    \/ PlayerReconcileFails
    \/ PlayerEndsOpen
    \/ PlayerSendsBatch
    \/ PlayerEndsSubmit
    \/ PlayerAppliesCurrent
    \/ PlayerEndsCancel
    \/ PlayerRedelivers
    \/ PlayerRechecks
    \/ PlayerStaysPending

Next ==
    \/ \E c \in Channels :
        \/ HostAcceptsProof(c)
        \/ HostLosesProof(c)
        \/ HostServes(c)
        \/ HostLosesChannel(c)
    \/ \E r \in Requests, status \in {"IN_REVIEW", "REJECTED"} : GmDecides(r, status)
    \/ CampaignAdvances
    \/ HostStops
    \/ HostStarts
    \/ \E a \in Attempts : PlayerOpens(a)
    \/ \E r \in Requests : PlayerSubmits(r)
    \/ PlayerCancels
    \/ PlayerRecovers
    \/ PlayerRefreshes
    \/ PlayerReads
    \/ PlayerLeavesChannel

Spec == Init /\ [][Next]_vars

-----------------------------------------------------------------------------
(***************************************************************************)
(* Fairness: the host executes what it received and restarts; a channel    *)
(* without a request ends at its idle timer; the player reads its replies, *)
(* notices a channel that ended, and its browser comes back to a pending   *)
(* command.  SF of the idle timer says that the repeats of a refused       *)
(* command leave rpcTimeoutMs between them now and then.  A channel is     *)
(* accepted once and ends once, so that what is fair to some channel is    *)
(* fair to each.                                                           *)
(***************************************************************************)
\* Mutant: receiveRequest waits without a timer.
HostWaitsForEver(c) == FALSE

HostTimesOut(c) == sent[c] = None /\ HostLosesChannel(c)

PlayerNoticesLoss ==
    /\ chan # NoChannel
    /\ link[chan] = "GONE"
    /\ answer[chan] = None
    /\ PlayerLeavesChannel

FairSpec ==
    /\ Spec
    /\ WF_vars(\E c \in Channels : HostAcceptsProof(c))
    /\ \A c \in Channels : WF_vars(HostServes(c))
    /\ SF_vars(\E c \in Channels : HostTimesOut(c))
    /\ WF_vars(HostStarts)
    /\ WF_vars(PlayerReads)
    /\ SF_vars(PlayerRecovers)
    /\ WF_vars(PlayerNoticesLoss)

-----------------------------------------------------------------------------
(* A player that saved "the host never saw this OPEN, and never will"      *)
(* (OPEN_FAILURE with proofKind FENCED_ABSENT) is right for ever: the      *)
(* fence keeps every older frame of that attempt out (recover, assign).    *)
FencedAbsenceIsFinal ==
    \A a \in Attempts : outbox[OPEN(a)] = "ABSENT" => a \notin opened

(* The player never records more than the host committed: a receipt it     *)
(* holds exists on the host, and its confirmed history of a request is a   *)
(* prefix of the host's, whatever the order in which late replies and      *)
(* reconciliations came in (ACKNOWLEDGE, REQUEST_ADVANCE).                 *)
PlayerNeverAheadOfHost ==
    /\ \A a \in Attempts : outbox[OPEN(a)] = "ACK" => a \in opened
    /\ \A r \in Requests :
        /\ outbox[SUBMIT(r)] = "ACK" => r \in submitted
        /\ Extends(log[r], view[r])

(* A CANCEL races the GM's decision and exactly one wins: an acknowledged  *)
(* CANCEL closed the request before any decision, a settled one lost to a  *)
(* decision and never takes effect afterwards (deliver, CANCEL_SETTLE).    *)
CancelOutcomeIsTrue ==
    \A r \in Requests :
        /\ outbox[CANCEL(r)] = "ACK" => log[r] = <<"CANCELLED">>
        /\ outbox[CANCEL(r)] = "SETTLED" =>
            /\ log[r] # <<>> /\ Status(log[r]) # "CANCELLED"
            /\ view[r] # <<>> /\ Extends(log[r], view[r])

(* The session never has two active requests, although a SUBMIT can be     *)
(* repeated from its outbox while the former request is being closed       *)
(* (commitHostedNetworkCommand, idle).                                     *)
OneActiveRequest ==
    \A q, r \in submitted :
        {Status(log[q]), Status(log[r])} \cap Closing = {} => q = r

(* The RAM stage of a chunked SUBMIT lives exactly as long as its tracked  *)
(* transfer, hence only while its channel holds the session, and the       *)
(* stages stay within the transfer limit (begin, drop, assign's revoke).   *)
StageFollowsLease ==
    /\ \A c \in Channels :
        stage[c] # None => StageOf(c) \in transfers /\ Leased(c, StageOf(c).key)
    /\ \A t \in transfers : stage[t.channel] # None
    /\ Cardinality(Staging) <= MaxTransfers

(* BEGIN and CANCEL call bindScope, which would create a lease for a       *)
(* session nobody holds.  It never does: when one of them is executed the  *)
(* session was taken over before, or the table is full of older scopes and *)
(* the bind is refused like the recovery before it (reconnect, begin).     *)
BeginNeverBinds ==
    \A c \in Channels :
        /\ Live(c)
        /\ sent[c] # None
        /\ sent[c].op \in {"BEGIN", "CANCEL"}
        => \/ Key(c, Session(sent[c].session)) \in table
           \/ Cardinality(table) = MaxScopes

(* An outcome the player saved is never revised, and its history of a      *)
(* request only grows: a late reply cannot undo what the user was told     *)
(* (ACKNOWLEDGE, REQUEST_ADVANCE, CANCEL_SETTLE).                          *)
OutcomesAreFinal ==
    [][/\ \A m \in Commands :
            outbox[m] \in {"ACK", "ABSENT", "SETTLED"} => outbox'[m] = outbox[m]
       /\ \A r \in Requests : Extends(view'[r], view[r])]_vars

OutOfChannels == chan = NoChannel /\ NextChannel \notin Channels

(* A pending command is resolved in the end, through any number of lost    *)
(* answers, fences, timeouts and host restarts, unless the bounded supply  *)
(* of channels runs out.  Stated for a campaign whose checkpoint stands    *)
(* still: a pinned proof that went stale is refused at every retry.        *)
PendingResolves == Pending # {} ~> (Pending = {} \/ OutOfChannels)

-----------------------------------------------------------------------------
(* All this machinery amounts to the simple request of DeviceRequest: what *)
(* the player's journal shows of a request is what its abstract player     *)
(* knows, and a lost race of a CANCEL is reported as one.                  *)
Request == INSTANCE DeviceRequest WITH
    asked <- {r \in Requests : outbox[SUBMIT(r)] # "NONE"},
    history <- [r \in Requests |->
        IF r \in submitted THEN <<"PENDING">> \o log[r] ELSE <<>>],
    known <- [r \in Requests |->
        IF outbox[SUBMIT(r)] = "ACK" THEN <<"PENDING">> \o view[r] ELSE <<>>],
    cancel <- [r \in Requests |->
        CASE outbox[CANCEL(r)] = "NONE" -> "NO"
          [] outbox[CANCEL(r)] = "PENDING" -> "ASKED"
          [] outbox[CANCEL(r)] = "ACK" -> "CANCELLED"
          [] OTHER -> "TOO_LATE"]

ImplementsRequest == Request!RequestSpec

=============================================================================
