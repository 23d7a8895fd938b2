# Symbiosis V7: formal model

Symbiosis V7 is an offline-first tabletop application.  Every installation runs
a Node process, its *host*, with a SQLite database and a browser client.  The
installation of the game master (GM) owns a campaign and is the only authority
over it; other installations join it over the local network through authenticated
private channels.  This directory holds TLA+ models of the parts whose
correctness depends on the order of events, the TLC instances that check them,
and the proofs TLAPS checks.

Paths below are relative to `src/src` of the repository; ADR numbers refer to
`src/docs/adr`.

## 1. Inventory

The code is layered `shared` -> `domain` -> `persistence` (SQLite) -> `host`
(Fastify, WebSocket) -> `web`.

| Component | State it keeps | Operations | Hard part | What makes it correct |
|---|---|---|---|---|
| Transport fence, `host/campaign-network-executor.ts` | RAM: registered channels with ordinals, scope records (generation, lease, retired channels, recovery barrier), tracked transfers | register, bind, recover, track, close | late first frames of old channels, failing callbacks, table limit | a channel that was shut out never acts again; a lease is used only while current |
| Serial queue, same file | RAM: promise tail per campaign, set of counted operations | run, settle, close | promise callbacks between which guards read | one operation at a time in order; pending work is always visible |
| Device admission, host: `host/device-admission-peer-runtime.ts`, `persistence/network-device-request.ts` | durable sessions, requests, receipts; RAM: one upload stage per channel | OPEN, RECOVER, BEGIN, CHUNK, COMMIT, CANCEL | two durable or RAM steps per call, retries, crashes, takeover during an upload | each command takes effect once; the stage dies with its lease |
| Device admission, player: `host/network-application.ts`, `host/network-local-peer.ts`, `persistence/network-local-application.ts` | durable outbox, session, request history; RAM: one channel, one delivery | command, deliver, reconnect, refresh, resume | lost answers, CANCEL against a GM decision, stale proofs | what is recorded is true and final; a pending command resolves |
| Private peer channel, `host/campaign-peer-channel.ts` | RAM: frames, sequence numbers, timers | call, receive, respond, close | idle timer, back-pressure, loss | strictly alternating request and response |
| Handshake and proofs, `host/campaign-peer-handshake.ts`, `host/campaign-peer-proof-exchange.ts` | RAM, per connection | challenge, host proof, device proof | abandoned handshakes | only a proven peer is registered |
| Bind, discovery, endpoints, `host/campaign-bind.ts`, `host/campaign-discovery.ts`, `host/campaign-network-endpoint.ts` | sockets, publications | publish, unpublish, scan | replaced sockets | one owner per reservation |
| GM request review, `persistence/network-device-request.ts`, `host/network-application.ts` | durable queue, GM view, draft | navigate, draft, decide | view and queue change under a dialog | a decision is taken from the view the GM saw |
| GM scheduler and safe boundary, `host/campaign-network-executor.ts`, `host/network-application.ts` | RAM: chained GM calls | wire, poll, pendingCounts, prepareDisconnect | a lifecycle change counts itself out of the pending work | nothing is in flight at a pause |
| Lifecycle, lobby, final admission, `persistence/campaign-lifecycle*.ts`, `campaign-lobby*.ts`, `campaign-admission-*.ts`, `local-campaign-admission.ts` | durable ledgers on both sides | pause, start, end, ready, accept, decline | two installations, crashes between their commits | an admitted copy exists once, both sides agree |
| Checkpoint store, `persistence/store.ts`, `local-character-post-save.ts` | durable drafts, revision vectors, checkpoints, restore cursor | create, update, checkpoint, restore | revision rules, overflow | revisions grow exactly with what changed |
| Identity, `persistence/device-identity.ts`, `network-installation-identity.ts`, `host/identity-checkpoint.ts` | key pair and its checkpoint | create, load | crash between file and row | one identity for ever |
| Network tabs, `persistence/network-local-tab.ts` | durable tabs and navigation | open, exit, close | exit while a command is pending | a pending command keeps its owner |
| Creation, rolls, NPC authoring, `host/creation-*`, `domain/`, `persistence/campaign-creation.ts`, `npc-*` | durable documents | form commands | few actors; large rule tables | rules of the game |
| Web client, `web/ws-client.ts`, `web/app.tsx` | projections, unacknowledged commands | send, reconnect, replay | staged snapshots after a reconnect | a command is not lost and not done twice |

Components call each other synchronously inside one process; between processes
there is one private channel per player with one request in flight.  Concurrency
comes from channels that overlap in time, from `await` points, from two
processes that crash independently, from several windows of one installation,
and from the GM, who works on the host while players talk to it.
`PROJECT.json` lists for each component whether it is modelled and what is left
out, and every hazard with the properties that watch it.

## 2. Modules

| Module | Content |
|---|---|
| `ScopeFence` | the transport fence; `MCScopeFence` instantiates it, `ScopeFenceProofs` proves it |
| `CampaignQueue` | the serial queue; `MCCampaignQueue`, `CampaignQueueProofs` |
| `DeviceAdmission` | extends `ScopeFence` with both sides of the admission protocol, the wire and crashes; `MCDeviceAdmission` instantiates it in three configurations, `DeviceAdmissionProofs` proves it |
| `AdmissionOrder` | extends `DeviceAdmission` with a history of the order in which channels were accepted; `MCAdmissionOrder` instantiates it, `DeviceAdmissionProofs` proves it |
| `DeviceRequest` | what a device request promises, without channels or crashes; `DeviceAdmission` implements it (`ImplementsRequest`) |
| `ConnectionGate` | disconnect and retry of a device; `ConnectionGateProofs` |
| `SafeBoundary` | extends `ConnectionGate` with the GM scheduler, the peers' work and the lifecycle commands; `MCSafeBoundary` instantiates it in two configurations, `SafeBoundaryProofs` proves it |
| `CheckpointStore` | rows, revisions and checkpoints of local characters; `CheckpointStoreProofs` |
| `PostSave` | extends `CheckpointStore` with the screens of saved characters in several windows; `MCPostSave` instantiates it in two configurations, `PostSaveProofs` proves it |
| `FinalAdmission` | decision, readiness and start on both installations; `MCFinalAdmission` instantiates it in two configurations, `FinalAdmissionProofs` proves it |

### ScopeFence

`table`, `generation`, `holder`, `retired` and `barrier` are the `scopes` map
and the fields of a `ScopeRecord`; `registered` and `ordinal` the channel
records; `down` is the native `channel.closed`, which turns true before the
host's loop calls `closeChannel`.  A lease is revoked exactly when another one
replaced it or its channel was closed, hence `Leased`.  `fenced` is a history
variable: the registered channels a recovery shut out.  Each exported function
is one action, because JavaScript runs it to completion; a refused call leaves
the state as it was and is a disabled action.  A `recover` whose revoke callback
throws leaves the scope without a lease (`fails`).

### CampaignQueue

`Run` is the synchronous part of `run`; `Start`, `Finish`, `Settle` and `Forget`
are the promise callbacks, in any order the promises allow: the next operation
may start before or after its predecessor's tail was taken from the map.
`prior` is the promise an operation was chained to, which is not always the
last accepted operation: the map may have been emptied.

### DeviceAdmission

| State | Code |
|---|---|
| `opened`, `submitted`, `log` | `hosted_technical_session`, `hosted_device_request` and its closures and decisions; `log[r]` is the history after the SUBMIT, its length the `requestRevision` |
| `campaign` | the current campaign checkpoint that OPEN and SUBMIT pin (`exactCampaign`) |
| `stage` | `Connection.stage`, with its transfer in `ScopeFence` |
| `busy` | a channel between the two scopes one RPC takes: the commit of an OPEN is durable before the session's scope is bound |
| `link`, `sent`, `answer` | a channel seen from the host, the request and the reply in flight |
| `outbox`, `proof` | `LocalNetworkOutbox`: NONE, PENDING, ACK, ABSENT (`OPEN_FAILURE` with `FENCED_ABSENT`), SETTLED (`CANCEL_SETTLE`) |
| `session`, `request`, `view` | `sessionOrNull`, `requestOrNull` and the confirmed history |
| `chan`, `flow` | the channel of `network-local-peer.ts` and the step of `deliver` that is waiting |

`HostServes` is one disjunct per RPC and outcome; `PlayerReads` is one per
continuation of `deliver`, `reconnect` and `applyRequestCurrent` after an
`await`.  Two durable writes that follow each other are two actions
(`PlayerEndsSubmit`, `PlayerAppliesCurrent`), so that a crash can fall between
them.  A player that leaves a channel (crash, deadline, closed tab) loses its
RAM; what was on its way to the host may still arrive, and nothing orders two
channels: the player's side of a channel is ready as soon as it has *sent* its
device proof and its first request follows at once, so a channel the player gave
up can be accepted after a newer one (`HostAcceptsProof`), or never
(`HostLosesProof`).

### AdmissionOrder

`DeviceAdmission` with one history variable, `overtaken`: the attempts whose OPEN
was on a channel that the host accepted after one the player opened later.  No
action reads it (`OrderIsHistory`).  It serves to say what becomes of a late OPEN
(`OrphansWereOvertaken`); section 5 shows such an OPEN.

### ConnectionGate

`cuts` and `receipt` are the durable ledgers of disconnects and of retries
(`persistence/campaign-lifecycle.ts`), `chan` and `gate` the channels of the host
and the gate each was admitted under, in RAM.  A gate string joins the ids of a
disconnect and of its retry; a receipt names its disconnect, so the id of the
retry stands for both.  `acted` is history: the latest disconnect when a device
last had an effect.  A retry is two actions, one for a new command and one for
the replay of a known one, which must not revive a channel a later disconnect
caught.

### SafeBoundary

| State | Code |
|---|---|
| `status`, `ledger`, `atCampaign` | durable lifecycle state, its events, the GM's cursor |
| `asked` | the revision a frame of the GM's browser expects |
| `line`, `running` | the serial queue of the campaign, in the form `CampaignQueue` proves: one by one, counted until settled |
| `stage` | the staged upload of a channel |
| `calls`, `step` | the chain of `createCampaignGmScheduler` and where its first call waits |
| `closing` | the scheduler was closed |

`Pending` is `pendingOperations`: the work that is in flight apart from the call
that asks.  A handler that awaits is several actions (`GmStarts`, `GmHashed`,
`GmEnds`), and `Decide` evaluates replay, freshness and the guards anew behind
each await, as the code does.  `since` on a piece of work is the campaign revision
under which it was accepted.

### CheckpointStore

`row` is `local_character`, `ckpt` its checkpoint.  A commit whose comparison of
before and after fails rolls the transaction back and is no step.  `named` is
history: which snapshots were given which state revision.

### PostSave

| State | Code |
|---|---|
| `heads`, `metadata`, `journal`, `cursor` | the durable tables of `persistence/local-character-post-save.ts` |
| `ctx` | `connection.current` of each window |
| `session` | `identitySessions` of the device |
| `pending` | the command a browser window waits for |
| `torn` | history: the host died between a commit and its adoption |

Each action that shows a window something ends in one `Deliver`: the answer
arrives; the answer is lost after the adoption; or the host dies between the
commit and the adoption, which are two transactions (`host/server.ts`).
`SaveValidDraft` has a third one before them, which opens the entry; a host that
dies after it leaves an entry without a receipt (`DiesHalfway`).
`Reconnect` follows the order of the code: the window's own command first, then
the cursor, then the session or the start.

### FinalAdmission

| State | Code |
|---|---|
| `revision`, `gm`, `decided`, `capacity`, `timeRevision`, `journal`, `scene` | durable on the host: campaign revision, GM decision, player decision, capacity, lobby events, the start |
| `up`, `holder`, `barrier` | the fence of `ScopeFence`, reduced to the one SESSION scope of a player |
| `sent`, `replied` | the wire; a request on an abandoned channel may still be executed |
| `publication`, `pending`, `absent`, `receipt`, `returned` | durable on the player: the proposal, the decision without an outcome, what was proved not applied, the outcome, the return to the selection |
| `observed`, `readying`, `refused` | durable on the player: its view of the lobby, the READY without an outcome, the refused ones |
| `intents` | history: every READY the player pressed |
| `chan`, `lastChan` | the channel of the player |

A commit of the host is one step (`HostExecutes`); a DECIDE is sent once and
everything after it is a RECOVER under the fence.

## 3. Runs

| Run | Bounds | Shows |
|---|---|---|
| `scope_fence` | 3 channels of one peer, 1 of another, 1 scope id, 1 transfer, `MaxScopes = 1`; 304,460 states | fence safety, with takeovers of takeovers, failing revokes, table drops and restarts |
| `campaign_queue` | 4 operations, 3 channels, 2 campaigns; 53,863 states | order, visibility, progress |
| `admission_safety` | `AdmissionOrder` with 2 attempts, 1 request, 3 transports, `MaxCampaign = 1`, `MaxScopes = 2`, 1 transfer; symmetry in attempts; 497,243 states | both durable sides stay consistent, and a session nobody waits for was opened on an overtaken channel |
| `admission_request` | 1 attempt, 2 requests, 2 transports, 2 campaign checkpoints; 1,017,437 states | refinement of `DeviceRequest`, one active request |
| `admission_live` | 1 attempt, 1 request, 3 transports; 483,399 states | a pending command resolves |
| `admission_fence` | 1 attempt, 1 request, 2 transports | a counterexample, see section 5 |
| `safe_boundary` | 3 transports of one device, 2 disconnects, 2 retries, 1 GM call at a time; symmetry in transports, retries and disconnects; 646,254 states | nothing is in flight over a disconnect, and a cut device stays silent |
| `safe_boundary_live` | 1 transport, one command of each kind, 1 retry, 2 GM calls; 2,031,340 states | the same for pause, resume and the password with its hashing, and progress |
| `post_save` | 2 windows, 2 characters, 3 entry or command ids, `MaxRevision = 3`; symmetry in windows and ids; 711,718 states | restore, edits and checkpoints stay consistent over lost answers, reloads and crashes |
| `post_save_crash` | the same | a counterexample, see section 5 |
| `final_admission` | 2 players, 3 copies of which one is blocked, capacities 2 and 3; the first player has 2 channels, 2 decisions and 2 READY, the second one of each; 1 initial time, capacity changes up to revision 1; 2,627,952 states | decisions are not orphaned, refusals are final, the start is by consent |
| `final_capacity` | the same with one of each, capacities 1 to 3, `MaxRevision = 3` | a counterexample, see section 5 |

Why the bounds are enough to be interesting.  Three channels of one peer give a
takeover of a channel that itself took over, and a late first frame of a third
one.  A table of one (or two) entries fills up.  Three operations on one campaign
give an operation whose predecessor's predecessor is unfinished.  Two requests
are needed for a second SUBMIT under an active one, two transports for every
lost answer followed by a recovery, the third for a late RECOVER of a half-open
channel.  `MaxCampaign = 2` (in `admission_request`) makes a pinned proof stale once.  Two disconnects are
the least for a retry that comes too late, three transports for one that was
admitted before, between and after them; two GM calls are one that executes and
one that waits behind it.  Two windows at one character and its variant are the
least for a commit under a foreign cursor; `MaxRevision = 3` is reached by the
heads, so that the largest safe integer refuses.  With one payload the snapshot of
a character changes once in this run, when it becomes final; counters and names of
longer histories of a row are the subject of the theorems about `CheckpointStore`.  Two channels of a player are the least for a
decision that is still on its way while its recovery is answered; the second
player makes places scarce and the readiness of the first stale.

Transports are numbered in the order they are opened, or used once, and ids are
used once; a run ends when they are used up, hence `CHECK_DEADLOCK FALSE` for
`DeviceAdmission` and `FinalAdmission`.  A closed executor without work, or a
fence whose channels are all used, really stops, and so does a `PostSave` whose
ids are used up with its windows at the start.  `SafeBoundary` is checked for
deadlock: a restart is always possible.

Properties (each is described where it is defined):

* `ScopeFence`: `FencedStaysOut`, `TransfersFollowLease`, `TableBounded`,
  `TakeoverRaisesGeneration`.
* `CampaignQueue`: `ExecutesInTurn`, `PendingIsSeen`, `EveryOpResolves`,
  `QueueDrains`.
* `DeviceAdmission`: `PlayerNeverAheadOfHost`, `CancelOutcomeIsTrue`,
  `OneActiveRequest`, `StageFollowsLease`, `BeginNeverBinds`, `OutcomesAreFinal`,
  `PendingResolves`, `ImplementsRequest`; and `FencedAbsenceIsFinal`, which the
  code violates.
* `AdmissionOrder`: `OrphansWereOvertaken`.
* `ConnectionGate`, checked with `SafeBoundary`: `SilentUntilRetry`,
  `OpenGateIsCurrent` (`OneRetryPerDisconnect` is proved only).
* `SafeBoundary`: `NothingStraddlesABoundary`, `EffectOnce`,
  `QuietReachesBoundary`.
* `CheckpointStore`, checked with `PostSave`: `CheckpointIsCurrent`,
  `CountersAgree`, `RevisionNamesSnapshot`.
* `PostSave`: `RestoreCursorDeliverable`, `PatchesAreSerial`, `FinalIsFrozen`,
  `CursorOpensUnlessTorn`; and `CursorOpens`, which the code violates.
* `FinalAdmission`: `NoOrphanedDecision`, `AbsenceIsFinal`,
  `ReturnedSeatsAreFree`, `StartedByConsent`; and `OccupiedPlacesFit`, which the
  code violates.

Definitions commented *Mutant* are wrong variants of the definition that follows
them; with one in its place the property named in `PROJECT.json` fails.

### Fairness

`CampaignQueue`: weak fairness of the promise callbacks and of `Finish`.  The
event loop runs every callback that is due, and each `execute` of the repository
is synchronous.  Nothing is assumed of callers, channels or `close`.

`DeviceAdmission`: weak fairness of the host executing what it received, of its
restart, of a device proof arriving (some one, not each: a proof may be lost
instead), of the player reading a reply and noticing a channel that ended.
Strong fairness of two actions.  `PlayerRecovers`: a pending command is taken up
again by the resumed tab, `resume` in `network-application.ts`; other deliveries
may come first.  `HostTimesOut`: `receiveRequest` arms a timer of `rpcTimeoutMs`
and closes the channel when no request arrives.  A player that repeats a refused
command re-arms it; strong fairness says that between repeats the timer gets its
turn now and then.  This is needed: a late RECOVER of an older, half-open channel
takes the session from the current one and raises the barrier over it, and only
the end of a channel lets the player open a fresh one.  `PendingResolves` is
stated with the proviso that transports are left to open, and for a campaign
whose checkpoint stands still: a SUBMIT whose pinned proof went stale is refused
at every retry and stays pending, by design.

`SafeBoundary`: weak fairness of the peers' queue (`PeerExecutes`,
`PeerSettles`), of the GM's chain (`GmStarts`, `GmHashed`, `GmEnds`) and, for each
channel, of the end of its loop and of the idle timer.  The event loop runs the
callbacks that are due, scrypt ends, and `receiveRequest` arms a timer that closes
a channel nobody uses.  `QuietReachesBoundary` assumes that from some moment on
nothing new arrives; nothing is assumed of the GM, the devices or the network.

## 4. Proofs

All theorems hold for every value of the constants that satisfies the named
assumptions of the module (`FenceAssumption`, `QueueAssumption`,
`GateAssumption`, `BoundaryAssumption`, `StoreAssumption`, `PostSaveAssumption`,
`FinalAssumption`, `NoneAssumption`, `AdmissionAssumption`): any sets of channels, peers, scopes,
operations, devices, players, characters, windows and ids, any limit of a table,
of calls and of the capacity and any largest revision.  The assumptions say little
more than that null is no value of the sets it stands beside;
`AdmissionAssumption` adds that the channels of one installation share one peer key,
which they do because an installation has one device key.

*Fence.* `FencedStaysOut` is not inductive: after a takeover it depends on the
record that keeps the fenced channel out.  `FenceInv` adds that the ordinals of
registered channels are at most the last one handed out (so a barrier raised to
it covers all of them), that a fenced channel which is still registered finds its
record in the table with itself retired or below the barrier (`ShutOut`), that a
record without a generation has no holder, that the table is finite (for
`Cardinality`) and that transfers follow leases.  The interesting step is the
drop of the table: it happens only when nothing is registered, so no fenced
channel is left to be kept out, and a channel is registered only once.
`ClosedIsEmpty` (a closed executor has no channels) is carried alongside for
`Reopen`.  The theorems are `TypeCorrect`, `FenceIsFinal`,
`TransfersAreLeased`, `TableStaysBounded` and `GenerationsDistinguishLeases`.

*Queue.* `ExecutesInTurn` needs the chain to be unbroken.  `QueueInv` adds that
tickets are distinct and grow, that the map points at the last unresolved
operation of a campaign (`TailIsLast`), that every unresolved operation accepted
before another one is the `prior` of that one or was accepted before its `prior`
(`PriorIsLast`), and that counting agrees with waiting.  A `close` empties the
map but not the chain: nothing is accepted after it, so the chain stays the only
order.  The theorems
are `QueueTypeCorrect`, `OperationsExecuteInTurn` and `PendingWorkIsSeen`.

*Gate.* `GateInv` adds to the checked properties that a disconnect was committed
for one device (`OneDevicePerCut`) and is released once
(`OneRetryPerDisconnect`).  The critical step is the commit of a retry: it
changes the current gate of a device from none to the retry, so every other open
channel of the device must carry none, and no channel of another device may be
touched.  Theorems: `GateTypeCorrect`, `CutDeviceIsSilent`, `GateNeverStale`,
`RetriesAreUnique`.

*Store.* That a revision names one snapshot does not follow from what is stored:
a later commit must not come back to a revision that is already named.
`StoreInv` therefore adds `NamedBelow` (no named revision is above the row's, and
the one that equals it names the row's snapshot) and `Untouched` (a row without
a checkpoint is a variant that named nothing).  Theorems: `StoreTypeCorrect`,
`CheckpointAlwaysCurrent`, `CountersAlwaysAgree`, `RevisionsNameSnapshots`.

*Post-save.* `StoreSteps` shows that every step of the windows is a step of the
store or leaves it alone, so that `StoreInv` carries over.  `PostSaveInv` relates
each head, receipt, cursor, context, session and awaited command to the store
(`HeadsGood`, `JournalGood`, `CursorGood`, `CtxInv`, `SessionGood`, `PendInv`).
The parts take the state they speak about as parameters, so that they can be said
of what an action is about to write; the three outcomes of a `Deliver` are then
treated once, in `DeliverKeeps`.  The interesting steps are those that write a
character: they retire the cursor of a restore and move the cursor past a scope
whose source they changed, unless the host dies in between.  Theorems:
`PostSaveTypeCorrect`, `RestoreAlwaysDeliverable`, `CursorAlwaysOpens`,
`FinalStaysFrozen`, and, by an invariant of its own, `PatchesAlwaysSerial`.

*Safe boundary.* `BoundaryImplementsGate` shows that every step of the host is a
step of `ConnectionGate` or leaves its state alone, so that `GateInv` and the
theorems of the gate carry over (`CutDeviceIsSilentInHost`,
`GateNeverStaleInHost`).  `NothingStraddlesABoundary` is not inductive, because the
guard of a lifecycle commit speaks about a number: `Pending`, minus the call that
asks.  `BoundaryInv` adds that a disconnect the gate knows is a command of the
ledger (`CutsCommitted`: the gate cuts a device off once per command, the host
looks in the ledger), that only a first operation runs and only a first call
awaits (`LineInOrder`, `CallsInOrder`), and that
the staged uploads are finitely many (`UploadsFinite`, for `Cardinality`).  The
critical step is the commit: the first call counts itself out, so `Pending` is 0
exactly when the line is empty, nothing is staged and the chain holds that call
alone; then nothing is left that could straddle the new revision.  Theorems:
`BoundaryTypeCorrect`, `NothingStraddles`, `LifecycleEffectsOnce`.

*Final admission.* None of the four invariants is inductive: they depend on what
is still on the wire.  `FinalInv` says that channels are used one after the other
and each carries one request (`WireInOrder`); that a DECIDE the player does not
wait for finds another holder (`DecidesFenced`, `OutOfTurn`); that a READY it does
not wait for is behind the barrier (`ReadiesFenced`, `ShutOut`); that an answer in
flight is so and nothing on its way can change it (`AnswerHolds`); that decisions
are numbered behind those proved absent, and readiness behind all that was pressed
(`DecisionsNumbered`, `ReadiesNumbered`); and how the stages of a request agree on
both sides (`StagesAgree`).  `NotOrphaned` and `AbsentForGood` are the invariants
themselves, of one player.
The interesting step is again the drop of the table when the
last channel ends: it forgets holder and barrier, and is sound only because a
channel that ended has nothing left in flight.  Theorems: `FinalTypeCorrect`,
`DecisionsNeverOrphaned`, `AbsenceStaysFinal`, `ReturnedSeatsStayFree`,
`StartByConsent`.

*Device admission.* Every step of the protocol is a step of `ScopeFence` or leaves
the fence alone (`AdmissionImplementsFence`), so `FenceInv` and the theorems of the
fence hold here (`FencedStaysOutOfSession`).  `BaseInv` says what holds whatever
arrives late: channels are used one after the other (`ChannelsInOrder`); each stage
has its tracked transfer (`StagesTracked`); what is on the wire, stored, in RAM or
being executed belongs to a command of the outbox (`HostOwned`, `BusyInside`); at
most one command is pending and what its journal says is true of the host
(`OutboxKinds`, `PlayerKnows`); the request in flight is the one the delivery waits
for and the answer to it is true (`FlowFits`, `SentFits`, `AnswerFits`).  The host
acts in twelve ways; the proof reduces them to `ServeFacts`, which says part by
part what serving may do, and shows the invariant once from that.  Theorems:
`AdmissionTypeCorrect`, `PlayerStaysBehindHost`, `CancelOutcomesAreTrue`,
`RequestsTakeTurns`, `StagesFollowLeases`, and `OutcomesStayFinal`.

`OrphansAreOvertaken` is proved of `AdmissionOrder`, for device proofs and frames
that arrive as late as they like.  `OpensFenced` says that an OPEN on the wire
comes before every recovery of its attempt, and that an OPEN the player was told
is unknown comes too late, unless its attempt was overtaken: on an accepted channel
that is shut out of the attempt, or on one whose proof is still under way while a
newer channel has already been accepted, so that its acceptance overtakes.  The
second half is the one a drop of the table cannot undo: ordinals, unlike barriers,
are kept until the host restarts.

`BindsNothing` is proved of `DeviceAdmission` itself.  A session is *settled* when
its scope is in the table, or when the table is full, so that a bind would be
refused.  `SessionsSettled` says where that is known: of a stored attempt that has
its record and is not being executed; of the session of every request but the
first of a channel; and, on the player's side, whenever its channel is accepted and
free.  A channel that is accepted late carries one of the first requests only, and a
drop of the table needs that no channel is registered, so neither disturbs it.

`AdmissionImplementsRequest` maps every step to a step or a stutter of
`DeviceRequest`.  It needs three facts more, `RequestInv`: a request that is not the
current one is closed (`FormerClosed`, for the guard of `Ask`), a pending SUBMIT
follows a closed request (`SubmitsInTurn`), and a pending CANCEL is one of a request
whose decision the player does not know (`CancelWaits`, so that a decision settles
it at once).

Only model-checked, because the prover does not handle fairness and ENABLED:
liveness (`EveryOpResolves`, `QueueDrains`, `PendingResolves`,
`QuietReachesBoundary`).  The properties of the runs that expect a violation are
false of the code as it is.

## 5. Disagreements between code and documentation

### A dropped barrier

`closeChannel` drops the whole scope table when no *registered* channel is left
(`campaign-network-executor.ts` 349-353), on the ground that "a future transport
cannot use any old barrier"; ADR 0066 allows the cleanup only after all former
physical principals were revoked.  A transport whose device proof is still on its
way is neither registered nor revoked.  The run `admission_fence` shows it: the
player sends its OPEN behind a device proof and gives the transport up; a second
transport recovers the attempt, is told NOT_FOUND, fenced, and the player durably
records `FENCED_ABSENT`; the second transport ends, the table is dropped; the
first proof arrives, its channel is registered with no barrier against it and its
OPEN is committed.  The host then holds a session nobody waits for.  This is the
only way to such a session: `OrphansWereOvertaken` is checked and proved, and says
that any session without a command of the player was opened on a channel the host
accepted after one the player opened later.

### A cursor that does not open any more

A command of a saved character commits in one transaction and
`adoptNavigationContext` moves the cursor of the device in another
(`host/server.ts` 1131).  The run `post_save_crash`: one window opens a character
from the library, which puts the cursor on its scope; another window commits a
wizard step of the same character and the host dies before the adoption.  The
scope under the cursor was signed for the checkpoint before that step, its
projection throws, and every reconnect of a window without a command of its own
fails from then on; only a successful reconnect would move the cursor.  ADR 0063
(51-52) says that a refresh selects the exact persisted cursor.  Without such a
crash the cursor always opens, which is proved (`CursorAlwaysOpens`).

### A capacity below the occupied places

The change of the capacity refuses a number below the ACTIVE copies
(`persistence/campaign-lifecycle-state.ts` 186-194).  Accepted copies with a
blocker stay PROPOSED and occupy a place too (ADR 0071, 125-127), and the codec of
the capacity header insists that the occupied places fit
(`host/campaign-admission-peer-codec.ts` 259-261).  The run `final_capacity`
lowers the capacity in between; then the host answers every capacity read with
UNAVAILABLE, and no player can accept or decline until the GM raises it again.

## 6. Not modelled, and the simplifications

* Cryptography, sockets, frame encoding and byte limits.  One chunk stands for
  the body of a SUBMIT, one key for the identity of a peer.
* `ScopeFence`: re-entrant revoke callbacks (`retiring`); the repository's
  callbacks only drop a RAM stage, which cannot throw.  The fence is still
  modelled with callbacks that throw.
* `DeviceAdmission`: the lane binding of batches prepared before request review
  existed; the connection gate (`ConnectionGate` has it); capacity,
  imported-source and baseline checks of BEGIN and COMMIT, whose refusal behaves
  as a stale proof does.  BEGIN under a stage of its own and the replay of a known
  OPEN: the player sends each OPEN once and never begins twice on a channel.
  `BEGIN` and `CANCEL` of a session that nobody holds would bind it;
  `BeginNeverBinds` shows that this is not reached.  The GM's view and
  queue cursor: `GmDecides` takes a decision at any moment the request allows one.
  One player, one tab, one request history per request; the periodic owner poll
  runs only when nothing is pending.
* `SafeBoundary`: the text of the views a call publishes, the audit chain of the
  lifecycle events, the ways a campaign ends.  A peer operation is reduced to
  whether it acts, uploads or retries; two devices do not interfere but through
  `Pending`, so the runs have one.
* `CheckpointStore` and `PostSave`: checksums and decoding of stored JSON, the
  checkpoints of campaigns, write intents, broken and diagnostic sources, archived
  copies, the identity form of a variant.  CHR-025 stands for every form of the
  creation wizard.  `session.reconnect` is the first message of a socket: the host
  would take another one on the same socket, and then write the draft of an open
  CHR-028 dialog before it reads the cursor (`host/server.ts` 6029-6038), but the
  client sends one per socket (`attachSocket` in `web/ws-client.ts`) and opens a new
  socket for the next.  The dialog itself is a step of the wizard.
* `FinalAdmission`: the review forms of the GM and their witnesses, the copy of a
  sheet into the campaign, seats, groups, locations and the clock of the scene, the
  transfer of publications in chunks, the hash chain of lobby events.
  The composition with the safe boundary: a commit of the host is one step.  A
  channel is one the host accepted: a DECIDE or READY follows an answered request
  on the same channel, so a late device proof does not carry one.
* Not modelled at all: identity of an installation, bind and discovery, handshake,
  network tabs, the creation stages and rolls, NPC authoring, web presentation.
  Much of it is sequential code over large rule tables, where a model would only
  repeat the tables.  What is worth a module is in the plan.

## 7. Plan

Done: `ScopeFence`, `CampaignQueue`, `DeviceAdmission` with `DeviceRequest`,
`ConnectionGate` with `SafeBoundary`, `CheckpointStore` with `PostSave`,
`FinalAdmission`, and the proofs of section 4.

Left, most important first:

1. `RequestReview`: GM view, queue cursor and draft with their compare-and-set,
   against requests that arrive and are cancelled.
2. Proofs about `DeviceRequest` alone (histories only grow, CANCEL and decision
   exclude each other), which `AdmissionImplementsRequest` then carries over to the
   protocol.
3. `PeerChannel`: handshake order, sequence numbers, idle timer, back-pressure.
4. Network tabs, the staged reconnect of the web client, the two-step checkpoint
   of an identity, the roll model.
