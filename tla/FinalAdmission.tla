---------------------------- MODULE FinalAdmission ----------------------------
(***************************************************************************)
(* Final admission of the characters of a request, and the lobby in which  *)
(* the campaign waits for its start (persistence/campaign-admission-*,     *)
(* campaign-lobby*, host/campaign-admission-peer-runtime on the host of    *)
(* the GM; persistence/local-campaign-admission, host/network-application  *)
(* on the installation of a player).                                       *)
(*                                                                         *)
(* The GM accepts a request and publishes a proposal.  Its player accepts  *)
(* or declines it: the decision is pinned in the player's journal, sent,   *)
(* and after any uncertainty recovered under a fence.  Accepted characters *)
(* take places; those without blockers are ACTIVE.  In the lobby every     *)
(* device with an ACTIVE character declares itself ready for exactly what  *)
(* it observed, and the GM starts the campaign once all are.               *)
(*                                                                         *)
(* One request per player; a commit of the host is one step.  The table of *)
(* scopes (module ScopeFence) is reduced to the SESSION scope of a player: *)
(* its holder and its barrier.  A request sent on a channel the player has *)
(* given up may still be executed, until the host closes that channel; a   *)
(* restart of the host closes all of them, and of the player only what is  *)
(* not durable goes.  A DECIDE is sent once, and what follows is a         *)
(* RECOVER.  What only reads the host (a publication, the capacity, the    *)
(* lobby) is one step with what the player saves of it.  Group labels,     *)
(* seats, locations and the transfer of large bodies in chunks are left    *)
(* out; the GM acts on what the host holds now, since a command on an      *)
(* older view is refused and changes nothing.                              *)
(***************************************************************************)
EXTENDS Naturals, FiniteSets, Sequences

CONSTANTS
    Players,
    Copies,         \* campaign copies of the characters of all requests
    OwnerOf,        \* copy -> its player
    Blocked,        \* copies with a blocker: accepted, they stay PROPOSED
    Capacities,     \* what the GM may choose as activePlayerCapacity
    MaxChannels,    \* bound: channels a player opens; it keeps the last
    MaxDecides,     \* bound: decisions a player tries
    MaxReadies,     \* bound: READY commands of a player
    MaxTimes,       \* bound: initial times the GM sets
    MaxRevision,    \* bound: revision up to which the capacity is changed
    None

ASSUME FinalAssumption ==
    /\ OwnerOf \in [Copies -> Players]
    /\ IsFiniteSet(Copies)
    /\ Blocked \subseteq Copies
    /\ Capacities \subseteq Nat
    /\ MaxChannels \in [Players -> Nat]
    /\ MaxDecides \in [Players -> Nat]
    /\ MaxReadies \in [Players -> Nat]
    /\ MaxTimes \in Nat /\ MaxRevision \in Nat

VARIABLES
    \* Host, durable
    revision,       \* stateRevision of the campaign
    gm,             \* GM decision on the request of a player
    decided,        \* the player decision that was committed, as it was requested
    capacity,       \* activePlayerCapacity
    timeRevision,   \* initial times set so far
    journal,        \* READY events of a player's device
    scene,          \* snapshot the campaign was started with
    \* Host, RAM
    up,             \* registered channels of a player
    holder,         \* channel that holds the SESSION scope
    barrier,        \* channels the last takeover shut out
    \* The wire
    sent,           \* requests in flight to the host
    replied,        \* reply in flight to the player, on its current channel
    \* Player, durable
    publication,    \* the GM decision it received
    pending,        \* decision it has no outcome of
    absent,         \* decisions proved NOT_APPLIED
    receipt,        \* decision that was acknowledged
    returned,       \* it went back to the selection of characters
    observed,       \* last observation of the lobby, None if an ACK waits for a newer one
    readying,       \* READY command it has no outcome of
    intents,        \* all READY commands of its journal
    refused,        \* READY commands that were refused
    \* Player, RAM
    chan,           \* current channel, 0 for none
    lastChan        \* channels opened so far

hostVars == <<revision, gm, decided, capacity, timeRevision, journal, scene>>
fenceVars == <<up, holder, barrier>>
wireVars == <<sent, replied>>
decisionVars == <<publication, pending, absent, receipt, returned>>
readyVars == <<observed, readying, intents, refused>>
chanVars == <<chan, lastChan>>
playerVars == <<decisionVars, readyVars, chanVars>>
vars == <<hostVars, fenceVars, wireVars, playerVars>>

Kinds == {"ACCEPT", "DECLINE"}
Snapshots == [copies : SUBSET Copies, time : Nat]
Decisions == [cmd : Nat, kind : Kinds, exp : Nat]
Readies == [cmd : Nat, ready : BOOLEAN, snap : Snapshots]
Observations == [snap : Snapshots, ready : BOOLEAN, started : BOOLEAN]
Requests ==
    [op : {"DECIDE", "RECOVER"}, ch : Nat, body : Decisions]
    \cup [op : {"READY"}, ch : Nat, body : Readies]
Replies ==
    [kind : {"DECIDED", "ABSENT"}, body : Decisions]
    \cup [kind : {"READIED", "READY_REFUSED"}, body : Readies]
    \cup [kind : {"REFUSED"}, body : {None}]

\* None is null, beside every value it may stand for.
ASSUME NoneAssumption ==
    /\ None \notin {"ACCEPT", "REJECT"}
    /\ None \notin Snapshots /\ None \notin Decisions /\ None \notin Readies
    /\ None \notin Observations /\ None \notin Replies

(* The state is what it should be; a channel in use is registered, and the *)
(* barrier is not ahead of the ordinals given out (registerChannel,        *)
(* recoverScope).                                                          *)
FinalTypeOK ==
    /\ revision \in Nat
    /\ gm \in [Players -> {"ACCEPT", "REJECT", None}]
    /\ decided \in [Players -> Decisions \cup {None}]
    /\ capacity \in Capacities
    /\ timeRevision \in Nat
    /\ journal \in [Players -> Seq(Readies)]
    /\ scene \in Snapshots \cup {None}
    /\ sent \in [Players -> SUBSET Requests]
    /\ replied \in [Players -> Replies \cup {None}]
    /\ publication \in [Players -> {"ACCEPT", "REJECT", None}]
    /\ pending \in [Players -> Decisions \cup {None}]
    /\ absent \in [Players -> SUBSET Nat]
    /\ receipt \in [Players -> Decisions \cup {None}]
    /\ returned \in [Players -> BOOLEAN]
    /\ observed \in [Players -> Observations \cup {None}]
    /\ readying \in [Players -> Readies \cup {None}]
    /\ intents \in [Players -> SUBSET Readies]
    /\ refused \in [Players -> SUBSET Nat]
    /\ lastChan \in [Players -> Nat]
    /\ DOMAIN up = Players /\ DOMAIN holder = Players
    /\ DOMAIN barrier = Players /\ DOMAIN chan = Players
    /\ \A p \in Players :
        /\ up[p] \subseteq 1..lastChan[p]
        /\ holder[p] \in 0..lastChan[p]
        /\ barrier[p] \in 0..lastChan[p]
        /\ chan[p] \in up[p] \cup {0}

Init ==
    /\ revision = 0
    /\ gm = [p \in Players |-> None]
    /\ decided = [p \in Players |-> None]
    /\ capacity \in Capacities
    /\ timeRevision = 0
    /\ journal = [p \in Players |-> << >>]
    /\ scene = None
    /\ up = [p \in Players |-> {}]
    /\ holder = [p \in Players |-> 0]
    /\ barrier = [p \in Players |-> 0]
    /\ sent = [p \in Players |-> {}]
    /\ replied = [p \in Players |-> None]
    /\ publication = [p \in Players |-> None]
    /\ pending = [p \in Players |-> None]
    /\ absent = [p \in Players |-> {}]
    /\ receipt = [p \in Players |-> None]
    /\ returned = [p \in Players |-> FALSE]
    /\ observed = [p \in Players |-> None]
    /\ readying = [p \in Players |-> None]
    /\ intents = [p \in Players |-> {}]
    /\ refused = [p \in Players |-> {}]
    /\ chan = [p \in Players |-> 0]
    /\ lastChan = [p \in Players |-> 0]

-----------------------------------------------------------------------------
(* What the history of the campaign amounts to.                            *)

Own(p) == {c \in Copies : OwnerOf[c] = p}

Accepted(p) == decided[p] # None /\ decided[p].kind = "ACCEPT"

\* occupiedCampaignPlaceCount counts these, activePcCount the ones without blockers.
Placed == {c \in Copies : Accepted(OwnerOf[c])}
Occupied == Cardinality(Placed)
Included == Placed \ Blocked

\* campaignLobbySnapshotRevision, up to the hash.
Snapshot == [copies |-> Included, time |-> timeRevision]

\* Mutant: a proof counts whatever it was given for.
IsReadyForever(p) ==
    /\ journal[p] # << >>
    /\ journal[p][Len(journal[p])].ready

\* readyByDevice: the last proof counts as long as the lobby is what it was given for.
IsReady(p) ==
    /\ journal[p] # << >>
    /\ journal[p][Len(journal[p])].ready
    /\ journal[p][Len(journal[p])].snap = Snapshot

Fits(p) == Occupied + Cardinality(Own(p)) <= capacity

-----------------------------------------------------------------------------
(* The SESSION scope of a player in the executor's table.                  *)

MayHold(p, c) == c \in up[p] /\ (holder[p] = c \/ c > barrier[p])

\* Mutant: the barrier also covers the next channel.
TakeOverBeyond(p, c) ==
    /\ MayHold(p, c)
    /\ holder' = [holder EXCEPT ![p] = c]
    /\ barrier' = [barrier EXCEPT ![p] = IF holder[p] = c THEN @ ELSE lastChan[p] + 1]
    /\ UNCHANGED up

\* recoverScope: a takeover shuts out every channel that is registered by now.
TakeOver(p, c) ==
    /\ MayHold(p, c)
    /\ holder' = [holder EXCEPT ![p] = c]
    /\ barrier' = [barrier EXCEPT ![p] = IF holder[p] = c THEN @ ELSE lastChan[p]]
    /\ UNCHANGED up

\* bindScope: only the holder, or the first one after the table was dropped.
MayBind(p, c) == MayHold(p, c) /\ holder[p] \in {0, c}

Bind(p, c) ==
    /\ MayBind(p, c)
    /\ holder' = [holder EXCEPT ![p] = c]
    /\ UNCHANGED <<up, barrier>>

\* The answer to a request; nobody hears it on a channel the player has given up.
Answer(p, m, kind, body) ==
    /\ sent' = [sent EXCEPT ![p] = @ \ {m}]
    /\ replied' = [replied EXCEPT ![p] =
                     IF m.ch = chan[p] THEN [kind |-> kind, body |-> body] ELSE @]

Refuse(p, m) == Answer(p, m, "REFUSED", None) /\ UNCHANGED <<hostVars, fenceVars>>

-----------------------------------------------------------------------------
(* The GM.                                                                 *)

\* commitAdmissionGmDecision: an ACCEPT publishes the copies as PROPOSED.
GmDecides(p, kind) ==
    /\ gm[p] = None
    /\ scene = None
    /\ gm' = [gm EXCEPT ![p] = kind]
    /\ revision' = IF kind = "ACCEPT" THEN revision + 1 ELSE revision
    /\ UNCHANGED <<decided, capacity, timeRevision, journal, scene, fenceVars, wireVars,
                   playerVars>>

\* UI-CMD-CAMPAIGN-INITIAL-TIME-SET, to another time.
GmSetsTime ==
    /\ scene = None
    /\ timeRevision < MaxTimes
    /\ timeRevision' = timeRevision + 1
    /\ UNCHANGED <<revision, gm, decided, capacity, journal, scene, fenceVars, wireVars,
                   playerVars>>

\* UI-CMD-CAMPAIGN-CAPACITY-SET.  To the capacity there is, it stands for every
\* other lifecycle command: they all advance the revision.
GmSetsCapacity(n) ==
    /\ scene = None
    /\ revision < MaxRevision
    /\ n >= Cardinality(Included)
    /\ capacity' = n
    /\ revision' = revision + 1
    /\ UNCHANGED <<gm, decided, timeRevision, journal, scene, fenceVars, wireVars, playerVars>>

\* preflight = READY_TO_START
Preflight ==
    /\ timeRevision > 0
    /\ Included # {}
    /\ \A c \in Included : IsReady(OwnerOf[c])

\* UI-CMD-CAMPAIGN-START
GmStarts ==
    /\ scene = None
    /\ Preflight
    /\ scene' = Snapshot
    /\ revision' = revision + 1
    /\ UNCHANGED <<gm, decided, capacity, timeRevision, journal, fenceVars, wireVars,
                   playerVars>>

-----------------------------------------------------------------------------
(* The host executes a request of a player's channel in one turn.          *)

\* Mutant: a decision is applied to a campaign that was started meanwhile.
DecidableLate(p, d) ==
    /\ gm[p] = "ACCEPT"
    /\ decided[p] = None
    /\ d.exp = revision
    /\ d.kind = "ACCEPT" => Fits(p)

\* The refusals of commitAdmissionPlayerDecision and its plan.
Decidable(p, d) ==
    /\ gm[p] = "ACCEPT"
    /\ decided[p] = None
    /\ scene = None
    /\ d.exp = revision
    /\ d.kind = "ACCEPT" => Fits(p)

\* ADMISSION_PLAYER_DECIDE
HostDecides(p, m) ==
    /\ m.op = "DECIDE"
    /\ Bind(p, m.ch)
    /\ Decidable(p, m.body)
    /\ decided' = [decided EXCEPT ![p] = m.body]
    /\ revision' = revision + 1
    /\ Answer(p, m, "DECIDED", m.body)
    /\ UNCHANGED <<gm, capacity, timeRevision, journal, scene>>

HostRefusesDecision(p, m) ==
    /\ m.op = "DECIDE"
    /\ ~(MayBind(p, m.ch) /\ Decidable(p, m.body))
    /\ Refuse(p, m)

\* Mutant: the answer is given without the fence.
HostRecoversUnfenced(p, m) ==
    /\ m.op = "RECOVER"
    /\ MayHold(p, m.ch)
    /\ CASE decided[p] = None -> Answer(p, m, "ABSENT", m.body)
         [] decided[p] = m.body -> Answer(p, m, "DECIDED", m.body)
         [] OTHER -> Answer(p, m, "REFUSED", None)
    /\ UNCHANGED <<hostVars, fenceVars>>

\* ADMISSION_PLAYER_RECOVER: the fence first, then what became of the command.
HostRecovers(p, m) ==
    /\ m.op = "RECOVER"
    /\ TakeOver(p, m.ch)
    /\ CASE decided[p] = None -> Answer(p, m, "ABSENT", m.body)
         [] decided[p] = m.body -> Answer(p, m, "DECIDED", m.body)
         [] OTHER -> Answer(p, m, "REFUSED", None)
    /\ UNCHANGED hostVars

ReadyApplies(p, r) ==
    /\ scene = None
    /\ r.snap = Snapshot
    /\ Own(p) \cap Included # {}
    /\ IsReady(p) # r.ready

InJournal(p, cmd) == \E i \in 1..Len(journal[p]) : journal[p][i].cmd = cmd

\* ADMISSION_LOBBY_READY: a known command is acknowledged again.
HostReadies(p, m) ==
    /\ m.op = "READY"
    /\ TakeOver(p, m.ch)
    /\ \/ /\ InJournal(p, m.body.cmd)
          /\ Answer(p, m, "READIED", m.body)
          /\ UNCHANGED journal
       \/ /\ ~InJournal(p, m.body.cmd)
          /\ ReadyApplies(p, m.body)
          /\ journal' = [journal EXCEPT ![p] = Append(@, m.body)]
          /\ Answer(p, m, "READIED", m.body)
       \/ /\ ~InJournal(p, m.body.cmd)
          /\ ~ReadyApplies(p, m.body)
          /\ Answer(p, m, "READY_REFUSED", m.body)
          /\ UNCHANGED journal
    /\ UNCHANGED <<revision, gm, decided, capacity, timeRevision, scene>>

HostRefusesStale(p, m) ==
    /\ m.op \in {"RECOVER", "READY"}
    /\ ~MayHold(p, m.ch)
    /\ Refuse(p, m)

HostExecutes(p) ==
    /\ \E m \in sent[p] :
        \/ HostDecides(p, m)
        \/ HostRefusesDecision(p, m)
        \/ HostRecovers(p, m)
        \/ HostReadies(p, m)
        \/ HostRefusesStale(p, m)
    /\ UNCHANGED playerVars

\* The host notices that a channel ended, or restarts; with the last channel of
\* all the table of scopes goes.
HostCloses(p, c) ==
    /\ c \in up[p]
    /\ c # chan[p]
    /\ up' = [up EXCEPT ![p] = @ \ {c}]
    /\ sent' = [sent EXCEPT ![p] = {m \in @ : m.ch # c}]
    /\ IF \A q \in Players : up'[q] = {}
       THEN /\ holder' = [q \in Players |-> 0]
            /\ barrier' = [q \in Players |-> 0]
       ELSE UNCHANGED <<holder, barrier>>
    /\ UNCHANGED <<hostVars, replied, playerVars>>

-----------------------------------------------------------------------------
(* The player's installation: one thing at a time.                         *)

\* reconnect: the refresh of the request takes the scope over, unless it fails and the
\* next poll goes on with the channel as it is.
Connect(p) ==
    /\ chan[p] = 0
    /\ lastChan[p] < MaxChannels[p]
    /\ LET c == lastChan[p] + 1 IN
        /\ lastChan' = [lastChan EXCEPT ![p] = c]
        /\ chan' = [chan EXCEPT ![p] = c]
        /\ up' = [up EXCEPT ![p] = @ \cup {c}]
        /\ \/ UNCHANGED <<holder, barrier>>
           \/ /\ holder' = [holder EXCEPT ![p] = c]
              /\ barrier' = [barrier EXCEPT ![p] = c]
    /\ UNCHANGED <<hostVars, wireVars, decisionVars, readyVars>>

\* The channel fails, or the installation crashes.
Lose(p) ==
    /\ chan[p] # 0
    /\ chan[p] < MaxChannels[p]
    /\ chan' = [chan EXCEPT ![p] = 0]
    /\ replied' = [replied EXCEPT ![p] = None]
    /\ UNCHANGED <<hostVars, fenceVars, sent, decisionVars, readyVars, lastChan>>

Idle(p) ==
    /\ chan[p] # 0
    /\ replied[p] = None
    /\ \A m \in sent[p] : m.ch # chan[p]

Send(p, op, body) ==
    /\ sent' = [sent EXCEPT ![p] = @ \cup {[op |-> op, ch |-> chan[p], body |-> body]}]
    /\ UNCHANGED replied

\* receiveLocalAdmissionPublication
ReceivePublication(p) ==
    /\ Idle(p)
    /\ publication[p] = None
    /\ gm[p] # None
    /\ Bind(p, chan[p])
    /\ publication' = [publication EXCEPT ![p] = gm[p]]
    /\ UNCHANGED <<hostVars, wireVars, pending, absent, receipt, returned, readyVars, chanVars>>

\* The capacity header a decision is taken from: the codec refuses one with more
\* places occupied than there are.
HeaderReadable(p) == MayBind(p, chan[p]) /\ Occupied <= capacity

\* Mutant: a new decision while the last one has no outcome yet.
UndecidedAnyhow(p) == publication[p] = "ACCEPT" /\ receipt[p] = None

Undecided(p) ==
    /\ publication[p] = "ACCEPT"
    /\ pending[p] = None
    /\ receipt[p] = None

\* ownerCommand: the fresh header, the INTENT in the journal, the DECIDE.
Decide(p, kind) ==
    /\ Idle(p)
    /\ Undecided(p)
    /\ Cardinality(absent[p]) < MaxDecides[p]
    /\ HeaderReadable(p)
    /\ kind = "ACCEPT" => Fits(p)
    /\ Bind(p, chan[p])
    /\ LET d == [cmd |-> Cardinality(absent[p]) + 1, kind |-> kind, exp |-> revision] IN
        /\ pending' = [pending EXCEPT ![p] = d]
        /\ Send(p, "DECIDE", d)
    /\ UNCHANGED <<hostVars, publication, absent, receipt, returned, readyVars, chanVars>>

\* deliverOwnerDecision(recovery = true)
Recover(p) ==
    /\ Idle(p)
    /\ pending[p] # None
    /\ Send(p, "RECOVER", pending[p])
    /\ UNCHANGED <<hostVars, fenceVars, playerVars>>

\* ownerReady: the READY_INTENT, taken from the last observation.
PressReady(p) ==
    /\ chan[p] # 0
    /\ receipt[p] # None /\ receipt[p].kind = "ACCEPT"
    /\ observed[p] # None
    /\ readying[p] = None
    /\ ~observed[p].started
    /\ observed[p].snap.copies \cap Own(p) # {}
    /\ Cardinality(intents[p]) < MaxReadies[p]
    /\ LET r == [cmd |-> Cardinality(intents[p]) + 1, ready |-> ~observed[p].ready,
                 snap |-> observed[p].snap] IN
        /\ readying' = [readying EXCEPT ![p] = r]
        /\ intents' = [intents EXCEPT ![p] = @ \cup {r}]
    /\ UNCHANGED <<hostVars, fenceVars, wireVars, decisionVars, observed, refused, chanVars>>

\* refreshOwnerLobby: a pending READY goes first.
SendReady(p) ==
    /\ Idle(p)
    /\ readying[p] # None
    /\ Send(p, "READY", readying[p])
    /\ UNCHANGED <<hostVars, fenceVars, playerVars>>

\* ADMISSION_LOBBY_BEGIN or CAMPAIGN_LOBBY_CHECK, ownerLobby and LOBBY_OBSERVATION.
ObserveLobby(p) ==
    /\ Idle(p)
    /\ receipt[p] # None /\ receipt[p].kind = "ACCEPT"
    /\ readying[p] = None
    /\ Bind(p, chan[p])
    /\ observed' = [observed EXCEPT ![p] =
                      [snap |-> Snapshot, ready |-> IsReady(p), started |-> scene # None]]
    /\ UNCHANGED <<hostVars, wireVars, decisionVars, readying, intents, refused, chanVars>>

\* The reply is saved: ACK, FENCED_ABSENT, READY_ACK or READY_REFUSED; a plain
\* refusal proves nothing.
Read(p) ==
    /\ replied[p] # None
    /\ replied' = [replied EXCEPT ![p] = None]
    /\ LET r == replied[p] IN
        /\ pending' = IF r.kind \in {"DECIDED", "ABSENT"}
                      THEN [pending EXCEPT ![p] = None] ELSE pending
        /\ receipt' = IF r.kind = "DECIDED"
                      THEN [receipt EXCEPT ![p] = r.body] ELSE receipt
        /\ absent' = IF r.kind = "ABSENT"
                     THEN [absent EXCEPT ![p] = @ \cup {r.body.cmd}] ELSE absent
        /\ readying' = IF r.kind \in {"READIED", "READY_REFUSED"}
                       THEN [readying EXCEPT ![p] = None] ELSE readying
        /\ refused' = IF r.kind = "READY_REFUSED"
                      THEN [refused EXCEPT ![p] = @ \cup {r.body.cmd}] ELSE refused
        /\ observed' = IF r.kind = "READIED"
                       THEN [observed EXCEPT ![p] = None] ELSE observed
    /\ UNCHANGED <<hostVars, fenceVars, sent, publication, returned, intents, chanVars>>

\* Mutant: a decision without an outcome counts as declined.
ReturnableUndecided(p) == publication[p] = "REJECT" \/ receipt[p] = None

Returnable(p) ==
    /\ pending[p] = None
    /\ \/ publication[p] = "REJECT"
       \/ receipt[p] # None /\ receipt[p].kind = "DECLINE"

\* returnFromLocalAdmission: the seats that were prepared are closed.
Return(p) ==
    /\ ~returned[p]
    /\ Returnable(p)
    /\ returned' = [returned EXCEPT ![p] = TRUE]
    /\ UNCHANGED <<hostVars, fenceVars, wireVars, publication, pending, absent, receipt,
                   readyVars, chanVars>>

-----------------------------------------------------------------------------
Next ==
    \/ \E p \in Players :
        \/ \E kind \in {"ACCEPT", "REJECT"} : GmDecides(p, kind)
        \/ HostExecutes(p)
        \/ \E c \in up[p] : HostCloses(p, c)
        \/ Connect(p)
        \/ Lose(p)
        \/ ReceivePublication(p)
        \/ \E kind \in Kinds : Decide(p, kind)
        \/ Recover(p)
        \/ PressReady(p)
        \/ SendReady(p)
        \/ ObserveLobby(p)
        \/ Read(p)
        \/ Return(p)
    \/ GmSetsTime
    \/ \E n \in Capacities : GmSetsCapacity(n)
    \/ GmStarts

Spec == Init /\ [][Next]_vars

-----------------------------------------------------------------------------
(* What the host committed for a player is what the player holds a receipt *)
(* of or still asks for, by the same command: no crash and no lost answer  *)
(* leaves a decision whose recovery could only be refused as a conflict    *)
(* (commitAdmissionPlayerDecision, acknowledgeLocalAdmissionDecision).     *)
NoOrphanedDecision ==
    \A p \in Players :
        /\ decided[p] # None => receipt[p] = decided[p] \/ pending[p] = decided[p]
        /\ receipt[p] # None => receipt[p] = decided[p]

(* What the player was told will not happen never happens: a decision      *)
(* proved NOT_APPLIED and a READY that was refused are not in the history  *)
(* of the host, although a request for them may still be on its way on an  *)
(* older channel (leaseAt, FENCED_ABSENT, READY_REFUSED).                  *)
AbsenceIsFinal ==
    \A p \in Players :
        /\ decided[p] # None => decided[p].cmd \notin absent[p]
        /\ \A n \in refused[p] : ~InJournal(p, n)

(* The seats that a RETURN closes are not those of an admitted character:  *)
(* no accepted decision is committed or could still be                     *)
(* (returnFromLocalAdmission, assertLocalAdmissionTabMutable).             *)
ReturnedSeatsAreFree ==
    \A p \in Players : returned[p] =>
        ~Accepted(p) /\ (pending[p] = None \/ pending[p].kind = "DECLINE")

(* The campaign starts with exactly the characters and the time that every *)
(* included player itself saw when it declared itself ready, it never      *)
(* withdrew that, and a decision in flight does not join later             *)
(* (planCampaignLobbyEvent, readyByDevice, commitAdmissionPlayerDecision). *)
StartedByConsent ==
    scene # None =>
        /\ scene = Snapshot
        /\ \A c \in scene.copies :
            LET p == OwnerOf[c] IN
            \E r \in intents[p] :
                /\ r.ready
                /\ r.snap = scene
                /\ journal[p] # << >> /\ journal[p][Len(journal[p])] = r

(* Accepted characters never take more places than the campaign has: the   *)
(* answer to ADMISSION_CAPACITY_READ is decoded under this assumption      *)
(* (capacityResponse of campaign-admission-peer-codec).                    *)
OccupiedPlacesFit == Occupied <= capacity

=============================================================================
