---------------------------- MODULE ConnectionGate ----------------------------
(***************************************************************************)
(* The disconnect gate of a hosted campaign.  The GM cuts a device off     *)
(* with a durable lifecycle event; only an explicit, authenticated retry   *)
(* that names this event lets the device act again.  Every private channel *)
(* of the device carries in RAM the gate it was admitted under             *)
(* (device-admission-peer-runtime.ts), the ledgers of disconnects and of   *)
(* retries are durable (campaign-lifecycle.ts).                            *)
(*                                                                         *)
(* A gate string is `<disconnect>/<retry>'.  A receipt names its           *)
(* disconnect, so the model keeps the id of the retry alone.  The          *)
(* lifecycle ledger is kept per device, the part the gate reads.           *)
(***************************************************************************)
EXTENDS Naturals, Sequences

CONSTANTS
    Channels,    \* physical server channels, each used once
    Devices,
    DeviceOf,    \* the device that proved its identity on a channel
    Commands,    \* ids of the GM's lifecycle commands
    Retries,     \* ids of reconnect commands
    Initial,     \* the gate of a device that was never disconnected
    None         \* null

ASSUME GateAssumption ==
    /\ DeviceOf \in [Channels -> Devices]
    /\ Initial # None
    /\ Initial \notin Retries
    /\ None \notin Retries
    /\ None \notin Commands

VARIABLES
    cuts,      \* durable: the disconnects of a device, oldest first
    receipt,   \* durable campaign_disconnect_retry: the disconnect a retry names
    chan,      \* NEW, OPEN, DOWN (closed, its loop has not ended yet), CLOSED
    gate,      \* Connection.gate
    acted      \* history: the latest disconnect when the device last acted

gateVars == <<cuts, receipt, chan, gate, acted>>

GateTypeOK ==
    /\ cuts \in [Devices -> Seq(Commands)]
    /\ receipt \in [Retries -> Commands \cup {None}]
    /\ chan \in [Channels -> {"NEW", "OPEN", "DOWN", "CLOSED"}]
    /\ gate \in [Channels -> Retries \cup {Initial, None}]
    /\ acted \in [Devices -> Commands \cup {None}]

GateInit ==
    /\ cuts = [d \in Devices |-> <<>>]
    /\ receipt = [r \in Retries |-> None]
    /\ chan = [c \in Channels |-> "NEW"]
    /\ gate = [c \in Channels |-> None]
    /\ acted = [d \in Devices |-> None]

-----------------------------------------------------------------------------
\* The latest disconnect of a device.
Latest(d) == IF cuts[d] = <<>> THEN None ELSE cuts[d][Len(cuts[d])]

\* The retries whose receipt names disconnect n.
Releases(n) == {r \in Retries : receipt[r] = n}

Known(n) == \E d \in Devices : \E i \in DOMAIN cuts[d] : cuts[d][i] = n

\* Mutant: a disconnect that nobody retried leaves the device its initial gate.
CurrentGateInitial(d) ==
    IF Latest(d) = None \/ Releases(Latest(d)) = {} THEN Initial
    ELSE CHOOSE r \in Releases(Latest(d)) : TRUE

\* campaignConnectionGate of the durable status.
CurrentGate(d) ==
    IF Latest(d) = None THEN Initial
    ELSE IF Releases(Latest(d)) = {} THEN None
    ELSE CHOOSE r \in Releases(Latest(d)) : TRUE

\* What every handler but the connection's own asks first.
Admitted(c) == gate[c] # None /\ gate[c] = CurrentGate(DeviceOf[c])

Live(c) == chan[c] = "OPEN"

-----------------------------------------------------------------------------
\* Mutant: the gate is the id of the disconnect, not of its retry.
RegisterLatest(c) ==
    /\ chan[c] = "NEW"
    /\ chan' = [chan EXCEPT ![c] = "OPEN"]
    /\ gate' = [gate EXCEPT ![c] = IF Latest(DeviceOf[c]) = None THEN Initial
                                      ELSE Latest(DeviceOf[c])]
    /\ UNCHANGED <<cuts, receipt, acted>>

\* run: register the channel under the device's current gate.
Register(c) ==
    /\ chan[c] = "NEW"
    /\ chan' = [chan EXCEPT ![c] = "OPEN"]
    /\ gate' = [gate EXCEPT ![c] = CurrentGate(DeviceOf[c])]
    /\ UNCHANGED <<cuts, receipt, acted>>

\* The channel closes, at either end or by a timeout.
Drop(c) ==
    /\ Live(c)
    /\ chan' = [chan EXCEPT ![c] = "DOWN"]
    /\ UNCHANGED <<cuts, receipt, gate, acted>>

\* The loop of a closed channel ends.
EndLoop(c) ==
    /\ chan[c] = "DOWN"
    /\ chan' = [chan EXCEPT ![c] = "CLOSED"]
    /\ UNCHANGED <<cuts, receipt, gate, acted>>

\* The device does something that changes the campaign.
Act(c) ==
    /\ Live(c)
    /\ Admitted(c)
    /\ acted' = [acted EXCEPT ![DeviceOf[c]] = Latest(DeviceOf[c])]
    /\ UNCHANGED <<cuts, receipt, chan, gate>>

\* The open channels of a device, captured by prepareDisconnect.
Captured(d) == {c \in Channels : DeviceOf[c] = d /\ Live(c)}

\* prepareDisconnect refuses a device that has no channel, or none that may act.
MayDisconnect(d) == \E c \in Captured(d) : Admitted(c)

\* The disconnect is committed and, in the same turn of the event loop, retire
\* closes the captured channels.
Disconnect(d, n) ==
    /\ cuts' = [cuts EXCEPT ![d] = Append(@, n)]
    /\ gate' = [c \in Channels |-> IF c \in Captured(d) THEN None ELSE gate[c]]
    /\ chan' = [c \in Channels |-> IF c \in Captured(d) THEN "DOWN" ELSE chan[c]]
    /\ UNCHANGED <<receipt, acted>>

GmDisconnects(d, n) ==
    /\ ~Known(n)
    /\ MayDisconnect(d)
    /\ Disconnect(d, n)

\* commitCampaignReconnect, a command seen before: its receipt again.  Only the
\* receipt of the latest disconnect opens the gate.
RetryReplays(c, r, n) ==
    LET d == DeviceOf[c] IN
    /\ receipt[r] = n
    /\ \E i \in DOMAIN cuts[d] : cuts[d][i] = n
    /\ gate' = IF Latest(d) = n THEN [gate EXCEPT ![c] = r] ELSE gate
    /\ UNCHANGED <<cuts, receipt, chan, acted>>

\* Mutant: a replay opens the gate whatever was cut since.
RetryReplaysOpen(c, r, n) ==
    LET d == DeviceOf[c] IN
    /\ receipt[r] = n
    /\ \E i \in DOMAIN cuts[d] : cuts[d][i] = n
    /\ gate' = [gate EXCEPT ![c] = r]
    /\ UNCHANGED <<cuts, receipt, chan, acted>>

\* ... a new command: it has to name the latest disconnect, and be the first.
RetryApplies(c, r, n) ==
    LET d == DeviceOf[c] IN
    /\ receipt[r] = None
    /\ n # None /\ Latest(d) = n
    /\ Releases(n) = {}
    /\ receipt' = [receipt EXCEPT ![r] = n]
    /\ gate' = [gate EXCEPT ![c] = r]
    /\ UNCHANGED <<cuts, chan, acted>>

\* Mutant: the replay of an old retry opens whatever gate there is.
RetryOpens(c, r, n) == RetryReplaysOpen(c, r, n) \/ RetryApplies(c, r, n)

\* connectionRpc for a RETRY that is not refused.
Retry(c, r, n) == RetryReplays(c, r, n) \/ RetryApplies(c, r, n)

\* connectionRpc refuses a retry that is neither.
RetryRefused(c, r, n) ==
    /\ \/ receipt[r] \notin {None, n}
       \/ receipt[r] = n /\ \A i \in DOMAIN cuts[DeviceOf[c]] : cuts[DeviceOf[c]][i] # n
       \/ receipt[r] = None /\ (Latest(DeviceOf[c]) # n \/ Releases(n) # {})
    /\ UNCHANGED gateVars

\* The host process dies and starts again.
RestartGate ==
    /\ chan' = [c \in Channels |-> IF chan[c] = "NEW" THEN "NEW" ELSE "CLOSED"]
    /\ gate' = [c \in Channels |-> None]
    /\ UNCHANGED <<cuts, receipt, acted>>

GateNext ==
    \/ \E c \in Channels :
        \/ Register(c)
        \/ Drop(c)
        \/ EndLoop(c)
        \/ Act(c)
        \/ Live(c) /\ \E r \in Retries, n \in Commands : Retry(c, r, n)
    \/ \E d \in Devices, n \in Commands : GmDisconnects(d, n)
    \/ RestartGate

GateSpec == GateInit /\ [][GateNext]_gateVars

-----------------------------------------------------------------------------
(* A device that was cut off does nothing to the campaign until a retry    *)
(* that names the cut was committed, whatever channels it opens, keeps or  *)
(* loses, and across restarts of the host (currentGate, prepareDisconnect, *)
(* commitCampaignReconnect).                                               *)
SilentUntilRetry ==
    \A d \in Devices : acted[d] # None => Releases(acted[d]) # {}

(* The gate an open channel carries in RAM never outlives the ledger it    *)
(* was read from: it is closed, or the one the ledger gives now.  A replay *)
(* of an older retry does not revive a channel that a later disconnect     *)
(* caught (retire, connectionRpc).                                         *)
OpenGateIsCurrent ==
    \A c \in Channels : Live(c) /\ gate[c] # None => gate[c] = CurrentGate(DeviceOf[c])

(* A disconnect is released once: two receipts never name the same one, so *)
(* that the gate string of a device is unique (commitCampaignReconnect).   *)
OneRetryPerDisconnect ==
    \A q, r \in Retries : receipt[q] # None /\ receipt[q] = receipt[r] => q = r

=============================================================================
