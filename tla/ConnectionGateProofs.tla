------------------------- MODULE ConnectionGateProofs -------------------------
(***************************************************************************)
(* Proofs about ConnectionGate, for any channels, devices and commands.    *)
(*                                                                         *)
(* GateInv is inductive.  The step that matters is the commit of a retry:  *)
(* it changes the current gate of its device from none to the retry, so    *)
(* any other open channel of the device must carry none; and it must not   *)
(* change the gate of another device, hence OneDevicePerCut.               *)
(***************************************************************************)
EXTENDS ConnectionGate, TLAPS

(* A disconnect was committed for one device (the lifecycle ledger looks a *)
(* command up before it commits it).                                       *)
OneDevicePerCut ==
    \A d, e \in Devices : \A i \in DOMAIN cuts[d], j \in DOMAIN cuts[e] :
        cuts[d][i] = cuts[e][j] => d = e

GateInv ==
    /\ GateTypeOK
    /\ OneDevicePerCut
    /\ OneRetryPerDisconnect
    /\ OpenGateIsCurrent
    /\ SilentUntilRetry

(* The latest disconnect is a command of the device's ledger, or null.     *)
LEMMA LatestType ==
    ASSUME GateTypeOK, NEW d \in Devices
    PROVE  /\ Latest(d) \in Commands \cup {None}
           /\ Latest(d) # None => \E i \in DOMAIN cuts[d] : cuts[d][i] = Latest(d)
<1>1. CASE cuts[d] = <<>>
    BY <1>1 DEF Latest
<1>2. CASE cuts[d] # <<>>
    <2>1. cuts[d] \in Seq(Commands) /\ Len(cuts[d]) \in DOMAIN cuts[d]
        BY <1>2 DEF GateTypeOK
    <2>2. Latest(d) = cuts[d][Len(cuts[d])]
        BY <1>2 DEF Latest
    <2> QED BY <2>1, <2>2
<1> QED BY <1>1, <1>2

(* A device's gate is Initial, null, or the one retry of its latest cut.   *)
LEMMA GateType ==
    ASSUME GateTypeOK, GateAssumption, NEW d \in Devices
    PROVE  /\ CurrentGate(d) \in Retries \cup {Initial, None}
           /\ Latest(d) = None => CurrentGate(d) = Initial
           /\ Latest(d) # None /\ Releases(Latest(d)) = {} => CurrentGate(d) = None
           /\ Latest(d) # None /\ Releases(Latest(d)) # {} =>
                CurrentGate(d) \in Releases(Latest(d))
    BY DEF CurrentGate, Releases

(* Where a retry has a receipt for the latest cut, it is the gate.         *)
LEMMA RetryIsGate ==
    ASSUME GateTypeOK, GateAssumption, OneRetryPerDisconnect,
           NEW d \in Devices, NEW r \in Retries,
           Latest(d) # None, receipt[r] = Latest(d)
    PROVE  CurrentGate(d) = r
<1>1. r \in Releases(Latest(d))
    BY DEF Releases
<1>2. CurrentGate(d) \in Releases(Latest(d))
    BY <1>1, GateType
<1>3. CurrentGate(d) \in Retries /\ receipt[CurrentGate(d)] = Latest(d)
    BY <1>2 DEF Releases
<1> QED BY <1>3 DEF OneRetryPerDisconnect

(* What does not touch the ledgers leaves every gate as it is.             *)
LEMMA GateUnchanged ==
    ASSUME UNCHANGED <<cuts, receipt>>, NEW d \in Devices
    PROVE  /\ Latest(d)' = Latest(d)
           /\ CurrentGate(d)' = CurrentGate(d)
           /\ \A n : Releases(n)' = Releases(n)
    BY DEF Latest, CurrentGate, Releases

(* A gate depends on the latest disconnect and on its receipts alone.      *)
GateFrom(latest, releases) ==
    IF latest = None THEN Initial
    ELSE IF releases = {} THEN None ELSE CHOOSE r \in releases : TRUE

LEMMA GateIsDetermined ==
    ASSUME NEW d,
           Latest(d)' = Latest(d),
           Latest(d) # None => Releases(Latest(d))' = Releases(Latest(d))
    PROVE  CurrentGate(d)' = CurrentGate(d)
<1>1. CASE Latest(d) = None
    BY <1>1 DEF CurrentGate
<1>2. CASE Latest(d) # None
    <2>1. CurrentGate(d) = GateFrom(Latest(d), Releases(Latest(d)))
        BY DEF CurrentGate, GateFrom
    <2>2. CurrentGate(d)' = GateFrom(Latest(d)', Releases(Latest(d))')
        BY DEF CurrentGate, GateFrom
    <2> QED BY <1>2, <2>1, <2>2
<1> QED BY <1>1, <1>2

LEMMA GateInitially == GateInit /\ GateAssumption => GateInv
<1> SUFFICES ASSUME GateInit, GateAssumption PROVE GateInv
    OBVIOUS
<1> USE DEF GateInit
<1>1. GateTypeOK
    BY DEF GateTypeOK
<1>2. OneDevicePerCut /\ OneRetryPerDisconnect /\ OpenGateIsCurrent /\ SilentUntilRetry
    BY DEF OneDevicePerCut, OneRetryPerDisconnect, OpenGateIsCurrent, SilentUntilRetry, Live
<1> QED BY <1>1, <1>2 DEF GateInv

(* The steps that leave both ledgers alone.                                *)
LEMMA QuietStep ==
    ASSUME GateInv, GateAssumption, UNCHANGED <<cuts, receipt>>,
           GateTypeOK', OpenGateIsCurrent', SilentUntilRetry'
    PROVE  GateInv'
    BY DEF GateInv, OneDevicePerCut, OneRetryPerDisconnect

LEMMA RegisterKeeps ==
    ASSUME GateInv, GateAssumption, NEW c \in Channels, Register(c)
    PROVE  GateInv'
<1> USE DEF Register, GateInv
<1>1. DeviceOf[c] \in Devices
    BY DEF GateAssumption
<1>2. GateTypeOK'
    BY <1>1, GateType DEF GateTypeOK
<1>3. OpenGateIsCurrent'
    <2> SUFFICES ASSUME NEW x \in Channels, Live(x)', gate'[x] # None
                 PROVE  gate'[x] = CurrentGate(DeviceOf[x])'
        BY DEF OpenGateIsCurrent
    <2>1. CurrentGate(DeviceOf[x])' = CurrentGate(DeviceOf[x])
        BY GateUnchanged DEF GateAssumption
    <2>2. CASE x = c
        BY <2>1, <2>2 DEF GateTypeOK
    <2>3. CASE x # c
        BY <2>1, <2>3 DEF GateTypeOK, Live, OpenGateIsCurrent
    <2> QED BY <2>2, <2>3
<1>4. SilentUntilRetry'
    BY DEF SilentUntilRetry, Releases
<1> QED BY <1>2, <1>3, <1>4, QuietStep

(* A channel that closes or ends, and a restart, only make channels less.  *)
LEMMA CloseKeeps ==
    ASSUME GateInv, GateAssumption,
           UNCHANGED <<cuts, receipt, acted>>, GateTypeOK',
           \A c \in Channels : Live(c)' => Live(c) /\ gate'[c] = gate[c]
    PROVE  GateInv'
<1> USE DEF GateInv
<1>1. OpenGateIsCurrent'
    <2> SUFFICES ASSUME NEW x \in Channels, Live(x)', gate'[x] # None
                 PROVE  gate'[x] = CurrentGate(DeviceOf[x])'
        BY DEF OpenGateIsCurrent
    <2>1. CurrentGate(DeviceOf[x])' = CurrentGate(DeviceOf[x])
        BY GateUnchanged DEF GateAssumption
    <2> QED BY <2>1 DEF OpenGateIsCurrent
<1>2. SilentUntilRetry'
    BY DEF SilentUntilRetry, Releases
<1> QED BY <1>1, <1>2, QuietStep

LEMMA ActKeeps ==
    ASSUME GateInv, GateAssumption, NEW c \in Channels, Act(c)
    PROVE  GateInv'
<1> USE DEF GateInv, Act
<1>1. DeviceOf[c] \in Devices
    BY DEF GateAssumption
<1>2. GateTypeOK'
    BY <1>1, LatestType DEF GateTypeOK
<1>3. OpenGateIsCurrent'
    BY GateUnchanged DEF OpenGateIsCurrent, Live, GateAssumption
<1>4. SilentUntilRetry'
    <2> SUFFICES ASSUME NEW d \in Devices, acted'[d] # None
                 PROVE  \E r \in Retries : receipt[r] = acted'[d]
        BY DEF SilentUntilRetry, Releases
    <2>2. CASE d = DeviceOf[c]
        <3>1. acted'[d] = Latest(d)
            BY <2>2 DEF GateTypeOK
        <3>2. CurrentGate(d) # None
            BY <2>2 DEF Admitted
        <3>3. Releases(Latest(d)) # {}
            BY <3>1, <3>2, GateType
        <3> QED BY <3>1, <3>3 DEF Releases
    <2>3. CASE d # DeviceOf[c]
        BY <2>3 DEF GateTypeOK, SilentUntilRetry, Releases
    <2> QED BY <2>2, <2>3
<1> QED BY <1>2, <1>3, <1>4, QuietStep

LEMMA DisconnectKeeps ==
    ASSUME GateInv, GateAssumption, NEW d \in Devices, NEW n \in Commands,
           GmDisconnects(d, n)
    PROVE  GateInv'
<1> USE DEF GateInv, GmDisconnects, Disconnect
<1>1. /\ \A e \in Devices : e # d => cuts'[e] = cuts[e]
      /\ cuts'[d] = Append(cuts[d], n)
      /\ cuts[d] \in Seq(Commands)
    BY DEF GateTypeOK
<1>2. GateTypeOK'
    BY <1>1 DEF GateTypeOK
<1>3. OneDevicePerCut'
    <2> SUFFICES ASSUME NEW e \in Devices, NEW f \in Devices,
                        NEW i \in DOMAIN cuts'[e], NEW j \in DOMAIN cuts'[f],
                        cuts'[e][i] = cuts'[f][j], e # f
                 PROVE  FALSE
        BY DEF OneDevicePerCut
    <2>1. \A k \in DOMAIN cuts'[d] : (k \in DOMAIN cuts[d] /\ cuts'[d][k] = cuts[d][k])
                                      \/ cuts'[d][k] = n
        BY <1>1
    <2>2. CASE e # d /\ f # d
        BY <1>1, <2>2 DEF OneDevicePerCut
    <2>3. CASE e = d
        BY <1>1, <2>1, <2>3 DEF OneDevicePerCut, Known
    <2>4. CASE f = d
        BY <1>1, <2>1, <2>4 DEF OneDevicePerCut, Known
    <2> QED BY <2>2, <2>3, <2>4
<1>4. OneRetryPerDisconnect' /\ SilentUntilRetry'
    BY DEF OneRetryPerDisconnect, SilentUntilRetry, Releases
<1>5. OpenGateIsCurrent'
    <2> SUFFICES ASSUME NEW x \in Channels, Live(x)', gate'[x] # None
                 PROVE  gate'[x] = CurrentGate(DeviceOf[x])'
        BY DEF OpenGateIsCurrent
    <2>1. x \notin Captured(d) /\ Live(x)
        BY DEF Live, Captured
    <2>2. DeviceOf[x] \in Devices /\ DeviceOf[x] # d
        BY <2>1 DEF Captured, GateAssumption
    <2>3. CurrentGate(DeviceOf[x])' = CurrentGate(DeviceOf[x])
        BY <1>1, <2>2 DEF CurrentGate, Latest, Releases
    <2> QED BY <2>1, <2>3 DEF OpenGateIsCurrent
<1> QED BY <1>2, <1>3, <1>4, <1>5

LEMMA ReplayKeeps ==
    ASSUME GateInv, GateAssumption, NEW c \in Channels, Live(c),
           NEW r \in Retries, NEW n \in Commands, RetryReplays(c, r, n)
    PROVE  GateInv'
<1> USE DEF GateInv, RetryReplays
<1>1. DeviceOf[c] \in Devices /\ n # None
    BY DEF GateAssumption
<1>2. GateTypeOK'
    BY DEF GateTypeOK
<1>3. OpenGateIsCurrent'
    <2> SUFFICES ASSUME NEW x \in Channels, Live(x)', gate'[x] # None
                 PROVE  gate'[x] = CurrentGate(DeviceOf[x])'
        BY DEF OpenGateIsCurrent
    <2>1. CurrentGate(DeviceOf[x])' = CurrentGate(DeviceOf[x]) /\ Live(x)
        BY GateUnchanged DEF GateAssumption, Live
    <2>2. CASE x = c /\ Latest(DeviceOf[c]) = n
        <3>1. CurrentGate(DeviceOf[c]) = r
            BY <1>1, <2>2, RetryIsGate
        <3> QED BY <2>1, <2>2, <3>1 DEF GateTypeOK
    <2>3. CASE ~(x = c /\ Latest(DeviceOf[c]) = n)
        BY <2>1, <2>3 DEF GateTypeOK, OpenGateIsCurrent
    <2> QED BY <2>2, <2>3
<1>4. SilentUntilRetry'
    BY DEF SilentUntilRetry, Releases
<1> QED BY <1>2, <1>3, <1>4, QuietStep

LEMMA ApplyKeeps ==
    ASSUME GateInv, GateAssumption, NEW c \in Channels, Live(c),
           NEW r \in Retries, NEW n \in Commands, RetryApplies(c, r, n)
    PROVE  GateInv'
<1> DEFINE d == DeviceOf[c]
<1> USE DEF GateInv, RetryApplies
<1>1. d \in Devices
    BY DEF GateAssumption
<1>2. /\ receipt'[r] = n
      /\ \A q \in Retries : q # r => receipt'[q] = receipt[q]
    BY DEF GateTypeOK
<1>3. GateTypeOK'
    BY DEF GateTypeOK
<1>4. OneDevicePerCut'
    BY DEF OneDevicePerCut
<1>5. OneRetryPerDisconnect'
    BY <1>2 DEF OneRetryPerDisconnect, Releases
<1>6. SilentUntilRetry'
    BY <1>2 DEF SilentUntilRetry, Releases
<1>7. OpenGateIsCurrent'
    <2> SUFFICES ASSUME NEW x \in Channels, Live(x)', gate'[x] # None
                 PROVE  gate'[x] = CurrentGate(DeviceOf[x])'
        BY DEF OpenGateIsCurrent
    <2>1. Live(x) /\ DeviceOf[x] \in Devices
        BY DEF Live, GateAssumption
    <2>2. Latest(d)' = Latest(d) /\ Latest(DeviceOf[x])' = Latest(DeviceOf[x])
        BY DEF Latest
    <2>3. CurrentGate(d) = None
        BY <1>1, GateType
    <2>4. CASE x = c
        <3>1. Latest(d)' # None /\ receipt'[r] = Latest(d)'
            BY <1>2, <2>2
        <3>2. (r \in Releases(Latest(d)))'
            BY <3>1 DEF Releases
        <3>3. CurrentGate(d)' \in Retries /\ receipt'[CurrentGate(d)'] = n
            BY <3>1, <3>2, <1>2 DEF CurrentGate, Releases
        <3>4. CurrentGate(d)' = r
            BY <3>3, <1>2, <1>5 DEF OneRetryPerDisconnect, GateAssumption
        <3> QED BY <2>4, <3>4 DEF GateTypeOK
    <2>5. CASE x # c
        <3>1. gate'[x] = gate[x] /\ gate[x] = CurrentGate(DeviceOf[x])
            BY <2>1, <2>5 DEF OpenGateIsCurrent, GateTypeOK
        <3>2. DeviceOf[x] # d
            BY <2>3, <3>1
        <3>3. Latest(DeviceOf[x]) # n
            <4>1. PICK i \in DOMAIN cuts[d] : cuts[d][i] = n
                BY <1>1, LatestType
            <4>2. SUFFICES ASSUME Latest(DeviceOf[x]) = n PROVE FALSE
                OBVIOUS
            <4>3. PICK j \in DOMAIN cuts[DeviceOf[x]] : cuts[DeviceOf[x]][j] = n
                BY <4>2, <2>1, LatestType
            <4> QED BY <4>1, <4>3, <3>2, <2>1, <1>1 DEF OneDevicePerCut
        <3>4. Latest(DeviceOf[x]) # None =>
                Releases(Latest(DeviceOf[x]))' = Releases(Latest(DeviceOf[x]))
            BY <1>2, <2>2, <3>3 DEF Releases
        <3>5. CurrentGate(DeviceOf[x])' = CurrentGate(DeviceOf[x])
            BY <2>2, <3>4, GateIsDetermined
        <3> QED BY <3>1, <3>5
    <2> QED BY <2>4, <2>5
<1> QED BY <1>3, <1>4, <1>5, <1>6, <1>7

LEMMA GateStep == GateInv /\ GateAssumption /\ [GateNext]_gateVars => GateInv'
<1> SUFFICES ASSUME GateInv, GateAssumption, [GateNext]_gateVars PROVE GateInv'
    OBVIOUS
<1>1. ASSUME NEW c \in Channels, Register(c) PROVE GateInv'
    BY <1>1, RegisterKeeps
<1>2. ASSUME NEW c \in Channels, Drop(c) \/ EndLoop(c) PROVE GateInv'
    <2>1. GateTypeOK'
        BY <1>2 DEF GateInv, GateTypeOK, Drop, EndLoop
    <2>2. \A x \in Channels : Live(x)' => Live(x) /\ gate'[x] = gate[x]
        BY <1>2 DEF GateInv, GateTypeOK, Drop, EndLoop, Live
    <2>3. UNCHANGED <<cuts, receipt, acted>>
        BY <1>2 DEF Drop, EndLoop
    <2> QED BY <2>1, <2>2, <2>3, CloseKeeps
<1>3. ASSUME NEW c \in Channels, Act(c) PROVE GateInv'
    BY <1>3, ActKeeps
<1>4. ASSUME NEW c \in Channels, Live(c), NEW r \in Retries, NEW n \in Commands,
             Retry(c, r, n)
      PROVE  GateInv'
    BY <1>4, ReplayKeeps, ApplyKeeps DEF Retry
<1>5. ASSUME NEW d \in Devices, NEW n \in Commands, GmDisconnects(d, n) PROVE GateInv'
    BY <1>5, DisconnectKeeps
<1>6. CASE RestartGate
    <2>1. GateTypeOK'
        BY <1>6 DEF GateInv, GateTypeOK, RestartGate
    <2>2. \A x \in Channels : ~Live(x)'
        BY <1>6 DEF RestartGate, Live
    <2>3. UNCHANGED <<cuts, receipt, acted>>
        BY <1>6 DEF RestartGate
    <2> QED BY <2>1, <2>2, <2>3, CloseKeeps
<1>7. CASE UNCHANGED gateVars
    <2>1. GateTypeOK' /\ UNCHANGED <<cuts, receipt, acted>>
        BY <1>7 DEF GateInv, GateTypeOK, gateVars
    <2>2. \A x \in Channels : Live(x)' => Live(x) /\ gate'[x] = gate[x]
        BY <1>7 DEF gateVars, Live
    <2> QED BY <2>1, <2>2, CloseKeeps
<1> QED BY <1>1, <1>2, <1>3, <1>4, <1>5, <1>6, <1>7 DEF GateNext

(* The invariant holds of every behaviour of the gate.                     *)
THEOREM GateInvariant == ASSUME GateAssumption PROVE GateSpec => []GateInv
<1>1. GateInit => GateInv
    BY GateInitially
<1>2. GateInv /\ [GateNext]_gateVars => GateInv'
    BY GateStep
<1> QED BY <1>1, <1>2, PTL DEF GateSpec

(* Type correctness of the two ledgers and of the channels' gates.         *)
THEOREM GateTypeCorrect == ASSUME GateAssumption PROVE GateSpec => []GateTypeOK
<1>1. GateInv => GateTypeOK
    BY DEF GateInv
<1> QED BY <1>1, GateInvariant, PTL

(* A device that was cut off does nothing before a retry that names the    *)
(* cut, for any number of devices, channels, disconnects and retries.      *)
THEOREM CutDeviceIsSilent == ASSUME GateAssumption PROVE GateSpec => []SilentUntilRetry
<1>1. GateInv => SilentUntilRetry
    BY DEF GateInv
<1> QED BY <1>1, GateInvariant, PTL

(* The gate an open channel carries is the one the ledger gives, or none.  *)
THEOREM GateNeverStale == ASSUME GateAssumption PROVE GateSpec => []OpenGateIsCurrent
<1>1. GateInv => OpenGateIsCurrent
    BY DEF GateInv
<1> QED BY <1>1, GateInvariant, PTL

(* No two receipts release the same disconnect.                            *)
THEOREM RetriesAreUnique == ASSUME GateAssumption PROVE GateSpec => []OneRetryPerDisconnect
<1>1. GateInv => OneRetryPerDisconnect
    BY DEF GateInv
<1> QED BY <1>1, GateInvariant, PTL

=============================================================================
