-------------------------- MODULE SafeBoundaryProofs --------------------------
(***************************************************************************)
(* Proofs about SafeBoundary, for any devices, channels, commands and      *)
(* retries, and any number of calls that wait.                             *)
(*                                                                         *)
(* A step of SafeBoundary is a step of ConnectionGate or leaves the gate   *)
(* alone, so what is proved of the gate holds here as well.  The one step  *)
(* that is not plain is the commit of a DISCONNECT: ConnectionGate lets a  *)
(* command cut a device off once, and here it is the ledger of the         *)
(* campaign that is looked up first; CutsCommitted ties the two.           *)
(*                                                                         *)
(* The revision moves in one step only, and there Pending is 0; that this  *)
(* means that nothing is in flight needs the number of staged uploads to   *)
(* be one (UploadsFinite), and the call that asks to be the first one.     *)
(***************************************************************************)
EXTENDS SafeBoundary, ConnectionGateProofs, FiniteSetTheorems

(* A disconnect of the gate is a command of the campaign's ledger.         *)
CutsCommitted == \A d \in Devices : \A i \in DOMAIN cuts[d] : Committed(cuts[d][i])

(* A RETRY names a retry and a disconnect; only the first is executing.    *)
LineInOrder ==
    /\ running => line # <<>>
    /\ \A i \in DOMAIN line : line[i].body = "RETRY" =>
        line[i].retry \in Retries /\ line[i].names \in Commands

(* A handler that awaits belongs to the first call; a hash to a command.   *)
CallsInOrder ==
    /\ step # "QUEUED" => calls # <<>>
    /\ step = "HASHING" => calls[1].what \in Commands

UploadsFinite == IsFiniteSet(Staged)

BoundaryInv ==
    /\ TypeOK
    /\ GateInv
    /\ CutsCommitted
    /\ LineInOrder
    /\ CallsInOrder
    /\ UploadsFinite
    /\ NothingStraddlesABoundary
    /\ EffectOnce

-----------------------------------------------------------------------------
(* Where the host counts nothing, nothing is in flight.                    *)
LEMMA NothingPending ==
    ASSUME BoundaryInv, Pending = 0
    PROVE  line = <<>> /\ Staged = {} /\ \A i \in 2..Len(calls) : ~calls[i].scoped
<1> DEFINE G == {i \in 2..Len(calls) : calls[i].scoped}
<1>1. Len(line) \in Nat /\ (Len(line) = 0 => line = <<>>)
    BY DEF BoundaryInv, TypeOK
<1>2. Cardinality(Staged) \in Nat /\ (Cardinality(Staged) = 0 => Staged = {})
    BY FS_CardinalityType, FS_EmptySet DEF BoundaryInv, UploadsFinite
<1>3. IsFiniteSet(G)
    <2>1. IsFiniteSet(2..Len(calls))
        BY FS_Interval DEF BoundaryInv, TypeOK
    <2> QED BY <2>1, FS_Subset
<1>4. Cardinality(G) \in Nat /\ (Cardinality(G) = 0 => G = {})
    BY <1>3, FS_CardinalityType, FS_EmptySet
<1>5. Len(line) + Cardinality(Staged) + Cardinality(G) = 0
    BY DEF Pending, PeerPending, GmPending
<1> HIDE DEF G
<1>6. Len(line) = 0 /\ Cardinality(Staged) = 0 /\ Cardinality(G) = 0
    BY <1>1, <1>2, <1>4, <1>5
<1> QED BY <1>1, <1>2, <1>4, <1>6 DEF G

(* A step of the peers leaves the GM and the campaign as they are.         *)
LEMMA PeersKeep ==
    ASSUME BoundaryInv, [GateNext]_gateVars, cuts' = cuts,
           UNCHANGED <<status, ledger, asked, calls, step, atCampaign, closing>>,
           line' \in Seq(PeerOp), running' \in BOOLEAN, LineInOrder',
           \A i \in DOMAIN line' : line'[i].since = Revision,
           stage' \in [Channels -> Nat \cup {None}],
           \A c \in Channels : stage'[c] \in {stage[c], Revision, None},
           UploadsFinite'
    PROVE  BoundaryInv'
<1>1. GateInv'
    BY GateStep, GateAssumption DEF BoundaryInv
<1>2. TypeOK'
    BY <1>1 DEF BoundaryInv, TypeOK, GateInv
<1>3. CutsCommitted' /\ CallsInOrder' /\ EffectOnce'
    BY DEF BoundaryInv, CutsCommitted, Committed, CallsInOrder, EffectOnce
<1>4. NothingStraddlesABoundary'
    BY DEF BoundaryInv, NothingStraddlesABoundary, Staged, Revision
<1> QED BY <1>1, <1>2, <1>3, <1>4 DEF BoundaryInv

(* One upload more, or less.                                               *)
LEMMA OneUpload ==
    ASSUME BoundaryInv, NEW c \in Channels, NEW s \in Nat \cup {None},
           stage' = [stage EXCEPT ![c] = s]
    PROVE  UploadsFinite' /\ stage' \in [Channels -> Nat \cup {None}]
<1>1. Staged' \subseteq Staged \cup {c}
    BY DEF Staged, BoundaryInv, TypeOK
<1>2. IsFiniteSet(Staged \cup {c})
    BY FS_AddElement DEF BoundaryInv, UploadsFinite
<1>3. IsFiniteSet(Staged')
    BY <1>1, <1>2, FS_Subset
<1> QED BY <1>3 DEF UploadsFinite, BoundaryInv, TypeOK

(* What an operation does to the gate is a step of it.                     *)
LEMMA EffectIsGateStep ==
    ASSUME BoundaryInv, line # <<>>, Effect(line[1])
    PROVE  /\ [GateNext]_gateVars /\ cuts' = cuts
           /\ stage' \in [Channels -> Nat \cup {None}]
           /\ \A c \in Channels : stage'[c] \in {stage[c], Revision, None}
           /\ UploadsFinite'
<1> DEFINE o == line[1]
<1>1. /\ o \in PeerOp /\ o.chan \in Channels
      /\ o.body = "RETRY" => o.retry \in Retries /\ o.names \in Commands
    <2>1. 1 \in DOMAIN line /\ line \in Seq(PeerOp)
        BY DEF BoundaryInv, TypeOK
    <2>2. o \in PeerOp
        BY <2>1
    <2>3. o.body = "RETRY" => o.retry \in Retries /\ o.names \in Commands
        BY <2>1 DEF BoundaryInv, LineInOrder
    <2> QED BY <2>2, <2>3 DEF PeerOp
<1>2. Revision \in Nat /\ stage \in [Channels -> Nat \cup {None}] /\ UploadsFinite
    BY DEF BoundaryInv, TypeOK, Revision
<1>3. CASE UNCHANGED <<gateVars, stage>>
    BY <1>2, <1>3 DEF gateVars, UploadsFinite, Staged
<1>4. CASE /\ Live(o.chan) /\ o.body = "RETRY" /\ UNCHANGED stage
           /\ Retry(o.chan, o.retry, o.names) \/ RetryRefused(o.chan, o.retry, o.names)
    <2>1. [GateNext]_gateVars
        BY <1>1, <1>4 DEF GateNext, RetryRefused
    <2>2. cuts' = cuts
        BY <1>4 DEF Retry, RetryReplays, RetryApplies, RetryRefused, gateVars
    <2> QED BY <1>2, <1>4, <2>1, <2>2 DEF UploadsFinite, Staged
<1>5. CASE /\ Act(o.chan)
           /\ \E s \in {Revision, None} : stage' = [stage EXCEPT ![o.chan] = s]
    <2>1. [GateNext]_gateVars /\ cuts' = cuts
        BY <1>1, <1>5 DEF GateNext, Act
    <2>2. PICK s \in {Revision, None} : stage' = [stage EXCEPT ![o.chan] = s]
        BY <1>5
    <2>3. UploadsFinite' /\ stage' \in [Channels -> Nat \cup {None}]
        BY <1>1, <1>2, <2>2, OneUpload
    <2>4. \A c \in Channels : stage'[c] \in {stage[c], Revision, None}
        BY <1>2, <2>2
    <2> QED BY <2>1, <2>3, <2>4
<1>6. CASE Act(o.chan) /\ UNCHANGED stage
    <2>1. [GateNext]_gateVars /\ cuts' = cuts
        BY <1>1, <1>6 DEF GateNext, Act
    <2> QED BY <1>2, <1>6, <2>1 DEF UploadsFinite, Staged
<1> QED
    <2>1. CASE ~Live(o.chan)
        BY <1>3, <2>1 DEF Effect
    <2>2. CASE Live(o.chan) /\ o.body = "RETRY"
        BY <1>4, <2>2 DEF Effect
    <2>3. CASE Live(o.chan) /\ o.body # "RETRY" /\ ~Admitted(o.chan)
        BY <1>3, <2>3 DEF Effect
    <2>4. CASE Live(o.chan) /\ o.body # "RETRY" /\ Admitted(o.chan)
        <3>1. /\ Act(o.chan)
              /\ stage' = CASE o.body = "BEGIN" -> [stage EXCEPT ![o.chan] = Revision]
                            [] o.body = "COMMIT" -> [stage EXCEPT ![o.chan] = None]
                            [] OTHER -> stage
            BY <2>4 DEF Effect
        <3> QED BY <1>5, <1>6, <3>1
    <2> QED BY <2>1, <2>2, <2>3, <2>4

-----------------------------------------------------------------------------
(* The peers.                                                              *)
LEMMA ChannelKeeps ==
    ASSUME BoundaryInv, NEW c \in Channels, Connect(c) \/ Close(c) \/ LoopEnds(c)
    PROVE  BoundaryInv'
<1>1. /\ Register(c) \/ Drop(c) \/ EndLoop(c)
      /\ UNCHANGED <<status, ledger, asked, line, running, calls, step, atCampaign, closing>>
      /\ stage' = stage \/ stage' = [stage EXCEPT ![c] = None]
    BY DEF Connect, Close, LoopEnds, boundaryVars
<1>2. [GateNext]_gateVars /\ cuts' = cuts
    BY <1>1 DEF GateNext, Register, Drop, EndLoop
<1>3. UploadsFinite' /\ stage' \in [Channels -> Nat \cup {None}]
    BY <1>1, OneUpload DEF BoundaryInv, TypeOK, UploadsFinite, Staged
<1>4. \A x \in Channels : stage'[x] \in {stage[x], Revision, None}
    BY <1>1 DEF BoundaryInv, TypeOK
<1>5. line' \in Seq(PeerOp) /\ running' \in BOOLEAN /\ LineInOrder'
    BY <1>1 DEF BoundaryInv, TypeOK, LineInOrder
<1>6. \A i \in DOMAIN line' : line'[i].since = Revision
    BY <1>1 DEF BoundaryInv, NothingStraddlesABoundary
<1> QED BY <1>1, <1>2, <1>3, <1>4, <1>5, <1>6, PeersKeep

(* An operation is accepted under the revision there is.                   *)
LEMMA OneOperation ==
    ASSUME BoundaryInv, NEW o \in PeerOp, o.since = Revision,
           o.body = "RETRY" => o.retry \in Retries /\ o.names \in Commands,
           line' = Append(line, o), UNCHANGED gateVars,
           UNCHANGED <<status, ledger, asked, running, stage, calls, step, atCampaign, closing>>
    PROVE  BoundaryInv'
<1>1. line \in Seq(PeerOp) /\ running \in BOOLEAN
    BY DEF BoundaryInv, TypeOK
<1>2. /\ line' \in Seq(PeerOp) /\ line' # <<>>
      /\ \A i \in DOMAIN line' : line'[i] = o \/ (i \in DOMAIN line /\ line'[i] = line[i])
    BY <1>1
<1>3. LineInOrder'
    BY <1>2 DEF BoundaryInv, LineInOrder
<1>4. \A i \in DOMAIN line' : line'[i].since = Revision
    BY <1>2 DEF BoundaryInv, NothingStraddlesABoundary
<1>5. /\ UploadsFinite' /\ stage' \in [Channels -> Nat \cup {None}]
      /\ \A c \in Channels : stage'[c] \in {stage[c], Revision, None}
    BY DEF BoundaryInv, TypeOK, UploadsFinite, Staged
<1>6. cuts' = cuts
    BY DEF gateVars
<1> QED BY <1>1, <1>2, <1>3, <1>4, <1>5, <1>6, PeersKeep

LEMMA ReceiveKeeps ==
    ASSUME BoundaryInv, NEW c \in Channels, NEW body \in Bodies \ {"RETRY"}, Receive(c, body)
    PROVE  BoundaryInv'
<1>1. Revision \in Nat
    BY DEF BoundaryInv, TypeOK, Revision
<1>2. CASE Admitted(c)
    <2> DEFINE o == [chan |-> c, body |-> body, retry |-> None, names |-> None,
                     since |-> Revision]
    <2>1. o \in PeerOp /\ o.since = Revision /\ o.body # "RETRY"
        BY <1>1 DEF PeerOp
    <2>2. /\ line' = Append(line, o) /\ UNCHANGED gateVars
          /\ UNCHANGED <<status, ledger, asked, running, stage, calls, step, atCampaign, closing>>
        BY <1>2 DEF Receive, Enqueue
    <2> HIDE DEF o
    <2> QED BY <2>1, <2>2, OneOperation
<1>3. CASE ~Admitted(c)
    <2>1. Close(c)
        BY <1>3 DEF Receive, Close, boundaryVars
    <2> QED BY <2>1, ChannelKeeps
<1> QED BY <1>2, <1>3

LEMMA ReceiveRetryKeeps ==
    ASSUME BoundaryInv, NEW c \in Channels, NEW r \in Retries, NEW n \in Commands,
           ReceiveRetry(c, r, n)
    PROVE  BoundaryInv'
<1> DEFINE o == [chan |-> c, body |-> "RETRY", retry |-> r, names |-> n, since |-> Revision]
<1>1. o \in PeerOp /\ o.since = Revision /\ o.retry \in Retries /\ o.names \in Commands
    BY DEF BoundaryInv, TypeOK, Revision, PeerOp, Bodies
<1>2. /\ line' = Append(line, o) /\ UNCHANGED gateVars
      /\ UNCHANGED <<status, ledger, asked, running, stage, calls, step, atCampaign, closing>>
    BY DEF ReceiveRetry, Enqueue
<1> HIDE DEF o
<1> QED BY <1>1, <1>2, OneOperation

LEMMA PeerExecutesKeeps ==
    ASSUME BoundaryInv, PeerExecutes
    PROVE  BoundaryInv'
<1>1. /\ line # <<>> /\ Effect(line[1]) /\ running' = TRUE
      /\ UNCHANGED <<status, ledger, asked, line, calls, step, atCampaign, closing>>
    BY DEF PeerExecutes
<1>2. /\ [GateNext]_gateVars /\ cuts' = cuts
      /\ stage' \in [Channels -> Nat \cup {None}]
      /\ \A c \in Channels : stage'[c] \in {stage[c], Revision, None}
      /\ UploadsFinite'
    BY <1>1, EffectIsGateStep
<1>3. line' \in Seq(PeerOp) /\ running' \in BOOLEAN /\ LineInOrder'
    BY <1>1 DEF BoundaryInv, TypeOK, LineInOrder
<1>4. \A i \in DOMAIN line' : line'[i].since = Revision
    BY <1>1 DEF BoundaryInv, NothingStraddlesABoundary
<1> QED BY <1>1, <1>2, <1>3, <1>4, PeersKeep

LEMMA PeerSettlesKeeps ==
    ASSUME BoundaryInv, PeerSettles
    PROVE  BoundaryInv'
<1>1. /\ running' = FALSE /\ line' = Tail(line)
      /\ UNCHANGED <<gateVars, status, ledger, asked, stage, calls, step, atCampaign, closing>>
    BY DEF PeerSettles
<1>2. line \in Seq(PeerOp) /\ line # <<>>
    BY DEF PeerSettles, BoundaryInv, TypeOK, LineInOrder
<1>3. /\ line' \in Seq(PeerOp)
      /\ \A i \in DOMAIN line' : i + 1 \in DOMAIN line /\ line'[i] = line[i + 1]
    BY <1>1, <1>2
<1>4. LineInOrder' /\ \A i \in DOMAIN line' : line'[i].since = Revision
    BY <1>1, <1>3 DEF BoundaryInv, LineInOrder, NothingStraddlesABoundary
<1>5. /\ UploadsFinite' /\ stage' \in [Channels -> Nat \cup {None}]
      /\ \A c \in Channels : stage'[c] \in {stage[c], Revision, None}
      /\ cuts' = cuts
    BY <1>1 DEF BoundaryInv, TypeOK, UploadsFinite, Staged, gateVars
<1> QED BY <1>1, <1>3, <1>4, <1>5, PeersKeep

-----------------------------------------------------------------------------
(* The GM.  A command that is applied finds nothing in flight, is new to   *)
(* the ledger, and so is its disconnect to the gate.                       *)
Applied(m) ==
    /\ ~Committed(m)
    /\ line = <<>> /\ Staged = {} /\ \A i \in 2..Len(calls) : ~calls[i].scoped
    /\ ledger' = Append(ledger, m)
    /\ status' \in {"PAUSED", "HOSTING"}
    /\ stage' \in [Channels -> Nat \cup {None}]
    /\ \A c \in Channels : stage'[c] \in {stage[c], None}
    /\ \A d \in Devices : cuts'[d] \in {cuts[d], Append(cuts[d], m)}

LEMMA DecideStep ==
    ASSUME BoundaryInv, NEW m \in Commands, Decide(m)
    PROVE  /\ [GateNext]_gateVars
           /\ Applied(m) \/ UNCHANGED <<gateVars, status, ledger, stage>>
<1>1. CASE UNCHANGED <<gateVars, status, ledger, stage>>
    BY <1>1
<1>2. CASE ~Committed(m) /\ Fresh(m) /\ Possible(m) /\ Commit(m)
    <2> DEFINE d == TargetOf[m]
    <2>1. line = <<>> /\ Staged = {} /\ \A i \in 2..Len(calls) : ~calls[i].scoped
        BY <1>2, NothingPending DEF Fresh
    <2>2. ledger' = Append(ledger, m) /\ status' \in {"PAUSED", "HOSTING"}
        BY <1>2 DEF Commit, BoundaryInv, TypeOK
    <2>3. d \in Devices
        BY BoundaryAssumption
    <2>4. CASE KindOf[m] = "DISCONNECT"
        <3>1. Disconnect(d, m) /\ MayDisconnect(d)
            BY <1>2, <2>4 DEF Commit, Possible
        <3>2. ~Known(m)
            BY <1>2 DEF Known, BoundaryInv, CutsCommitted
        <3>3. GmDisconnects(d, m)
            BY <3>1, <3>2 DEF GmDisconnects
        <3>4. \A e \in Devices : cuts'[e] \in {cuts[e], Append(cuts[e], m)}
            BY <3>1 DEF Disconnect, BoundaryInv, TypeOK, GateTypeOK
        <3>5. stage' = [c \in Channels |-> IF c \in Captured(d) THEN None ELSE stage[c]]
            BY <1>2, <2>4 DEF Commit
        <3>6. /\ stage' \in [Channels -> Nat \cup {None}]
              /\ \A c \in Channels : stage'[c] \in {stage[c], None}
            BY <3>5 DEF BoundaryInv, TypeOK
        <3>7. GateNext
            BY <2>3, <3>3 DEF GateNext
        <3> QED BY <1>2, <2>1, <2>2, <3>4, <3>6, <3>7 DEF Applied
    <2>5. CASE KindOf[m] # "DISCONNECT"
        <3>1. UNCHANGED <<gateVars, stage>>
            BY <1>2, <2>5 DEF Commit
        <3>2. /\ stage' \in [Channels -> Nat \cup {None}]
              /\ \A c \in Channels : stage'[c] \in {stage[c], None}
              /\ \A e \in Devices : cuts'[e] \in {cuts[e], Append(cuts[e], m)}
            BY <3>1 DEF BoundaryInv, TypeOK, gateVars
        <3> QED BY <1>2, <2>1, <2>2, <3>1, <3>2 DEF Applied
    <2> QED BY <2>4, <2>5
<1> QED BY <1>1, <1>2 DEF Decide

LEMMA DecideKeeps ==
    ASSUME BoundaryInv, NEW m \in Commands, Decide(m), calls # <<>>, step' = "PUBLISHING",
           UNCHANGED <<asked, line, running, calls, atCampaign, closing>>
    PROVE  BoundaryInv'
<1>1. /\ [GateNext]_gateVars
      /\ Applied(m) \/ UNCHANGED <<gateVars, status, ledger, stage>>
    BY DecideStep
<1>2. GateInv'
    BY <1>1, GateStep, GateAssumption DEF BoundaryInv
<1>3. LineInOrder' /\ CallsInOrder'
    BY DEF BoundaryInv, LineInOrder, CallsInOrder
<1>4. CASE UNCHANGED <<gateVars, status, ledger, stage>>
    <2>1. TypeOK'
        BY <1>2, <1>4 DEF BoundaryInv, TypeOK, GateInv
    <2>2. CutsCommitted' /\ UploadsFinite' /\ EffectOnce'
        BY <1>4 DEF BoundaryInv, CutsCommitted, Committed, gateVars, UploadsFinite, Staged,
                    EffectOnce
    <2>3. NothingStraddlesABoundary'
        BY <1>4 DEF BoundaryInv, NothingStraddlesABoundary, Staged, Revision
    <2> QED BY <1>2, <1>3, <2>1, <2>2, <2>3 DEF BoundaryInv
<1>5. CASE Applied(m)
    <2>1. /\ ledger \in Seq(Commands) /\ ledger' = Append(ledger, m) /\ ~Committed(m)
          /\ ledger' \in Seq(Commands)
          /\ \A i \in DOMAIN ledger' : \/ i \in DOMAIN ledger /\ ledger'[i] = ledger[i]
                                       \/ i = Len(ledger) + 1 /\ ledger'[i] = m
          /\ \A i \in DOMAIN ledger : i \in DOMAIN ledger' /\ ledger'[i] = ledger[i]
          /\ Len(ledger) + 1 \in DOMAIN ledger' /\ ledger'[Len(ledger) + 1] = m
        BY <1>5 DEF Applied, BoundaryInv, TypeOK
    <2>2. TypeOK'
        BY <1>2, <1>5, <2>1 DEF Applied, BoundaryInv, TypeOK, GateInv
    <2>3. EffectOnce'
        BY <2>1 DEF BoundaryInv, EffectOnce, Committed
    <2>4. CutsCommitted'
        <3> SUFFICES ASSUME NEW d \in Devices, NEW i \in DOMAIN cuts'[d]
                     PROVE  \E k \in DOMAIN ledger' : ledger'[k] = cuts'[d][i]
            BY DEF CutsCommitted, Committed
        <3>1. cuts[d] \in Seq(Commands) /\ cuts'[d] \in {cuts[d], Append(cuts[d], m)}
            BY <1>5 DEF Applied, BoundaryInv, TypeOK, GateTypeOK
        <3>2. (i \in DOMAIN cuts[d] /\ cuts'[d][i] = cuts[d][i]) \/ cuts'[d][i] = m
            BY <3>1
        <3> QED BY <2>1, <3>2 DEF BoundaryInv, CutsCommitted, Committed
    <2>5. Staged' = {} /\ UploadsFinite'
        BY <1>5, FS_EmptySet DEF Applied, Staged, UploadsFinite
    <2>6. NothingStraddlesABoundary'
        <3>1. \A i \in DOMAIN line' : FALSE
            BY <1>5 DEF Applied
        <3>2. \A i \in DOMAIN calls' : ~(calls'[i].scoped /\ (i > 1 \/ step' = "QUEUED"))
            BY <1>5 DEF Applied, BoundaryInv, TypeOK
        <3> QED BY <2>5, <3>1, <3>2 DEF NothingStraddlesABoundary
    <2> QED BY <1>2, <1>3, <2>2, <2>3, <2>4, <2>5, <2>6 DEF BoundaryInv
<1> QED BY <1>1, <1>4, <1>5

(* What changes neither the gate nor the campaign, nor adds to the peers'  *)
(* work.                                                                   *)
LEMMA CallsKeep ==
    ASSUME BoundaryInv, UNCHANGED <<gateVars, status, ledger, line, running, stage>>,
           asked' \in [Commands -> Nat \cup {None}], calls' \in Seq(GmCall),
           step' \in {"QUEUED", "HASHING", "PUBLISHING"}, atCampaign' \in BOOLEAN,
           closing' \in BOOLEAN, CallsInOrder',
           \A i \in DOMAIN calls' :
             calls'[i].scoped /\ (i > 1 \/ step' = "QUEUED") => calls'[i].since = Revision
    PROVE  BoundaryInv'
<1>1. [GateNext]_gateVars
    OBVIOUS
<1>2. GateInv'
    BY <1>1, GateStep, GateAssumption DEF BoundaryInv
<1>3. TypeOK'
    BY <1>2 DEF BoundaryInv, TypeOK, GateInv
<1>4. CutsCommitted' /\ LineInOrder' /\ UploadsFinite' /\ EffectOnce'
    BY DEF BoundaryInv, CutsCommitted, Committed, gateVars, LineInOrder, UploadsFinite, Staged,
           EffectOnce
<1>5. NothingStraddlesABoundary'
    BY DEF BoundaryInv, NothingStraddlesABoundary, Staged, Revision
<1> QED BY <1>2, <1>3, <1>4, <1>5 DEF BoundaryInv

(* A call is accepted under the revision there is.                         *)
LEMMA AcceptKeeps ==
    ASSUME BoundaryInv, NEW what \in Commands \cup {"NAVIGATE", "POLL"}, NEW scoped \in BOOLEAN,
           Accept(what, scoped), asked' \in [Commands -> Nat \cup {None}],
           UNCHANGED <<gateVars, status, ledger, line, running, stage, step, atCampaign, closing>>
    PROVE  BoundaryInv'
<1> DEFINE k == [what |-> what, scoped |-> scoped, since |-> Revision]
<1>1. k \in GmCall /\ k.since = Revision
    BY DEF BoundaryInv, TypeOK, Revision, GmCall
<1>2. calls' = Append(calls, k) /\ calls \in Seq(GmCall)
    BY DEF Accept, BoundaryInv, TypeOK
<1> HIDE DEF k
<1>3. /\ calls' \in Seq(GmCall) /\ calls' # <<>>
      /\ \A i \in DOMAIN calls' : calls'[i] = k \/ (i \in DOMAIN calls /\ calls'[i] = calls[i])
      /\ calls # <<>> => calls'[1] = calls[1]
    BY <1>1, <1>2
<1>4. CallsInOrder'
    BY <1>3 DEF BoundaryInv, CallsInOrder
<1>5. \A i \in DOMAIN calls' :
        calls'[i].scoped /\ (i > 1 \/ step' = "QUEUED") => calls'[i].since = Revision
    BY <1>1, <1>3 DEF BoundaryInv, NothingStraddlesABoundary
<1> QED BY <1>3, <1>4, <1>5, CallsKeep DEF BoundaryInv, TypeOK

LEMMA GmCallsKeep ==
    ASSUME BoundaryInv, (\E m \in Commands : GmSends(m)) \/ GmNavigates \/ GmPolls
    PROVE  BoundaryInv'
<1>1. atCampaign \in BOOLEAN /\ Revision \in Nat /\ asked \in [Commands -> Nat \cup {None}]
    BY DEF BoundaryInv, TypeOK, Revision
<1>2. ASSUME NEW m \in Commands, GmSends(m) PROVE BoundaryInv'
    <2>1. asked' \in [Commands -> Nat \cup {None}]
        BY <1>1, <1>2 DEF GmSends
    <2> QED BY <1>1, <1>2, <2>1, AcceptKeeps DEF GmSends
<1>3. CASE GmNavigates
    BY <1>1, <1>3, AcceptKeeps DEF GmNavigates
<1>4. CASE GmPolls
    BY <1>1, <1>4, AcceptKeeps DEF GmPolls
<1> QED BY <1>2, <1>3, <1>4

LEMMA GmStartsKeeps ==
    ASSUME BoundaryInv, GmStarts
    PROVE  BoundaryInv'
<1> DEFINE m == calls[1].what
<1>1. /\ calls # <<>> /\ step = "QUEUED" /\ UNCHANGED <<asked, line, running, calls, closing>>
    BY DEF GmStarts
<1>2. \A i \in DOMAIN calls :
        calls[i].scoped /\ (i > 1 \/ step' = "QUEUED") => calls[i].since = Revision
    BY <1>1 DEF BoundaryInv, NothingStraddlesABoundary
<1>3. CASE /\ step' = "PUBLISHING" /\ atCampaign' \in BOOLEAN
           /\ UNCHANGED <<gateVars, status, ledger, stage>>
    <2>1. CallsInOrder'
        BY <1>1, <1>3 DEF CallsInOrder
    <2> QED BY <1>1, <1>2, <1>3, <2>1, CallsKeep DEF BoundaryInv, TypeOK
<1>4. CASE /\ m \in Commands /\ step' = "HASHING"
           /\ UNCHANGED <<gateVars, status, ledger, stage, atCampaign>>
    <2>1. CallsInOrder'
        BY <1>1, <1>4 DEF CallsInOrder
    <2> QED BY <1>1, <1>2, <1>4, <2>1, CallsKeep DEF BoundaryInv, TypeOK
<1>5. CASE m \in Commands /\ step' = "PUBLISHING" /\ Decide(m) /\ UNCHANGED atCampaign
    BY <1>1, <1>5, DecideKeeps
<1> QED
    <2>1. CASE m \notin Commands
        <3>1. atCampaign' \in BOOLEAN
            BY <2>1 DEF GmStarts, BoundaryInv, TypeOK
        <3> QED BY <1>3, <2>1, <3>1 DEF GmStarts
    <2>2. CASE m \in Commands
        BY <1>4, <1>5, <2>2 DEF GmStarts
    <2> QED BY <2>1, <2>2

LEMMA GmHashedKeeps ==
    ASSUME BoundaryInv, GmHashed
    PROVE  BoundaryInv'
<1>1. calls # <<>> /\ calls[1].what \in Commands
    BY DEF GmHashed, BoundaryInv, CallsInOrder
<1> QED BY <1>1, DecideKeeps DEF GmHashed

LEMMA GmEndsKeeps ==
    ASSUME BoundaryInv, GmEnds
    PROVE  BoundaryInv'
<1>1. /\ calls # <<>> /\ calls' = Tail(calls) /\ step' = "QUEUED" /\ calls \in Seq(GmCall)
      /\ UNCHANGED <<gateVars, status, ledger, asked, line, running, stage, atCampaign, closing>>
    BY DEF GmEnds, BoundaryInv, TypeOK
<1>2. /\ calls' \in Seq(GmCall)
      /\ \A i \in DOMAIN calls' : /\ i + 1 \in DOMAIN calls /\ i + 1 > 1
                                  /\ calls'[i] = calls[i + 1]
    BY <1>1
<1>3. \A i \in DOMAIN calls' : calls'[i].scoped => calls'[i].since = Revision
    BY <1>2 DEF BoundaryInv, NothingStraddlesABoundary
<1>4. CallsInOrder'
    BY <1>1 DEF CallsInOrder
<1> QED BY <1>1, <1>2, <1>3, <1>4, CallsKeep DEF BoundaryInv, TypeOK

LEMMA ShutdownKeeps ==
    ASSUME BoundaryInv, Shutdown
    PROVE  BoundaryInv'
<1>1. CallsInOrder'
    BY DEF Shutdown, BoundaryInv, CallsInOrder
<1>2. \A i \in DOMAIN calls' :
        calls'[i].scoped /\ (i > 1 \/ step' = "QUEUED") => calls'[i].since = Revision
    BY DEF Shutdown, BoundaryInv, NothingStraddlesABoundary
<1> QED BY <1>1, <1>2, CallsKeep DEF Shutdown, BoundaryInv, TypeOK

LEMMA RestartKeeps ==
    ASSUME BoundaryInv, Restart
    PROVE  BoundaryInv'
<1>1. [GateNext]_gateVars /\ cuts' = cuts
    BY DEF Restart, RestartGate, GateNext
<1>2. GateInv'
    BY <1>1, GateStep, GateAssumption DEF BoundaryInv
<1>3. TypeOK'
    <2>1. GateTypeOK'
        BY <1>2 DEF GateInv
    <2>2. line' \in Seq(PeerOp) /\ calls' \in Seq(GmCall)
        <3>1. line' = <<>> /\ calls' = <<>>
            BY DEF Restart
        <3> QED BY <3>1
    <2>3. stage' \in [Channels -> Nat \cup {None}]
        BY DEF Restart
    <2>4. /\ running' = FALSE /\ step' = "QUEUED" /\ closing' = FALSE
          /\ UNCHANGED <<status, ledger, asked, atCampaign>>
        BY DEF Restart
    <2> QED BY <2>1, <2>2, <2>3, <2>4 DEF BoundaryInv, TypeOK
<1>4. CutsCommitted' /\ LineInOrder' /\ CallsInOrder' /\ EffectOnce'
    BY <1>1 DEF Restart, BoundaryInv, CutsCommitted, Committed, LineInOrder, CallsInOrder,
                EffectOnce
<1>5. Staged' = {}
    BY DEF Restart, Staged
<1>6. UploadsFinite' /\ NothingStraddlesABoundary'
    BY <1>5, FS_EmptySet DEF Restart, UploadsFinite, NothingStraddlesABoundary
<1> QED BY <1>2, <1>3, <1>4, <1>6 DEF BoundaryInv

-----------------------------------------------------------------------------
LEMMA BoundaryInit ==
    ASSUME Init
    PROVE  BoundaryInv
<1>1. GateInv
    BY GateInitially, GateAssumption DEF Init
<1>2. TypeOK
    <2>1. line = <<>> /\ ledger = <<>> /\ calls = <<>>
        BY DEF Init
    <2>2. line \in Seq(PeerOp) /\ ledger \in Seq(Commands) /\ calls \in Seq(GmCall)
        BY <2>1
    <2>3. asked \in [Commands -> Nat \cup {None}] /\ stage \in [Channels -> Nat \cup {None}]
        BY DEF Init
    <2>4. /\ status = "HOSTING" /\ running = FALSE /\ step = "QUEUED" /\ atCampaign = TRUE
          /\ closing = FALSE
        BY DEF Init
    <2> QED BY <1>1, <2>2, <2>3, <2>4 DEF TypeOK, GateInv
<1>3. CutsCommitted /\ LineInOrder /\ CallsInOrder /\ EffectOnce
    BY DEF Init, GateInit, CutsCommitted, LineInOrder, CallsInOrder, EffectOnce
<1>4. Staged = {}
    BY DEF Init, Staged
<1>5. UploadsFinite /\ NothingStraddlesABoundary
    BY <1>4, FS_EmptySet DEF Init, UploadsFinite, NothingStraddlesABoundary
<1> QED BY <1>1, <1>2, <1>3, <1>5 DEF BoundaryInv

LEMMA BoundaryStep ==
    ASSUME BoundaryInv, [Next]_vars
    PROVE  BoundaryInv'
<1>1. CASE UNCHANGED vars
    <2>1. /\ UNCHANGED <<gateVars, status, ledger, line, running, stage>>
          /\ UNCHANGED <<asked, calls, step, atCampaign, closing>>
        BY <1>1 DEF vars, boundaryVars
    <2>2. CallsInOrder'
        BY <2>1 DEF BoundaryInv, CallsInOrder
    <2>3. \A i \in DOMAIN calls' :
            calls'[i].scoped /\ (i > 1 \/ step' = "QUEUED") => calls'[i].since = Revision
        BY <2>1 DEF BoundaryInv, NothingStraddlesABoundary
    <2> QED BY <2>1, <2>2, <2>3, CallsKeep DEF BoundaryInv, TypeOK
<1>2. CASE PeerNext
    BY <1>2, ChannelKeeps, ReceiveKeeps, ReceiveRetryKeeps, PeerExecutesKeeps,
       PeerSettlesKeeps DEF PeerNext
<1>3. CASE GmNext
    BY <1>3, GmCallsKeep, GmStartsKeeps, GmHashedKeeps, GmEndsKeeps, ShutdownKeeps DEF GmNext
<1>4. CASE Restart
    BY <1>4, RestartKeeps
<1> QED BY <1>1, <1>2, <1>3, <1>4 DEF Next

(* What a step does to the gate.                                           *)
LEMMA GmStepsGate ==
    ASSUME BoundaryInv, GmNext
    PROVE  [GateNext]_gateVars
<1>1. ASSUME NEW m \in Commands, GmSends(m) PROVE [GateNext]_gateVars
    BY <1>1 DEF GmSends
<1>2. CASE GmNavigates \/ GmPolls \/ GmEnds \/ Shutdown
    BY <1>2 DEF GmNavigates, GmPolls, GmEnds, Shutdown
<1>3. CASE GmStarts
    <2>1. CASE UNCHANGED gateVars
        BY <2>1
    <2>2. CASE calls[1].what \in Commands /\ Decide(calls[1].what)
        BY <2>2, DecideStep
    <2> QED BY <1>3, <2>1, <2>2 DEF GmStarts
<1>4. CASE GmHashed
    <2>1. calls[1].what \in Commands /\ Decide(calls[1].what)
        BY <1>4 DEF GmHashed, BoundaryInv, CallsInOrder
    <2> QED BY <2>1, DecideStep
<1> QED BY <1>1, <1>2, <1>3, <1>4 DEF GmNext

LEMMA StepsGate ==
    ASSUME BoundaryInv, [Next]_vars
    PROVE  [GateNext]_gateVars
<1>1. CASE UNCHANGED vars
    BY <1>1 DEF vars
<1>2. ASSUME NEW c \in Channels, Connect(c) \/ Close(c) \/ LoopEnds(c)
      PROVE  [GateNext]_gateVars
    BY <1>2 DEF GateNext, Connect, Close, LoopEnds
<1>3. ASSUME NEW c \in Channels, NEW body \in Bodies \ {"RETRY"}, Receive(c, body)
      PROVE  [GateNext]_gateVars
    BY <1>3 DEF GateNext, Receive
<1>4. ASSUME NEW c \in Channels, NEW r \in Retries, NEW n \in Commands, ReceiveRetry(c, r, n)
      PROVE  [GateNext]_gateVars
    BY <1>4 DEF ReceiveRetry
<1>5. CASE PeerExecutes
    BY <1>5, EffectIsGateStep DEF PeerExecutes
<1>6. CASE PeerSettles
    BY <1>6 DEF PeerSettles
<1>7. CASE PeerNext
    BY <1>2, <1>3, <1>4, <1>5, <1>6, <1>7 DEF PeerNext
<1>8. CASE Restart
    BY <1>8 DEF Restart, GateNext
<1> QED BY <1>1, <1>7, <1>8, GmStepsGate DEF Next

-----------------------------------------------------------------------------
THEOREM BoundaryInvariant == Spec => []BoundaryInv
<1>1. Init => BoundaryInv
    BY BoundaryInit
<1>2. BoundaryInv /\ [Next]_vars => BoundaryInv'
    BY BoundaryStep
<1> QED BY <1>1, <1>2, PTL DEF Spec

(* The queue of the peers, the calls of the GM and the ledger are what     *)
(* they should be.                                                         *)
THEOREM BoundaryTypeCorrect == Spec => []TypeOK
<1>1. BoundaryInv => TypeOK
    BY DEF BoundaryInv
<1> QED BY <1>1, BoundaryInvariant, PTL

(* No operation, upload or call that was accepted under one revision is    *)
(* still there under another, whatever was asked for before an await       *)
(* (pendingOperations, the guard of commitCampaignLifecycleCommand).       *)
THEOREM NothingStraddles == Spec => []NothingStraddlesABoundary
<1>1. BoundaryInv => NothingStraddlesABoundary
    BY DEF BoundaryInv
<1> QED BY <1>1, BoundaryInvariant, PTL

(* A lifecycle command is in the ledger once.                              *)
THEOREM LifecycleEffectsOnce == Spec => []EffectOnce
<1>1. BoundaryInv => EffectOnce
    BY DEF BoundaryInv
<1> QED BY <1>1, BoundaryInvariant, PTL

(* The host with its queue, its scheduler and its lifecycle commands       *)
(* implements the gate: every step of it is a step of ConnectionGate or    *)
(* leaves the gate as it is.                                               *)
THEOREM BoundaryImplementsGate == Spec => GateSpec
<1>1. Init => GateInit
    BY DEF Init
<1>2. BoundaryInv /\ [Next]_vars => [GateNext]_gateVars
    BY StepsGate
<1> QED BY <1>1, <1>2, BoundaryInvariant, PTL DEF Spec, GateSpec

(* A device that was cut off is silent until a retry that names the cut,   *)
(* also when its operations were queued or staged before the cut.          *)
THEOREM CutDeviceIsSilentInHost == Spec => []SilentUntilRetry
BY BoundaryImplementsGate, CutDeviceIsSilent, GateAssumption, PTL

(* The gate an open channel carries is the one the ledger gives, or none,  *)
(* behind every await of the host.                                         *)
THEOREM GateNeverStaleInHost == Spec => []OpenGateIsCurrent
BY BoundaryImplementsGate, GateNeverStale, GateAssumption, PTL

=============================================================================
