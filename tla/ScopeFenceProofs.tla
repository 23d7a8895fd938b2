--------------------------- MODULE ScopeFenceProofs ---------------------------
(***************************************************************************)
(* Machine-checked proofs about ScopeFence, for every set of channels,     *)
(* peers and scopes and every table limit.                                 *)
(***************************************************************************)
EXTENDS ScopeFence, FiniteSetTheorems, TLAPS

(* Ordinals are handed out in order, so the last one covers every          *)
(* registered channel.                                                     *)
OrdinalsBounded ==
    \A c \in registered : ordinal[c] > 0 /\ ordinal[c] <= channelOrdinal

TableFinite == IsFiniteSet(table) /\ TableBounded

UnboundHasNoHolder ==
    \A k \in Keys : generation[k] = 0 => holder[k] = NoChannel

(* What keeps a fenced channel out: it is closed, or the scope's record is *)
(* still there and refuses it.                                             *)
ShutOut(c, k) ==
    /\ k \in table
    /\ holder[k] # c
    /\ c \in retired[k] \/ ordinal[c] <= barrier[k]

FencedIsShutOut ==
    \A p \in fenced :
        /\ ordinal[p[1]] > 0
        /\ p[1] \in registered => ShutOut(p[1], p[2])

FenceInv ==
    /\ FenceTypeOK
    /\ OrdinalsBounded
    /\ TableFinite
    /\ UnboundHasNoHolder
    /\ FencedIsShutOut
    /\ TransfersFollowLease

-----------------------------------------------------------------------------
(* The key of a channel's scope is a key of the table.                     *)
LEMMA KeyInKeys ==
    ASSUME NEW c \in Channels, NEW id \in ScopeIds
    PROVE  Key(c, id) \in Keys
  BY FenceAssumption DEF Key, Keys

LEMMA InitEstablishesInv == FenceInit => FenceInv
<1> SUFFICES ASSUME FenceInit PROVE FenceInv
  OBVIOUS
<1>1. IsFiniteSet(table) /\ Cardinality(table) = 0
  BY FS_EmptySet DEF FenceInit
<1>2. FenceTypeOK
  BY DEF FenceInit, FenceTypeOK
<1>3. TableFinite
  BY <1>1, FenceAssumption DEF FenceInit, TableFinite, TableBounded
<1>4. UnboundHasNoHolder
  BY DEF FenceInit, UnboundHasNoHolder
<1> QED
  BY <1>2, <1>3, <1>4
  DEF FenceInit, FenceInv, OrdinalsBounded, FencedIsShutOut, TransfersFollowLease

(* Dropping the table keeps its functions typed and leaves no holder.      *)
LEMMA EmptyTableFacts ==
    ASSUME EmptyTable
    PROVE  /\ table' = {}
           /\ generation' \in [Keys -> Nat]
           /\ holder' \in [Keys -> Channels \cup {NoChannel}]
           /\ retired' \in [Keys -> SUBSET Channels]
           /\ barrier' \in [Keys -> Nat]
           /\ \A k \in Keys : holder'[k] = NoChannel
           /\ IsFiniteSet(table') /\ Cardinality(table') = 0
  BY FS_EmptySet DEF EmptyTable

(* Adding the key of an admitted channel keeps the table within its limit. *)
LEMMA TableGrowth ==
    ASSUME FenceInv, NEW c \in Channels, NEW k \in Keys,
           MayAssign(c, k), table' = table \cup {k}
    PROVE  IsFiniteSet(table') /\ Cardinality(table') <= MaxScopes
<1>1. IsFiniteSet(table) /\ Cardinality(table) <= MaxScopes
  BY DEF FenceInv, TableFinite, TableBounded
<1>2. CASE k \in table
  <2>1. table' = table
    BY <1>2
  <2> QED
    BY <1>1, <2>1
<1>3. CASE k \notin table
  <2>1. Cardinality(table) < MaxScopes
    BY <1>3 DEF MayAssign
  <2>2. IsFiniteSet(table') /\ Cardinality(table') = Cardinality(table) + 1
    BY <1>1, <1>3, FS_AddElement
  <2>3. Cardinality(table) \in Nat
    BY <1>1, FS_CardinalityType
  <2> QED
    BY <2>1, <2>2, <2>3, FenceAssumption
<1> QED
  BY <1>2, <1>3

-----------------------------------------------------------------------------
LEMMA RegisterKeepsInv ==
    ASSUME FenceInv, NEW c \in Channels, Register(c)
    PROVE  FenceInv'
<1> USE DEF Register, FenceInv, scopeVars
<1>1. FenceTypeOK'
  BY DEF FenceTypeOK
<1>2. OrdinalsBounded'
  BY DEF OrdinalsBounded, FenceTypeOK
<1>3. TableFinite'
  <2>1. table' = table /\ registered' # {}
    OBVIOUS
  <2> QED
    BY <2>1 DEF TableFinite, TableBounded
<1>4. UnboundHasNoHolder'
  BY DEF UnboundHasNoHolder
<1>5. FencedIsShutOut'
  <2> SUFFICES ASSUME NEW p \in fenced
               PROVE  /\ ordinal'[p[1]] > 0
                      /\ p[1] \in registered' => ShutOut(p[1], p[2])'
    BY DEF FencedIsShutOut
  <2>1. p[1] \in Channels /\ ordinal[p[1]] > 0 /\ p[1] # c
    BY DEF FencedIsShutOut, FenceTypeOK
  <2>2. ordinal'[p[1]] = ordinal[p[1]]
    BY <2>1 DEF FenceTypeOK
  <2> QED
    BY <2>1, <2>2 DEF FencedIsShutOut, ShutOut
<1>6. TransfersFollowLease'
  BY DEF TransfersFollowLease, Leased
<1> QED
  BY <1>1, <1>2, <1>3, <1>4, <1>5, <1>6

LEMMA BindKeepsInv ==
    ASSUME FenceInv, NEW c \in Channels, NEW id \in ScopeIds, Bind(c, id)
    PROVE  FenceInv'
<1> DEFINE k == Key(c, id)
<1>k. k \in Keys
  BY KeyInKeys
<1>b. /\ MayAssign(c, k)
      /\ generation[k] = 0
      /\ table' = table \cup {k}
      /\ generation' = [generation EXCEPT ![k] = 1]
      /\ holder' = [holder EXCEPT ![k] = c]
      /\ UNCHANGED <<channelVars, retired, barrier, transfers, fenced>>
  BY DEF Bind
<1>r. c \in registered /\ c \notin retired[k] /\ (holder[k] = c \/ ordinal[c] > barrier[k])
  BY <1>b DEF MayAssign, Live
<1> HIDE DEF k
<1> USE DEF FenceInv
<1>1. FenceTypeOK'
  BY <1>k, <1>b DEF FenceTypeOK, channelVars
<1>2. OrdinalsBounded'
  BY <1>b DEF OrdinalsBounded, channelVars
<1>3. TableFinite'
  <2>1. IsFiniteSet(table') /\ Cardinality(table') <= MaxScopes
    BY <1>b, <1>k, TableGrowth
  <2>2. registered' # {}
    BY <1>b, <1>r DEF channelVars
  <2> QED
    BY <2>1, <2>2 DEF TableFinite, TableBounded
<1>4. UnboundHasNoHolder'
  BY <1>b, <1>k DEF UnboundHasNoHolder, FenceTypeOK
<1>5. FencedIsShutOut'
  <2> SUFFICES ASSUME NEW p \in fenced
               PROVE  /\ ordinal[p[1]] > 0
                      /\ p[1] \in registered => ShutOut(p[1], p[2])'
    BY <1>b DEF FencedIsShutOut, channelVars
  <2>1. p[1] \in Channels /\ p[2] \in Keys
    BY DEF FenceTypeOK
  <2>2. CASE p[1] \in registered
    <3>1. ShutOut(p[1], p[2])
      BY <2>2 DEF FencedIsShutOut
    <3>2. p[2] = k => p[1] # c
      BY <3>1, <1>r, <2>1 DEF ShutOut, FenceTypeOK
    <3> QED
      BY <1>b, <1>k, <2>1, <3>1, <3>2
      DEF ShutOut, FenceTypeOK, channelVars, FencedIsShutOut
  <2>3. CASE p[1] \notin registered
    BY <2>3 DEF FencedIsShutOut
  <2> QED
    BY <2>2, <2>3
<1>6. TransfersFollowLease'
  <2> SUFFICES ASSUME NEW t \in transfers PROVE Leased(t.channel, t.key)'
    BY <1>b DEF TransfersFollowLease
  <2>1. t.channel \in Channels /\ t.key \in Keys /\ Leased(t.channel, t.key)
    BY DEF FenceTypeOK, Transfer, TransfersFollowLease
  <2>2. t.key # k
    BY <2>1, <1>b, <1>k, FenceAssumption DEF UnboundHasNoHolder, Leased
  <2> QED
    BY <1>b, <1>k, <2>1, <2>2 DEF Leased, channelVars, FenceTypeOK
<1> QED
  BY <1>1, <1>2, <1>3, <1>4, <1>5, <1>6

LEMMA RecoverKeepsInv ==
    ASSUME FenceInv, NEW c \in Channels, NEW id \in ScopeIds,
           NEW fails \in BOOLEAN, Recover(c, id, fails)
    PROVE  FenceInv'
<1> DEFINE k == Key(c, id)
<1>k. k \in Keys
  BY KeyInKeys
<1>b. /\ MayAssign(c, k)
      /\ ~Leased(c, k)
      /\ table' = table \cup {k}
      /\ generation' = [generation EXCEPT ![k] = @ + 1]
      /\ barrier' = [barrier EXCEPT ![k] = channelOrdinal]
      /\ retired' = [retired EXCEPT ![k] = @ \cup ({holder[k]} \ {NoChannel})]
      /\ holder' = [holder EXCEPT ![k] = IF fails THEN NoChannel ELSE c]
      /\ transfers' = {t \in transfers : t.key # k}
      /\ fenced' = fenced \cup ((registered \ {c}) \X {k})
      /\ UNCHANGED channelVars
  BY DEF Recover
<1>r. c \in registered /\ c \notin retired[k] /\ (holder[k] = c \/ ordinal[c] > barrier[k])
  BY <1>b DEF MayAssign, Live
<1> HIDE DEF k
<1> USE DEF FenceInv
<1>1. FenceTypeOK'
  <2>1. /\ generation' \in [Keys -> Nat]
        /\ barrier' \in [Keys -> Nat]
        /\ table' \subseteq Keys
    BY <1>k, <1>b DEF FenceTypeOK
  <2>2. holder' \in [Keys -> Channels \cup {NoChannel}]
    BY <1>k, <1>b DEF FenceTypeOK
  <2>3. retired' \in [Keys -> SUBSET Channels]
    <3>1. {holder[k]} \ {NoChannel} \subseteq Channels
      BY <1>k DEF FenceTypeOK
    <3> QED
      BY <1>k, <1>b, <3>1 DEF FenceTypeOK
  <2>4. transfers' \subseteq Transfer /\ fenced' \subseteq Channels \X Keys
    BY <1>k, <1>b DEF FenceTypeOK
  <2> QED
    BY <1>b, <2>1, <2>2, <2>3, <2>4 DEF FenceTypeOK, channelVars
<1>2. OrdinalsBounded'
  BY <1>b DEF OrdinalsBounded, channelVars
<1>3. TableFinite'
  <2>1. IsFiniteSet(table') /\ Cardinality(table') <= MaxScopes
    BY <1>b, <1>k, TableGrowth
  <2>2. registered' # {}
    BY <1>b, <1>r DEF channelVars
  <2> QED
    BY <2>1, <2>2 DEF TableFinite, TableBounded
<1>4. UnboundHasNoHolder'
  <2> SUFFICES ASSUME NEW j \in Keys, generation'[j] = 0
               PROVE  holder'[j] = NoChannel
    BY DEF UnboundHasNoHolder
  <2>1. j # k
    BY <1>b, <1>k DEF FenceTypeOK
  <2> QED
    BY <2>1, <1>b DEF UnboundHasNoHolder, FenceTypeOK
<1>5. FencedIsShutOut'
  <2> SUFFICES ASSUME NEW p \in fenced'
               PROVE  /\ ordinal[p[1]] > 0
                      /\ p[1] \in registered => ShutOut(p[1], p[2])'
    BY <1>b DEF FencedIsShutOut, channelVars
  <2>1. p[1] \in Channels /\ p[2] \in Keys
    BY <1>1 DEF FenceTypeOK
  <2>2. ordinal[p[1]] > 0
    <3>1. CASE p \in fenced
      BY <3>1 DEF FencedIsShutOut
    <3>2. CASE p \notin fenced
      BY <3>2, <1>b DEF OrdinalsBounded
    <3> QED
      BY <3>1, <3>2
  <2>3. ASSUME p[1] \in registered, p[2] = k
        PROVE  ShutOut(p[1], p[2])'
    <3>1. p[1] # c
      <4>1. CASE p \in fenced
        BY <4>1, <2>1, <2>3, <1>r DEF FencedIsShutOut, ShutOut, FenceTypeOK
      <4>2. CASE p \notin fenced
        BY <4>2, <1>b
      <4> QED
        BY <4>1, <4>2
    <3>2. ordinal[p[1]] <= channelOrdinal
      BY <2>3 DEF OrdinalsBounded
    <3>3. holder'[k] # p[1]
      BY <1>b, <1>k, <2>1, <3>1, FenceAssumption DEF FenceTypeOK
    <3>4. barrier'[k] = channelOrdinal /\ ordinal' = ordinal /\ k \in table'
      BY <1>b, <1>k DEF FenceTypeOK, channelVars
    <3> QED
      BY <2>3, <3>2, <3>3, <3>4 DEF ShutOut
  <2>4. ASSUME p[1] \in registered, p[2] # k
        PROVE  ShutOut(p[1], p[2])'
    <3>1. p \in fenced
      BY <2>4, <1>b
    <3>2. ShutOut(p[1], p[2])
      BY <2>4, <3>1 DEF FencedIsShutOut
    <3> QED
      BY <1>b, <1>k, <2>1, <2>4, <3>2 DEF ShutOut, FenceTypeOK, channelVars
  <2> QED
    BY <2>2, <2>3, <2>4
<1>6. TransfersFollowLease'
  <2> SUFFICES ASSUME NEW t \in transfers, t.key # k
               PROVE  Leased(t.channel, t.key)'
    BY <1>b DEF TransfersFollowLease
  <2>1. t.channel \in Channels /\ t.key \in Keys /\ Leased(t.channel, t.key)
    BY DEF FenceTypeOK, Transfer, TransfersFollowLease
  <2> QED
    BY <1>b, <1>k, <2>1 DEF Leased, channelVars, FenceTypeOK
<1> QED
  BY <1>1, <1>2, <1>3, <1>4, <1>5, <1>6

LEMMA TransferKeepsInv ==
    ASSUME FenceInv,
           \/ \E c \in Channels, id \in ScopeIds, x \in TransferIds :
                 TrackTransfer(c, id, x)
           \/ \E t \in transfers : ReleaseTransfer(t)
    PROVE  FenceInv'
<1>1. UNCHANGED <<channelVars, scopeVars, fenced>>
  BY DEF TrackTransfer, ReleaseTransfer
<1> DEFINE Sound == /\ transfers' \subseteq Transfer
                    /\ \A t \in transfers' : Leased(t.channel, t.key)
<1>2. Sound
  <2>1. ASSUME NEW c \in Channels, NEW id \in ScopeIds,
               NEW x \in TransferIds, TrackTransfer(c, id, x)
        PROVE  Sound
    BY <2>1, KeyInKeys
    DEF TrackTransfer, Transfer, Current, FenceInv, FenceTypeOK, TransfersFollowLease
  <2>2. ASSUME NEW t \in transfers, ReleaseTransfer(t)
        PROVE  Sound
    BY <2>2 DEF ReleaseTransfer, FenceInv, FenceTypeOK, TransfersFollowLease
  <2> QED
    BY <2>1, <2>2
<1> QED
  BY <1>1, <1>2
  DEF channelVars, scopeVars, FenceInv, FenceTypeOK, OrdinalsBounded, TableFinite,
      TableBounded, UnboundHasNoHolder, FencedIsShutOut, ShutOut,
      TransfersFollowLease, Leased

LEMMA NativeCloseKeepsInv ==
    ASSUME FenceInv, NEW c \in Channels, NativeClose(c)
    PROVE  FenceInv'
  BY DEF NativeClose, scopeVars, FenceInv, FenceTypeOK, OrdinalsBounded, TableFinite,
         TableBounded, UnboundHasNoHolder, FencedIsShutOut, ShutOut,
         TransfersFollowLease, Leased

LEMMA CloseChannelKeepsInv ==
    ASSUME FenceInv, NEW c \in Channels, CloseChannel(c)
    PROVE  FenceInv'
<1> USE DEF FenceInv
<1>b. /\ c \in registered
      /\ registered' = registered \ {c}
      /\ down' = down \cup {c}
      /\ transfers' = {t \in transfers : t.channel # c}
      /\ UNCHANGED <<closed, ordinal, channelOrdinal, fenced>>
  BY DEF CloseChannel
<1>t. \A t \in transfers : /\ t.channel \in registered /\ t.key \in table
                           /\ holder[t.key] = t.channel
  BY DEF TransfersFollowLease, Leased
<1>1. CASE registered = {c}
  <2>1. EmptyTable
    BY <1>1 DEF CloseChannel
  <2>2. registered' = {} /\ transfers' = {}
    BY <1>1, <1>b, <1>t
  <2>3. FenceTypeOK'
    BY <1>b, <2>1, <2>2, EmptyTableFacts DEF FenceTypeOK
  <2>4. TableFinite'
    BY <2>1, <2>2, EmptyTableFacts, FenceAssumption DEF TableFinite, TableBounded
  <2>5. UnboundHasNoHolder'
    BY <2>1, EmptyTableFacts DEF UnboundHasNoHolder
  <2> QED
    BY <1>b, <2>2, <2>3, <2>4, <2>5
    DEF OrdinalsBounded, FencedIsShutOut, TransfersFollowLease
<1>2. CASE registered # {c}
  <2>1. /\ retired' = [k \in Keys |-> IF holder[k] = c THEN retired[k] \cup {c}
                                                       ELSE retired[k]]
        /\ UNCHANGED <<table, generation, holder, barrier>>
    BY <1>2 DEF CloseChannel
  <2>2. FenceTypeOK'
    BY <1>b, <2>1 DEF FenceTypeOK
  <2>3. TableFinite'
    BY <1>2, <1>b, <2>1 DEF TableFinite, TableBounded
  <2>4. FencedIsShutOut'
    BY <1>b, <2>1 DEF FencedIsShutOut, ShutOut, FenceTypeOK
  <2>5. TransfersFollowLease'
    BY <1>b, <1>t, <2>1 DEF TransfersFollowLease, Leased
  <2> QED
    BY <1>b, <2>1, <2>2, <2>3, <2>4, <2>5 DEF OrdinalsBounded, UnboundHasNoHolder
<1> QED
  BY <1>1, <1>2

LEMMA CloseKeepsInv ==
    ASSUME FenceInv, Close
    PROVE  FenceInv'
<1>1. EmptyTable /\ registered' = {} /\ transfers' = {}
  BY DEF Close
<1>2. FenceTypeOK'
  BY <1>1, EmptyTableFacts DEF FenceInv, FenceTypeOK, Close
<1>3. TableFinite' /\ UnboundHasNoHolder'
  BY <1>1, EmptyTableFacts, FenceAssumption
  DEF TableFinite, TableBounded, UnboundHasNoHolder
<1> QED
  BY <1>1, <1>2, <1>3
  DEF Close, FenceInv, OrdinalsBounded, FencedIsShutOut, TransfersFollowLease

(* A closed executor has no registered channel: without it the ordinals    *)
(* that start afresh could undercut a channel that is still registered.    *)
ClosedIsEmpty == closed => registered = {}

LEMMA ReopenKeepsInv ==
    ASSUME FenceInv, ClosedIsEmpty, Reopen
    PROVE  FenceInv'
  BY DEF Reopen, ClosedIsEmpty, scopeVars, FenceInv, FenceTypeOK, OrdinalsBounded,
         TableFinite, TableBounded, UnboundHasNoHolder, FencedIsShutOut, ShutOut,
         TransfersFollowLease, Leased

LEMMA ClosedIsEmptyStep ==
    ASSUME ClosedIsEmpty, FenceNext
    PROVE  ClosedIsEmpty'
<1>1. CASE Close
  BY <1>1 DEF Close, ClosedIsEmpty
<1>2. CASE Reopen
  BY <1>2 DEF Reopen, ClosedIsEmpty
<1>3. ASSUME NEW c \in Channels, Register(c) PROVE ClosedIsEmpty'
  BY <1>3 DEF Register, ClosedIsEmpty
<1>4. ASSUME NEW c \in Channels, CloseChannel(c) PROVE ClosedIsEmpty'
  BY <1>4 DEF CloseChannel, ClosedIsEmpty
<1>5. CASE UNCHANGED <<closed, registered>>
  BY <1>5 DEF ClosedIsEmpty
<1>6. ASSUME NEW c \in Channels, NativeClose(c) PROVE ClosedIsEmpty'
  BY <1>6 DEF NativeClose, ClosedIsEmpty
<1>7. ASSUME NEW c \in Channels, NEW id \in ScopeIds,
             Bind(c, id) \/ \E fails \in BOOLEAN : Recover(c, id, fails)
      PROVE  ClosedIsEmpty'
  BY <1>7, <1>5 DEF Bind, Recover, channelVars
<1>8. ASSUME NEW t \in transfers, ReleaseTransfer(t) PROVE ClosedIsEmpty'
  BY <1>8, <1>5 DEF ReleaseTransfer, channelVars
<1>9. ASSUME NEW c \in Channels, NEW id \in ScopeIds, NEW x \in TransferIds,
             TrackTransfer(c, id, x)
      PROVE  ClosedIsEmpty'
  BY <1>9, <1>5 DEF TrackTransfer, channelVars
<1> QED
  BY <1>1, <1>2, <1>3, <1>4, <1>6, <1>7, <1>8, <1>9 DEF FenceNext

LEMMA NextKeepsInv ==
    ASSUME FenceInv, ClosedIsEmpty, [FenceNext]_fenceVars
    PROVE  FenceInv' /\ ClosedIsEmpty'
<1>1. CASE FenceNext
  <2>1. ASSUME NEW c \in Channels, Register(c) PROVE FenceInv'
    BY <2>1, RegisterKeepsInv
  <2>2. ASSUME NEW c \in Channels, NativeClose(c) PROVE FenceInv'
    BY <2>2, NativeCloseKeepsInv
  <2>3. ASSUME NEW c \in Channels, CloseChannel(c) PROVE FenceInv'
    BY <2>3, CloseChannelKeepsInv
  <2>4. ASSUME NEW c \in Channels, NEW id \in ScopeIds, Bind(c, id) PROVE FenceInv'
    BY <2>4, BindKeepsInv
  <2>5. ASSUME NEW c \in Channels, NEW id \in ScopeIds,
               NEW fails \in BOOLEAN, Recover(c, id, fails)
        PROVE  FenceInv'
    BY <2>5, RecoverKeepsInv
  <2>6. ASSUME \/ \E c \in Channels, id \in ScopeIds, x \in TransferIds :
                     TrackTransfer(c, id, x)
               \/ \E t \in transfers : ReleaseTransfer(t)
        PROVE  FenceInv'
    BY <2>6, TransferKeepsInv
  <2>7. ASSUME Close PROVE FenceInv'
    BY <2>7, CloseKeepsInv
  <2>8. ASSUME Reopen PROVE FenceInv'
    BY <2>8, ReopenKeepsInv
  <2>9. ClosedIsEmpty'
    BY <1>1, ClosedIsEmptyStep
  <2> QED
    BY <1>1, <2>1, <2>2, <2>3, <2>4, <2>5, <2>6, <2>7, <2>8, <2>9 DEF FenceNext
<1>2. CASE UNCHANGED fenceVars
  BY <1>2
  DEF fenceVars, channelVars, scopeVars, ClosedIsEmpty, FenceInv, FenceTypeOK,
      OrdinalsBounded, TableFinite, TableBounded, UnboundHasNoHolder,
      FencedIsShutOut, ShutOut, TransfersFollowLease, Leased
<1> QED
  BY <1>1, <1>2

(* The inductive invariant behind every result below.                      *)
THEOREM InvariantHolds == FenceSpec => [](FenceInv /\ ClosedIsEmpty)
<1>1. FenceInit => FenceInv /\ ClosedIsEmpty
  BY InitEstablishesInv DEF FenceInit, ClosedIsEmpty
<1>2. FenceInv /\ ClosedIsEmpty /\ [FenceNext]_fenceVars
        => (FenceInv /\ ClosedIsEmpty)'
  BY NextKeepsInv
<1> QED
  BY <1>1, <1>2, PTL DEF FenceSpec

(* Every variable of the executor keeps its type.                          *)
THEOREM TypeCorrect == FenceSpec => []FenceTypeOK
<1>1. FenceInv => FenceTypeOK
  BY DEF FenceInv
<1> QED
  BY <1>1, InvariantHolds, PTL

(* A channel that a recovery shut out of a scope never holds it again.     *)
THEOREM FenceIsFinal == FenceSpec => []FencedStaysOut
<1>1. FenceInv => FencedStaysOut
  BY DEF FenceInv, FencedIsShutOut, ShutOut, FencedStaysOut, Leased
<1> QED
  BY <1>1, InvariantHolds, PTL

(* Tracked transfers always belong to a lease that is not revoked.         *)
THEOREM TransfersAreLeased == FenceSpec => []TransfersFollowLease
<1>1. FenceInv => TransfersFollowLease
  BY DEF FenceInv
<1> QED
  BY <1>1, InvariantHolds, PTL

(* The scope table stays within its limit and empties with the channels.   *)
THEOREM TableStaysBounded == FenceSpec => []TableBounded
<1>1. FenceInv => TableBounded
  BY DEF FenceInv, TableFinite
<1> QED
  BY <1>1, InvariantHolds, PTL

(* One step: a lease changes hands only under a larger generation.         *)
LEMMA TakeoverStep ==
    ASSUME FenceInv, [FenceNext]_fenceVars,
           NEW k \in table \cap table'
    PROVE  /\ generation'[k] >= generation[k]
           /\ holder'[k] # holder[k] => generation'[k] > generation[k]
<1>k. k \in Keys /\ generation[k] \in Nat
  BY DEF FenceInv, FenceTypeOK
<1>1. CASE UNCHANGED <<generation, holder>>
  BY <1>1, <1>k
<1>2. ASSUME NEW c \in Channels, NEW id \in ScopeIds, Bind(c, id)
      PROVE  generation'[k] >= generation[k]
             /\ (holder'[k] # holder[k] => generation'[k] > generation[k])
  BY <1>2, <1>k, KeyInKeys DEF Bind, FenceInv, FenceTypeOK
<1>3. ASSUME NEW c \in Channels, NEW id \in ScopeIds, NEW fails \in BOOLEAN,
             Recover(c, id, fails)
      PROVE  generation'[k] >= generation[k]
             /\ (holder'[k] # holder[k] => generation'[k] > generation[k])
  BY <1>3, <1>k, KeyInKeys DEF Recover, FenceInv, FenceTypeOK
<1>4. ASSUME NEW c \in Channels, CloseChannel(c)
      PROVE  UNCHANGED <<generation, holder>>
  BY <1>4 DEF CloseChannel, EmptyTable
<1>5. ASSUME Close PROVE FALSE
  BY <1>5 DEF Close, EmptyTable
<1> QED
  BY <1>1, <1>2, <1>3, <1>4, <1>5
  DEF FenceNext, fenceVars, scopeVars, Register, NativeClose, TrackTransfer,
      ReleaseTransfer, Reopen

(* No two leases of one scope record share a generation.                   *)
THEOREM GenerationsDistinguishLeases == FenceSpec => TakeoverRaisesGeneration
<1>1. FenceInv /\ [FenceNext]_fenceVars
        => [\A k \in table \cap table' :
              /\ generation'[k] >= generation[k]
              /\ holder'[k] # holder[k] => generation'[k] > generation[k]]_fenceVars
  BY TakeoverStep
<1> QED
  BY <1>1, InvariantHolds, PTL DEF FenceSpec, TakeoverRaisesGeneration

=============================================================================
