------------------------------ MODULE ScopeFence ------------------------------
(***************************************************************************)
(* The RAM transport fence of the campaign host: the part of               *)
(* campaign-network-executor.ts that decides which physical peer channel   *)
(* may act for a scope (an opening ATTEMPT or a player SESSION).           *)
(*                                                                         *)
(* A channel is registered once, after its device proof, and receives the  *)
(* next ordinal.  `bind' takes a scope nobody ever held; `recover' takes   *)
(* it over, revokes the former holder and raises the scope's recovery      *)
(* barrier to the newest ordinal handed out, so that every channel         *)
(* registered up to now is shut out even if its first operation is still   *)
(* on the wire.  When the last registered channel closes the whole table   *)
(* is dropped.                                                             *)
(*                                                                         *)
(* JavaScript runs each of these calls to completion, so each is one       *)
(* action.  A refused call (STALE_GENERATION, SCOPE_LIMIT, CLOSED, ...)    *)
(* changes nothing and is a disabled action.  The guard against a revoke   *)
(* callback that re-enters the executor (`retiring') is not modelled: the  *)
(* callbacks of the repository only drop their RAM stage.                  *)
(***************************************************************************)
EXTENDS Naturals, FiniteSets

CONSTANTS
    Channels,     \* physical server channels, each used once
    Peers,        \* authenticated peers (device id and key fingerprint)
    PeerOf,       \* the peer that proved its identity on a channel
    ScopeIds,     \* kind and id of a scope, inside one peer
    TransferIds,  \* chunked transfers a lease may track
    MaxScopes,    \* limits.maxScopes
    NoChannel     \* stands for current = null

ASSUME FenceAssumption ==
    /\ PeerOf \in [Channels -> Peers]
    /\ MaxScopes \in Nat \ {0}
    /\ NoChannel \notin Channels

Keys == Peers \X ScopeIds

Key(c, id) == <<PeerOf[c], id>>

VARIABLES
    closed,          \* the executor was closed
    registered,      \* channels registered and not revoked
    down,            \* channels whose native channel.closed is already true
    ordinal,         \* ordinal of a channel, 0 before it is registered
    channelOrdinal,  \* last ordinal handed out
    table,           \* keys present in the scopes map
    generation, holder, retired, barrier,   \* the ScopeRecord of a key
    transfers,       \* tracked transfers of leases that are not revoked
    fenced           \* history: <<channel, key>> shut out by a recovery

scopeVars == <<table, generation, holder, retired, barrier>>
channelVars == <<closed, registered, down, ordinal, channelOrdinal>>
fenceVars == <<channelVars, scopeVars, transfers, fenced>>

Transfer == [channel : Channels, key : Keys, id : TransferIds]

FenceTypeOK ==
    /\ closed \in BOOLEAN
    /\ registered \subseteq Channels
    /\ down \subseteq Channels
    /\ ordinal \in [Channels -> Nat]
    /\ channelOrdinal \in Nat
    /\ table \subseteq Keys
    /\ generation \in [Keys -> Nat]
    /\ holder \in [Keys -> Channels \cup {NoChannel}]
    /\ retired \in [Keys -> SUBSET Channels]
    /\ barrier \in [Keys -> Nat]
    /\ transfers \subseteq Transfer
    /\ fenced \subseteq Channels \X Keys

-----------------------------------------------------------------------------
EmptyTable ==
    /\ table' = {}
    /\ generation' = [k \in Keys |-> 0]
    /\ holder' = [k \in Keys |-> NoChannel]
    /\ retired' = [k \in Keys |-> {}]
    /\ barrier' = [k \in Keys |-> 0]

FenceInit ==
    /\ closed = FALSE
    /\ registered = {}
    /\ down = {}
    /\ ordinal = [c \in Channels |-> 0]
    /\ channelOrdinal = 0
    /\ table = {}
    /\ generation = [k \in Keys |-> 0]
    /\ holder = [k \in Keys |-> NoChannel]
    /\ retired = [k \in Keys |-> {}]
    /\ barrier = [k \in Keys |-> 0]
    /\ transfers = {}
    /\ fenced = {}

\* live(owner): neither the executor, the registration nor the transport ended.
Live(c) ==
    /\ ~closed
    /\ c \in registered
    /\ c \notin down

\* The lease c holds on k has not been revoked.
Leased(c, k) ==
    /\ k \in table
    /\ holder[k] = c
    /\ c \in registered

\* Mutant: assertCurrent does not compare the lease with the scope's current one.
CurrentWithoutLease(c, k) == Live(c) /\ k \in table

\* assertCurrent(lease)
Current(c, k) == Live(c) /\ Leased(c, k)

\* Mutant: the newest channel passes the barrier that was to cover it.
MayAssignAtBarrier(c, k) ==
    /\ Live(c)
    /\ k \in table \/ Cardinality(table) < MaxScopes
    /\ c \notin retired[k]
    /\ holder[k] = c \/ ordinal[c] >= barrier[k]

\* Mutant: the limit is checked after the insertion.
MayAssignOverfull(c, k) ==
    /\ Live(c)
    /\ k \in table \/ Cardinality(table) <= MaxScopes
    /\ c \notin retired[k]
    /\ holder[k] = c \/ ordinal[c] > barrier[k]

\* The refusals of assign that come before it looks for an existing lease.
MayAssign(c, k) ==
    /\ Live(c)
    /\ k \in table \/ Cardinality(table) < MaxScopes
    /\ c \notin retired[k]
    /\ holder[k] = c \/ ordinal[c] > barrier[k]

-----------------------------------------------------------------------------
Register(c) ==
    /\ ~closed
    /\ ordinal[c] = 0
    /\ c \notin down
    /\ registered' = registered \cup {c}
    /\ channelOrdinal' = channelOrdinal + 1
    /\ ordinal' = [ordinal EXCEPT ![c] = channelOrdinal + 1]
    /\ UNCHANGED <<closed, down, scopeVars, transfers, fenced>>

\* Mutant: bind takes a scope over without a recovery.
BindTakesOver(c, id) ==
    LET k == Key(c, id) IN
    /\ MayAssign(c, k)
    /\ table' = table \cup {k}
    /\ generation' = [generation EXCEPT ![k] = 1]
    /\ holder' = [holder EXCEPT ![k] = c]
    /\ UNCHANGED <<channelVars, retired, barrier, transfers, fenced>>

\* bindScope of a scope that has no lease yet; a rebind by the holder returns
\* the lease it has, any other bind is refused.
Bind(c, id) ==
    LET k == Key(c, id) IN
    /\ MayAssign(c, k)
    /\ generation[k] = 0
    /\ table' = table \cup {k}
    /\ generation' = [generation EXCEPT ![k] = 1]
    /\ holder' = [holder EXCEPT ![k] = c]
    /\ UNCHANGED <<channelVars, retired, barrier, transfers, fenced>>

\* Mutant: recover retires the former holder without looking whether there is one.
RecoverRetiresNobody(c, id, fails) ==
    LET k == Key(c, id) IN
    /\ MayAssign(c, k)
    /\ ~Leased(c, k)
    /\ fails => \E t \in transfers : t.key = k
    /\ table' = table \cup {k}
    /\ generation' = [generation EXCEPT ![k] = @ + 1]
    /\ barrier' = [barrier EXCEPT ![k] = channelOrdinal]
    /\ retired' = [retired EXCEPT ![k] = @ \cup {holder[k]}]
    /\ holder' = [holder EXCEPT ![k] = IF fails THEN NoChannel ELSE c]
    /\ transfers' = {t \in transfers : t.key # k}
    /\ fenced' = fenced \cup ((registered \ {c}) \X {k})
    /\ UNCHANGED channelVars

\* recoverScope by a channel that does not hold the scope.  `fails': a revoke
\* callback of the former holder threw (REVOCATION_FAILED), so that the scope
\* stays without a lease and its barrier covers the recovering channel too.
Recover(c, id, fails) ==
    LET k == Key(c, id)
        previous == holder[k]
    IN
    /\ MayAssign(c, k)
    /\ ~Leased(c, k)
    /\ fails => \E t \in transfers : t.key = k
    /\ table' = table \cup {k}
    /\ generation' = [generation EXCEPT ![k] = @ + 1]
    /\ barrier' = [barrier EXCEPT ![k] = channelOrdinal]
    /\ retired' = [retired EXCEPT ![k] = @ \cup ({previous} \ {NoChannel})]
    /\ holder' = [holder EXCEPT ![k] = IF fails THEN NoChannel ELSE c]
    /\ transfers' = {t \in transfers : t.key # k}
    /\ fenced' = fenced \cup ((registered \ {c}) \X {k})
    /\ UNCHANGED channelVars

TrackTransfer(c, id, x) ==
    LET k == Key(c, id)
        t == [channel |-> c, key |-> k, id |-> x]
    IN
    /\ Current(c, k)
    /\ t \notin transfers
    /\ transfers' = transfers \cup {t}
    /\ UNCHANGED <<channelVars, scopeVars, fenced>>

\* The release closure that trackTransfer returns.
ReleaseTransfer(t) ==
    /\ t \in transfers
    /\ transfers' = transfers \ {t}
    /\ UNCHANGED <<channelVars, scopeVars, fenced>>

\* The transport ends by itself: channel.closed turns true before the host's
\* loop for this connection calls closeChannel.
NativeClose(c) ==
    /\ c \notin down
    /\ down' = down \cup {c}
    /\ UNCHANGED <<closed, registered, ordinal, channelOrdinal, scopeVars,
                   transfers, fenced>>

CloseChannel(c) ==
    /\ c \in registered
    /\ registered' = registered \ {c}
    /\ down' = down \cup {c}
    /\ transfers' = {t \in transfers : t.channel # c}
    /\ IF registered = {c}
       THEN EmptyTable
       ELSE /\ retired' = [k \in Keys |-> IF holder[k] = c
                                          THEN retired[k] \cup {c}
                                          ELSE retired[k]]
            /\ UNCHANGED <<table, generation, holder, barrier>>
    /\ UNCHANGED <<closed, ordinal, channelOrdinal, fenced>>

\* close(): every registered channel is closed and the table dropped.
Close ==
    /\ ~closed
    /\ closed' = TRUE
    /\ down' = down \cup registered
    /\ registered' = {}
    /\ transfers' = {}
    /\ EmptyTable
    /\ UNCHANGED <<ordinal, channelOrdinal, fenced>>

\* The host opens the campaign again: a new executor, whose ordinals start
\* afresh.  Channels of the former one stay unknown to it.
Reopen ==
    /\ closed
    /\ closed' = FALSE
    /\ channelOrdinal' = 0
    /\ UNCHANGED <<registered, down, ordinal, scopeVars, transfers, fenced>>

FenceNext ==
    \/ \E c \in Channels :
        \/ Register(c)
        \/ NativeClose(c)
        \/ CloseChannel(c)
        \/ \E id \in ScopeIds :
            \/ Bind(c, id)
            \/ \E fails \in BOOLEAN : Recover(c, id, fails)
            \/ \E x \in TransferIds : TrackTransfer(c, id, x)
    \/ \E t \in transfers : ReleaseTransfer(t)
    \/ Close
    \/ Reopen

FenceSpec == FenceInit /\ [][FenceNext]_fenceVars

-----------------------------------------------------------------------------
(* Once a recovery has shut a registered channel out of a scope, that      *)
(* channel never holds the scope again, however late its operations arrive *)
(* and even after the table was dropped (assign, closeChannel).            *)
FencedStaysOut ==
    \A p \in fenced : ~Leased(p[1], p[2])

(* A chunked transfer is tracked only while its channel still holds the    *)
(* scope it was begun under: no takeover and no close leaves a RAM stage   *)
(* of a channel that lost the scope (assign's revoke, closeChannel).       *)
TransfersFollowLease ==
    \A t \in transfers : Leased(t.channel, t.key)

(* The table never exceeds its limit and holds nothing once no channel is  *)
(* registered, so departed peers cannot exhaust it (assign, closeChannel). *)
TableBounded ==
    /\ Cardinality(table) <= MaxScopes
    /\ registered = {} => table = {}

(* Two leases of one scope record never share a generation: a lease that   *)
(* changes hands carries a larger one, so a handle kept across a takeover  *)
(* cannot pass assertCurrent (assign).                                     *)
TakeoverRaisesGeneration ==
    [][\A k \in table \cap table' :
          /\ generation'[k] >= generation[k]
          /\ holder'[k] # holder[k] => generation'[k] > generation[k]]_fenceVars

=============================================================================
