------------------------- MODULE CheckpointStoreProofs -------------------------
(***************************************************************************)
(* Proofs about CheckpointStore, for any characters, ids, payloads and     *)
(* largest revision.                                                       *)
(*                                                                         *)
(* StoreInv is inductive.  That a revision names one snapshot does not     *)
(* follow from what is stored now: a later commit must not come back to a  *)
(* revision that is already named, so no named revision is above the row's *)
(* and the one that equals it names the snapshot the row has (NamedBelow). *)
(***************************************************************************)
EXTENDS CheckpointStore, TLAPS

(* A row without a checkpoint is an untouched variant that named nothing.  *)
Untouched ==
    \A ch \in Characters : ckpt[ch] = None =>
        /\ named[ch] = {}
        /\ row[ch] # None => row[ch].snap.life = "VARIANT"

(* The revisions given out so far are at most the row's, and the row's     *)
(* own names the row's snapshot.                                           *)
NamedBelow ==
    \A ch \in Characters : ckpt[ch] # None =>
        \A x \in named[ch] :
            /\ x.st <= row[ch].st
            /\ x.st = row[ch].st => x.snap = row[ch].snap

StoreInv ==
    /\ StoreTypeOK
    /\ Untouched
    /\ CheckpointIsCurrent
    /\ CountersAgree
    /\ NamedBelow
    /\ RevisionNamesSnapshot

(* Writing a row with its checkpoint keeps the invariant when the row is   *)
(* typed, is no variant, and either repeats what its revision names or     *)
(* takes a revision above all that are named.                              *)
LEMMA StoreKeeps ==
    ASSUME StoreAssumption, StoreInv,
           NEW ch \in Characters, NEW r \in Rows, NEW id \in CheckpointIds,
           NEW n \in Revisions,
           Store(ch, r, id, n),
           r.snap.life # "VARIANT",
           n = r.st,
           \A x \in named[ch] : x.st <= r.st /\ (x.st = r.st => x.snap = r.snap)
    PROVE  StoreInv'
<1> USE DEF StoreInv, Store
<1>1. /\ row'[ch] = r
      /\ ckpt'[ch] = CheckpointOf(r, id, n)
      /\ named'[ch] = named[ch] \cup {[st |-> r.st, snap |-> r.snap]}
      /\ \A o \in Characters \ {ch} :
            row'[o] = row[o] /\ ckpt'[o] = ckpt[o] /\ named'[o] = named[o]
    BY DEF StoreTypeOK
<1>2. CheckpointOf(r, id, n) \in Checkpoints
    BY DEF CheckpointOf, Checkpoints, Rows
<1>3. r # None /\ CheckpointOf(r, id, n) # None
    BY <1>2 DEF StoreAssumption
<1>4. StoreTypeOK'
    <2>1. [st |-> r.st, snap |-> r.snap] \in [st : Revisions, snap : Snapshots]
        BY DEF Rows
    <2> QED BY <1>2, <2>1 DEF StoreTypeOK
<1>5. Untouched'
    <2> SUFFICES ASSUME NEW o \in Characters, ckpt'[o] = None
                 PROVE  named'[o] = {} /\ (row'[o] # None => row'[o].snap.life = "VARIANT")
        BY DEF Untouched
    <2> QED BY <1>1, <1>3 DEF Untouched
<1>6. CheckpointIsCurrent'
    <2> SUFFICES ASSUME NEW o \in Characters, ckpt'[o] # None
                 PROVE  row'[o] # None /\ Valid(o)' /\ row'[o].snap.life # "VARIANT"
        BY DEF CheckpointIsCurrent
    <2>1. CASE o = ch
        BY <2>1, <1>1, <1>3 DEF Valid, CheckpointOf
    <2>2. CASE o # ch
        BY <2>2, <1>1 DEF CheckpointIsCurrent, Valid, CheckpointOf
    <2> QED BY <2>1, <2>2
<1>7. CountersAgree'
    <2> SUFFICES ASSUME NEW o \in Characters, ckpt'[o] # None
                 PROVE  ckpt'[o].rev = row'[o].st
        BY DEF CountersAgree
    <2> QED BY <1>1 DEF CountersAgree, CheckpointOf
<1>8. NamedBelow'
    <2> SUFFICES ASSUME NEW o \in Characters, ckpt'[o] # None, NEW x \in named'[o]
                 PROVE  x.st <= row'[o].st /\ (x.st = row'[o].st => x.snap = row'[o].snap)
        BY DEF NamedBelow
    <2>1. CASE o = ch
        <3>1. r.st <= r.st
            BY DEF Rows, Revisions
        <3> QED BY <2>1, <3>1, <1>1
    <2>2. CASE o # ch
        BY <2>2, <1>1 DEF NamedBelow
    <2> QED BY <2>1, <2>2
<1>9. RevisionNamesSnapshot'
    <2> SUFFICES ASSUME NEW o \in Characters, NEW x \in named'[o], NEW y \in named'[o],
                        x.st = y.st
                 PROVE  x.snap = y.snap
        BY DEF RevisionNamesSnapshot
    <2> QED BY <1>1 DEF RevisionNamesSnapshot
<1> QED BY <1>4, <1>5, <1>6, <1>7, <1>8, <1>9

LEMMA FreshType ==
    ASSUME StoreAssumption, NEW snap \in Snapshots
    PROVE  Fresh(snap) \in Rows /\ 0 \in Revisions
    BY DEF StoreAssumption, Fresh, Rows, Revisions

LEMMA CommitNewKeeps ==
    ASSUME StoreAssumption, StoreInv, NEW ch \in Characters, NEW id \in CheckpointIds,
           NEW payload \in Payloads,
           CommitNew(ch, id, [life |-> "DRAFT", payload |-> payload])
    PROVE  StoreInv'
<1> DEFINE snap == [life |-> "DRAFT", payload |-> payload]
<1>1. snap \in Snapshots
    BY DEF Snapshots, Lives
<1>2. Fresh(snap) \in Rows /\ 0 \in Revisions
    BY <1>1, FreshType
<1>3. Fresh(snap).snap.life # "VARIANT" /\ Fresh(snap).st = 0
    BY DEF Fresh
<1>4. named[ch] = {}
    BY DEF CommitNew, StoreInv, Untouched
<1>5. Store(ch, Fresh(snap), id, 0)
    BY DEF CommitNew
<1> HIDE DEF snap
<1> QED BY <1>2, <1>3, <1>4, <1>5, StoreKeeps

LEMMA InitializeVariantKeeps ==
    ASSUME StoreAssumption, StoreInv, NEW ch \in Characters, NEW id \in CheckpointIds,
           NEW payload \in Payloads, InitializeVariant(ch, id, payload)
    PROVE  StoreInv'
<1> DEFINE snap == [life |-> "DRAFT", payload |-> payload]
<1>1. snap \in Snapshots
    BY DEF Snapshots, Lives
<1>2. Fresh(snap) \in Rows /\ 0 \in Revisions
    BY <1>1, FreshType
<1>3. Fresh(snap).snap.life # "VARIANT" /\ Fresh(snap).st = 0
    BY DEF Fresh
<1>4. named[ch] = {}
    BY DEF InitializeVariant, StoreInv, Untouched
<1>5. Store(ch, Fresh(snap), id, 0)
    BY DEF InitializeVariant
<1> HIDE DEF snap
<1> QED BY <1>2, <1>3, <1>4, <1>5, StoreKeeps

(* What a commit that agrees writes: a row whose state revision is the     *)
(* counter, one above with a new snapshot and the same with the old one.   *)
LEMMA AdvanceType ==
    ASSUME StoreAssumption, NEW r \in Rows, NEW snap \in Snapshots, NEW impact \in Impacts,
           AdvanceAgrees(r, Advanced(r, snap, impact))
    PROVE  /\ Advanced(r, snap, impact) \in Rows
           /\ Advanced(r, snap, impact).snap = snap
           /\ Advanced(r, snap, impact).st = r.st + (IF snap # r.snap THEN 1 ELSE 0)
<1> DEFINE a == Advanced(r, snap, impact)
<1>1. /\ r.st \in Nat /\ r.pr \in Nat /\ r.vis \in Nat
      /\ impact.st \in 0..1 /\ impact.pr \in 0..1 /\ impact.vis \in 0..1
      /\ MaxRevision \in Nat
    BY DEF Rows, Revisions, Impacts, StoreAssumption
<1>2. /\ a.snap = snap /\ a.st = r.st + impact.st /\ a.pr = r.pr + impact.pr
      /\ a.vis = r.vis + impact.vis
      /\ a = [snap |-> a.snap, st |-> a.st, pr |-> a.pr, vis |-> a.vis]
    BY DEF Advanced
<1>3. a.st <= MaxRevision /\ a.pr <= MaxRevision /\ a.vis <= MaxRevision
    BY DEF AdvanceAgrees
<1>4. a.st # r.st <=> snap # r.snap
    BY <1>2 DEF AdvanceAgrees
<1>5. a.st \in Revisions /\ a.pr \in Revisions /\ a.vis \in Revisions
    BY <1>1, <1>2, <1>3 DEF Revisions
<1>6. a \in Rows
    BY <1>2, <1>5 DEF Rows
<1>7. a.st = r.st + (IF snap # r.snap THEN 1 ELSE 0)
    BY <1>1, <1>2, <1>4
<1> QED BY <1>2, <1>6, <1>7

LEMMA CommitKeeps ==
    ASSUME StoreAssumption, StoreInv, NEW ch \in Characters, NEW id \in CheckpointIds,
           NEW snap \in Snapshots, snap.life # "VARIANT", NEW impact \in Impacts,
           Commit(ch, id, snap, impact)
    PROVE  StoreInv'
<1> DEFINE a == Advanced(row[ch], snap, impact)
           n == Counter(ch, a)
<1>1. row[ch] \in Rows /\ ckpt[ch] # None
    BY DEF Commit, StoreInv, StoreTypeOK
<1>2. AdvanceAgrees(row[ch], a) /\ Store(ch, a, id, n)
    BY DEF Commit
<1>3. /\ a \in Rows
      /\ a.snap = snap
      /\ a.st = row[ch].st + (IF snap # row[ch].snap THEN 1 ELSE 0)
    BY <1>1, <1>2, AdvanceType
<1>4. row[ch].st \in Nat /\ a.st \in Revisions
    BY <1>1, <1>3 DEF Rows, Revisions
<1>5. n = a.st
    BY <1>1, <1>3 DEF StoreInv, CountersAgree, Counter
<1>6. ASSUME NEW x \in named[ch]
      PROVE  x.st <= a.st /\ (x.st = a.st => x.snap = a.snap)
    <2>1. x.st \in Nat
        BY DEF StoreInv, StoreTypeOK, Revisions
    <2>2. x.st <= row[ch].st /\ (x.st = row[ch].st => x.snap = row[ch].snap)
        BY <1>1 DEF StoreInv, NamedBelow
    <2>3. CASE snap = row[ch].snap
        BY <2>1, <2>2, <2>3, <1>3, <1>4
    <2>4. CASE snap # row[ch].snap
        BY <2>1, <2>2, <2>4, <1>3, <1>4
    <2> QED BY <2>3, <2>4
<1> HIDE DEF a, n
<1> QED BY <1>2, <1>3, <1>4, <1>5, <1>6, StoreKeeps

LEMMA CreateVariantKeeps ==
    ASSUME StoreAssumption, StoreInv, NEW ch \in Characters, NEW payload \in Payloads,
           CreateVariant(ch, payload)
    PROVE  StoreInv'
<1> DEFINE r == Fresh([life |-> "VARIANT", payload |-> payload])
<1> USE DEF StoreInv, CreateVariant
<1>1. r \in Rows
    BY FreshType DEF Snapshots, Lives
<1>2. ckpt[ch] = None
    BY DEF CheckpointIsCurrent
<1>3. /\ row'[ch] = r /\ r.snap.life = "VARIANT"
      /\ \A o \in Characters \ {ch} : row'[o] = row[o]
      /\ ckpt' = ckpt /\ named' = named
    BY DEF StoreTypeOK, Fresh
<1>4. StoreTypeOK'
    BY <1>1 DEF StoreTypeOK
<1> HIDE DEF r
<1>5. Untouched' /\ CountersAgree' /\ NamedBelow'
    BY <1>2, <1>3 DEF Untouched, CountersAgree, NamedBelow
<1>6. CheckpointIsCurrent' /\ RevisionNamesSnapshot'
    BY <1>2, <1>3 DEF CheckpointIsCurrent, Valid, RevisionNamesSnapshot
<1> QED BY <1>4, <1>5, <1>6

LEMMA StoreStep == StoreInv /\ StoreAssumption /\ [StoreNext]_storeVars => StoreInv'
<1> SUFFICES ASSUME StoreInv, StoreAssumption, [StoreNext]_storeVars PROVE StoreInv'
    OBVIOUS
<1>1. ASSUME NEW ch \in Characters, NEW payload \in Payloads, CreateVariant(ch, payload)
      PROVE  StoreInv'
    BY <1>1, CreateVariantKeeps
<1>2. ASSUME NEW ch \in Characters, NEW payload \in Payloads, NEW id \in CheckpointIds,
             CommitNew(ch, id, [life |-> "DRAFT", payload |-> payload])
      PROVE  StoreInv'
    BY <1>2, CommitNewKeeps
<1>3. ASSUME NEW ch \in Characters, NEW payload \in Payloads, NEW id \in CheckpointIds,
             InitializeVariant(ch, id, payload)
      PROVE  StoreInv'
    BY <1>3, InitializeVariantKeeps
<1>4. ASSUME NEW ch \in Characters, NEW payload \in Payloads, NEW id \in CheckpointIds,
             NEW life \in {"DRAFT", "FINAL"}, NEW impact \in Impacts,
             Commit(ch, id, [life |-> life, payload |-> payload], impact)
      PROVE  StoreInv'
    <2> DEFINE snap == [life |-> life, payload |-> payload]
    <2>1. snap \in Snapshots /\ snap.life # "VARIANT"
        BY DEF Snapshots, Lives
    <2> HIDE DEF snap
    <2> QED BY <2>1, <1>4, CommitKeeps DEF snap
<1>5. CASE UNCHANGED storeVars
    BY <1>5 DEF storeVars, StoreInv, StoreTypeOK, Untouched, CheckpointIsCurrent, Valid,
                CheckpointOf, CountersAgree, NamedBelow, RevisionNamesSnapshot
<1> QED BY <1>1, <1>2, <1>3, <1>4, <1>5 DEF StoreNext

LEMMA StoreInitially == StoreInit => StoreInv
    BY DEF StoreInit, StoreInv, StoreTypeOK, Untouched, CheckpointIsCurrent, CountersAgree,
           NamedBelow, RevisionNamesSnapshot

(* The invariant holds of every behaviour of the store.                    *)
THEOREM StoreInvariant == ASSUME StoreAssumption PROVE StoreSpec => []StoreInv
<1>1. StoreInit => StoreInv
    BY StoreInitially
<1>2. StoreInv /\ [StoreNext]_storeVars => StoreInv'
    BY StoreStep
<1> QED BY <1>1, <1>2, PTL DEF StoreSpec

(* Type correctness: no revision passes the largest safe integer.          *)
THEOREM StoreTypeCorrect == ASSUME StoreAssumption PROVE StoreSpec => []StoreTypeOK
<1>1. StoreInv => StoreTypeOK
    BY DEF StoreInv
<1> QED BY <1>1, StoreInvariant, PTL

(* What is stored next to a character is the character.                    *)
THEOREM CheckpointAlwaysCurrent ==
    ASSUME StoreAssumption PROVE StoreSpec => []CheckpointIsCurrent
<1>1. StoreInv => CheckpointIsCurrent
    BY DEF StoreInv
<1> QED BY <1>1, StoreInvariant, PTL

(* The checkpoint counter is the state revision, up to the largest number. *)
THEOREM CountersAlwaysAgree == ASSUME StoreAssumption PROVE StoreSpec => []CountersAgree
<1>1. StoreInv => CountersAgree
    BY DEF StoreInv
<1> QED BY <1>1, StoreInvariant, PTL

(* A state revision of a character names one version of it.                *)
THEOREM RevisionsNameSnapshots ==
    ASSUME StoreAssumption PROVE StoreSpec => []RevisionNamesSnapshot
<1>1. StoreInv => RevisionNamesSnapshot
    BY DEF StoreInv
<1> QED BY <1>1, StoreInvariant, PTL

=============================================================================
