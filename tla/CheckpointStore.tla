---------------------------- MODULE CheckpointStore ----------------------------
(***************************************************************************)
(* The checkpoints of local characters (persistence/store.ts).  A          *)
(* character is one row with a triple of revisions; next to it stands one  *)
(* full checkpoint, written in the same transaction, under an id that is   *)
(* fixed for the character and with a counter of its own.                  *)
(*                                                                         *)
(* A commit hands the caller a writer that works once, and then compares   *)
(* the row before with the row after: what does not agree rolls the        *)
(* transaction back, which is no step of the model.  A snapshot is the     *)
(* JSON of the row without its revisions; checksums are left out.  Every   *)
(* caller of a commit has loaded the checkpoint before, so the branch that *)
(* gives a character without one its first checkpoint is not taken, and    *)
(* the unchecked createLocalCharacter and updateLocalCharacter have no     *)
(* caller outside the tests.                                               *)
(***************************************************************************)
EXTENDS Naturals

CONSTANTS
    Characters,
    CheckpointIds,
    Payloads,       \* the payload_json of a character
    MaxRevision,    \* Number.MAX_SAFE_INTEGER
    None            \* no such row

Revisions == 0..MaxRevision
Lives == {"VARIANT", "DRAFT", "FINAL"}
Snapshots == [life : Lives, payload : Payloads]
Rows == [snap : Snapshots, st : Revisions, pr : Revisions, vis : Revisions]
Checkpoints == [id : CheckpointIds, rev : Revisions, snap : Snapshots,
                st : Revisions, pr : Revisions, vis : Revisions]
Impacts == [st : 0..1, pr : 0..1, vis : 0..1]

ASSUME StoreAssumption ==
    /\ MaxRevision \in Nat
    /\ None \notin Rows
    /\ None \notin Checkpoints

VARIABLES
    row,     \* local_character
    ckpt,    \* local_character_checkpoint
    named    \* history: the state revisions checkpoints gave to snapshots

storeVars == <<row, ckpt, named>>

StoreTypeOK ==
    /\ row \in [Characters -> Rows \cup {None}]
    /\ ckpt \in [Characters -> Checkpoints \cup {None}]
    /\ named \in [Characters -> SUBSET [st : Revisions, snap : Snapshots]]

StoreInit ==
    /\ row = [ch \in Characters |-> None]
    /\ ckpt = [ch \in Characters |-> None]
    /\ named = [ch \in Characters |-> {}]

-----------------------------------------------------------------------------
\* The checkpoint of a row, under a counter of its own.
CheckpointOf(r, id, n) ==
    [id |-> id, rev |-> n, snap |-> r.snap, st |-> r.st, pr |-> r.pr, vis |-> r.vis]

\* validateStoredDraftCheckpoint: what is stored is the row.
Valid(ch) == ckpt[ch] = CheckpointOf(row[ch], ckpt[ch].id, ckpt[ch].rev)

\* resolveDraftCheckpointRow: the id of a character's checkpoint is fixed, and no
\* other character has it.
Resolves(ch, id) ==
    /\ ckpt[ch] # None => ckpt[ch].id = id
    /\ \A other \in Characters \ {ch} : ckpt[other] # None => ckpt[other].id # id

Fresh(snap) == [snap |-> snap, st |-> 0, pr |-> 0, vis |-> 0]

Store(ch, r, id, n) ==
    /\ row' = [row EXCEPT ![ch] = r]
    /\ ckpt' = [ckpt EXCEPT ![ch] = CheckpointOf(r, id, n)]
    /\ named' = [named EXCEPT ![ch] = @ \cup {[st |-> r.st, snap |-> r.snap]}]

\* commitNewLocalCharacterCheckpoint
CommitNew(ch, id, snap) ==
    /\ row[ch] = None /\ ckpt[ch] = None
    /\ Resolves(ch, id)
    /\ Store(ch, Fresh(snap), id, 0)

\* advanceRevisions
Advanced(r, snap, impact) ==
    [snap |-> snap, st |-> r.st + impact.st, pr |-> r.pr + impact.pr,
     vis |-> r.vis + impact.vis]

\* Mutant: a state revision may stay although the snapshot changed.
AdvanceLoose(before, after) ==
    /\ after.st <= MaxRevision /\ after.pr <= MaxRevision /\ after.vis <= MaxRevision
    /\ after.vis # before.vis => after.pr # before.pr
    /\ after.st # before.st => after.snap # before.snap

\* validateDraftCheckpointAdvance, and the bound of a revision that is read.
AdvanceAgrees(before, after) ==
    /\ after.st <= MaxRevision /\ after.pr <= MaxRevision /\ after.vis <= MaxRevision
    /\ after.vis # before.vis => after.pr # before.pr
    /\ after.st # before.st <=> after.snap # before.snap

\* Mutant: the counter moves with every commit.
CounterOfCommit(ch, after) == ckpt[ch].rev + 1

\* The checkpoint revision counts changes of the snapshot.
Counter(ch, after) == ckpt[ch].rev + (IF after.snap # row[ch].snap THEN 1 ELSE 0)

\* commitLocalCharacterCheckpoint, by a caller that has loaded the checkpoint.  A
\* writer that was not used is the impact of zeros with the snapshot there is.
Commit(ch, id, snap, impact) ==
    LET after == Advanced(row[ch], snap, impact) IN
    /\ row[ch] # None /\ ckpt[ch] # None
    /\ Resolves(ch, id)
    /\ Valid(ch)
    /\ AdvanceAgrees(row[ch], after)
    /\ Counter(ch, after) <= MaxRevision
    /\ Store(ch, after, id, Counter(ch, after))

\* Mutant: a variant takes an id that is in use.
CreateVariantAnyhow(ch, payload) ==
    /\ row' = [row EXCEPT ![ch] = Fresh([life |-> "VARIANT", payload |-> payload])]
    /\ UNCHANGED <<ckpt, named>>

\* createVariant of a post-save command: a row without a checkpoint.
CreateVariant(ch, payload) ==
    /\ row[ch] = None
    /\ row' = [row EXCEPT ![ch] = Fresh([life |-> "VARIANT", payload |-> payload])]
    /\ UNCHANGED <<ckpt, named>>

\* initializeVariantCharacterCheckpoint: the untouched variant becomes a draft,
\* still at revision zero.
InitializeVariant(ch, id, payload) ==
    /\ row[ch] # None /\ row[ch].snap.life = "VARIANT"
    /\ row[ch] = Fresh(row[ch].snap)
    /\ ckpt[ch] = None
    /\ Resolves(ch, id)
    /\ Store(ch, Fresh([life |-> "DRAFT", payload |-> payload]), id, 0)

StoreNext ==
    \E ch \in Characters, payload \in Payloads :
        \/ CreateVariant(ch, payload)
        \/ \E id \in CheckpointIds :
            \/ CommitNew(ch, id, [life |-> "DRAFT", payload |-> payload])
            \/ InitializeVariant(ch, id, payload)
            \/ \E life \in {"DRAFT", "FINAL"}, impact \in Impacts :
                Commit(ch, id, [life |-> life, payload |-> payload], impact)

StoreSpec == StoreInit /\ [][StoreNext]_storeVars

-----------------------------------------------------------------------------
(* A stored checkpoint is the character as it is now: no write of the row  *)
(* goes past it, whoever commits, so that a load never finds them apart    *)
(* (validateStoredDraftCheckpoint would refuse for good), and a variant    *)
(* has none before its identity is saved.                                  *)
CheckpointIsCurrent ==
    \A ch \in Characters : ckpt[ch] # None =>
        /\ row[ch] # None
        /\ Valid(ch)
        /\ row[ch].snap.life # "VARIANT"

(* The checkpoint counter and the state revision of its character are the  *)
(* same number, although different code moves them: at the largest safe    *)
(* integer both refuse together and a change without a new snapshot still  *)
(* goes through (commitLocalCharacterCheckpoint, advanceRevisions).        *)
CountersAgree ==
    \A ch \in Characters : ckpt[ch] # None => ckpt[ch].rev = row[ch].st

(* A state revision names one snapshot: two checkpoints of a character     *)
(* that claim the same revision hold the same state, so that a receipt     *)
(* which cites a revision cites one version (validateDraftCheckpointAdvance). *)
RevisionNamesSnapshot ==
    \A ch \in Characters : \A x, y \in named[ch] : x.st = y.st => x.snap = y.snap

=============================================================================
