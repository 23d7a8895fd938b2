---------------------------- MODULE PostSaveProofs ----------------------------
(***************************************************************************)
(* Proofs about PostSave, for any number of windows, characters, entries   *)
(* and commands.                                                           *)
(*                                                                         *)
(* Every durable step of a window is a step of the store or leaves the     *)
(* store alone (StoreSteps), so that StoreInv holds here as well.  What a  *)
(* step does beyond the store is one Deliver, whose three outcomes are     *)
(* treated once (DeliverKeeps); an action only has to show that the heads, *)
(* the receipt and the context it delivers are good.  The state functions  *)
(* of the invariant take the parts of the state as parameters, so that     *)
(* they can be said of what an action is about to write.                   *)
(***************************************************************************)
EXTENDS PostSave, CheckpointStoreProofs, FiniteSetTheorems

(* The checkpoint of a character is the one an entry signed.               *)
SourceIs(s, rw, ck, md) ==
    /\ ck[s.char] # None
    /\ s.rev = ck[s.char].rev /\ s.snap = rw[s.char].snap
    /\ s.st = rw[s.char].st /\ s.pr = rw[s.char].pr /\ s.vis = rw[s.char].vis
    /\ s.meta <= md[s.char]

(* Drafts alone can be recovered, and what was final when an entry signed  *)
(* it is what the character is for good.                                   *)
HeadGood(s, h, rw, ck) ==
    /\ s \in Scopes /\ h \in Heads
    /\ ck[s.char] # None
    /\ h.form \in RecoveryForms => s.snap.life = "DRAFT"
    /\ IsFinal(s) => rw[s.char].snap = s.snap

HeadsGood(hs, rw, ck) == \A s \in DOMAIN hs : HeadGood(s, hs[s], rw, ck)

ReceiptGood(r, hs) ==
    /\ r \in Receipts
    /\ r.scope \in DOMAIN hs
    /\ r.kind \in {"RESTORE", "SAVE_VALID_DRAFT"} => r.scope.snap.life = "DRAFT"
    /\ r.kind \notin {"RESTORE", "SAVE_VALID_DRAFT"} => r.form \in FinalForms

JournalGood(jr, hs) == DOMAIN jr \subseteq Ids /\ \A i \in DOMAIN jr : ReceiptGood(jr[i], hs)

Opens(s, hs, rw, ck, md) ==
    /\ s \in DOMAIN hs
    /\ SourceIs(s, rw, ck, md)
    /\ IsFinal(s) => hs[s].meta = md[s.char]

(* A restore under the cursor is proved by what is stored, always; a scope *)
(* under the cursor opens unless t, that is unless a crash tore a step.    *)
CursorGood(c, hs, jr, rw, ck, md, t) ==
    c # None =>
        /\ c \in Cursors
        /\ c.scope \in DOMAIN hs
        /\ c.restore # None =>
            /\ c.restore \in DOMAIN jr
            /\ SourceIs(c.scope, rw, ck, md)
            /\ c.scope.snap.life = "DRAFT"
        /\ c.restore = None => t \/ Opens(c.scope, hs, rw, ck, md)

CtxGood(v, hs, ck) ==
    /\ v \in Contexts
    /\ v.form \notin {"APP-001", "APP-004"} => v.char \in Characters /\ ck[v.char] # None
    /\ v.form \in PostSaveForms => v.scope \in DOMAIN hs /\ v.char = v.scope.char
    /\ v.replay # None => v.form \in FinalForms

SessionGood(x, ck) == x # None => x \in Sessions /\ ck[x.char] # None

PendGood(p, jr, ck) ==
    p # None =>
        /\ p \in Pendings
        /\ p.kind = "COMMAND" => p.id \in DOMAIN jr
        /\ p.kind = "WIZARD" => p.char \in Characters /\ ck[p.char] # None

CtxInv == /\ ctx \in [Windows -> Contexts \cup {None}]
          /\ \A w \in Windows : ctx[w] # None => CtxGood(ctx[w], heads, ckpt)

PendInv == /\ pending \in [Windows -> Pendings \cup {None}]
           /\ \A w \in Windows : PendGood(pending[w], journal, ckpt)

PostSaveInv ==
    /\ StoreInv
    /\ metadata \in [Characters -> Nat]
    /\ torn \in BOOLEAN
    /\ HeadsGood(heads, row, ckpt)
    /\ JournalGood(journal, heads)
    /\ CursorGood(cursor, heads, journal, row, ckpt, metadata, torn)
    /\ CtxInv
    /\ SessionGood(session, ckpt)
    /\ PendInv

-----------------------------------------------------------------------------
(* What the entry signed, field by field.                                  *)
LEMMA SourceValidIs ==
    ASSUME NEW s \in Scopes
    PROVE  SourceValid(s) <=> SourceIs(s, row, ckpt, metadata)
<1>1. s = [char |-> s.char, entry |-> s.entry, rev |-> s.rev, snap |-> s.snap, st |-> s.st,
           pr |-> s.pr, vis |-> s.vis, meta |-> s.meta]
    BY DEF Scopes
<1>2. [ScopeOf(s.char, s.entry) EXCEPT !.meta = s.meta] =
        [char |-> s.char, entry |-> s.entry, rev |-> ckpt[s.char].rev,
         snap |-> row[s.char].snap, st |-> row[s.char].st, pr |-> row[s.char].pr,
         vis |-> row[s.char].vis, meta |-> s.meta]
    BY DEF ScopeOf, Binding
<1> DEFINE a == [ScopeOf(s.char, s.entry) EXCEPT !.meta = s.meta]
<1>3. a = s <=> /\ s.rev = ckpt[s.char].rev /\ s.snap = row[s.char].snap
                /\ s.st = row[s.char].st /\ s.pr = row[s.char].pr
                /\ s.vis = row[s.char].vis
    <2> DEFINE b == [char |-> s.char, entry |-> s.entry, rev |-> ckpt[s.char].rev,
                     snap |-> row[s.char].snap, st |-> row[s.char].st,
                     pr |-> row[s.char].pr, vis |-> row[s.char].vis, meta |-> s.meta]
    <2>1. a = b
        BY <1>2
    <2>2. ASSUME b = s
          PROVE  /\ s.rev = ckpt[s.char].rev /\ s.snap = row[s.char].snap
                 /\ s.st = row[s.char].st /\ s.pr = row[s.char].pr
                 /\ s.vis = row[s.char].vis
        <3>1. /\ b.rev = ckpt[s.char].rev /\ b.snap = row[s.char].snap
              /\ b.st = row[s.char].st /\ b.pr = row[s.char].pr /\ b.vis = row[s.char].vis
            OBVIOUS
        <3> HIDE DEF b
        <3> QED BY <2>2, <3>1
    <2>3. ASSUME /\ s.rev = ckpt[s.char].rev /\ s.snap = row[s.char].snap
                 /\ s.st = row[s.char].st /\ s.pr = row[s.char].pr
                 /\ s.vis = row[s.char].vis
          PROVE  b = s
        BY <1>1, <2>3
    <2> HIDE DEF a, b
    <2> QED BY <2>1, <2>2, <2>3
<1> QED BY <1>3 DEF SourceValid, SourceIs

(* What a head projects is what a cursor at its scope opens.               *)
LEMMA ProjectsIs ==
    ASSUME NEW s \in Scopes
    PROVE  Projects(s) <=> Opens(s, heads, row, ckpt, metadata)
    BY SourceValidIs DEF Projects, Opens

(* A source stays valid while its character is not written.                *)
LEMMA SourceKept ==
    ASSUME NEW s \in Scopes, NEW rw, NEW ck, NEW md, NEW rw2, NEW ck2, NEW md2,
           SourceIs(s, rw, ck, md),
           rw2[s.char] = rw[s.char], ck2[s.char] = ck[s.char],
           md[s.char] \in Nat, md2[s.char] \in Nat, md[s.char] <= md2[s.char]
    PROVE  SourceIs(s, rw2, ck2, md2)
<1>1. s.meta \in Nat
    BY DEF Scopes
<1>2. s.meta <= md2[s.char]
    BY <1>1 DEF SourceIs
<1> QED BY <1>2 DEF SourceIs

(* What an entry signs of a character that has a checkpoint.               *)
LEMMA ScopeOfGood ==
    ASSUME PostSaveInv, NEW ch \in Characters, ckpt[ch] # None, NEW entry \in Ids \cup {Saved}
    PROVE  /\ ScopeOf(ch, entry) \in Scopes
           /\ ScopeOf(ch, entry).char = ch
           /\ ScopeOf(ch, entry).entry = entry
           /\ ScopeOf(ch, entry).snap = row[ch].snap
           /\ SourceIs(ScopeOf(ch, entry), row, ckpt, metadata)
           /\ row[ch] \in Rows
           /\ row[ch].snap.life \in {"DRAFT", "FINAL"}
           /\ IsFinal(ScopeOf(ch, entry)) => ScopeOf(ch, entry).meta = metadata[ch]
<1>1. row[ch] # None /\ row[ch].snap.life # "VARIANT"
    BY DEF PostSaveInv, StoreInv, CheckpointIsCurrent
<1>2. row[ch] \in Rows /\ ckpt[ch] \in Checkpoints /\ metadata[ch] \in Nat
    BY <1>1 DEF PostSaveInv, StoreInv, StoreTypeOK
<1>3. /\ row[ch].snap \in Snapshots /\ row[ch].st \in Revisions /\ row[ch].pr \in Revisions
      /\ row[ch].vis \in Revisions /\ ckpt[ch].rev \in Revisions
    BY <1>2 DEF Rows, Checkpoints
<1>4. row[ch].snap.life \in {"DRAFT", "FINAL"}
    BY <1>1, <1>3 DEF Snapshots, Lives
<1> DEFINE m == IF row[ch].snap.life = "FINAL" THEN metadata[ch] ELSE 0
           s == [char |-> ch, entry |-> entry, rev |-> ckpt[ch].rev, snap |-> row[ch].snap,
                 st |-> row[ch].st, pr |-> row[ch].pr, vis |-> row[ch].vis, meta |-> m]
<1>5. ScopeOf(ch, entry) = s
    BY DEF ScopeOf, Binding
<1>6. m \in Nat /\ m <= metadata[ch] /\ (row[ch].snap.life = "FINAL" => m = metadata[ch])
    BY <1>2
<1> HIDE DEF m
<1>7. s \in Scopes
    BY <1>3, <1>6 DEF Scopes
<1>8. SourceIs(s, row, ckpt, metadata)
    BY <1>6 DEF SourceIs
<1>9. IsFinal(s) => s.meta = metadata[ch]
    BY <1>6 DEF IsFinal
<1> QED BY <1>2, <1>4, <1>5, <1>7, <1>8, <1>9

LEMMA HeadOfGood ==
    ASSUME PostSaveInv, NEW ch \in Characters, ckpt[ch] # None, NEW entry \in Ids \cup {Saved}
    PROVE  /\ HeadGood(ScopeOf(ch, entry), HeadOf(ScopeOf(ch, entry)), row, ckpt)
           /\ ScopeOf(ch, entry) \notin DOMAIN heads /\ IsFinal(ScopeOf(ch, entry)) =>
                HeadOf(ScopeOf(ch, entry)).meta = metadata[ch]
<1> DEFINE s == ScopeOf(ch, entry)
<1>1. /\ s \in Scopes /\ s.char = ch /\ s.snap = row[ch].snap
      /\ s.snap.life \in {"DRAFT", "FINAL"} /\ (IsFinal(s) => s.meta = metadata[ch])
    BY ScopeOfGood
<1> HIDE DEF s
<1>2. CASE s \in DOMAIN heads
    BY <1>2 DEF PostSaveInv, HeadsGood, HeadOf, s
<1>3. CASE s \notin DOMAIN heads
    <2>1. HeadOf(s) = [st |-> s.st, pr |-> s.pr, meta |-> s.meta,
                       form |-> IF IsFinal(s) THEN "CHR-040" ELSE "CHR-026"]
        BY <1>3 DEF HeadOf
    <2>2. s.st \in Revisions /\ s.pr \in Revisions /\ s.meta \in Nat
        BY <1>1 DEF Scopes
    <2>3. HeadOf(s) \in Heads
        BY <2>1, <2>2 DEF Heads, PostSaveForms, RecoveryForms, FinalForms
    <2>4. HeadOf(s).form \in RecoveryForms => s.snap.life = "DRAFT"
        BY <1>1, <2>1 DEF IsFinal, RecoveryForms
    <2>5. HeadGood(s, HeadOf(s), row, ckpt)
        BY <1>1, <2>3, <2>4 DEF HeadGood
    <2> QED BY <1>1, <2>1, <2>5 DEF s
<1> QED BY <1>2, <1>3 DEF s

(* Another form is another projection and nothing else.                    *)
LEMMA NavigatedGood ==
    ASSUME StoreAssumption, NEW rw, NEW ck, NEW s, NEW h, NEW form \in PostSaveForms,
           HeadGood(s, h, rw, ck), Fits(Navigated(h, form)),
           form \in RecoveryForms => s.snap.life = "DRAFT"
    PROVE  /\ HeadGood(s, Navigated(h, form), rw, ck)
           /\ Navigated(h, form).meta = h.meta /\ Navigated(h, form).form = form
<1> DEFINE p == IF h.form = form THEN h.pr ELSE h.pr + 1
           n == [st |-> h.st, pr |-> p, meta |-> h.meta, form |-> form]
<1>1. h \in Heads
    BY DEF HeadGood
<1>2. h.st \in Revisions /\ h.pr \in Revisions /\ h.meta \in Nat
    BY <1>1 DEF Heads
<1>3. h = [st |-> h.st, pr |-> h.pr, meta |-> h.meta, form |-> h.form]
    BY <1>1 DEF Heads
<1>4. Navigated(h, form) = n
    <2>1. CASE h.form = form
        BY <1>3, <2>1 DEF Navigated
    <2>2. CASE h.form # form
        BY <2>2 DEF Navigated
    <2> QED BY <2>1, <2>2
<1>5. p \in Revisions
    <2>1. n.pr <= MaxRevision
        BY <1>4 DEF Fits
    <2> QED BY <1>2, <2>1 DEF Revisions, StoreAssumption
<1> HIDE DEF p
<1>6. n \in Heads
    BY <1>2, <1>5 DEF Heads
<1>7. n.form = form /\ n.meta = h.meta
    OBVIOUS
<1> HIDE DEF n
<1> QED BY <1>4, <1>6, <1>7 DEF HeadGood

-----------------------------------------------------------------------------
(* The contexts that are delivered, with the cursor they leave.            *)
Ready(c, cur, hs, jr, rw, ck, md, t) ==
    /\ CtxGood(c, hs, ck)
    /\ CursorGood(CursorAfter(c, cur), hs, jr, rw, ck, md, t)

LEMMA ShownReady ==
    ASSUME NEW hs, NEW jr, NEW rw, NEW ck, NEW md, NEW t, NEW cur, NEW s \in DOMAIN hs,
           HeadGood(s, hs[s], rw, ck),
           Opens(s, hs, rw, ck, md)
    PROVE  Ready(Shown(s, hs[s]), cur, hs, jr, rw, ck, md, t)
<1> DEFINE c == Shown(s, hs[s])
<1>1. s \in Scopes /\ hs[s] \in Heads /\ ck[s.char] # None
    BY DEF HeadGood
<1>2. /\ hs[s].form \in PostSaveForms /\ hs[s].st \in Revisions /\ hs[s].pr \in Revisions
      /\ hs[s].meta \in Nat /\ s.char \in Characters
    BY <1>1 DEF Heads, Scopes
<1>3. c \in Contexts
    BY <1>1, <1>2 DEF Shown, Contexts, Forms
<1>4. CtxGood(c, hs, ck)
    BY <1>1, <1>2, <1>3 DEF CtxGood, Shown
<1>5. CursorAfter(c, cur) \in {[scope |-> s, restore |-> None], None}
    BY DEF CursorAfter, Shown
<1>6. [scope |-> s, restore |-> None] \in Cursors
    BY <1>1 DEF Cursors
<1>7. CursorGood([scope |-> s, restore |-> None], hs, jr, rw, ck, md, t)
    BY <1>6 DEF CursorGood
<1>8. CursorGood(None, hs, jr, rw, ck, md, t)
    BY DEF CursorGood
<1> HIDE DEF c
<1>9. CursorGood(CursorAfter(c, cur), hs, jr, rw, ck, md, t)
    BY <1>5, <1>7, <1>8
<1> QED BY <1>4, <1>9 DEF Ready, c

LEMMA WizardReady ==
    ASSUME NEW hs, NEW jr, NEW rw, NEW ck, NEW md, NEW t, NEW cur,
           NEW ch \in Characters, NEW r \in Rows, ck[ch] # None,
           NEW at \in Cursors \cup {None}, CursorGood(at, hs, jr, rw, ck, md, t)
    PROVE  Ready(WizardOf(ch, r, at), cur, hs, jr, rw, ck, md, t)
<1> DEFINE c == WizardOf(ch, r, at)
<1>1. r.st \in Revisions /\ r.pr \in Revisions
    BY DEF Rows
<1>2. c \in Contexts
    BY <1>1 DEF WizardOf, Contexts, Forms
<1>3. CtxGood(c, hs, ck)
    BY <1>2 DEF CtxGood, WizardOf, PostSaveForms, RecoveryForms, FinalForms
<1>4. CursorAfter(c, cur) \in {at, None}
    BY DEF CursorAfter, WizardOf
<1>5. CursorGood(None, hs, jr, rw, ck, md, t)
    BY DEF CursorGood
<1> HIDE DEF c
<1>6. CursorGood(CursorAfter(c, cur), hs, jr, rw, ck, md, t)
    BY <1>4, <1>5
<1> QED BY <1>3, <1>6 DEF Ready, c

LEMMA PlainReady ==
    ASSUME StoreAssumption, NEW hs, NEW jr, NEW rw, NEW ck, NEW md, NEW t, NEW cur,
           NEW form \in {"APP-001", "APP-004"}
    PROVE  Ready(Plain(form), cur, hs, jr, rw, ck, md, t)
<1>1. 0 \in Revisions
    BY DEF Revisions, StoreAssumption
<1>2. Plain(form) \in Contexts
    BY <1>1 DEF Plain, Contexts, Forms
<1>3. CtxGood(Plain(form), hs, ck)
    BY <1>2 DEF CtxGood, Plain, PostSaveForms, RecoveryForms, FinalForms
<1>4. CursorAfter(Plain(form), cur) = None
    BY DEF CursorAfter, Plain
<1> QED BY <1>3, <1>4 DEF Ready, CursorGood

-----------------------------------------------------------------------------
(* A commit adds receipts and checkpoints and takes none away.             *)
Grown(jr, jr2, ck, ck2) ==
    /\ DOMAIN jr \subseteq DOMAIN jr2
    /\ \A ch \in Characters : ck[ch] # None => ck2[ch] # None

LEMMA CtxKept ==
    ASSUME NEW v, NEW hs, NEW hs2, NEW ck, NEW ck2, CtxGood(v, hs, ck),
           DOMAIN hs \subseteq DOMAIN hs2,
           \A ch \in Characters : ck[ch] # None => ck2[ch] # None
    PROVE  CtxGood(v, hs2, ck2)
    BY DEF CtxGood

LEMMA PendKept ==
    ASSUME NEW p, NEW jr, NEW jr2, NEW ck, NEW ck2, PendGood(p, jr, ck), Grown(jr, jr2, ck, ck2)
    PROVE  PendGood(p, jr2, ck2)
    BY DEF PendGood, Grown

LEMMA SessionKept ==
    ASSUME NEW x, NEW jr, NEW jr2, NEW ck, NEW ck2, SessionGood(x, ck), Grown(jr, jr2, ck, ck2)
    PROVE  SessionGood(x, ck2)
    BY DEF SessionGood, Sessions, Grown

LEMMA JournalKept ==
    ASSUME NEW jr, NEW hs, NEW hs2, JournalGood(jr, hs), DOMAIN hs \subseteq DOMAIN hs2
    PROVE  JournalGood(jr, hs2)
    BY DEF JournalGood, ReceiptGood

(* What follows a commit keeps the invariant, whichever way it ends.       *)
LEMMA DeliverKeeps ==
    ASSUME PostSaveInv, StoreInv', metadata' \in [Characters -> Nat],
           NEW w \in Windows, NEW request, NEW c, NEW cut, NEW after,
           Deliver(w, request, c, cut, after),
           Grown(journal, journal', ckpt, ckpt'),
           DOMAIN heads \subseteq DOMAIN cut.heads, DOMAIN cut.heads \subseteq DOMAIN after,
           HeadsGood(cut.heads, row', ckpt'), HeadsGood(after, row', ckpt'),
           JournalGood(journal', cut.heads),
           CursorGood(cut.cursor, cut.heads, journal', row', ckpt', metadata', TRUE),
           Ready(c, cut.cursor, after, journal', row', ckpt', metadata', torn),
           PendGood(request, journal', ckpt')
    PROVE  PostSaveInv'
<1>1. CtxGood(c, after, ckpt')
    BY DEF Ready
<1>2. c \in Contexts
    BY <1>1 DEF CtxGood
<1>3. pending' = [pending EXCEPT ![w] = None] \/ pending' = [pending EXCEPT ![w] = request]
    BY DEF Deliver
<1>4. PendInv'
    <2>1. request \in Pendings \cup {None}
        BY DEF PendGood
    <2>2. pending \in [Windows -> Pendings \cup {None}]
        BY DEF PostSaveInv, PendInv
    <2>3. pending' \in [Windows -> Pendings \cup {None}]
        BY <1>3, <2>1, <2>2
    <2>4. ASSUME NEW x \in Windows
          PROVE  PendGood(pending'[x], journal', ckpt')
        <3>1. pending'[x] \in {None, request, pending[x]}
            BY <1>3, <2>2
        <3>2. PendGood(None, journal', ckpt')
            BY DEF PendGood
        <3>3. PendGood(pending[x], journal', ckpt')
            <4>1. PendGood(pending[x], journal, ckpt)
                BY DEF PostSaveInv, PendInv
            <4> QED BY <4>1, PendKept
        <3> QED BY <3>1, <3>2, <3>3
    <2> QED BY <2>3, <2>4 DEF PendInv
<1>5. ctx \in [Windows -> Contexts \cup {None}]
    BY DEF PostSaveInv, CtxInv
<1>6. CASE /\ heads' = after /\ cursor' = CursorAfter(c, cut.cursor)
           /\ session' = SessionAfter(c) /\ torn' = torn
           /\ \/ ctx' = [ctx EXCEPT ![w] = c]
              \/ ctx' = [ctx EXCEPT ![w] = None]
    <2>1. HeadsGood(heads', row', ckpt') /\ JournalGood(journal', heads')
        BY <1>6, JournalKept
    <2>2. CursorGood(cursor', heads', journal', row', ckpt', metadata', torn')
        BY <1>6 DEF Ready
    <2>3. CtxInv'
        <3>1. ctx' \in [Windows -> Contexts \cup {None}]
            BY <1>2, <1>5, <1>6
        <3>2. ASSUME NEW x \in Windows, ctx'[x] # None
              PROVE  CtxGood(ctx'[x], heads', ckpt')
            <4>1. ctx'[x] \in {c, ctx[x]}
                BY <1>5, <1>6, <3>2
            <4>2. CASE ctx'[x] = c
                BY <1>1, <1>6, <4>2
            <4>3. CASE ctx'[x] = ctx[x]
                <5>1. CtxGood(ctx[x], heads, ckpt)
                    BY <3>2, <4>3 DEF PostSaveInv, CtxInv
                <5>2. DOMAIN heads \subseteq DOMAIN after
                    OBVIOUS
                <5>3. CtxGood(ctx[x], after, ckpt')
                    BY <5>1, <5>2, CtxKept DEF Grown
                <5> QED BY <1>6, <4>3, <5>3
            <4> QED BY <4>1, <4>2, <4>3
        <3> QED BY <3>1, <3>2 DEF CtxInv
    <2>4. SessionGood(session', ckpt')
        <3>1. CASE c.form = "APP-001"
            <4>1. SessionGood(session, ckpt')
                BY SessionKept DEF PostSaveInv
            <4> QED BY <1>6, <3>1, <4>1 DEF SessionAfter
        <3>2. CASE c.form = "APP-004"
            BY <1>6, <3>2 DEF SessionAfter, SessionGood
        <3>3. CASE c.form \notin {"APP-001", "APP-004"}
            <4>1. c.char \in Characters /\ ckpt'[c.char] # None /\ c.scope \in Scopes \cup {None}
                BY <1>1, <1>2, <3>3 DEF CtxGood, Contexts
            <4>2. session' = [char |-> c.char, scope |-> c.scope]
                BY <1>6, <3>3 DEF SessionAfter
            <4> QED BY <4>1, <4>2 DEF SessionGood, Sessions
        <3> QED BY <3>1, <3>2, <3>3
    <2>5. torn' \in BOOLEAN
        BY <1>6 DEF PostSaveInv
    <2> QED BY <1>4, <2>1, <2>2, <2>3, <2>4, <2>5 DEF PostSaveInv
<1>7. CASE /\ heads' = cut.heads /\ cursor' = cut.cursor /\ session' = None /\ torn' = TRUE
           /\ ctx' = [x \in Windows |-> None]
    <2>1. HeadsGood(heads', row', ckpt') /\ JournalGood(journal', heads')
        BY <1>7
    <2>2. CursorGood(cursor', heads', journal', row', ckpt', metadata', torn')
        BY <1>7
    <2>3. CtxInv'
        BY <1>7 DEF CtxInv
    <2>4. SessionGood(session', ckpt') /\ torn' \in BOOLEAN
        BY <1>7 DEF SessionGood
    <2> QED BY <1>4, <2>1, <2>2, <2>3, <2>4 DEF PostSaveInv
<1> QED BY <1>6, <1>7 DEF Deliver

-----------------------------------------------------------------------------
(* A cursor that stands while others commit keeps what a restore needs.    *)
LEMMA CursorKept ==
    ASSUME NEW c, NEW hs, NEW jr, NEW rw, NEW ck, NEW md, NEW t,
           NEW hs2, NEW jr2, NEW rw2, NEW ck2, NEW md2,
           CursorGood(c, hs, jr, rw, ck, md, t),
           DOMAIN hs \subseteq DOMAIN hs2, DOMAIN jr \subseteq DOMAIN jr2,
           c # None /\ c.restore # None /\ SourceIs(c.scope, rw, ck, md) =>
                SourceIs(c.scope, rw2, ck2, md2)
    PROVE  CursorGood(c, hs2, jr2, rw2, ck2, md2, TRUE)
    BY DEF CursorGood

(* Heads with one more, or with another one for the scope.                 *)
LEMMA HeadsWith ==
    ASSUME NEW hs, NEW s, NEW h, NEW rw, NEW ck, HeadsGood(hs, rw, ck), HeadGood(s, h, rw, ck)
    PROVE  HeadsGood(With(hs, s, h), rw, ck)
<1> DEFINE n == With(hs, s, h)
<1>1. DOMAIN n = DOMAIN hs \cup {s} /\ n[s] = h /\ \A y \in DOMAIN hs \ {s} : n[y] = hs[y]
    BY DEF With
<1> HIDE DEF n
<1>2. HeadsGood(n, rw, ck)
    <2> SUFFICES ASSUME NEW x \in DOMAIN n PROVE HeadGood(x, n[x], rw, ck)
        BY DEF HeadsGood
    <2>1. CASE x = s
        BY <2>1, <1>1
    <2>2. CASE x # s
        BY <2>2, <1>1 DEF HeadsGood
    <2> QED BY <2>1, <2>2
<1> QED BY <1>2 DEF n

(* A step that leaves the store, the metadata and the receipts alone.      *)
LEMMA SteadyKeeps ==
    ASSUME PostSaveInv, UNCHANGED <<row, ckpt, named, metadata, journal>>,
           NEW w \in Windows, NEW request, NEW c, NEW after,
           PendGood(request, journal, ckpt),
           DOMAIN heads \subseteq DOMAIN after, HeadsGood(after, row, ckpt),
           Ready(c, cursor, after, journal, row, ckpt, metadata, torn),
           Deliver(w, request, c, Committed(after), after)
    PROVE  PostSaveInv'
<1> DEFINE cut == Committed(after)
<1>1. cut.heads = after /\ cut.cursor = cursor
    BY DEF Committed
<1> HIDE DEF cut
<1>2. StoreInv'
    <2>1. UNCHANGED storeVars
        BY DEF storeVars
    <2> QED BY <2>1, StoreStep, StoreAssumption DEF PostSaveInv
<1>3. Grown(journal, journal', ckpt, ckpt')
    BY DEF Grown
<1>4. JournalGood(journal', after)
    BY JournalKept DEF PostSaveInv
<1>5. CursorGood(cursor, after, journal', row', ckpt', metadata', TRUE)
    BY CursorKept DEF PostSaveInv
<1>6. metadata' \in [Characters -> Nat]
    BY DEF PostSaveInv
<1>7. /\ HeadsGood(after, row', ckpt')
      /\ Ready(c, cursor, after, journal', row', ckpt', metadata', torn)
      /\ PendGood(request, journal', ckpt')
    OBVIOUS
<1>8. Deliver(w, request, c, cut, after)
    BY DEF cut
<1> QED BY <1>1, <1>2, <1>3, <1>4, <1>5, <1>6, <1>7, <1>8, DeliverKeeps

(* Opening a scope whose source is current, on a form that it may have.    *)
LEMMA OpenKeeps ==
    ASSUME PostSaveInv, NEW w \in Windows, NEW s, NEW form \in PostSaveForms,
           HeadGood(s, HeadOf(s), row, ckpt),
           form \in RecoveryForms => s.snap.life = "DRAFT",
           SourceIs(s, row, ckpt, metadata),
           IsFinal(s) => HeadOf(s).meta = metadata[s.char],
           Open(w, s, form)
    PROVE  PostSaveInv'
<1> DEFINE h == Navigated(HeadOf(s), form)
           after == With(heads, s, h)
<1>1. /\ Fits(h)
      /\ Deliver(w, None, Shown(s, h), Committed(after), after)
      /\ UNCHANGED <<row, ckpt, named, metadata, journal>>
    BY DEF Open
<1>2. HeadGood(s, h, row, ckpt) /\ h.meta = HeadOf(s).meta
    BY <1>1, NavigatedGood, StoreAssumption
<1> HIDE DEF h
<1>3. /\ HeadsGood(after, row, ckpt) /\ DOMAIN heads \subseteq DOMAIN after
      /\ s \in DOMAIN after /\ after[s] = h
    <2>1. HeadsGood(heads, row, ckpt)
        BY DEF PostSaveInv
    <2>2. HeadsGood(after, row, ckpt)
        BY <1>2, <2>1, HeadsWith
    <2>3. DOMAIN heads \subseteq DOMAIN after /\ s \in DOMAIN after /\ after[s] = h
        BY DEF With
    <2> QED BY <2>2, <2>3
<1> HIDE DEF after
<1>4. Opens(s, after, row, ckpt, metadata)
    BY <1>2, <1>3 DEF Opens
<1>5. Ready(Shown(s, after[s]), cursor, after, journal, row, ckpt, metadata, torn)
    BY <1>2, <1>3, <1>4, ShownReady
<1>6. PendGood(None, journal, ckpt)
    BY DEF PendGood
<1> QED BY <1>1, <1>3, <1>5, <1>6, SteadyKeeps

(* A new entry opens a scope of its own.                                   *)
LEMMA OpenFreshKeeps ==
    ASSUME PostSaveInv, NEW w \in Windows, NEW ch \in Characters, ckpt[ch] # None,
           NEW i \in Ids, FreshId(i), NEW form \in PostSaveForms,
           form \in RecoveryForms => row[ch].snap.life = "DRAFT",
           Open(w, ScopeOf(ch, i), form)
    PROVE  PostSaveInv'
<1> DEFINE s == ScopeOf(ch, i)
<1>1. s.entry = i /\ s.char = ch /\ s.snap = row[ch].snap /\ SourceIs(s, row, ckpt, metadata)
    BY ScopeOfGood
<1>2. s \notin DOMAIN heads
    BY <1>1 DEF FreshId
<1>3. HeadGood(s, HeadOf(s), row, ckpt) /\ (IsFinal(s) => HeadOf(s).meta = metadata[ch])
    BY <1>2, HeadOfGood
<1> HIDE DEF s
<1>4. Open(w, s, form)
    BY DEF s
<1> QED BY <1>1, <1>3, <1>4, OpenKeeps

(* What a window shows.                                                    *)
LEMMA IdleGood ==
    ASSUME PostSaveInv, NEW w \in Windows, Idle(w)
    PROVE  CtxGood(ctx[w], heads, ckpt)
    BY DEF PostSaveInv, CtxInv, Idle

LEMMA ViewGood ==
    ASSUME PostSaveInv, NEW w \in Windows, ViewActs(w), ctx[w].form \in PostSaveForms
    PROVE  /\ ctx[w].scope \in DOMAIN heads /\ ctx[w].char = ctx[w].scope.char
           /\ ctx[w].char \in Characters /\ ckpt[ctx[w].char] # None
           /\ HeadGood(ctx[w].scope, heads[ctx[w].scope], row, ckpt)
           /\ ctx[w].replay # None => ctx[w].form \in FinalForms
           /\ ctx[w].replay = None =>
                /\ heads[ctx[w].scope].form = ctx[w].form
                /\ Opens(ctx[w].scope, heads, row, ckpt, metadata)
<1> DEFINE v == ctx[w]
<1>1. CtxGood(v, heads, ckpt)
    BY IdleGood DEF ViewActs
<1>2. /\ v.scope \in DOMAIN heads /\ v.char = v.scope.char /\ v.char \in Characters
      /\ ckpt[v.char] # None /\ (v.replay # None => v.form \in FinalForms)
    BY <1>1 DEF CtxGood, PostSaveForms, RecoveryForms, FinalForms
<1>3. HeadGood(v.scope, heads[v.scope], row, ckpt)
    BY <1>2 DEF PostSaveInv, HeadsGood
<1>4. ASSUME v.replay = None
      PROVE  heads[v.scope].form = v.form /\ Opens(v.scope, heads, row, ckpt, metadata)
    <2>1. v.scope \in Scopes
        BY <1>3 DEF HeadGood
    <2>2. heads[v.scope].form = v.form /\ Projects(v.scope)
        BY <1>4 DEF ViewActs
    <2> QED BY <2>1, <2>2, ProjectsIs
<1> QED BY <1>2, <1>3, <1>4

(* On the scope a window shows, at its head.                               *)
LEMMA OpenShownKeeps ==
    ASSUME PostSaveInv, NEW w \in Windows, ViewActs(w), ctx[w].form \in PostSaveForms,
           ctx[w].replay = None, NEW form \in PostSaveForms,
           form \in RecoveryForms => ctx[w].form \in RecoveryForms,
           Open(w, ctx[w].scope, form)
    PROVE  PostSaveInv'
<1> DEFINE s == ctx[w].scope
<1>1. /\ s \in DOMAIN heads /\ HeadGood(s, heads[s], row, ckpt)
      /\ heads[s].form = ctx[w].form /\ Opens(s, heads, row, ckpt, metadata)
    BY ViewGood
<1>2. HeadOf(s) = heads[s]
    BY <1>1 DEF HeadOf
<1>3. form \in RecoveryForms => s.snap.life = "DRAFT"
    BY <1>1 DEF HeadGood
<1>4. SourceIs(s, row, ckpt, metadata) /\ (IsFinal(s) => HeadOf(s).meta = metadata[s.char])
    BY <1>1, <1>2 DEF Opens
<1> HIDE DEF s
<1>5. Open(w, s, form)
    BY DEF s
<1> QED BY <1>1, <1>2, <1>3, <1>4, <1>5, OpenKeeps

-----------------------------------------------------------------------------
(* The navigation of a window, one lemma per action.                       *)
LEMMA GoLibraryKeeps ==
    ASSUME PostSaveInv, NEW w \in Windows, GoLibrary(w) PROVE PostSaveInv'
<1>1. /\ Deliver(w, None, Plain("APP-004"), Committed(heads), heads)
      /\ UNCHANGED <<row, ckpt, named, metadata, journal>>
    BY DEF GoLibrary
<1>2. Ready(Plain("APP-004"), cursor, heads, journal, row, ckpt, metadata, torn)
    BY PlainReady, StoreAssumption
<1>3. PendGood(None, journal, ckpt) /\ HeadsGood(heads, row, ckpt)
    BY DEF PendGood, PostSaveInv
<1> QED BY <1>1, <1>2, <1>3, SteadyKeeps

LEMMA OpenCharacterKeeps ==
    ASSUME PostSaveInv, NEW w \in Windows, NEW ch \in Characters, NEW i \in Ids,
           OpenCharacter(w, ch, i)
    PROVE  PostSaveInv'
<1> DEFINE form == IF row[ch].snap.life = "FINAL" THEN "CHR-040" ELSE "CHR-026"
<1>1. ckpt[ch] # None /\ FreshId(i) /\ Open(w, ScopeOf(ch, i), form)
    BY DEF OpenCharacter
<1>2. row[ch].snap.life \in {"DRAFT", "FINAL"}
    BY <1>1, ScopeOfGood
<1>3. form \in PostSaveForms /\ (form \in RecoveryForms => row[ch].snap.life = "DRAFT")
    BY <1>2 DEF PostSaveForms, RecoveryForms, FinalForms
<1> HIDE DEF form
<1> QED BY <1>1, <1>3, OpenFreshKeeps

LEMMA ToRestoreKeeps ==
    ASSUME PostSaveInv, NEW w \in Windows, ToRestore(w) PROVE PostSaveInv'
<1>1. ViewActs(w) /\ ctx[w].form = "CHR-026" /\ Open(w, ctx[w].scope, "APP-009")
    BY DEF ToRestore
<1>2. ctx[w].form \in RecoveryForms /\ ctx[w].form \in PostSaveForms /\ "APP-009" \in PostSaveForms
    BY <1>1 DEF PostSaveForms, RecoveryForms
<1>3. ctx[w].form \notin FinalForms
    BY <1>1 DEF FinalForms
<1>4. ctx[w].replay = None
    BY <1>1, <1>2, <1>3, ViewGood
<1> QED BY <1>1, <1>2, <1>4, OpenShownKeeps

LEMMA ToExportKeeps ==
    ASSUME PostSaveInv, NEW w \in Windows, NEW i \in Ids, ToExport(w, i) PROVE PostSaveInv'
<1>1. /\ ViewActs(w) /\ ctx[w].form = "CHR-040" /\ FreshId(i)
      /\ Open(w, ScopeOf(ctx[w].char, i), "APP-010")
    BY DEF ToExport
<1>2. /\ ctx[w].form \in PostSaveForms /\ "APP-010" \in PostSaveForms
      /\ "APP-010" \notin RecoveryForms
    BY <1>1 DEF PostSaveForms, FinalForms, RecoveryForms
<1>3. ctx[w].char \in Characters /\ ckpt[ctx[w].char] # None
    BY <1>1, <1>2, ViewGood
<1> QED BY <1>1, <1>2, <1>3, OpenFreshKeeps

LEMMA FromExportKeeps ==
    ASSUME PostSaveInv, NEW w \in Windows, NEW i \in Ids, FromExport(w, i) PROVE PostSaveInv'
<1>1. ViewActs(w) /\ ctx[w].form = "APP-010" /\ FreshId(i)
    BY DEF FromExport
<1>2. /\ ctx[w].form \in PostSaveForms /\ "CHR-040" \in PostSaveForms
      /\ "CHR-040" \notin RecoveryForms
    BY <1>1 DEF PostSaveForms, FinalForms, RecoveryForms
<1>3. ctx[w].char \in Characters /\ ckpt[ctx[w].char] # None
    BY <1>1, <1>2, ViewGood
<1>4. CASE ctx[w].replay = None
    <2>1. Open(w, ctx[w].scope, "CHR-040")
        BY <1>4 DEF FromExport
    <2> QED BY <1>1, <1>2, <1>4, <2>1, OpenShownKeeps
<1>5. CASE ctx[w].replay # None
    <2>1. Open(w, ScopeOf(ctx[w].char, i), "CHR-040")
        BY <1>5 DEF FromExport
    <2> QED BY <1>1, <1>2, <1>3, <2>1, OpenFreshKeeps
<1> QED BY <1>4, <1>5

LEMMA ToCacheKeeps ==
    ASSUME PostSaveInv, NEW w \in Windows, NEW i \in Ids, ToCache(w, i) PROVE PostSaveInv'
<1>1. /\ Idle(w) /\ ctx[w].form = "CHR-025" /\ FreshId(i)
      /\ Open(w, ScopeOf(ctx[w].char, i), "CHR-039")
    BY DEF ToCache
<1>2. ctx[w].char \in Characters /\ ckpt[ctx[w].char] # None
    BY <1>1, IdleGood DEF CtxGood
<1>3. "CHR-039" \in PostSaveForms /\ "CHR-039" \notin RecoveryForms
    BY DEF PostSaveForms, RecoveryForms
<1> QED BY <1>1, <1>2, <1>3, OpenFreshKeeps

LEMMA FromCacheKeeps ==
    ASSUME PostSaveInv, NEW w \in Windows, FromCache(w) PROVE PostSaveInv'
<1> DEFINE ch == ctx[w].char
<1>1. /\ ViewActs(w) /\ ctx[w].form = "CHR-039"
      /\ Deliver(w, None, WizardOf(ch, row[ch], None), Committed(heads), heads)
      /\ UNCHANGED <<row, ckpt, named, metadata, journal>>
    BY DEF FromCache
<1>2. ctx[w].form \in PostSaveForms
    BY <1>1 DEF PostSaveForms
<1>3. ch \in Characters /\ ckpt[ch] # None
    BY <1>1, <1>2, ViewGood
<1>4. row[ch] \in Rows
    BY <1>3, ScopeOfGood
<1> HIDE DEF ch
<1>5. CursorGood(None, heads, journal, row, ckpt, metadata, torn)
    BY DEF CursorGood
<1>6. Ready(WizardOf(ch, row[ch], None), cursor, heads, journal, row, ckpt, metadata, torn)
    BY <1>3, <1>4, <1>5, WizardReady
<1>7. PendGood(None, journal, ckpt) /\ HeadsGood(heads, row, ckpt)
    BY DEF PendGood, PostSaveInv
<1> QED BY <1>1, <1>6, <1>7, SteadyKeeps

-----------------------------------------------------------------------------
(* Commands: what a commit writes of the characters that have checkpoints. *)
Stable(rw, rw2, ck, ck2, md, md2) ==
    \A ch \in Characters : ck[ch] # None =>
        /\ rw2[ch] = rw[ch] /\ ck2[ch] = ck[ch]
        /\ md[ch] \in Nat /\ md2[ch] \in Nat /\ md[ch] <= md2[ch]

LEMMA HeadsStable ==
    ASSUME NEW hs, NEW rw, NEW rw2, NEW ck, NEW ck2, NEW md, NEW md2,
           HeadsGood(hs, rw, ck), Stable(rw, rw2, ck, ck2, md, md2)
    PROVE  HeadsGood(hs, rw2, ck2)
<1> SUFFICES ASSUME NEW s \in DOMAIN hs PROVE HeadGood(s, hs[s], rw2, ck2)
    BY DEF HeadsGood
<1>1. HeadGood(s, hs[s], rw, ck)
    BY DEF HeadsGood
<1>2. s.char \in Characters
    BY <1>1 DEF HeadGood, Scopes
<1> QED BY <1>1, <1>2 DEF HeadGood, Stable

LEMMA CursorStable ==
    ASSUME NEW c, NEW hs, NEW jr, NEW rw, NEW ck, NEW md, NEW t,
           NEW hs2, NEW jr2, NEW rw2, NEW ck2, NEW md2,
           CursorGood(c, hs, jr, rw, ck, md, t),
           DOMAIN hs \subseteq DOMAIN hs2, DOMAIN jr \subseteq DOMAIN jr2,
           Stable(rw, rw2, ck, ck2, md, md2)
    PROVE  CursorGood(c, hs2, jr2, rw2, ck2, md2, TRUE)
<1>1. ASSUME c # None, c.restore # None, SourceIs(c.scope, rw, ck, md)
      PROVE  SourceIs(c.scope, rw2, ck2, md2)
    <2>1. c.scope \in Scopes
        BY <1>1 DEF CursorGood, Cursors
    <2>2. c.scope.char \in Characters /\ ck[c.scope.char] # None
        BY <1>1, <2>1 DEF Scopes, SourceIs
    <2> QED BY <1>1, <2>1, <2>2, SourceKept DEF Stable
<1> QED BY <1>1 DEF CursorGood

LEMMA SteadyIsStable ==
    ASSUME PostSaveInv, UNCHANGED <<row, ckpt, metadata>>
    PROVE  Stable(row, row', ckpt, ckpt', metadata, metadata')
    BY DEF PostSaveInv, Stable

LEMMA JournalWith ==
    ASSUME NEW jr, NEW hs, NEW i \in Ids, NEW r, JournalGood(jr, hs), ReceiptGood(r, hs)
    PROVE  /\ JournalGood(With(jr, i, r), hs)
           /\ DOMAIN jr \subseteq DOMAIN With(jr, i, r) /\ i \in DOMAIN With(jr, i, r)
<1> DEFINE n == With(jr, i, r)
<1>1. DOMAIN n = DOMAIN jr \cup {i} /\ n[i] = r /\ \A y \in DOMAIN jr \ {i} : n[y] = jr[y]
    BY DEF With
<1> HIDE DEF n
<1>2. ASSUME NEW y \in DOMAIN n PROVE ReceiptGood(n[y], hs)
    <2>1. CASE y = i
        BY <2>1, <1>1
    <2>2. CASE y # i
        BY <2>2, <1>1 DEF JournalGood
    <2> QED BY <2>1, <2>2
<1>3. DOMAIN n \subseteq Ids
    BY <1>1 DEF JournalGood
<1> QED BY <1>1, <1>2, <1>3 DEF JournalGood, n

(* A command that has left its receipt.                                    *)
LEMMA CommandKeeps ==
    ASSUME PostSaveInv, StoreInv', metadata' \in [Characters -> Nat],
           Stable(row, row', ckpt, ckpt', metadata, metadata'),
           NEW w \in Windows, NEW i \in Ids, NEW r, NEW c, NEW cut, NEW after,
           journal' = With(journal, i, r), ReceiptGood(r, after),
           cut.heads = after, DOMAIN heads \subseteq DOMAIN after,
           HeadsGood(after, row', ckpt'),
           CursorGood(cut.cursor, after, journal', row', ckpt', metadata', TRUE),
           Ready(c, cut.cursor, after, journal', row', ckpt', metadata', torn),
           Deliver(w, [kind |-> "COMMAND", id |-> i], c, cut, after)
    PROVE  PostSaveInv'
<1>1. JournalGood(journal, after)
    BY JournalKept DEF PostSaveInv
<1>2. JournalGood(journal', after) /\ DOMAIN journal \subseteq DOMAIN journal' /\ i \in DOMAIN journal'
    BY <1>1, JournalWith
<1>3. Grown(journal, journal', ckpt, ckpt')
    BY <1>2 DEF Grown, Stable
<1>4. [kind |-> "COMMAND", id |-> i] \in Pendings
    BY DEF Pendings
<1>5. PendGood([kind |-> "COMMAND", id |-> i], journal', ckpt')
    BY <1>2, <1>4 DEF PendGood
<1> QED BY <1>2, <1>3, <1>5, DeliverKeeps

LEMMA StoreUnchanged ==
    ASSUME PostSaveInv, UNCHANGED <<row, ckpt, named>>
    PROVE  StoreInv'
<1>1. UNCHANGED storeVars
    BY DEF storeVars
<1> QED BY <1>1, StoreStep, StoreAssumption DEF PostSaveInv

LEMMA DraftSaved ==
    ASSUME PostSaveInv, NEW w \in Windows, NEW i \in Ids, SaveValidDraft(w, i),
           ~DiesHalfway(With(heads, ScopeOf(ctx[w].char, i), HeadOf(ScopeOf(ctx[w].char, i))))
    PROVE  PostSaveInv'
<1> DEFINE ch == ctx[w].char
           s == ScopeOf(ch, i)
           h == HeadOf(s)
           after == With(heads, s, h)
           r == Receipt("SAVE_VALID_DRAFT", s, h)
<1>1. /\ Idle(w) /\ ctx[w].form = "CHR-025" /\ FreshId(i) /\ row[ch].snap.life = "DRAFT"
      /\ journal' = With(journal, i, r)
      /\ Deliver(w, [kind |-> "COMMAND", id |-> i], Shown(s, h), Committed(after), after)
      /\ UNCHANGED <<row, ckpt, named, metadata>>
    BY DEF SaveValidDraft
<1>2. ch \in Characters /\ ckpt[ch] # None
    BY <1>1, IdleGood DEF CtxGood
<1>3. /\ s \in Scopes /\ s.entry = i /\ s.snap = row[ch].snap
      /\ SourceIs(s, row, ckpt, metadata)
    BY <1>2, ScopeOfGood
<1>4. HeadGood(s, h, row, ckpt)
    BY <1>2, HeadOfGood
<1> HIDE DEF ch, s, h
<1>5. /\ HeadsGood(after, row, ckpt) /\ DOMAIN heads \subseteq DOMAIN after
      /\ s \in DOMAIN after /\ after[s] = h
    <2>1. HeadsGood(heads, row, ckpt)
        BY DEF PostSaveInv
    <2>2. HeadsGood(after, row, ckpt)
        BY <1>4, <2>1, HeadsWith
    <2>3. DOMAIN heads \subseteq DOMAIN after /\ s \in DOMAIN after /\ after[s] = h
        BY DEF With
    <2> QED BY <2>2, <2>3
<1> HIDE DEF after
<1>6. h.form \in PostSaveForms /\ h.st \in Revisions /\ h.pr \in Revisions /\ h.meta \in Nat
    BY <1>4 DEF HeadGood, Heads
<1>7. ReceiptGood(r, after)
    <2>1. r \in Receipts
        BY <1>3, <1>6 DEF Receipts, Receipt, PostSaveKinds, Forms
    <2> QED BY <1>1, <1>3, <1>5, <2>1 DEF ReceiptGood, Receipt
<1> HIDE DEF r
<1>8. Opens(s, after, row, ckpt, metadata)
    BY <1>1, <1>3, <1>5 DEF Opens, IsFinal
<1>9. Ready(Shown(s, h), cursor, after, journal', row, ckpt, metadata, torn)
    BY <1>4, <1>5, <1>8, ShownReady
<1>10. Stable(row, row', ckpt, ckpt', metadata, metadata')
    BY <1>1, SteadyIsStable
<1>11. JournalGood(journal, after)
    BY <1>5, JournalKept DEF PostSaveInv
<1>12. DOMAIN journal \subseteq DOMAIN journal'
    BY <1>1, <1>7, <1>11, JournalWith
<1>13. CursorGood(cursor, after, journal', row', ckpt', metadata', TRUE)
    BY <1>5, <1>10, <1>12, CursorStable DEF PostSaveInv
<1> DEFINE cut == Committed(after)
<1>14. cut.heads = after /\ cut.cursor = cursor
    BY DEF Committed
<1>15. Deliver(w, [kind |-> "COMMAND", id |-> i], Shown(s, h), cut, after)
    BY <1>1
<1> HIDE DEF cut
<1>16. StoreInv' /\ metadata' \in [Characters -> Nat]
    BY <1>1, StoreUnchanged DEF PostSaveInv
<1>17. /\ HeadsGood(after, row', ckpt')
       /\ Ready(Shown(s, h), cursor, after, journal', row', ckpt', metadata', torn)
    BY <1>1, <1>5, <1>9
<1> QED BY <1>1, <1>5, <1>7, <1>10, <1>13, <1>14, <1>15, <1>16, <1>17, CommandKeeps

(* A host that dies between the two transactions leaves an entry behind,   *)
(* which nothing refers to.                                                *)
LEMMA DraftHalfSaved ==
    ASSUME PostSaveInv, NEW w \in Windows, NEW i \in Ids, SaveValidDraft(w, i),
           DiesHalfway(With(heads, ScopeOf(ctx[w].char, i), HeadOf(ScopeOf(ctx[w].char, i))))
    PROVE  PostSaveInv'
<1> DEFINE ch == ctx[w].char
           s == ScopeOf(ch, i)
           h == HeadOf(s)
           after == With(heads, s, h)
<1>1. /\ Idle(w) /\ ctx[w].form = "CHR-025"
      /\ heads' = after /\ ctx' = [x \in Windows |-> None] /\ session' = None
      /\ UNCHANGED <<row, ckpt, named, metadata, journal, cursor, pending, torn>>
    BY DEF SaveValidDraft, DiesHalfway
<1>2. ch \in Characters /\ ckpt[ch] # None
    BY <1>1, IdleGood DEF CtxGood
<1>3. HeadGood(s, h, row, ckpt)
    BY <1>2, HeadOfGood
<1>4. \A x \in DOMAIN heads : x \in DOMAIN after /\ after[x] = heads[x]
    BY DEF With, HeadOf
<1> HIDE DEF ch, s, h
<1>5. HeadsGood(after, row, ckpt)
    BY <1>3, HeadsWith DEF PostSaveInv
<1> HIDE DEF after
<1>6. JournalGood(journal, after)
    BY <1>4, JournalKept DEF PostSaveInv
<1>7. CursorGood(cursor, after, journal, row, ckpt, metadata, torn)
    BY <1>4 DEF PostSaveInv, CursorGood, Opens
<1>8. CtxInv'
    BY <1>1 DEF CtxInv
<1>9. SessionGood(session', ckpt') /\ StoreInv'
    BY <1>1, StoreUnchanged DEF SessionGood
<1>10. PendInv'
    BY <1>1 DEF PostSaveInv, PendInv
<1> QED BY <1>1, <1>5, <1>6, <1>7, <1>8, <1>9, <1>10 DEF PostSaveInv

LEMMA SaveValidDraftKeeps ==
    ASSUME PostSaveInv, NEW w \in Windows, NEW i \in Ids, SaveValidDraft(w, i)
    PROVE  PostSaveInv'
    BY DraftSaved, DraftHalfSaved

(* The view a command was made from is the head.                           *)
LEMMA HeadIsViewGood ==
    ASSUME PostSaveInv, NEW w \in Windows, Idle(w), ctx[w].form \in PostSaveForms,
           HeadIsView(ctx[w])
    PROVE  LET s == ctx[w].scope IN
           /\ s \in Scopes /\ s \in DOMAIN heads /\ HeadGood(s, heads[s], row, ckpt)
           /\ SourceIs(s, row, ckpt, metadata)
           /\ heads[s].form = ctx[w].form
           /\ ctx[w].char = s.char /\ s.char \in Characters /\ ckpt[s.char] # None
<1> DEFINE s == ctx[w].scope
<1>1. s \in DOMAIN heads /\ SourceValid(s) /\ heads[s].form = ctx[w].form
    BY DEF HeadIsView
<1>2. HeadGood(s, heads[s], row, ckpt)
    BY <1>1 DEF PostSaveInv, HeadsGood
<1>3. s \in Scopes /\ s.char \in Characters /\ ckpt[s.char] # None
    BY <1>2 DEF HeadGood, Scopes
<1>4. SourceIs(s, row, ckpt, metadata)
    BY <1>1, <1>3, SourceValidIs
<1>5. ctx[w].char = s.char
    BY IdleGood DEF CtxGood
<1> QED BY <1>1, <1>2, <1>3, <1>4, <1>5

LEMMA RestoreKeeps ==
    ASSUME PostSaveInv, NEW w \in Windows, NEW i \in Ids, Restore(w, i)
    PROVE  PostSaveInv'
<1> DEFINE s == ctx[w].scope
           ch == ctx[w].char
           h == heads[s]
           at == [scope |-> s, restore |-> i]
           r == [Receipt("RESTORE", s, h) EXCEPT !.form = "CHR-025"]
           c == WizardOf(ch, row[ch], at)
           cut == [heads |-> heads, cursor |-> at]
<1>1. /\ Idle(w) /\ ctx[w].form = "APP-009" /\ HeadIsView(ctx[w])
      /\ journal' = With(journal, i, r)
      /\ Deliver(w, [kind |-> "COMMAND", id |-> i], c, cut, heads)
      /\ UNCHANGED <<row, ckpt, named, metadata>>
    BY DEF Restore
<1>2. "APP-009" \in RecoveryForms /\ "APP-009" \in PostSaveForms
    BY DEF RecoveryForms, PostSaveForms
<1>3. /\ s \in Scopes /\ s \in DOMAIN heads /\ HeadGood(s, h, row, ckpt)
      /\ SourceIs(s, row, ckpt, metadata) /\ h.form = "APP-009"
      /\ ch = s.char /\ ch \in Characters /\ ckpt[ch] # None
    BY <1>1, <1>2, HeadIsViewGood
<1>4. s.snap.life = "DRAFT" /\ h \in Heads
    BY <1>2, <1>3 DEF HeadGood
<1>5. row[ch] \in Rows
    BY <1>3, ScopeOfGood
<1> HIDE DEF s, ch, h
<1>6. ReceiptGood(r, heads)
    <2>1. r = [kind |-> "RESTORE", scope |-> s, form |-> "CHR-025", st |-> h.st,
               pr |-> h.pr, meta |-> h.meta]
        BY DEF Receipt
    <2>2. h.st \in Revisions /\ h.pr \in Revisions /\ h.meta \in Nat
        BY <1>4 DEF Heads
    <2>3. r \in Receipts
        BY <1>3, <2>1, <2>2 DEF Receipts, PostSaveKinds, Forms
    <2> QED BY <1>3, <1>4, <2>1, <2>3 DEF ReceiptGood
<1> HIDE DEF r
<1>7. JournalGood(journal', heads) /\ i \in DOMAIN journal'
    BY <1>1, <1>6, JournalWith DEF PostSaveInv
<1>8. at \in Cursors
    BY <1>3 DEF Cursors
<1>9. \A t \in BOOLEAN : CursorGood(at, heads, journal', row, ckpt, metadata, t)
    <2>1. i # None
        BY PostSaveAssumption
    <2> QED BY <1>3, <1>4, <1>7, <1>8, <2>1 DEF CursorGood
<1> HIDE DEF at
<1>10. cut.heads = heads /\ cut.cursor = at
    OBVIOUS
<1> HIDE DEF cut
<1>11. Ready(c, at, heads, journal', row, ckpt, metadata, torn)
    <2>1. torn \in BOOLEAN
        BY DEF PostSaveInv
    <2> QED BY <1>3, <1>5, <1>8, <1>9, <2>1, WizardReady
<1> HIDE DEF c
<1>12. StoreInv' /\ metadata' \in [Characters -> Nat]
       /\ Stable(row, row', ckpt, ckpt', metadata, metadata')
    BY <1>1, StoreUnchanged, SteadyIsStable DEF PostSaveInv
<1>13. /\ HeadsGood(heads, row', ckpt')
       /\ CursorGood(at, heads, journal', row', ckpt', metadata', TRUE)
       /\ Ready(c, at, heads, journal', row', ckpt', metadata', torn)
    BY <1>1, <1>9, <1>11 DEF PostSaveInv
<1> QED BY <1>1, <1>6, <1>10, <1>12, <1>13, CommandKeeps

(* A command on a final sheet, whatever it does besides.                   *)
LEMMA CommitFinalKeeps ==
    ASSUME PostSaveInv, StoreInv', metadata' \in [Characters -> Nat],
           Stable(row, row', ckpt, ckpt', metadata, metadata'),
           NEW w \in Windows, NEW i \in Ids, NEW h,
           NEW kind \in {"METADATA_PATCH", "VARIANT_CREATE", "EXPORT"},
           ctx[w].form \in FinalForms,
           CommitFinal(w, i, kind, h),
           h \in Heads, h.form = heads[ctx[w].scope].form,
           h.meta = metadata'[ctx[w].scope.char]
    PROVE  PostSaveInv'
<1> DEFINE s == ctx[w].scope
           after == With(heads, s, h)
           r == Receipt(kind, s, h)
           cut == Committed(after)
<1>1. /\ Idle(w) /\ IsFinal(s) /\ HeadIsView(ctx[w])
      /\ journal' = With(journal, i, r)
      /\ Deliver(w, [kind |-> "COMMAND", id |-> i], Shown(s, h), cut, after)
    BY DEF CommitFinal
<1>2. ctx[w].form \in PostSaveForms
    BY DEF PostSaveForms
<1>3. /\ s \in Scopes /\ s \in DOMAIN heads /\ HeadGood(s, heads[s], row, ckpt)
      /\ SourceIs(s, row, ckpt, metadata) /\ heads[s].form = ctx[w].form
      /\ s.char \in Characters /\ ckpt[s.char] # None
    BY <1>1, <1>2, HeadIsViewGood
<1>4. /\ cut.heads = after /\ cut.cursor = cursor
      /\ h.form \in FinalForms /\ h.meta = metadata'[s.char]
    BY <1>3 DEF Committed
<1> HIDE DEF cut, s
<1>5. SourceIs(s, row', ckpt', metadata')
    BY <1>3, SourceKept DEF Stable
<1>6. HeadGood(s, h, row', ckpt')
    <2>1. h.form \notin RecoveryForms
        BY <1>4 DEF FinalForms, RecoveryForms
    <2> QED BY <1>3, <2>1 DEF HeadGood, Stable
<1>7. HeadsGood(heads, row', ckpt')
    BY HeadsStable DEF PostSaveInv
<1>8. /\ HeadsGood(after, row', ckpt') /\ DOMAIN heads \subseteq DOMAIN after
      /\ s \in DOMAIN after /\ after[s] = h
    <2>1. HeadsGood(after, row', ckpt')
        BY <1>6, <1>7, HeadsWith
    <2>2. DOMAIN after = DOMAIN heads \cup {s} /\ after[s] = h
        BY DEF With
    <2> QED BY <2>1, <2>2
<1> HIDE DEF after
<1>9. Opens(s, after, row', ckpt', metadata')
    BY <1>4, <1>5, <1>8 DEF Opens
<1>10. Ready(Shown(s, h), cursor, after, journal', row', ckpt', metadata', torn)
    BY <1>6, <1>8, <1>9, ShownReady
<1>11. ReceiptGood(r, after)
    <2>1. h.st \in Revisions /\ h.pr \in Revisions /\ h.meta \in Nat /\ h.form \in PostSaveForms
        BY DEF Heads
    <2>2. r \in Receipts
        BY <1>3, <2>1 DEF Receipts, Receipt, PostSaveKinds, Forms
    <2> QED BY <1>4, <1>8, <2>2 DEF ReceiptGood, Receipt
<1> HIDE DEF r
<1>12. DOMAIN journal \subseteq DOMAIN journal'
    BY <1>1, <1>8, <1>11, JournalKept, JournalWith DEF PostSaveInv
<1>13. CursorGood(cursor, after, journal', row', ckpt', metadata', TRUE)
    BY <1>8, <1>12, CursorStable DEF PostSaveInv
<1> QED BY <1>1, <1>4, <1>8, <1>10, <1>11, <1>13, CommandKeeps

LEMMA BumpedGood ==
    ASSUME StoreAssumption, NEW h \in Heads, NEW m \in Nat, Fits(Bumped(h, m))
    PROVE  Bumped(h, m) \in Heads /\ Bumped(h, m).form = h.form /\ Bumped(h, m).meta = m
<1>1. h.st \in Nat /\ h.pr \in Nat /\ h.form \in PostSaveForms /\ MaxRevision \in Nat
    BY DEF Heads, Revisions, StoreAssumption
<1>2. h.st + 1 <= MaxRevision /\ h.pr + 1 <= MaxRevision
    BY DEF Fits, Bumped
<1>3. h.st + 1 \in Revisions /\ h.pr + 1 \in Revisions
    BY <1>1, <1>2 DEF Revisions
<1> QED BY <1>1, <1>3 DEF Bumped, Heads

(* The metadata a command on a sheet starts from.                          *)
LEMMA MetadataIsViewGood ==
    ASSUME PostSaveInv, NEW w \in Windows, NEW i, NEW kind, NEW h, CommitFinal(w, i, kind, h),
           ctx[w].form \in FinalForms
    PROVE  LET s == ctx[w].scope IN
           /\ Fits(h) /\ s.char \in Characters /\ ctx[w].char = s.char /\ heads[s] \in Heads
           /\ heads[s].meta = metadata[s.char] /\ metadata[s.char] \in Nat
<1>1. Idle(w) /\ HeadIsView(ctx[w]) /\ MetadataIsView(ctx[w]) /\ Fits(h)
    BY DEF CommitFinal
<1>2. ctx[w].form \in PostSaveForms
    BY DEF PostSaveForms
<1> DEFINE s == ctx[w].scope
<1>3. /\ s \in Scopes /\ HeadGood(s, heads[s], row, ckpt) /\ ctx[w].char = s.char
      /\ s.char \in Characters
    BY <1>1, <1>2, HeadIsViewGood
<1>4. heads[s].meta = metadata[s.char]
    BY <1>1 DEF MetadataIsView
<1> QED BY <1>1, <1>3, <1>4 DEF HeadGood, PostSaveInv

LEMMA MetadataPatchKeeps ==
    ASSUME PostSaveInv, NEW w \in Windows, NEW i \in Ids, MetadataPatch(w, i)
    PROVE  PostSaveInv'
<1> DEFINE ch == ctx[w].char
           h == heads[ctx[w].scope]
           n == Bumped(h, h.meta + 1)
<1>1. /\ ctx[w].form = "CHR-040" /\ CommitFinal(w, i, "METADATA_PATCH", n)
      /\ metadata' = [metadata EXCEPT ![ch] = @ + 1] /\ UNCHANGED storeVars
    BY DEF MetadataPatch
<1>2. ctx[w].form \in FinalForms
    BY <1>1 DEF FinalForms
<1>3. /\ Fits(n) /\ ch \in Characters /\ ch = ctx[w].scope.char /\ h \in Heads
      /\ h.meta = metadata[ch] /\ metadata[ch] \in Nat
    BY <1>1, <1>2, MetadataIsViewGood
<1>4. metadata \in [Characters -> Nat]
    BY DEF PostSaveInv
<1>5. metadata' \in [Characters -> Nat] /\ metadata'[ch] = h.meta + 1
    BY <1>1, <1>3, <1>4
<1>6. Stable(row, row', ckpt, ckpt', metadata, metadata')
    <2>1. UNCHANGED <<row, ckpt>>
        BY <1>1 DEF storeVars
    <2>2. \A x \in Characters : metadata[x] \in Nat /\ metadata'[x] \in Nat /\ metadata[x] <= metadata'[x]
        BY <1>1, <1>4, <1>5
    <2> QED BY <2>1, <2>2 DEF Stable
<1>7. StoreInv'
    BY <1>1, StoreUnchanged DEF storeVars
<1>8. n \in Heads /\ n.form = h.form /\ n.meta = h.meta + 1
    <2>1. h.meta + 1 \in Nat
        BY <1>3
    <2> QED BY <1>3, <2>1, BumpedGood, StoreAssumption
<1> HIDE DEF n
<1>9. n.form = heads[ctx[w].scope].form /\ n.meta = metadata'[ctx[w].scope.char]
    BY <1>3, <1>5, <1>8
<1> QED BY <1>1, <1>2, <1>5, <1>6, <1>7, <1>8, <1>9, CommitFinalKeeps

LEMMA ExportKeeps ==
    ASSUME PostSaveInv, NEW w \in Windows, NEW i \in Ids, Export(w, i)
    PROVE  PostSaveInv'
<1> DEFINE h == heads[ctx[w].scope]
<1>1. /\ ctx[w].form = "APP-010" /\ CommitFinal(w, i, "EXPORT", h)
      /\ UNCHANGED <<storeVars, metadata>>
    BY DEF Export
<1>2. ctx[w].form \in FinalForms
    BY <1>1 DEF FinalForms
<1>3. h \in Heads /\ h.meta = metadata[ctx[w].scope.char]
    BY <1>1, <1>2, MetadataIsViewGood
<1>4. StoreInv' /\ metadata' \in [Characters -> Nat]
      /\ Stable(row, row', ckpt, ckpt', metadata, metadata')
    BY <1>1, StoreUnchanged, SteadyIsStable DEF storeVars, PostSaveInv
<1>5. h.form = heads[ctx[w].scope].form /\ h.meta = metadata'[ctx[w].scope.char]
    BY <1>1, <1>3
<1> HIDE DEF h
<1> QED BY <1>1, <1>2, <1>3, <1>4, <1>5, CommitFinalKeeps

(* The birth of a variant is a step of the store that touches no character *)
(* with a checkpoint.                                                      *)
LEMMA VariantIsStoreStep ==
    ASSUME PostSaveInv, NEW w \in Windows, NEW i, NEW ch \in Characters, VariantCreate(w, i, ch)
    PROVE  StoreNext
<1>1. ctx[w].form = "APP-010" /\ CreateVariant(ch, row[ctx[w].char].snap.payload)
    BY DEF VariantCreate
<1>2. Idle(w) /\ HeadIsView(ctx[w])
    BY DEF VariantCreate, CommitFinal
<1>3. ctx[w].form \in PostSaveForms
    BY <1>1 DEF PostSaveForms, FinalForms
<1>4. ctx[w].char \in Characters /\ ckpt[ctx[w].char] # None
    BY <1>2, <1>3, HeadIsViewGood
<1>5. row[ctx[w].char] \in Rows
    BY <1>4, ScopeOfGood
<1>6. row[ctx[w].char].snap.payload \in Payloads
    BY <1>5 DEF Rows, Snapshots
<1> QED BY <1>1, <1>6 DEF StoreNext

LEMMA VariantCreateKeeps ==
    ASSUME PostSaveInv, NEW w \in Windows, NEW i \in Ids, NEW ch \in Characters,
           VariantCreate(w, i, ch)
    PROVE  PostSaveInv'
<1> DEFINE h == heads[ctx[w].scope]
           n == Bumped(h, h.meta)
<1>1. /\ ctx[w].form = "APP-010" /\ CommitFinal(w, i, "VARIANT_CREATE", n)
      /\ CreateVariant(ch, row[ctx[w].char].snap.payload) /\ UNCHANGED metadata
    BY DEF VariantCreate
<1>2. ctx[w].form \in FinalForms
    BY <1>1 DEF FinalForms
<1>3. Fits(n) /\ h \in Heads /\ h.meta = metadata[ctx[w].scope.char] /\ h.meta \in Nat
    BY <1>1, <1>2, MetadataIsViewGood
<1>4. StoreInv'
    BY VariantIsStoreStep, StoreStep, StoreAssumption DEF PostSaveInv
<1>5. Stable(row, row', ckpt, ckpt', metadata, metadata')
    <2>1. ckpt[ch] = None
        BY <1>1 DEF CreateVariant, PostSaveInv, StoreInv, CheckpointIsCurrent
    <2>2. \A x \in Characters \ {ch} : row'[x] = row[x]
        BY <1>1 DEF CreateVariant, PostSaveInv, StoreInv, StoreTypeOK
    <2>3. ckpt' = ckpt /\ metadata' = metadata /\ metadata \in [Characters -> Nat]
        BY <1>1 DEF CreateVariant, PostSaveInv
    <2> QED BY <2>1, <2>2, <2>3 DEF Stable
<1>6. n \in Heads /\ n.form = h.form /\ n.meta = h.meta
    BY <1>3, BumpedGood, StoreAssumption
<1>7. metadata' \in [Characters -> Nat]
    BY <1>1 DEF PostSaveInv
<1> HIDE DEF n
<1>8. n.form = heads[ctx[w].scope].form /\ n.meta = metadata'[ctx[w].scope.char]
    BY <1>1, <1>3, <1>6
<1> QED BY <1>1, <1>2, <1>4, <1>5, <1>6, <1>7, <1>8, CommitFinalKeeps

-----------------------------------------------------------------------------
(* A command of the wizard.                                                *)
LEMMA WizardIsStoreStep ==
    ASSUME PostSaveInv, NEW w \in Windows, NEW life \in {"DRAFT", "FINAL"},
           NEW payload \in Payloads, NEW impact \in WizardImpacts,
           WizardStep(w, [life |-> life, payload |-> payload], impact)
    PROVE  StoreNext
<1>1. /\ Idle(w) /\ ctx[w].form = "CHR-025"
      /\ Commit(ctx[w].char, ckpt[ctx[w].char].id, [life |-> life, payload |-> payload], impact)
    BY DEF WizardStep
<1>2. ctx[w].char \in Characters /\ ckpt[ctx[w].char] # None
    BY <1>1, IdleGood DEF CtxGood
<1>3. ckpt[ctx[w].char].id \in CheckpointIds
    BY <1>2 DEF PostSaveInv, StoreInv, StoreTypeOK, Checkpoints
<1>4. impact \in Impacts
    BY PostSaveAssumption
<1> QED BY <1>1, <1>2, <1>3, <1>4 DEF StoreNext

LEMMA RetiredGood ==
    ASSUME PostSaveInv, NEW ch \in Characters,
           \A o \in Characters \ {ch} : row'[o] = row[o] /\ ckpt'[o] = ckpt[o],
           metadata' = metadata
    PROVE  CursorGood(Retired(ch), heads, journal, row', ckpt', metadata', TRUE)
<1>1. CursorGood(cursor, heads, journal, row, ckpt, metadata, torn)
    BY DEF PostSaveInv
<1>2. CASE Retired(ch) = None
    BY <1>2 DEF CursorGood
<1>3. CASE Retired(ch) # None
    <2>1. Retired(ch) = cursor /\ cursor # None /\ cursor \in Cursors
        BY <1>1, <1>3 DEF Retired, CursorGood
    <2>2. ASSUME cursor.restore # None, SourceIs(cursor.scope, row, ckpt, metadata)
          PROVE  SourceIs(cursor.scope, row', ckpt', metadata')
        <3>1. cursor.scope.char # ch
            BY <1>3, <2>1, <2>2 DEF Retired
        <3>2. cursor.scope.char \in Characters
            BY <2>1 DEF Cursors, Scopes
        <3> QED BY <2>2, <3>1, <3>2 DEF SourceIs
    <2>3. CursorGood(cursor, heads, journal, row', ckpt', metadata', TRUE)
        BY <1>1, <2>2 DEF CursorGood
    <2> QED BY <2>1, <2>3
<1> QED BY <1>2, <1>3

LEMMA WizardStepKeeps ==
    ASSUME PostSaveInv, NEW w \in Windows, NEW life \in {"DRAFT", "FINAL"},
           NEW payload \in Payloads, NEW impact \in WizardImpacts,
           WizardStep(w, [life |-> life, payload |-> payload], impact)
    PROVE  PostSaveInv'
<1> DEFINE snap == [life |-> life, payload |-> payload]
           ch == ctx[w].char
           r == Advanced(row[ch], snap, impact)
           s == Binding(ch, r, Counter(ch, r), metadata[ch], Saved)
           c == IF life = "FINAL" THEN Shown(s, HeadOf(s)) ELSE WizardOf(ch, r, None)
           after == IF life = "FINAL" THEN With(heads, s, HeadOf(s)) ELSE heads
           cut == [heads |-> heads, cursor |-> Retired(ch)]
           request == [kind |-> "WIZARD", char |-> ch]
<1>1. /\ Idle(w) /\ ctx[w].form = "CHR-025" /\ row[ch].snap.life = "DRAFT"
      /\ Commit(ch, ckpt[ch].id, snap, impact)
      /\ Deliver(w, request, c, cut, after)
      /\ UNCHANGED <<metadata, journal>>
    BY DEF WizardStep, WizardIsCurrent
<1>2. ch \in Characters /\ ckpt[ch] # None
    BY <1>1, IdleGood DEF CtxGood
<1>3. StoreInv'
    BY WizardIsStoreStep, StoreStep, StoreAssumption DEF PostSaveInv
<1>4. r.snap = snap /\ snap.life = life
    BY DEF Advanced
<1>5. Store(ch, r, ckpt[ch].id, Counter(ch, r))
    BY <1>1 DEF Commit
<1> HIDE DEF ch, r, snap
<1>6. /\ row'[ch] = r /\ ckpt'[ch] = CheckpointOf(r, ckpt[ch].id, Counter(ch, r))
      /\ \A o \in Characters \ {ch} : row'[o] = row[o] /\ ckpt'[o] = ckpt[o]
    BY <1>2, <1>5 DEF Store, PostSaveInv, StoreInv, StoreTypeOK
<1>7. ckpt'[ch] \in Checkpoints /\ ckpt'[ch] # None /\ r \in Rows
    <2>1. row'[ch] \in Rows \cup {None} /\ ckpt'[ch] \in Checkpoints \cup {None}
        BY <1>2, <1>3 DEF StoreInv, StoreTypeOK
    <2>2. ckpt'[ch] # None
        <3>1. ckpt[ch] \in Checkpoints /\ ckpt[ch].id \in CheckpointIds
            BY <1>2 DEF PostSaveInv, StoreInv, StoreTypeOK, Checkpoints
        <3>2. row[ch] \in Rows
            BY <1>2, ScopeOfGood
        <3>3. r \in Rows
            <4>1. snap \in Snapshots /\ impact \in Impacts
                BY PostSaveAssumption DEF snap, Snapshots, Lives
            <4>2. AdvanceAgrees(row[ch], Advanced(row[ch], snap, impact))
                BY <1>1 DEF Commit
            <4> QED BY <3>2, <4>1, <4>2, AdvanceType, StoreAssumption DEF r
        <3>4. Counter(ch, r) \in Revisions
            <4>1. Counter(ch, r) <= MaxRevision
                BY <1>1 DEF Commit, r, snap
            <4>2. ckpt[ch].rev \in Nat
                BY <3>1 DEF Checkpoints, Revisions
            <4>3. Counter(ch, r) \in Nat
                BY <4>2 DEF Counter
            <4> QED BY <4>1, <4>3, StoreAssumption DEF Revisions
        <3>5. CheckpointOf(r, ckpt[ch].id, Counter(ch, r)) \in Checkpoints
            BY <3>1, <3>3, <3>4 DEF CheckpointOf, Rows, Checkpoints
        <3> QED BY <1>6, <3>5, StoreAssumption
    <2>3. row'[ch] # None
        BY <1>2, <1>3, <2>2 DEF StoreInv, CheckpointIsCurrent
    <2> QED BY <1>6, <2>1, <2>2, <2>3
<1>8. ckpt'[ch].rev = Counter(ch, r) /\ Counter(ch, r) \in Revisions
    BY <1>6, <1>7 DEF CheckpointOf, Checkpoints
<1>9. HeadsGood(heads, row', ckpt')
    <2> SUFFICES ASSUME NEW x \in DOMAIN heads PROVE HeadGood(x, heads[x], row', ckpt')
        BY DEF HeadsGood
    <2>1. HeadGood(x, heads[x], row, ckpt) /\ x.char \in Characters
        BY DEF PostSaveInv, HeadsGood, HeadGood, Scopes
    <2>2. CASE x.char = ch
        <3>1. ~IsFinal(x)
            BY <1>1, <2>1, <2>2 DEF HeadGood, IsFinal, ch
        <3> QED BY <1>7, <2>1, <2>2, <3>1 DEF HeadGood
    <2>3. CASE x.char # ch
        BY <1>6, <2>1, <2>3 DEF HeadGood
    <2> QED BY <2>2, <2>3
<1>10. CursorGood(Retired(ch), heads, journal, row', ckpt', metadata', TRUE)
    BY <1>1, <1>2, <1>6, RetiredGood
<1>11. Grown(journal, journal', ckpt, ckpt')
    BY <1>1, <1>6, <1>7 DEF Grown
<1>12. metadata' \in [Characters -> Nat] /\ metadata[ch] \in Nat
    BY <1>1, <1>2 DEF PostSaveInv
<1>13. JournalGood(journal', heads)
    BY <1>1 DEF PostSaveInv
<1>14. PendGood(request, journal', ckpt')
    <2>1. request \in Pendings /\ request.char = ch /\ request.kind = "WIZARD"
        BY <1>2 DEF Pendings
    <2> HIDE DEF request
    <2> QED BY <1>2, <1>7, <2>1 DEF PendGood
<1>15. cut.heads = heads /\ cut.cursor = Retired(ch)
    OBVIOUS
<1> HIDE DEF cut, request
<1>16. CASE life = "DRAFT"
    <2>1. c = WizardOf(ch, r, None) /\ after = heads
        BY <1>16
    <2>2. CursorGood(None, heads, journal', row', ckpt', metadata', torn)
        BY DEF CursorGood
    <2>3. Ready(c, Retired(ch), heads, journal', row', ckpt', metadata', torn)
        BY <1>2, <1>7, <2>1, <2>2, WizardReady
    <2> HIDE DEF c, after
    <2> QED BY <1>1, <1>3, <1>9, <1>10, <1>11, <1>12, <1>13, <1>14, <1>15, <2>1, <2>3,
               DeliverKeeps
<1>17. CASE life = "FINAL"
    <2> DEFINE h == [st |-> s.st, pr |-> s.pr, meta |-> s.meta, form |-> "CHR-040"]
    <2>1. s = [char |-> ch, entry |-> Saved, rev |-> Counter(ch, r), snap |-> r.snap,
               st |-> r.st, pr |-> r.pr, vis |-> r.vis, meta |-> metadata[ch]]
        BY <1>4, <1>17 DEF Binding
    <2>2. /\ r.snap \in Snapshots /\ r.st \in Revisions /\ r.pr \in Revisions
          /\ r.vis \in Revisions
        BY <1>7 DEF Rows
    <2>3. /\ s.char = ch /\ s.snap = r.snap /\ s.st = r.st /\ s.pr = r.pr /\ s.vis = r.vis
          /\ s.rev = Counter(ch, r) /\ s.meta = metadata[ch]
        BY <2>1
    <2>4. s \in Scopes
        BY <1>2, <1>8, <1>12, <2>1, <2>2 DEF Scopes
    <2> HIDE DEF s
    <2>5. IsFinal(s)
        BY <1>4, <1>17, <2>3 DEF IsFinal
    <2>6. s \notin DOMAIN heads
        <3>1. ASSUME s \in DOMAIN heads PROVE row[ch].snap = s.snap
            BY <2>3, <2>5, <3>1 DEF PostSaveInv, HeadsGood, HeadGood
        <3> QED BY <1>1, <2>5, <3>1 DEF IsFinal, ch
    <2>7. HeadOf(s) = h
        BY <2>5, <2>6 DEF HeadOf
    <2>8. h \in Heads /\ h.form = "CHR-040" /\ h.meta = metadata[ch]
        BY <1>12, <2>2, <2>3 DEF Heads, PostSaveForms, FinalForms
    <2> HIDE DEF h
    <2>9. HeadGood(s, h, row', ckpt')
        <3>1. h.form \notin RecoveryForms
            BY <2>8 DEF RecoveryForms
        <3> QED BY <1>6, <1>7, <2>3, <2>4, <2>8, <3>1 DEF HeadGood
    <2>10. SourceIs(s, row', ckpt', metadata')
        BY <1>1, <1>6, <1>7, <1>8, <1>12, <2>3 DEF SourceIs
    <2>11. after = With(heads, s, h) /\ c = Shown(s, h)
        BY <1>17, <2>7
    <2> HIDE DEF after, c
    <2>12. HeadsGood(after, row', ckpt')
        BY <1>9, <2>9, <2>11, HeadsWith
    <2>13. DOMAIN after = DOMAIN heads \cup {s} /\ after[s] = h
        BY <2>11 DEF With
    <2>14. Opens(s, after, row', ckpt', metadata')
        BY <1>1, <2>3, <2>8, <2>10, <2>13 DEF Opens
    <2>15. Ready(c, Retired(ch), after, journal', row', ckpt', metadata', torn)
        BY <2>9, <2>11, <2>13, <2>14, ShownReady
    <2>16. DOMAIN heads \subseteq DOMAIN after
        BY <2>13
    <2> QED BY <1>1, <1>3, <1>9, <1>10, <1>11, <1>12, <1>13, <1>14, <1>15, <2>12, <2>15,
               <2>16, DeliverKeeps
<1> QED BY <1>16, <1>17

-----------------------------------------------------------------------------
(* Reconnects.                                                             *)
LEMMA ReplayReady ==
    ASSUME PostSaveInv, NEW i \in DOMAIN journal,
           journal[i].kind \notin {"RESTORE", "SAVE_VALID_DRAFT"}
    PROVE  Ready(ReplayOf(i), cursor, heads, journal, row, ckpt, metadata, torn)
<1> DEFINE r == journal[i]
           c == ReplayOf(i)
<1>1. /\ r \in Receipts /\ r.scope \in DOMAIN heads /\ r.form \in FinalForms
      /\ i \in Ids /\ i # None
    BY PostSaveAssumption DEF PostSaveInv, JournalGood, ReceiptGood
<1>2. r.scope \in Scopes /\ r.scope.char \in Characters /\ ckpt[r.scope.char] # None
    BY <1>1 DEF PostSaveInv, HeadsGood, HeadGood, Scopes
<1>3. r.st \in Revisions /\ r.pr \in Revisions /\ r.meta \in Nat
    BY <1>1 DEF Receipts
<1>4. c = [form |-> r.form, char |-> r.scope.char, scope |-> r.scope, replay |-> i,
           restore |-> None, st |-> r.st, pr |-> r.pr, meta |-> r.meta]
    BY DEF ReplayOf
<1> HIDE DEF r, c
<1>5. r.form \in Forms
    BY <1>1 DEF FinalForms, Forms, PostSaveForms
<1>6. c \in Contexts
    BY <1>1, <1>2, <1>3, <1>4, <1>5 DEF Contexts
<1>7. CtxGood(c, heads, ckpt)
    BY <1>1, <1>2, <1>4, <1>6 DEF CtxGood
<1>8. CursorAfter(c, cursor) = cursor
    BY <1>1, <1>4 DEF CursorAfter
<1> QED BY <1>7, <1>8 DEF Ready, PostSaveInv, c

(* Going back to the wizard of a character, restored or not.               *)
LEMMA WizardAgainKeeps ==
    ASSUME PostSaveInv, NEW w \in Windows, NEW ch \in Characters, ckpt[ch] # None,
           NEW at \in Cursors \cup {None},
           CursorGood(at, heads, journal, row, ckpt, metadata, torn),
           UNCHANGED <<row, ckpt, named, metadata, journal>>,
           Deliver(w, pending[w], WizardOf(ch, row[ch], at), Committed(heads), heads)
    PROVE  PostSaveInv'
<1>1. row[ch] \in Rows
    BY ScopeOfGood
<1>2. Ready(WizardOf(ch, row[ch], at), cursor, heads, journal, row, ckpt, metadata, torn)
    BY <1>1, WizardReady
<1>3. PendGood(pending[w], journal, ckpt) /\ HeadsGood(heads, row, ckpt)
    BY DEF PostSaveInv, PendInv
<1> QED BY <1>2, <1>3, SteadyKeeps

(* Going back to a scope at its head.                                      *)
LEMMA HeadAgainKeeps ==
    ASSUME PostSaveInv, NEW w \in Windows, NEW s \in DOMAIN heads,
           Opens(s, heads, row, ckpt, metadata),
           UNCHANGED <<row, ckpt, named, metadata, journal>>,
           Deliver(w, pending[w], Shown(s, heads[s]), Committed(heads), heads)
    PROVE  PostSaveInv'
<1>1. HeadGood(s, heads[s], row, ckpt) /\ HeadsGood(heads, row, ckpt)
    BY DEF PostSaveInv, HeadsGood
<1>2. Ready(Shown(s, heads[s]), cursor, heads, journal, row, ckpt, metadata, torn)
    BY <1>1, ShownReady
<1>3. PendGood(pending[w], journal, ckpt)
    BY DEF PostSaveInv, PendInv
<1> QED BY <1>1, <1>2, <1>3, SteadyKeeps

LEMMA ReconnectReplayKeeps ==
    ASSUME PostSaveInv, NEW w \in Windows, ReconnectReplay(w) PROVE PostSaveInv'
<1> DEFINE i == pending[w].id
           r == journal[i]
           s == r.scope
           at == [scope |-> s, restore |-> i]
<1>1. /\ Waits(w, "COMMAND") /\ SourceValid(s)
      /\ UNCHANGED <<row, ckpt, named, metadata, journal>>
    BY DEF ReconnectReplay
<1>2. PendGood(pending[w], journal, ckpt) /\ i \in DOMAIN journal
    BY <1>1 DEF Waits, PostSaveInv, PendInv, PendGood
<1>3. i \in Ids /\ ReceiptGood(r, heads)
    BY <1>2 DEF PostSaveInv, JournalGood
<1>4. s \in DOMAIN heads /\ HeadGood(s, heads[s], row, ckpt)
    BY <1>3 DEF ReceiptGood, PostSaveInv, HeadsGood
<1>5. s \in Scopes /\ s.char \in Characters /\ ckpt[s.char] # None
    BY <1>4 DEF HeadGood, Scopes
<1>6. SourceIs(s, row, ckpt, metadata)
    BY <1>1, <1>5, SourceValidIs
<1>7. CASE r.kind = "RESTORE"
    <2>1. Deliver(w, pending[w], WizardOf(s.char, row[s.char], at), Committed(heads), heads)
        BY <1>7 DEF ReconnectReplay
    <2>2. s.snap.life = "DRAFT"
        BY <1>3, <1>7 DEF ReceiptGood
    <2>3. at \in Cursors
        BY <1>3, <1>5 DEF Cursors
    <2>4. at.scope = s /\ at.restore = i /\ i # None
        BY <1>3, PostSaveAssumption
    <2> HIDE DEF i, r, s, at
    <2>5. CursorGood(at, heads, journal, row, ckpt, metadata, torn)
        BY <1>2, <1>4, <1>6, <2>2, <2>3, <2>4 DEF CursorGood
    <2> QED BY <1>1, <1>5, <2>1, <2>3, <2>5, WizardAgainKeeps
<1>8. CASE r.kind = "SAVE_VALID_DRAFT"
    <2>1. Deliver(w, pending[w], Shown(s, heads[s]), Committed(heads), heads)
        BY <1>8 DEF ReconnectReplay
    <2>2. s.snap.life = "DRAFT"
        BY <1>3, <1>8 DEF ReceiptGood
    <2>3. Opens(s, heads, row, ckpt, metadata)
        BY <1>4, <1>6, <2>2 DEF Opens, IsFinal
    <2> HIDE DEF s, r, i
    <2> QED BY <1>1, <1>4, <2>1, <2>3, HeadAgainKeeps
<1>9. CASE r.kind \notin {"RESTORE", "SAVE_VALID_DRAFT"}
    <2>1. Deliver(w, pending[w], ReplayOf(i), Committed(heads), heads)
        BY <1>9 DEF ReconnectReplay
    <2>2. Ready(ReplayOf(i), cursor, heads, journal, row, ckpt, metadata, torn)
        BY <1>2, <1>9, ReplayReady
    <2>3. HeadsGood(heads, row, ckpt)
        BY DEF PostSaveInv
    <2> HIDE DEF i, r, s, at
    <2> QED BY <1>1, <1>2, <2>1, <2>2, <2>3, SteadyKeeps
<1> QED BY <1>7, <1>8, <1>9

LEMMA ReconnectCursorKeeps ==
    ASSUME PostSaveInv, NEW w \in Windows, ReconnectCursor(w) PROVE PostSaveInv'
<1> DEFINE s == cursor.scope
<1>1. cursor # None /\ UNCHANGED <<row, ckpt, named, metadata, journal>>
    BY DEF ReconnectCursor
<1>2. /\ CursorGood(cursor, heads, journal, row, ckpt, metadata, torn)
      /\ cursor \in Cursors /\ s \in DOMAIN heads
    BY <1>1 DEF PostSaveInv, CursorGood
<1>3. s \in Scopes /\ s.char \in Characters
    BY <1>2 DEF Cursors, Scopes
<1>4. ckpt[s.char] # None
    BY <1>2 DEF PostSaveInv, HeadsGood, HeadGood
<1>5. CASE cursor.restore # None
    <2>1. Deliver(w, pending[w], WizardOf(s.char, row[s.char], cursor), Committed(heads), heads)
        BY <1>5 DEF ReconnectCursor
    <2> QED BY <1>1, <1>2, <1>3, <1>4, <2>1, WizardAgainKeeps
<1>6. CASE cursor.restore = None
    <2>1. Projects(s) /\ Deliver(w, pending[w], Shown(s, heads[s]), Committed(heads), heads)
        BY <1>6 DEF ReconnectCursor
    <2>2. Opens(s, heads, row, ckpt, metadata)
        BY <1>3, <2>1, ProjectsIs
    <2> QED BY <1>1, <1>2, <2>1, <2>2, HeadAgainKeeps
<1> QED BY <1>5, <1>6

LEMMA ResumeKeeps ==
    ASSUME PostSaveInv, NEW w \in Windows, NEW ch \in Characters, ckpt[ch] # None,
           Resume(w, ch), UNCHANGED <<row, ckpt, named, metadata, journal>>
    PROVE  PostSaveInv'
<1>1. CASE row[ch].snap.life = "DRAFT"
    <2>1. Deliver(w, pending[w], WizardOf(ch, row[ch], None), Committed(heads), heads)
        BY <1>1 DEF Resume
    <2>2. CursorGood(None, heads, journal, row, ckpt, metadata, torn)
        BY DEF CursorGood
    <2> QED BY <2>1, <2>2, WizardAgainKeeps
<1>2. CASE row[ch].snap.life # "DRAFT"
    <2> DEFINE s == ScopeOf(ch, Saved)
               h == Navigated(HeadOf(s), "CHR-040")
               after == With(heads, s, h)
    <2>1. /\ Fits(h) /\ (Projects(s) \/ s \notin DOMAIN heads)
          /\ Deliver(w, pending[w], Shown(s, h), Committed(after), after)
        BY <1>2 DEF Resume
    <2>2. s \in Scopes /\ s.char = ch /\ SourceIs(s, row, ckpt, metadata)
        BY ScopeOfGood
    <2>3. /\ HeadGood(s, HeadOf(s), row, ckpt)
          /\ s \notin DOMAIN heads /\ IsFinal(s) => HeadOf(s).meta = metadata[ch]
        BY HeadOfGood
    <2> HIDE DEF s
    <2>4. IsFinal(s) => HeadOf(s).meta = metadata[ch]
        <3>1. CASE s \notin DOMAIN heads
            BY <2>3, <3>1
        <3>2. CASE s \in DOMAIN heads
            <4>1. Opens(s, heads, row, ckpt, metadata)
                BY <2>1, <2>2, <3>2, ProjectsIs
            <4> QED BY <2>2, <3>2, <4>1 DEF Opens, HeadOf
        <3> QED BY <3>1, <3>2
    <2>5. "CHR-040" \in PostSaveForms /\ "CHR-040" \notin RecoveryForms
        BY DEF PostSaveForms, FinalForms, RecoveryForms
    <2>6. HeadGood(s, h, row, ckpt) /\ h.meta = HeadOf(s).meta
        BY <2>1, <2>3, <2>5, NavigatedGood, StoreAssumption
    <2> HIDE DEF h
    <2>7. /\ HeadsGood(after, row, ckpt) /\ DOMAIN heads \subseteq DOMAIN after
          /\ s \in DOMAIN after /\ after[s] = h
        <3>1. HeadsGood(heads, row, ckpt)
            BY DEF PostSaveInv
        <3>2. HeadsGood(after, row, ckpt)
            BY <2>6, <3>1, HeadsWith
        <3>3. DOMAIN heads \subseteq DOMAIN after /\ s \in DOMAIN after /\ after[s] = h
            BY DEF With
        <3> QED BY <3>2, <3>3
    <2> HIDE DEF after
    <2>8. Opens(s, after, row, ckpt, metadata)
        BY <2>2, <2>4, <2>6, <2>7 DEF Opens
    <2>9. Ready(Shown(s, h), cursor, after, journal, row, ckpt, metadata, torn)
        BY <2>6, <2>7, <2>8, ShownReady
    <2>10. PendGood(pending[w], journal, ckpt)
        BY DEF PostSaveInv, PendInv
    <2> QED BY <2>1, <2>7, <2>9, <2>10, SteadyKeeps
<1> QED BY <1>1, <1>2

LEMMA ReconnectResumeKeeps ==
    ASSUME PostSaveInv, NEW w \in Windows, ReconnectResume(w) PROVE PostSaveInv'
<1>1. UNCHANGED <<row, ckpt, named, metadata, journal>>
    BY DEF ReconnectResume
<1>2. CASE ToStart(w)
    <2>1. Deliver(w, pending[w], Plain("APP-001"), Committed(heads), heads)
        BY <1>2 DEF ToStart
    <2>2. Ready(Plain("APP-001"), cursor, heads, journal, row, ckpt, metadata, torn)
        BY PlainReady, StoreAssumption
    <2>3. PendGood(pending[w], journal, ckpt) /\ HeadsGood(heads, row, ckpt)
        BY DEF PostSaveInv, PendInv
    <2> QED BY <1>1, <2>1, <2>2, <2>3, SteadyKeeps
<1>3. ASSUME NEW ch \in Characters, ckpt[ch] # None, Resume(w, ch) PROVE PostSaveInv'
    BY <1>1, <1>3, ResumeKeeps
<1>4. CASE Waits(w, "WIZARD") /\ Resume(w, pending[w].char)
    <2>1. pending[w].char \in Characters /\ ckpt[pending[w].char] # None
        BY <1>4 DEF Waits, PostSaveInv, PendInv, PendGood
    <2> QED BY <1>3, <1>4, <2>1
<1>5. CASE session # None /\ session.scope = None /\ Resume(w, session.char)
    <2>1. session.char \in Characters /\ ckpt[session.char] # None
        BY <1>5 DEF PostSaveInv, SessionGood, Sessions
    <2> QED BY <1>3, <1>5, <2>1
<1> QED BY <1>2, <1>3, <1>4, <1>5 DEF ReconnectResume

LEMMA LossKeeps ==
    ASSUME PostSaveInv,
           HostRestart \/ \E w \in Windows : Drop(w) \/ Reload(w)
    PROVE  PostSaveInv'
<1>1. UNCHANGED <<row, ckpt, named, heads, metadata, journal, cursor, torn>>
    BY DEF HostRestart, Drop, Reload
<1>2. StoreInv'
    BY <1>1, StoreUnchanged
<1>3. CtxInv'
    <2>1. ctx \in [Windows -> Contexts \cup {None}]
        BY DEF PostSaveInv, CtxInv
    <2>2. ctx' \in [Windows -> Contexts \cup {None}]
        BY <2>1 DEF HostRestart, Drop, Reload
    <2>3. \A x \in Windows : ctx'[x] # None => ctx'[x] = ctx[x]
        BY <2>1 DEF HostRestart, Drop, Reload
    <2> QED BY <1>1, <2>2, <2>3 DEF PostSaveInv, CtxInv
<1>4. PendInv'
    <2>1. pending \in [Windows -> Pendings \cup {None}]
        BY DEF PostSaveInv, PendInv
    <2>2. pending' \in [Windows -> Pendings \cup {None}]
        BY <2>1 DEF HostRestart, Drop, Reload
    <2>3. \A x \in Windows : pending'[x] \in {None, pending[x]}
        BY <2>1 DEF HostRestart, Drop, Reload
    <2>4. PendGood(None, journal, ckpt)
        BY DEF PendGood
    <2>5. \A x \in Windows : PendGood(pending'[x], journal, ckpt)
        BY <2>3, <2>4 DEF PostSaveInv, PendInv
    <2> QED BY <1>1, <2>2, <2>5 DEF PendInv
<1>5. SessionGood(session', ckpt')
    <2>1. session' \in {None, session}
        BY DEF HostRestart, Drop, Reload
    <2> QED BY <1>1, <2>1 DEF PostSaveInv, SessionGood
<1> QED BY <1>1, <1>2, <1>3, <1>4, <1>5 DEF PostSaveInv

-----------------------------------------------------------------------------
(* The invariant.                                                          *)
LEMMA PostSaveInitially == PostSaveInit => PostSaveInv
<1> SUFFICES ASSUME PostSaveInit PROVE PostSaveInv
    OBVIOUS
<1>1. Opening \in Rows /\ Opening.snap.life = "DRAFT" /\ Opening.st = 0
    <2>1. (CHOOSE p \in Payloads : TRUE) \in Payloads
        BY PostSaveAssumption
    <2>2. 0 \in Revisions
        BY StoreAssumption DEF Revisions
    <2> QED BY <2>1, <2>2 DEF Opening, Rows, Snapshots, Lives
<1>2. PICK id \in CheckpointIds :
        ckpt = [ch \in Characters |-> IF ch = First THEN CheckpointOf(Opening, id, 0) ELSE None]
    BY DEF PostSaveInit
<1>3. /\ row = [ch \in Characters |-> IF ch = First THEN Opening ELSE None]
      /\ named = [ch \in Characters |->
                    IF ch = First THEN {[st |-> 0, snap |-> Opening.snap]} ELSE {}]
    BY DEF PostSaveInit
<1>4. CheckpointOf(Opening, id, 0) \in Checkpoints
    <2>1. 0 \in Revisions
        BY StoreAssumption DEF Revisions
    <2>2. /\ Opening.snap \in Snapshots /\ Opening.st \in Revisions /\ Opening.pr \in Revisions
          /\ Opening.vis \in Revisions
        BY <1>1 DEF Rows
    <2> QED BY <2>1, <2>2 DEF CheckpointOf, Checkpoints
<1>5. Opening # None /\ CheckpointOf(Opening, id, 0) # None /\ First \in Characters
    BY <1>1, <1>4, StoreAssumption, PostSaveAssumption
<1>6. [st |-> 0, snap |-> Opening.snap] \in [st : Revisions, snap : Snapshots]
    <2>1. 0 \in Revisions /\ Opening.snap \in Snapshots
        BY <1>1, StoreAssumption DEF Revisions, Rows
    <2> QED BY <2>1
<1>7. StoreTypeOK
    BY <1>1, <1>2, <1>3, <1>4, <1>6 DEF StoreTypeOK
<1>8. \A ch \in Characters :
        /\ ckpt[ch] # None => ch = First
        /\ ckpt[ch] = None => ch # First
    BY <1>2, <1>5
<1>9. /\ row[First] = Opening /\ ckpt[First] = CheckpointOf(Opening, id, 0)
      /\ named[First] = {[st |-> 0, snap |-> Opening.snap]}
      /\ \A ch \in Characters \ {First} : row[ch] = None /\ named[ch] = {}
    BY <1>2, <1>3, <1>5
<1>10. Untouched
    BY <1>8, <1>9 DEF Untouched
<1>11. CheckpointIsCurrent /\ CountersAgree
    BY <1>1, <1>5, <1>8, <1>9 DEF CheckpointIsCurrent, CountersAgree, Valid, CheckpointOf
<1>12. NamedBelow
    <2> SUFFICES ASSUME NEW x \in named[First]
                 PROVE  x.st <= row[First].st /\ (x.st = row[First].st => x.snap = row[First].snap)
        BY <1>8 DEF NamedBelow
    <2>1. x.st = 0 /\ x.snap = Opening.snap
        BY <1>9
    <2> QED BY <1>1, <1>9, <2>1
<1>13. RevisionNamesSnapshot
    BY <1>9 DEF RevisionNamesSnapshot
<1>14. StoreInv
    BY <1>7, <1>10, <1>11, <1>12, <1>13 DEF StoreInv
<1>15. /\ heads = << >> /\ journal = << >> /\ cursor = None /\ session = None /\ torn = FALSE
       /\ metadata = [ch \in Characters |-> 0]
       /\ ctx = [w \in Windows |-> None] /\ pending = [w \in Windows |-> None]
    BY DEF PostSaveInit
<1>16. HeadsGood(heads, row, ckpt) /\ JournalGood(journal, heads)
    BY <1>15 DEF HeadsGood, JournalGood
<1>17. CtxInv /\ PendInv
    BY <1>15 DEF CtxInv, PendInv, PendGood
<1>18. /\ CursorGood(cursor, heads, journal, row, ckpt, metadata, torn)
       /\ SessionGood(session, ckpt) /\ torn \in BOOLEAN /\ metadata \in [Characters -> Nat]
    BY <1>15 DEF CursorGood, SessionGood
<1> QED BY <1>14, <1>16, <1>17, <1>18 DEF PostSaveInv

LEMMA PostSaveStep == PostSaveInv /\ [PostSaveNext]_postSaveVars => PostSaveInv'
<1> SUFFICES ASSUME PostSaveInv, [PostSaveNext]_postSaveVars PROVE PostSaveInv'
    OBVIOUS
<1>1. CASE HostRestart
    BY <1>1, LossKeeps
<1>2. ASSUME NEW w \in Windows,
             GoLibrary(w) \/ ToRestore(w) \/ FromCache(w) \/ Reconnect(w) \/ Drop(w) \/ Reload(w)
      PROVE  PostSaveInv'
    <2>1. CASE GoLibrary(w)
        BY <2>1, GoLibraryKeeps
    <2>2. CASE ToRestore(w)
        BY <2>2, ToRestoreKeeps
    <2>3. CASE FromCache(w)
        BY <2>3, FromCacheKeeps
    <2>4. CASE Reconnect(w)
        BY <2>4, ReconnectReplayKeeps, ReconnectCursorKeeps, ReconnectResumeKeeps DEF Reconnect
    <2>5. CASE Drop(w) \/ Reload(w)
        BY <2>5, LossKeeps
    <2> QED BY <1>2, <2>1, <2>2, <2>3, <2>4, <2>5
<1>3. ASSUME NEW w \in Windows, NEW i \in Ids,
             \/ \E ch \in Characters : OpenCharacter(w, ch, i) \/ VariantCreate(w, i, ch)
             \/ ToExport(w, i) \/ FromExport(w, i) \/ ToCache(w, i) \/ SaveValidDraft(w, i)
             \/ Restore(w, i) \/ MetadataPatch(w, i) \/ Export(w, i)
      PROVE  PostSaveInv'
    <2>1. CASE \E ch \in Characters : OpenCharacter(w, ch, i) \/ VariantCreate(w, i, ch)
        BY <2>1, OpenCharacterKeeps, VariantCreateKeeps
    <2>2. CASE ToExport(w, i) \/ FromExport(w, i) \/ ToCache(w, i)
        BY <2>2, ToExportKeeps, FromExportKeeps, ToCacheKeeps
    <2>3. CASE SaveValidDraft(w, i) \/ Restore(w, i)
        BY <2>3, SaveValidDraftKeeps, RestoreKeeps
    <2>4. CASE MetadataPatch(w, i) \/ Export(w, i)
        BY <2>4, MetadataPatchKeeps, ExportKeeps
    <2> QED BY <1>3, <2>1, <2>2, <2>3, <2>4
<1>4. ASSUME NEW w \in Windows, NEW life \in {"DRAFT", "FINAL"}, NEW payload \in Payloads,
             NEW impact \in WizardImpacts,
             WizardStep(w, [life |-> life, payload |-> payload], impact)
      PROVE  PostSaveInv'
    BY <1>4, WizardStepKeeps
<1>5. CASE UNCHANGED postSaveVars
    <2>1. StoreInv'
        BY <1>5, StoreUnchanged DEF postSaveVars
    <2> QED BY <1>5, <2>1 DEF postSaveVars, PostSaveInv, CtxInv, PendInv
<1> QED BY <1>1, <1>2, <1>3, <1>4, <1>5 DEF PostSaveNext

(* The invariant holds of every behaviour.                                 *)
THEOREM PostSaveInvariant == PostSaveSpec => []PostSaveInv
<1>1. PostSaveInit => PostSaveInv
    BY PostSaveInitially
<1>2. PostSaveInv /\ [PostSaveNext]_postSaveVars => PostSaveInv'
    BY PostSaveStep
<1> QED BY <1>1, <1>2, PTL DEF PostSaveSpec

(* Type correctness, with revisions that never leave the safe integers.    *)
THEOREM PostSaveTypeCorrect == PostSaveSpec => []PostSaveTypeOK
<1>1. PostSaveInv => PostSaveTypeOK
    BY DEF PostSaveInv, PostSaveTypeOK, StoreInv, HeadsGood, HeadGood, JournalGood, ReceiptGood,
           CursorGood, CtxInv, SessionGood, PendInv
<1> QED BY <1>1, PostSaveInvariant, PTL

(* A restore that was accepted can be delivered whenever a window asks.    *)
THEOREM RestoreAlwaysDeliverable == PostSaveSpec => []RestoreCursorDeliverable
<1>1. PostSaveInv => RestoreCursorDeliverable
    <2> SUFFICES ASSUME PostSaveInv, cursor # None, cursor.restore # None
                 PROVE  /\ cursor.restore \in DOMAIN journal
                        /\ SourceValid(cursor.scope)
                        /\ row[cursor.scope.char].snap.life = "DRAFT"
        BY DEF RestoreCursorDeliverable
    <2>1. /\ cursor \in Cursors /\ cursor.restore \in DOMAIN journal
          /\ SourceIs(cursor.scope, row, ckpt, metadata) /\ cursor.scope.snap.life = "DRAFT"
        BY DEF PostSaveInv, CursorGood
    <2>2. cursor.scope \in Scopes
        BY <2>1 DEF Cursors
    <2>3. SourceValid(cursor.scope)
        BY <2>1, <2>2, SourceValidIs
    <2> QED BY <2>1, <2>3 DEF SourceIs
<1> QED BY <1>1, PostSaveInvariant, PTL

(* Without a crash between a commit and its adoption the cursor opens.     *)
THEOREM CursorAlwaysOpens == PostSaveSpec => []CursorOpensUnlessTorn
<1>1. PostSaveInv => CursorOpensUnlessTorn
    <2> SUFFICES ASSUME PostSaveInv, ~torn, cursor # None, cursor.restore = None
                 PROVE  Projects(cursor.scope)
        BY DEF CursorOpensUnlessTorn, CursorOpens
    <2>1. cursor \in Cursors /\ Opens(cursor.scope, heads, row, ckpt, metadata)
        BY DEF PostSaveInv, CursorGood
    <2>2. cursor.scope \in Scopes
        BY <2>1 DEF Cursors
    <2> QED BY <2>1, <2>2, ProjectsIs
<1> QED BY <1>1, PostSaveInvariant, PTL

-----------------------------------------------------------------------------
(* Which steps write a character, or a receipt.                            *)
LEMMA StoreWriters ==
    ASSUME [PostSaveNext]_postSaveVars
    PROVE  \/ UNCHANGED storeVars
           \/ \E w \in Windows, i \in Ids, ch \in Characters : VariantCreate(w, i, ch)
           \/ \E w \in Windows, life \in {"DRAFT", "FINAL"}, payload \in Payloads,
                 impact \in WizardImpacts :
                WizardStep(w, [life |-> life, payload |-> payload], impact)
<1> USE DEF storeVars
<1>1. CASE HostRestart
    BY <1>1 DEF HostRestart
<1>2. ASSUME NEW w \in Windows,
             GoLibrary(w) \/ ToRestore(w) \/ FromCache(w) \/ Reconnect(w) \/ Drop(w) \/ Reload(w)
      PROVE  UNCHANGED storeVars
    BY <1>2 DEF GoLibrary, ToRestore, Open, FromCache, Reconnect, ReconnectReplay,
                ReconnectCursor, ReconnectResume, Drop, Reload
<1>3. ASSUME NEW w \in Windows, NEW i \in Ids,
             \/ \E ch \in Characters : OpenCharacter(w, ch, i)
             \/ ToExport(w, i) \/ FromExport(w, i) \/ ToCache(w, i) \/ SaveValidDraft(w, i)
             \/ Restore(w, i) \/ MetadataPatch(w, i) \/ Export(w, i)
      PROVE  UNCHANGED storeVars
    BY <1>3 DEF OpenCharacter, ToExport, FromExport, ToCache, Open, SaveValidDraft, Restore,
                MetadataPatch, Export
<1>4. CASE UNCHANGED postSaveVars
    BY <1>4 DEF postSaveVars
<1> QED BY <1>1, <1>2, <1>3, <1>4 DEF PostSaveNext

(* The windows do to the store what the store allows: what is proved of    *)
(* the steps of CheckpointStore holds under any number of windows.         *)
THEOREM StoreSteps == PostSaveSpec => [][StoreNext]_storeVars
<1>1. PostSaveInv /\ [PostSaveNext]_postSaveVars => [StoreNext]_storeVars
    BY StoreWriters, VariantIsStoreStep, WizardIsStoreStep
<1> QED BY <1>1, PostSaveInvariant, PTL DEF PostSaveSpec

(* A final character is never written again, whatever a window still shows. *)
THEOREM FinalStaysFrozen == PostSaveSpec => FinalIsFrozen
<1> DEFINE Frozen ==
        \A ch \in Characters :
            row[ch] # None /\ row[ch].snap.life = "FINAL" =>
                row'[ch] = row[ch] /\ ckpt'[ch] = ckpt[ch]
<1>1. PostSaveInv /\ [PostSaveNext]_postSaveVars => [Frozen]_postSaveVars
    <2> SUFFICES ASSUME PostSaveInv, [PostSaveNext]_postSaveVars,
                        NEW ch \in Characters, row[ch] # None, row[ch].snap.life = "FINAL"
                 PROVE  row'[ch] = row[ch] /\ ckpt'[ch] = ckpt[ch]
        OBVIOUS
    <2>1. ch \in DOMAIN row /\ ch \in DOMAIN ckpt
        BY DEF PostSaveInv, StoreInv, StoreTypeOK
    <2>2. CASE UNCHANGED storeVars
        BY <2>2 DEF storeVars
    <2>3. ASSUME NEW w \in Windows, NEW i \in Ids, NEW o \in Characters, VariantCreate(w, i, o)
          PROVE  row'[ch] = row[ch] /\ ckpt'[ch] = ckpt[ch]
        BY <2>1, <2>3 DEF VariantCreate, CreateVariant
    <2>4. ASSUME NEW w \in Windows, NEW snap, NEW impact, WizardStep(w, snap, impact)
          PROVE  row'[ch] = row[ch] /\ ckpt'[ch] = ckpt[ch]
        <3>1. row[ctx[w].char].snap.life = "DRAFT"
            BY <2>4 DEF WizardStep, WizardIsCurrent
        <3>2. ctx[w].char # ch
            BY <3>1
        <3>3. Commit(ctx[w].char, ckpt[ctx[w].char].id, snap, impact)
            BY <2>4 DEF WizardStep
        <3> QED BY <2>1, <3>2, <3>3 DEF Commit, Store
    <2> QED BY <2>2, <2>3, <2>4, StoreWriters
<1> QED BY <1>1, PostSaveInvariant, PTL DEF PostSaveSpec, FinalIsFrozen

-----------------------------------------------------------------------------
(* The edits of a character that have a receipt.                           *)
Patches(jr, ch) == {i \in DOMAIN jr : jr[i].kind = "METADATA_PATCH" /\ jr[i].scope.char = ch}

SerialInv == IsFiniteSet(DOMAIN journal) /\ PatchesAreSerial

LEMMA SerialIs ==
    PatchesAreSerial <=>
        \A ch \in Characters :
            /\ Cardinality(Patches(journal, ch)) = metadata[ch]
            /\ {journal[i].meta : i \in Patches(journal, ch)} = 1..metadata[ch]
    BY DEF PatchesAreSerial, Patches

(* What a new receipt does to the journal and to the edits of a character. *)
LEMMA ReceiptAdds ==
    ASSUME NEW i, i \notin DOMAIN journal, NEW r, journal' = With(journal, i, r)
    PROVE  /\ DOMAIN journal' = DOMAIN journal \cup {i}
           /\ \A x \in DOMAIN journal : journal'[x] = journal[x]
           /\ journal'[i] = r
<1> DEFINE D == DOMAIN journal \cup {i}
<1>1. journal' = [y \in D |-> IF y = i THEN r ELSE journal[y]]
    BY DEF With
<1> HIDE DEF D
<1>2. DOMAIN journal' = D /\ \A y \in D : journal'[y] = IF y = i THEN r ELSE journal[y]
    BY <1>1
<1> QED BY <1>2 DEF D

LEMMA PatchesWith ==
    ASSUME NEW i, i \notin DOMAIN journal, NEW r, journal' = With(journal, i, r), NEW ch
    PROVE  /\ r.kind = "METADATA_PATCH" /\ r.scope.char = ch =>
                Patches(journal', ch) = Patches(journal, ch) \cup {i}
           /\ ~(r.kind = "METADATA_PATCH" /\ r.scope.char = ch) =>
                Patches(journal', ch) = Patches(journal, ch)
           /\ \A x \in Patches(journal, ch) : journal'[x] = journal[x]
           /\ Patches(journal, ch) \subseteq DOMAIN journal
<1>1. /\ DOMAIN journal' = DOMAIN journal \cup {i}
      /\ \A x \in DOMAIN journal : journal'[x] = journal[x]
      /\ journal'[i] = r
    BY ReceiptAdds
<1>2. Patches(journal, ch) =
        {x \in DOMAIN journal : journal[x].kind = "METADATA_PATCH" /\ journal[x].scope.char = ch}
    BY DEF Patches
<1>3. Patches(journal', ch) =
        {x \in DOMAIN journal' : journal'[x].kind = "METADATA_PATCH" /\ journal'[x].scope.char = ch}
    BY DEF Patches
<1> QED BY <1>1, <1>2, <1>3

LEMMA JournalStaysFinite ==
    ASSUME IsFiniteSet(DOMAIN journal), NEW i, i \notin DOMAIN journal, NEW r,
           journal' = With(journal, i, r)
    PROVE  IsFiniteSet(DOMAIN journal')
<1>1. DOMAIN journal' = DOMAIN journal \cup {i}
    BY ReceiptAdds
<1>2. IsFiniteSet(DOMAIN journal \cup {i})
    BY FS_AddElement
<1> QED BY <1>1, <1>2

(* A receipt of another kind leaves the history as it is.                  *)
LEMMA OtherReceiptKeeps ==
    ASSUME SerialInv, NEW i, i \notin DOMAIN journal, NEW r, r.kind # "METADATA_PATCH",
           journal' = With(journal, i, r), metadata' = metadata
    PROVE  SerialInv'
<1>1. IsFiniteSet(DOMAIN journal')
    BY JournalStaysFinite DEF SerialInv
<1>2. ASSUME NEW ch \in Characters
      PROVE  /\ Cardinality(Patches(journal', ch)) = metadata'[ch]
             /\ {journal'[x].meta : x \in Patches(journal', ch)} = 1..metadata'[ch]
    <2>1. /\ Patches(journal', ch) = Patches(journal, ch)
          /\ \A x \in Patches(journal, ch) : journal'[x] = journal[x]
        BY PatchesWith
    <2>2. /\ Cardinality(Patches(journal, ch)) = metadata[ch]
          /\ {journal[x].meta : x \in Patches(journal, ch)} = 1..metadata[ch]
        BY SerialIs DEF SerialInv
    <2>3. {journal'[x].meta : x \in Patches(journal, ch)} =
            {journal[x].meta : x \in Patches(journal, ch)}
        BY <2>1
    <2> QED BY <2>1, <2>2, <2>3
<1>3. PatchesAreSerial'
    BY <1>2 DEF PatchesAreSerial, Patches
<1> QED BY <1>1, <1>3 DEF SerialInv

(* An edit takes the next revision of its character.                       *)
LEMMA EditKeeps ==
    ASSUME SerialInv, metadata \in [Characters -> Nat],
           NEW i, i \notin DOMAIN journal, NEW r, NEW ch \in Characters,
           r.kind = "METADATA_PATCH", r.scope.char = ch, r.meta = metadata[ch] + 1,
           journal' = With(journal, i, r), metadata' = [metadata EXCEPT ![ch] = @ + 1]
    PROVE  SerialInv'
<1>1. IsFiniteSet(DOMAIN journal')
    BY JournalStaysFinite DEF SerialInv
<1>2. ASSUME NEW o \in Characters
      PROVE  /\ Cardinality(Patches(journal', o)) = metadata'[o]
             /\ {journal'[x].meta : x \in Patches(journal', o)} = 1..metadata'[o]
    <2> DEFINE P == Patches(journal, o)
    <2>1. Cardinality(P) = metadata[o] /\ {journal[x].meta : x \in P} = 1..metadata[o]
        BY SerialIs DEF SerialInv
    <2>2. \A x \in P : journal'[x] = journal[x]
        BY PatchesWith
    <2>3. P \subseteq DOMAIN journal
        BY DEF Patches
    <2>4. CASE o = ch
        <3>1. Patches(journal', o) = P \cup {i} /\ journal'[i] = r
            BY <2>4, PatchesWith, ReceiptAdds
        <3>2. IsFiniteSet(P) /\ i \notin P
            BY <2>3, FS_Subset DEF SerialInv
        <3> HIDE DEF P
        <3>3. Cardinality(P \cup {i}) = Cardinality(P) + 1
            BY <3>2, FS_AddElement
        <3>4. metadata[o] \in Nat /\ metadata'[o] = metadata[o] + 1
            BY <2>4
        <3>5. {journal'[x].meta : x \in P \cup {i}} = {journal[x].meta : x \in P} \cup {r.meta}
            BY <2>2, <3>1
        <3>6. 1..(metadata[o] + 1) = 1..metadata[o] \cup {metadata[o] + 1}
            BY <3>4
        <3> QED BY <2>1, <2>4, <3>1, <3>3, <3>4, <3>5, <3>6
    <2>5. CASE o # ch
        <3>1. Patches(journal', o) = P
            BY <2>5, PatchesWith
        <3>2. metadata'[o] = metadata[o]
            BY <2>5
        <3> HIDE DEF P
        <3>3. {journal'[x].meta : x \in P} = {journal[x].meta : x \in P}
            BY <2>2
        <3> QED BY <2>1, <3>1, <3>2, <3>3
    <2> QED BY <2>4, <2>5
<1>3. PatchesAreSerial'
    BY <1>2 DEF PatchesAreSerial, Patches
<1> QED BY <1>1, <1>3 DEF SerialInv

LEMMA SerialStep == PostSaveInv /\ SerialInv /\ [PostSaveNext]_postSaveVars => SerialInv'
<1> SUFFICES ASSUME PostSaveInv, SerialInv, [PostSaveNext]_postSaveVars PROVE SerialInv'
    OBVIOUS
<1>1. CASE UNCHANGED <<metadata, journal>>
    BY <1>1 DEF SerialInv, PatchesAreSerial
<1>2. ASSUME NEW w \in Windows, NEW i \in Ids, MetadataPatch(w, i)
      PROVE  SerialInv'
    <2> DEFINE s == ctx[w].scope
               h == heads[s]
               n == Bumped(h, h.meta + 1)
               r == Receipt("METADATA_PATCH", s, n)
    <2>1. /\ ctx[w].form = "CHR-040" /\ CommitFinal(w, i, "METADATA_PATCH", n)
          /\ metadata' = [metadata EXCEPT ![ctx[w].char] = @ + 1]
        BY <1>2 DEF MetadataPatch
    <2>2. ctx[w].form \in FinalForms
        BY <2>1 DEF FinalForms
    <2>3. s.char \in Characters /\ ctx[w].char = s.char /\ h.meta = metadata[s.char]
        BY <2>1, <2>2, MetadataIsViewGood
    <2>4. i \notin DOMAIN journal /\ journal' = With(journal, i, r)
        BY <2>1 DEF CommitFinal, FreshId
    <2>5. r.kind = "METADATA_PATCH" /\ r.scope.char = s.char /\ r.meta = metadata[s.char] + 1
        BY <2>3 DEF Receipt, Bumped
    <2>6. metadata' = [metadata EXCEPT ![s.char] = @ + 1]
        BY <2>1, <2>3
    <2> HIDE DEF r, s
    <2> QED BY <2>3, <2>4, <2>5, <2>6, EditKeeps DEF PostSaveInv
<1>3. ASSUME NEW w \in Windows, NEW i \in Ids,
             \/ SaveValidDraft(w, i) \/ Restore(w, i) \/ Export(w, i)
             \/ \E ch \in Characters : VariantCreate(w, i, ch)
      PROVE  SerialInv'
    <2>1. \/ journal' = journal /\ metadata' = metadata
          \/ /\ i \notin DOMAIN journal /\ metadata' = metadata
             /\ \E r : r.kind # "METADATA_PATCH" /\ journal' = With(journal, i, r)
        <3>1. CASE SaveValidDraft(w, i)
            <4>1. \A s, h : Receipt("SAVE_VALID_DRAFT", s, h).kind = "SAVE_VALID_DRAFT"
                BY DEF Receipt
            <4> QED BY <3>1, <4>1 DEF SaveValidDraft, DiesHalfway, FreshId
        <3>2. CASE Restore(w, i)
            <4> DEFINE r == [Receipt("RESTORE", ctx[w].scope, heads[ctx[w].scope])
                                EXCEPT !.form = "CHR-025"]
            <4>1. r.kind = "RESTORE"
                BY DEF Receipt
            <4>2. journal' = With(journal, i, r) /\ FreshId(i) /\ metadata' = metadata
                BY <3>2 DEF Restore
            <4> HIDE DEF r
            <4> QED BY <4>1, <4>2 DEF FreshId
        <3>3. ASSUME NEW kind \in {"EXPORT", "VARIANT_CREATE"}, NEW h,
                     CommitFinal(w, i, kind, h), metadata' = metadata
              PROVE  /\ i \notin DOMAIN journal
                     /\ \E r : r.kind # "METADATA_PATCH" /\ journal' = With(journal, i, r)
            <4>1. Receipt(kind, ctx[w].scope, h).kind = kind
                BY DEF Receipt
            <4> QED BY <3>3, <4>1 DEF CommitFinal, FreshId
        <3>4. CASE Export(w, i)
            BY <3>3, <3>4 DEF Export
        <3>5. CASE \E ch \in Characters : VariantCreate(w, i, ch)
            BY <3>3, <3>5 DEF VariantCreate
        <3> QED BY <1>3, <3>1, <3>2, <3>4, <3>5
    <2> QED BY <1>1, <2>1, OtherReceiptKeeps
<1>4. CASE HostRestart \/ UNCHANGED postSaveVars
    BY <1>1, <1>4 DEF HostRestart, postSaveVars
<1>5. ASSUME NEW w \in Windows,
             GoLibrary(w) \/ ToRestore(w) \/ FromCache(w) \/ Reconnect(w) \/ Drop(w) \/ Reload(w)
      PROVE  UNCHANGED <<metadata, journal>>
    BY <1>5 DEF GoLibrary, ToRestore, Open, FromCache, Reconnect, ReconnectReplay,
                ReconnectCursor, ReconnectResume, Drop, Reload
<1>6. ASSUME NEW w \in Windows, NEW i \in Ids,
             \/ \E ch \in Characters : OpenCharacter(w, ch, i)
             \/ ToExport(w, i) \/ FromExport(w, i) \/ ToCache(w, i)
      PROVE  UNCHANGED <<metadata, journal>>
    BY <1>6 DEF OpenCharacter, ToExport, FromExport, ToCache, Open
<1>7. ASSUME NEW w \in Windows, NEW snap, NEW impact, WizardStep(w, snap, impact)
      PROVE  UNCHANGED <<metadata, journal>>
    BY <1>7 DEF WizardStep
<1> QED BY <1>1, <1>2, <1>3, <1>4, <1>5, <1>6, <1>7 DEF PostSaveNext

(* Edits of one sheet through any number of scopes and windows are serial. *)
THEOREM PatchesAlwaysSerial == PostSaveSpec => []PatchesAreSerial
<1>1. PostSaveInit => SerialInv
    <2> SUFFICES ASSUME PostSaveInit PROVE SerialInv
        OBVIOUS
    <2>1. DOMAIN journal = {} /\ metadata = [ch \in Characters |-> 0]
        BY DEF PostSaveInit
    <2>2. \A ch \in Characters : Patches(journal, ch) = {}
        BY <2>1 DEF Patches
    <2>3. 1..0 = {} /\ IsFiniteSet({}) /\ Cardinality({}) = 0
        BY FS_EmptySet
    <2>4. ASSUME NEW ch \in Characters
          PROVE  /\ Cardinality(Patches(journal, ch)) = metadata[ch]
                 /\ {journal[i].meta : i \in Patches(journal, ch)} = 1..metadata[ch]
        <3>1. Cardinality(Patches(journal, ch)) = 0 /\ metadata[ch] = 0
            BY <2>1, <2>2, <2>3
        <3>2. {journal[i].meta : i \in Patches(journal, ch)} = {}
            BY <2>2
        <3> QED BY <2>3, <3>1, <3>2
    <2> QED BY <2>1, <2>3, <2>4, SerialIs DEF SerialInv
<1>2. PostSaveInv /\ SerialInv /\ [PostSaveNext]_postSaveVars => SerialInv'
    BY SerialStep
<1>3. SerialInv => PatchesAreSerial
    BY DEF SerialInv
<1> QED BY <1>1, <1>2, <1>3, PostSaveInvariant, PTL DEF PostSaveSpec

=============================================================================
