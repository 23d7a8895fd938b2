------------------------------- MODULE PostSave -------------------------------
(***************************************************************************)
(* The screens of a saved local character (host/local-character-post-save, *)
(* persistence/local-character-post-save and their part of host/server):   *)
(* recovery of a draft (CHR-026, APP-009), its branch cache (CHR-039), the *)
(* sheet of a final character (CHR-040) and its export (APP-010).          *)
(*                                                                         *)
(* Several windows of one installation work against one host.  An entry    *)
(* opens a scope, bound to the exact checkpoint and to the id of the       *)
(* entry; the scope's head has revisions of its own.  One durable cursor   *)
(* per device names the scope that a reconnecting window is shown; an      *)
(* accepted restore keeps its receipt there until the character is         *)
(* written again.  A command commits first and is adopted after, in a      *)
(* transaction of its own, and its answer may be lost.                     *)
(*                                                                         *)
(* CHR-025 stands for every form of the creation wizard, APP-001 for the   *)
(* start.  A request that is lost on its way is a Drop: the host has never *)
(* heard of it, refuses its id, and goes on as without.  Write intents,    *)
(* broken sources, archived copies and the identity form of a variant are  *)
(* left out, and the browser takes every snapshot it is sent.              *)
(***************************************************************************)
EXTENDS CheckpointStore, FiniteSets

CONSTANTS
    Windows,        \* browser windows of the player
    Ids,            \* ids of commands and of navigations, each used once
    Saved,          \* entry of the sheet that the final save opens
    First,          \* the character that exists at the start
    WizardImpacts   \* the revision impacts of the wizard's commands

ASSUME PostSaveAssumption ==
    /\ First \in Characters
    /\ WizardImpacts \subseteq Impacts
    /\ Saved \notin Ids /\ None \notin Ids /\ None # Saved
    /\ None \notin Characters
    /\ Payloads # {}

VARIABLES
    heads,      \* durable post_save_head: scope -> its head
    metadata,   \* durable: how many metadata versions a character has
    journal,    \* durable post_save_command: id -> what its receipt says
    cursor,     \* durable post_save_cursor of the device, or None
    ctx,        \* RAM: connection.current of a window, None when it has no socket
    session,    \* RAM: identitySessions of the device
    pending,    \* browser: the command a window has no answer to
    torn        \* history: the host died between a commit and its adoption

postSaveVars == <<row, ckpt, named, heads, metadata, journal, cursor, ctx, session, pending, torn>>

RecoveryForms == {"CHR-026", "APP-009"}
FinalForms == {"CHR-040", "APP-010"}
PostSaveForms == RecoveryForms \cup FinalForms \cup {"CHR-039"}
Forms == PostSaveForms \cup {"APP-001", "APP-004", "CHR-025"}
PostSaveKinds == {"SAVE_VALID_DRAFT", "RESTORE", "METADATA_PATCH", "VARIANT_CREATE", "EXPORT"}

Scopes == [char : Characters, entry : Ids \cup {Saved}, rev : Revisions, snap : Snapshots,
           st : Revisions, pr : Revisions, vis : Revisions, meta : Nat]
Heads == [st : Revisions, pr : Revisions, meta : Nat, form : PostSaveForms]
Receipts == [kind : PostSaveKinds, scope : Scopes, form : Forms, st : Revisions,
             pr : Revisions, meta : Nat]
Cursors == [scope : Scopes, restore : Ids \cup {None}]
Contexts == [form : Forms, char : Characters \cup {None}, scope : Scopes \cup {None},
             replay : Ids \cup {None}, restore : Cursors \cup {None},
             st : Revisions, pr : Revisions, meta : Nat]
Sessions == [char : Characters, scope : Scopes \cup {None}]
Pendings == [kind : {"COMMAND"}, id : Ids] \cup [kind : {"WIZARD"}, char : Characters]

PostSaveTypeOK ==
    /\ StoreTypeOK
    /\ DOMAIN heads \subseteq Scopes /\ \A s \in DOMAIN heads : heads[s] \in Heads
    /\ metadata \in [Characters -> Nat]
    /\ DOMAIN journal \subseteq Ids /\ \A i \in DOMAIN journal : journal[i] \in Receipts
    /\ cursor \in Cursors \cup {None}
    /\ cursor # None => cursor.scope \in DOMAIN heads
    /\ ctx \in [Windows -> Contexts \cup {None}]
    /\ session \in Sessions \cup {None}
    /\ pending \in [Windows -> Pendings \cup {None}]
    /\ torn \in BOOLEAN

Opening == [snap |-> [life |-> "DRAFT", payload |-> CHOOSE p \in Payloads : TRUE],
            st |-> 0, pr |-> 0, vis |-> 0]

PostSaveInit ==
    /\ row = [ch \in Characters |-> IF ch = First THEN Opening ELSE None]
    /\ \E id \in CheckpointIds :
        ckpt = [ch \in Characters |-> IF ch = First THEN CheckpointOf(Opening, id, 0) ELSE None]
    /\ named = [ch \in Characters |->
                  IF ch = First THEN {[st |-> 0, snap |-> Opening.snap]} ELSE {}]
    /\ heads = << >>
    /\ metadata = [ch \in Characters |-> 0]
    /\ journal = << >>
    /\ cursor = None
    /\ ctx = [w \in Windows |-> None]
    /\ session = None
    /\ pending = [w \in Windows |-> None]
    /\ torn = FALSE

-----------------------------------------------------------------------------
\* bindingFor: what an entry signs of a row, its checkpoint and its metadata.
Binding(ch, r, rev, meta, entry) ==
    [char |-> ch, entry |-> entry, rev |-> rev, snap |-> r.snap, st |-> r.st, pr |-> r.pr,
     vis |-> r.vis, meta |-> IF r.snap.life = "FINAL" THEN meta ELSE 0]

ScopeOf(ch, entry) == Binding(ch, row[ch], ckpt[ch].rev, metadata[ch], entry)

IsFinal(s) == s.snap.life = "FINAL"

\* validatePostSaveSource: the source is what the entry signed; metadata may have grown.
SourceValid(s) ==
    /\ ckpt[s.char] # None
    /\ [ScopeOf(s.char, s.entry) EXCEPT !.meta = s.meta] = s
    /\ s.meta <= metadata[s.char]

\* projectLocalPostSave of a head that is no replay view.
Projects(s) ==
    /\ s \in DOMAIN heads
    /\ SourceValid(s)
    /\ IsFinal(s) => heads[s].meta = metadata[s.char]

\* createPostSaveHead: an entry that is there is used as it is.
HeadOf(s) ==
    IF s \in DOMAIN heads THEN heads[s]
    ELSE [st |-> s.st, pr |-> s.pr, meta |-> s.meta,
          form |-> IF IsFinal(s) THEN "CHR-040" ELSE "CHR-026"]

\* updatePostSavePresentation: another form is another projection.
Navigated(h, form) ==
    IF h.form = form THEN h
    ELSE [st |-> h.st, pr |-> h.pr + 1, meta |-> h.meta, form |-> form]

\* Mutant: revisions are written without the bound of a safe integer.
FitsAlways(h) == TRUE

\* nextRevisions: an overflow is refused before it is written.
Fits(h) == h.st <= MaxRevision /\ h.pr <= MaxRevision

With(f, x, v) == [y \in DOMAIN f \cup {x} |-> IF y = x THEN v ELSE f[y]]

FreshId(i) ==
    /\ i \notin DOMAIN journal
    /\ \A s \in DOMAIN heads : s.entry # i
    /\ \A w \in Windows : pending[w] # None /\ pending[w].kind = "COMMAND" => pending[w].id # i

-----------------------------------------------------------------------------
\* The contexts a connection can be in.
Plain(form) ==
    [form |-> form, char |-> None, scope |-> None, replay |-> None, restore |-> None,
     st |-> 0, pr |-> 0, meta |-> 0]

\* creationWizardContext
WizardOf(ch, r, restore) ==
    [form |-> "CHR-025", char |-> ch, scope |-> None, replay |-> None, restore |-> restore,
     st |-> r.st, pr |-> r.pr, meta |-> 0]

\* postSaveNavigation
Shown(s, h) ==
    [form |-> h.form, char |-> s.char, scope |-> s, replay |-> None, restore |-> None,
     st |-> h.st, pr |-> h.pr, meta |-> h.meta]

\* postSaveReceiptView: what the receipt said, whatever the head says by now.
ReplayOf(i) ==
    LET r == journal[i] IN
    [form |-> r.form, char |-> r.scope.char, scope |-> r.scope, replay |-> i,
     restore |-> None, st |-> r.st, pr |-> r.pr, meta |-> r.meta]

\* Mutant: delivering a receipt selects its scope.
CursorAfterReplay(c, now) ==
    IF c.restore # None THEN c.restore
    ELSE IF c.scope # None THEN [scope |-> c.scope, restore |-> None]
    ELSE None

\* adoptNavigationContext: the cursor follows the context, but a replay leaves it.
CursorAfter(c, now) ==
    IF c.replay # None THEN now
    ELSE IF c.restore # None THEN c.restore
    ELSE IF c.scope # None THEN [scope |-> c.scope, restore |-> None]
    ELSE None

SessionAfter(c) ==
    CASE c.form = "APP-001" -> session
      [] c.form = "APP-004" -> None
      [] OTHER -> [char |-> c.char, scope |-> c.scope]

\* After its commit a step is adopted and answered; or the answer is lost with
\* the socket; or the host dies before it adopts.  `cut' is what the commit left.
Deliver(w, request, c, cut, after) ==
    \/ /\ heads' = after /\ cursor' = CursorAfter(c, cut.cursor) /\ session' = SessionAfter(c)
       /\ \/ /\ ctx' = [ctx EXCEPT ![w] = c]
             /\ pending' = [pending EXCEPT ![w] = None]
          \/ /\ ctx' = [ctx EXCEPT ![w] = None]
             /\ pending' = [pending EXCEPT ![w] = request]
       /\ UNCHANGED torn
    \/ /\ heads' = cut.heads /\ cursor' = cut.cursor /\ session' = None
       /\ ctx' = [x \in Windows |-> None]
       /\ pending' = [pending EXCEPT ![w] = request]
       /\ torn' = TRUE

Committed(hs) == [heads |-> hs, cursor |-> cursor]

Idle(w) == ctx[w] # None /\ pending[w] = None

-----------------------------------------------------------------------------
\* What a form action is checked against: the head, or the receipt of a replay.
ViewActs(w) ==
    LET v == ctx[w] IN
    /\ Idle(w) /\ v.scope # None
    /\ IF v.replay # None THEN SourceValid(v.scope)
       ELSE /\ heads[v.scope].pr = v.pr
            /\ heads[v.scope].form = v.form
            /\ Projects(v.scope)

GoLibrary(w) ==
    /\ \/ Idle(w) /\ ctx[w].form = "APP-001"
       \/ ViewActs(w) /\ ctx[w].form \in RecoveryForms \cup {"CHR-040"}
    /\ Deliver(w, None, Plain("APP-004"), Committed(heads), heads)
    /\ UNCHANGED <<row, ckpt, named, metadata, journal>>

\* Opening scope s on a form.
Open(w, s, form) ==
    LET h == Navigated(HeadOf(s), form) IN
    /\ Fits(h)
    /\ Deliver(w, None, Shown(s, h), Committed(With(heads, s, h)), With(heads, s, h))
    /\ UNCHANGED <<row, ckpt, named, metadata, journal>>

\* The route of a library entry; a variant has none of these screens.
OpenCharacter(w, ch, i) ==
    /\ Idle(w) /\ ctx[w].form = "APP-004"
    /\ ckpt[ch] # None
    /\ FreshId(i)
    /\ Open(w, ScopeOf(ch, i), IF row[ch].snap.life = "FINAL" THEN "CHR-040" ELSE "CHR-026")

ToRestore(w) ==
    /\ ViewActs(w) /\ ctx[w].form = "CHR-026"
    /\ Open(w, ctx[w].scope, "APP-009")

ToExport(w, i) ==
    /\ ViewActs(w) /\ ctx[w].form = "CHR-040"
    /\ FreshId(i)
    /\ Open(w, ScopeOf(ctx[w].char, i), "APP-010")

\* Back from the export: on the head, or from a replay by an entry of its own.
FromExport(w, i) ==
    /\ ViewActs(w) /\ ctx[w].form = "APP-010"
    /\ FreshId(i)
    /\ IF ctx[w].replay = None THEN Open(w, ctx[w].scope, "CHR-040")
       ELSE Open(w, ScopeOf(ctx[w].char, i), "CHR-040")

ToCache(w, i) ==
    /\ Idle(w) /\ ctx[w].form = "CHR-025"
    /\ ctx[w].pr = row[ctx[w].char].pr
    /\ row[ctx[w].char].snap.life = "DRAFT"
    /\ FreshId(i)
    /\ Open(w, ScopeOf(ctx[w].char, i), "CHR-039")

FromCache(w) ==
    /\ ViewActs(w) /\ ctx[w].form = "CHR-039"
    /\ LET ch == ctx[w].char IN
       Deliver(w, None, WizardOf(ch, row[ch], None), Committed(heads), heads)
    /\ UNCHANGED <<row, ckpt, named, metadata, journal>>

-----------------------------------------------------------------------------
\* Commands.  The view the request was made from is what the head still says.
HeadIsView(v) ==
    /\ v.scope \in DOMAIN heads
    /\ SourceValid(v.scope)
    /\ heads[v.scope].st = v.st /\ heads[v.scope].pr = v.pr
    /\ heads[v.scope].form = v.form

\* Mutant: only the head is compared, whose revisions another scope does not move.
MetadataIsViewOfHead(v) == heads[v.scope].meta = v.meta

\* The head, the request and the history agree on the metadata.
MetadataIsView(v) ==
    /\ heads[v.scope].meta = v.meta
    /\ metadata[v.scope.char] = v.meta

Receipt(kind, s, h) ==
    [kind |-> kind, scope |-> s, form |-> h.form, st |-> h.st, pr |-> h.pr, meta |-> h.meta]

\* openPlayerPostSave is a transaction of its own: the host can die with the
\* entry open and no receipt, and the window's request is lost.
DiesHalfway(after) ==
    /\ heads' = after
    /\ ctx' = [w \in Windows |-> None]
    /\ session' = None
    /\ UNCHANGED <<journal, cursor, pending, torn>>

SaveValidDraft(w, i) ==
    LET v == ctx[w]  s == ScopeOf(v.char, i)  h == HeadOf(s)  after == With(heads, s, h) IN
    /\ Idle(w) /\ v.form = "CHR-025"
    /\ row[v.char].snap.life = "DRAFT"
    /\ v.st = row[v.char].st /\ v.pr = row[v.char].pr
    /\ FreshId(i)
    /\ \/ /\ journal' = With(journal, i, Receipt("SAVE_VALID_DRAFT", s, h))
          /\ Deliver(w, [kind |-> "COMMAND", id |-> i], Shown(s, h), Committed(after), after)
       \/ DiesHalfway(after)
    /\ UNCHANGED <<row, ckpt, named, metadata>>

\* The restore's cursor is part of its commit.
Restore(w, i) ==
    LET v == ctx[w]  at == [scope |-> v.scope, restore |-> i] IN
    /\ Idle(w) /\ v.form = "APP-009" /\ HeadIsView(v)
    /\ FreshId(i)
    /\ journal' = With(journal, i, [Receipt("RESTORE", v.scope, heads[v.scope])
                                        EXCEPT !.form = "CHR-025"])
    /\ Deliver(w, [kind |-> "COMMAND", id |-> i], WizardOf(v.char, row[v.char], at),
               [heads |-> heads, cursor |-> at], heads)
    /\ UNCHANGED <<row, ckpt, named, metadata>>

\* commitPostSaveCommand on a final sheet.
CommitFinal(w, i, kind, h) ==
    LET s == ctx[w].scope  after == With(heads, s, h) IN
    /\ Idle(w) /\ s # None /\ IsFinal(s)
    /\ HeadIsView(ctx[w]) /\ MetadataIsView(ctx[w])
    /\ Fits(h)
    /\ FreshId(i)
    /\ journal' = With(journal, i, Receipt(kind, s, h))
    /\ Deliver(w, [kind |-> "COMMAND", id |-> i], Shown(s, h), Committed(after), after)

Bumped(h, meta) == [st |-> h.st + 1, pr |-> h.pr + 1, meta |-> meta, form |-> h.form]

MetadataPatch(w, i) ==
    LET v == ctx[w]  h == heads[v.scope] IN
    /\ Idle(w) /\ v.form = "CHR-040"
    /\ CommitFinal(w, i, "METADATA_PATCH", Bumped(h, h.meta + 1))
    /\ metadata' = [metadata EXCEPT ![v.char] = @ + 1]
    /\ UNCHANGED storeVars

VariantCreate(w, i, ch) ==
    LET v == ctx[w]  h == heads[v.scope] IN
    /\ Idle(w) /\ v.form = "APP-010"
    /\ CommitFinal(w, i, "VARIANT_CREATE", Bumped(h, h.meta))
    /\ CreateVariant(ch, row[v.char].snap.payload)
    /\ UNCHANGED metadata

Export(w, i) ==
    /\ Idle(w) /\ ctx[w].form = "APP-010"
    /\ CommitFinal(w, i, "EXPORT", heads[ctx[w].scope])
    /\ UNCHANGED <<storeVars, metadata>>

\* Mutant: the cursor is left to the adoption that follows.
RetiredLate(ch) == cursor

\* retirePostSaveRestoreCursor, in the transaction that writes the character.
Retired(ch) ==
    IF cursor # None /\ cursor.restore # None /\ cursor.scope.char = ch THEN None ELSE cursor

\* Mutant: a command of the wizard is applied to whatever the character is now.
WizardIsLate(v) == TRUE

\* The wizard works on a draft, at the revisions its window shows.
WizardIsCurrent(v) ==
    /\ row[v.char].snap.life = "DRAFT"
    /\ v.st = row[v.char].st /\ v.pr = row[v.char].pr

\* A command of the wizard; the final save goes on to the sheet.
WizardStep(w, snap, impact) ==
    LET ch == ctx[w].char
        r == Advanced(row[ch], snap, impact)
        s == Binding(ch, r, Counter(ch, r), metadata[ch], Saved)
        final == snap.life = "FINAL"
    IN
    /\ Idle(w) /\ ctx[w].form = "CHR-025"
    /\ WizardIsCurrent(ctx[w])
    /\ snap # row[ch].snap \/ r.pr # row[ch].pr
    /\ Commit(ch, ckpt[ch].id, snap, impact)
    /\ Deliver(w, [kind |-> "WIZARD", char |-> ch],
               IF final THEN Shown(s, HeadOf(s)) ELSE WizardOf(ch, r, None),
               [heads |-> heads, cursor |-> Retired(ch)],
               IF final THEN With(heads, s, HeadOf(s)) ELSE heads)
    /\ UNCHANGED <<metadata, journal>>

-----------------------------------------------------------------------------
\* session.reconnect, in the order handleReconnectV2 decides.
Waits(w, kind) == pending[w] # None /\ pending[w].kind = kind

\* A post-save command that was committed: its receipt is delivered again.
ReconnectReplay(w) ==
    /\ Waits(w, "COMMAND")
    /\ LET i == pending[w].id  r == journal[i]  s == r.scope  at == [scope |-> s, restore |-> i]
       IN
       /\ SourceValid(s)
       /\ CASE r.kind = "RESTORE" ->
                 Deliver(w, pending[w], WizardOf(s.char, row[s.char], at), Committed(heads), heads)
            [] r.kind = "SAVE_VALID_DRAFT" ->
                 Deliver(w, pending[w], Shown(s, heads[s]), Committed(heads), heads)
            [] OTHER ->
                 Deliver(w, pending[w], ReplayOf(i), Committed(heads), heads)
    /\ UNCHANGED <<row, ckpt, named, metadata, journal>>

\* The cursor: the restored wizard, or the scope's head.  A source that differs
\* makes the reconnect throw, which is no step.  A wizard command the window waits
\* for is answered on the way, or refused when its receipt is not the latest.
ReconnectCursor(w) ==
    /\ ~Waits(w, "COMMAND") /\ cursor # None
    /\ LET s == cursor.scope IN
       IF cursor.restore # None
       THEN /\ SourceValid(s)
            /\ Deliver(w, pending[w], WizardOf(s.char, row[s.char], cursor),
                       Committed(heads), heads)
       ELSE /\ Projects(s)
            /\ Deliver(w, pending[w], Shown(s, heads[s]), Committed(heads), heads)
    /\ UNCHANGED <<row, ckpt, named, metadata, journal>>

\* A character the host goes back to: its wizard, or its sheet once it is final.
Resume(w, ch) ==
    LET s == ScopeOf(ch, Saved)  h == Navigated(HeadOf(s), "CHR-040") IN
    IF row[ch].snap.life = "DRAFT"
    THEN Deliver(w, pending[w], WizardOf(ch, row[ch], None), Committed(heads), heads)
    ELSE /\ Fits(h)
         /\ Projects(s) \/ s \notin DOMAIN heads
         /\ Deliver(w, pending[w], Shown(s, h), Committed(With(heads, s, h)), With(heads, s, h))

ToStart(w) == Deliver(w, pending[w], Plain("APP-001"), Committed(heads), heads)

\* No cursor: the command that is replayed, the session, or (after a restart of
\* the host) a character in a state that was not acknowledged, or the start.
ReconnectResume(w) ==
    /\ ~Waits(w, "COMMAND") /\ cursor = None
    /\ \/ Waits(w, "WIZARD") /\ Resume(w, pending[w].char)
       \/ /\ session # None
          /\ IF session.scope = None THEN Resume(w, session.char) ELSE ToStart(w)
       \/ /\ session = None
          /\ ToStart(w) \/ \E ch \in Characters : ckpt[ch] # None /\ Resume(w, ch)
    /\ UNCHANGED <<row, ckpt, named, metadata, journal>>

\* The first message of a socket, and the only reconnect the client sends on it:
\* attachSocket sends one and every other opens a socket of its own.
Reconnect(w) ==
    /\ ctx[w] = None
    /\ ReconnectReplay(w) \/ ReconnectCursor(w) \/ ReconnectResume(w)

Drop(w) ==
    /\ ctx[w] # None
    /\ ctx' = [ctx EXCEPT ![w] = None]
    /\ UNCHANGED <<row, ckpt, named, heads, metadata, journal, cursor, session, pending, torn>>

\* A reload of the page forgets what it waited for.
Reload(w) ==
    /\ ctx[w] = None /\ pending[w] # None
    /\ pending' = [pending EXCEPT ![w] = None]
    /\ UNCHANGED <<row, ckpt, named, heads, metadata, journal, cursor, ctx, session, torn>>

HostRestart ==
    /\ ctx' = [w \in Windows |-> None]
    /\ session' = None
    /\ UNCHANGED <<row, ckpt, named, heads, metadata, journal, cursor, pending, torn>>

-----------------------------------------------------------------------------
PostSaveNext ==
    \/ HostRestart
    \/ \E w \in Windows :
        \/ GoLibrary(w)
        \/ ToRestore(w)
        \/ FromCache(w)
        \/ Reconnect(w)
        \/ Drop(w)
        \/ Reload(w)
        \/ \E i \in Ids :
            \/ \E ch \in Characters : OpenCharacter(w, ch, i)
            \/ ToExport(w, i)
            \/ FromExport(w, i)
            \/ ToCache(w, i)
            \/ SaveValidDraft(w, i)
            \/ Restore(w, i)
            \/ MetadataPatch(w, i)
            \/ \E ch \in Characters : VariantCreate(w, i, ch)
            \/ Export(w, i)
        \/ \E life \in {"DRAFT", "FINAL"}, payload \in Payloads, impact \in WizardImpacts :
            WizardStep(w, [life |-> life, payload |-> payload], impact)

PostSaveSpec == PostSaveInit /\ [][PostSaveNext]_postSaveVars

-----------------------------------------------------------------------------
(* A restore that was accepted can be delivered at any later moment, by    *)
(* whichever window and after whichever crash: while its cursor stands,    *)
(* the character is still the checkpoint its receipt proves                *)
(* (retirePostSaveRestoreCursor, readPostSaveRestoreCommand).              *)
RestoreCursorDeliverable ==
    cursor # None /\ cursor.restore # None =>
        /\ cursor.restore \in DOMAIN journal
        /\ SourceValid(cursor.scope)
        /\ row[cursor.scope.char].snap.life = "DRAFT"

(* Edits of one sheet through different scopes are serial: no two receipts *)
(* claim the same metadata revision of a character, and together they are  *)
(* its history, so that no edit overwrites one its window did not show     *)
(* (commitLocalPostSave, appendMetadata).                                  *)
PatchesAreSerial ==
    \A ch \in Characters :
        LET patches == {i \in DOMAIN journal :
                            journal[i].kind = "METADATA_PATCH" /\ journal[i].scope.char = ch}
        IN /\ Cardinality(patches) = metadata[ch]
           /\ {journal[i].meta : i \in patches} = 1..metadata[ch]

(* A final character stays as it was saved, whatever a window that still   *)
(* shows its wizard sends (the wizard's preflight, post-save's ADR 0063).  *)
FinalIsFrozen ==
    [][\A ch \in Characters :
        row[ch] # None /\ row[ch].snap.life = "FINAL" =>
            row'[ch] = row[ch] /\ ckpt'[ch] = ckpt[ch]]_postSaveVars

(* A window that reconnects without a command of its own is shown the      *)
(* scope under the cursor: that scope's source has not changed since, or   *)
(* the cursor has moved on (adoptNavigationContext, projectLocalPostSave). *)
CursorOpens ==
    cursor # None /\ cursor.restore = None => Projects(cursor.scope)

(* As long as no crash fell between a commit and its adoption, the cursor  *)
(* opens, for any number of windows at the same character.                 *)
CursorOpensUnlessTorn == torn \/ CursorOpens

=============================================================================
