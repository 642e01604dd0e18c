---------------------------- MODULE SettingsForms -----------------------------
(***************************************************************************)
(* The forms of the settings                                                 *)
(* (desktop/workspace/src/features/SettingsSurface.tsx, SettingsActions.tsx, *)
(* Managers.tsx, MemoryEditor.tsx, AgentPresetEditor.tsx and                 *)
(* ProviderAccountForm.tsx).  The surface keeps, form by form, which edit is *)
(* not saved; leaving asks before it drops any.  A save clears the edit that *)
(* was there when it began.  A memory and a preset are edited from the       *)
(* revision they were opened at; a new account gets an id, which a second    *)
(* attempt uses again.  Another client changes the same rows.                *)
(***************************************************************************)
EXTENDS Naturals, FiniteSets

CONSTANTS None, MaxEdits, MaxLoads, MaxSaves, MaxOthers   \* bounds

Edited == {"memory", "preset"}          \* opened from a row
Added == {"add", "account"}             \* always there
Forms == Edited \cup Added
Categories == {"memory", "agents", "models"}
CategoryOf(f) == CASE f \in {"memory", "add"} -> "memory" [] f = "preset" -> "agents" [] f = "account" -> "models"

VARIABLES
    category,   \* what the settings show
    form,       \* form -> what it holds, None when it is not open
    edits,      \* form -> its last edit not saved, 0 if none
    dirty,      \* is the warning shown
    rows,       \* the revisions the category shows, None before they are loaded
    loads,      \* reads under way
    saving,     \* form -> its save under way, or None
    host,       \* the revisions the host has
    accounts,   \* the accounts made, with the creation each is of
    creation, generatedId,
    revision, counts

vars == <<category, form, edits, dirty, rows, loads, saving, host, accounts, creation, generatedId, revision, counts>>

Revisions == 1..(1 + MaxSaves + MaxOthers)
Texts == 0..MaxEdits
Rows == [of : Categories, at : [Edited -> Revisions]]

TypeOK ==
    /\ category \in Categories
    /\ form \in [Forms -> {None} \cup [seen : Revisions \cup {None}, text : Texts, kept : Texts]]
    /\ edits \in [Forms -> Texts]
    /\ dirty \in BOOLEAN
    /\ rows \in Rows \cup {None}
    /\ loads \subseteq [of : Categories, live : BOOLEAN, at : [Edited -> Revisions] \cup {None}, n : 1..MaxLoads]
    /\ saving \in [Forms -> {None} \cup
          [seen : Revisions \cup {None}, base : Revisions \cup {None}, text : Texts, snapshot : Texts,
           of : 0..MaxLoads + MaxSaves, id : 0..MaxSaves, answer : {"ok", "failed", None}]]
    /\ host \in [Edited -> Revisions]
    /\ accounts \subseteq [creation : 0..MaxLoads + MaxSaves, id : 1..MaxSaves]
    /\ creation \in 0..MaxLoads + MaxSaves /\ generatedId \in 0..MaxSaves
    /\ revision \in 0..MaxEdits
    /\ counts \in [loads : 0..MaxLoads, saves : 0..MaxSaves, others : 0..MaxOthers]

Fresh(seen) == [seen |-> seen, text |-> 0, kept |-> 0]
\* What a save that writes remembers; reads and previews remember nothing.
beginSave(f) == edits[f]
Opened(c) == [f \in Forms |-> IF f \in Added /\ c = CategoryOf(f) THEN Fresh(None) ELSE None]
Read(c, n) == [of |-> c, live |-> TRUE, at |-> None, n |-> n]
Unsaved(f) == form[f] # None /\ form[f].text # form[f].kept

Init ==
    /\ category \in Categories /\ form = Opened(category)
    /\ edits = [f \in Forms |-> 0] /\ dirty = FALSE
    /\ rows = None /\ loads = {Read(category, 1)} /\ saving = [f \in Forms |-> None]
    /\ host = [f \in Edited |-> 1]
    /\ accounts = {} /\ creation = 0 /\ generatedId = 0
    /\ revision = 0 /\ counts = [loads |-> 1, saves |-> 0, others |-> 0]

-----------------------------------------------------------------------------
(* Leaving, and what is asked before. *)

\* Edits of forms that are gone do not count.  Asked about others, the user
\* agrees (or nothing happens).
Connected == [f \in Forms |-> IF form[f] = None THEN 0 ELSE edits[f]]
discard == edits' = Connected
Reset == edits' = [f \in Forms |-> 0] /\ dirty' = FALSE

Cancelled == {[l EXCEPT !.live = FALSE] : l \in loads}

reload(c) ==
    /\ counts.loads < MaxLoads
    /\ counts' = [counts EXCEPT !.loads = @ + 1]
    /\ loads' = Cancelled \cup {Read(c, counts'.loads)}

\* The category's forms and rows go; the new one's are read.
leave(c) ==
    /\ c # category
    /\ category' = c
    /\ Reset
    /\ form' = Opened(c)
    /\ rows' = None
    /\ reload(c)
    /\ creation' = IF category = "models" THEN creation + 1 ELSE creation
    /\ generatedId' = IF category = "models" THEN 0 ELSE generatedId
    /\ UNCHANGED <<saving, host, accounts, revision>>

Busy == \E f \in Forms : f # "memory" /\ saving[f] # None
Loading == \E l \in loads : l.live

refresh ==
    /\ ~Loading /\ ~Busy
    /\ reload(category)
    /\ discard /\ dirty' = (\E f \in Forms : edits'[f] > 0)
    /\ UNCHANGED <<category, form, rows, saving, host, accounts, creation, generatedId, revision>>

-----------------------------------------------------------------------------
(* Rows. *)

hostReads(l) ==
    /\ l.at = None
    /\ loads' = (loads \ {l}) \cup {[l EXCEPT !.at = host]}
    /\ UNCHANGED <<category, form, edits, dirty, rows, saving, host, accounts, creation, generatedId, revision, counts>>

\* A bug: a read is shown whenever it arrives.
AlwaysTaken(l) == TRUE
Taken(l) == l.live

loaded(l) ==
    /\ l.at # None
    /\ loads' = loads \ {l}
    /\ rows' = IF Taken(l) THEN [of |-> l.of, at |-> l.at] ELSE rows
    /\ UNCHANGED <<category, form, edits, dirty, saving, host, accounts, creation, generatedId, revision, counts>>

othersSave(f) ==
    /\ f \in Edited /\ counts.others < MaxOthers
    /\ host' = [host EXCEPT ![f] = @ + 1]
    /\ counts' = [counts EXCEPT !.others = @ + 1]
    /\ UNCHANGED <<category, form, edits, dirty, rows, loads, saving, accounts, creation, generatedId, revision>>

-----------------------------------------------------------------------------
(* Forms. *)

\* Opened again, the same row's editor stays as it is.
open(f) ==
    /\ f \in Edited /\ category = CategoryOf(f) /\ rows # None /\ form[f] = None /\ ~Busy
    /\ form' = [form EXCEPT ![f] = Fresh(rows.at[f])]
    /\ discard /\ dirty' = (\E g \in Forms : edits'[g] > 0)
    /\ UNCHANGED <<category, rows, loads, saving, host, accounts, creation, generatedId, revision, counts>>

cancel(f) ==
    /\ f \in Edited /\ form[f] # None /\ saving[f] = None
    /\ form' = [form EXCEPT ![f] = None]
    /\ discard /\ dirty' = (\E g \in Forms : edits'[g] > 0)
    /\ UNCHANGED <<category, rows, loads, saving, host, accounts, creation, generatedId, revision, counts>>

\* The fields of a preset and of an account are disabled while it is saved.
Enabled(f) == form[f] # None /\ (saving[f] = None \/ f \in {"memory", "add"})

edit(f) ==
    /\ Enabled(f) /\ revision < MaxEdits
    /\ revision' = revision + 1
    /\ edits' = [edits EXCEPT ![f] = revision']
    /\ form' = [form EXCEPT ![f].text = revision']
    /\ dirty' = TRUE
    /\ UNCHANGED <<category, rows, loads, saving, host, accounts, creation, generatedId, counts>>

\* A bug: the revision saved over is the one last loaded.
RevisionShown(f) == IF f \in Edited /\ rows # None THEN rows.at[f] ELSE form[f].seen
original(f) == form[f].seen

\* A bug: each attempt makes a new id.
NewId == counts.saves + 1
AccountId == IF generatedId = 0 THEN counts.saves + 1 ELSE generatedId

save(f) ==
    /\ form[f] # None /\ form[f].text > 0 /\ saving[f] = None /\ counts.saves < MaxSaves
    /\ f # "memory" => ~Busy
    /\ counts' = [counts EXCEPT !.saves = @ + 1]
    /\ LET id == IF f = "account" THEN AccountId ELSE 0 IN
         /\ saving' = [saving EXCEPT ![f] = [seen |-> form[f].seen, base |-> original(f), text |-> form[f].text,
                                             snapshot |-> beginSave(f), of |-> creation, id |-> id, answer |-> None]]
         /\ generatedId' = IF f = "account" THEN id ELSE generatedId
    /\ UNCHANGED <<category, form, edits, dirty, rows, loads, host, accounts, creation, revision>>

\* The host takes it, unless its revision is not the host's; or the answer is lost.
hostSaves(f) ==
    /\ saving[f] # None /\ saving[f].answer = None
    /\ LET accepted == f \in Edited => saving[f].base = host[f] IN
         /\ host' = IF f \in Edited /\ accepted THEN [host EXCEPT ![f] = @ + 1] ELSE host
         /\ accounts' = IF f = "account" THEN accounts \cup {[creation |-> saving[f].of, id |-> saving[f].id]} ELSE accounts
         /\ \E answer \in {"ok", "failed"} :
              /\ answer = "ok" => accepted
              /\ saving' = [saving EXCEPT ![f].answer = answer]
    /\ UNCHANGED <<category, form, edits, dirty, rows, loads, creation, generatedId, revision, counts>>

\* A bug: a save clears every edit of its form.
ClearsAll(f) == TRUE
Clears(f) == edits[f] = saving[f].snapshot

\* Saved, a row's editor closes and the rows are read again.
settle(f) ==
    /\ saving[f] # None /\ saving[f].answer # None
    /\ saving' = [saving EXCEPT ![f] = None]
    /\ IF saving[f].answer = "failed"
       THEN UNCHANGED <<form, edits, dirty, loads, counts, creation, generatedId>>
       ELSE /\ edits' = [g \in Forms |-> IF form[g] = None \/ (g = f /\ Clears(f)) THEN 0 ELSE edits[g]]
            /\ dirty' = (\E g \in Forms : edits'[g] > 0)
            /\ form' = IF f \in Edited THEN [form EXCEPT ![f] = None]
                       ELSE IF form[f] # None /\ form[f].text >= saving[f].text
                       THEN [form EXCEPT ![f].kept = saving[f].text] ELSE form
            /\ reload(category)
            /\ IF f = "account" /\ saving[f].of = creation
               THEN creation' = creation + 1 /\ generatedId' = 0
               ELSE UNCHANGED <<creation, generatedId>>
    /\ UNCHANGED <<category, rows, host, accounts, revision>>

Next ==
    \/ \E c \in Categories : leave(c)
    \/ refresh
    \/ \E l \in loads : hostReads(l) \/ loaded(l)
    \/ \E f \in Forms : othersSave(f) \/ open(f) \/ cancel(f) \/ edit(f) \/ save(f) \/ hostSaves(f) \/ settle(f)

Spec == Init /\ [][Next]_vars

-----------------------------------------------------------------------------
(* Properties. *)

\* A save never replaces a version its editor did not start from, whatever was
\* loaded meanwhile: "Keep the original revision and scope until an explicit
\* successful save" (MemoryEditor.tsx:11).
OthersKept == [][\A f \in Edited : hostSaves(f) /\ host'[f] # host[f] => saving[f].seen = host[f]]_vars

\* While a form that is open holds an edit no save has kept, the warning is
\* shown, so that leaving asks (SettingsSurface.tsx:39-41).
DirtyCoversEdits == \A f \in Forms : Unsaved(f) => dirty

\* The rows shown are of the category shown, however late they were read
\* (Managers.tsx:79-99).
RowsAreOfCategory == rows # None => rows.of = category

\* One account is made of one form, however often its save is tried again
\* (ProviderAccountForm.tsx:20-23).
OneAccountPerForm == \A a, b \in accounts : a.creation = b.creation => a.id = b.id

\* "edits made while a save is in flight remain dirty"
\* (settings-surface.test.tsx:16): a form with an edit that no save has kept
\* goes only when the user leaves it.
EditsRemain ==
    [][\A f \in Forms : (Unsaved(f) /\ form'[f] = None) =>
          (saving[f] # None /\ saving[f].text = form[f].text) \/ cancel(f) \/ \E c \in Categories : leave(c)]_vars

=============================================================================
