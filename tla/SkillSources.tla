------------------------------ MODULE SkillSources ------------------------------
(***************************************************************************)
(* The editor of skill sources (features/ExtensionManager.tsx): a source is  *)
(* opened, edited and saved under the digest of the text that it replaces,   *)
(* one action at a time for a project.  A save that failed shows what is on  *)
(* the disk, which the user takes over or replaces.  The host                *)
(* (workspace/skill_sources.py) compares the digest, keeps both texts as     *)
(* versions and compares again before it replaces the file, which other      *)
(* programs edit too.  A text is abstracted by its digest, a number.         *)
(***************************************************************************)
EXTENDS Naturals, FiniteSets

CONSTANTS None, Projects, Names,  \* skill folders of each project
          MaxTexts, MaxActs, MaxUpsets   \* bounds: texts in all, actions, and
                                  \* other programs' edits, projects changed and failures

VARIABLES
    disk,      \* the text of each project's source, 0 if there is none
    versions,  \* the texts kept of each source
    project, name, markdown, digest,   \* the form: what it edits and the digest it saves under
    history,   \* the versions listed in the form
    conflict,  \* the text shown as changed on disk, None if none
    acts,      \* the actions, in order
    shown,     \* <<project, name, text>> that the form has shown as the source's own
    texts, used

form == <<project, name, markdown, digest, history, conflict>>
vars == <<disk, versions, form, acts, shown, texts, used>>

Acts == 1..MaxActs
Sources == Projects \X Names
Texts == 0..MaxTexts
Pcs == {"sent", "checked", "saved", "refused", "reread", "read", "ended"}

TypeOK ==
    /\ disk \in [Sources -> Texts] /\ versions \in [Sources -> SUBSET Texts]
    /\ project \in Projects /\ name \in Names \cup {None} /\ {markdown, digest, texts} \subseteq Texts
    /\ conflict \in Texts \cup {None} /\ history \subseteq Texts /\ shown \subseteq Sources \X Texts
    /\ \A n \in Acts : acts[n] = None \/ acts[n].pc \in Pcs

Init ==
    /\ disk \in {[s \in Sources |-> IF s[2] = f THEN 1 ELSE 0] : f \in {CHOOSE f \in Names : TRUE}}
    /\ versions = [s \in Sources |-> {}]
    /\ project = CHOOSE p \in Projects : TRUE
    /\ name = None /\ markdown = 0 /\ digest = 0 /\ history = {} /\ conflict = None
    /\ acts = [n \in Acts |-> None] /\ shown = {} /\ texts = 1 /\ used = 0

Upset == used < MaxUpsets /\ used' = used + 1
busy == \E n \in Acts : acts[n] # None /\ acts[n].fresh /\ acts[n].pc # "ended"
Unused(n) == acts[n] = None /\ \A m \in 1..(n - 1) : acts[m] # None
Of(n) == <<acts[n].project, acts[n].name>>
Sent(kind, f) == [kind |-> kind, project |-> project, name |-> f, fresh |-> TRUE,
                  markdown |-> markdown, expected |-> digest, pc |-> "sent", got |-> 0]

-----------------------------------------------------------------------------
(* The form. *)

setProject(p) ==
    /\ p # project /\ Upset
    /\ project' = p
    /\ name' = None /\ markdown' = 0 /\ digest' = 0 /\ history' = {} /\ conflict' = None
    /\ acts' = [n \in Acts |-> IF acts[n] = None THEN None ELSE [acts[n] EXCEPT !.fresh = FALSE]]
    /\ UNCHANGED <<disk, versions, shown, texts>>

\* Another folder name: its source has not been read.  A conflict stays.
rename(f) ==
    /\ ~busy /\ f # name /\ (IF name = None THEN UNCHANGED used ELSE Upset)
    /\ name' = f /\ digest' = 0 /\ history' = {}
    /\ UNCHANGED <<disk, versions, project, markdown, conflict, acts, shown, texts>>

\* A text typed, imported, or restored from an earlier version.
edit ==
    /\ ~busy /\ texts < MaxTexts
    /\ texts' = texts + 1 /\ markdown' = texts'
    /\ UNCHANGED <<disk, versions, project, name, digest, history, conflict, acts, shown, used>>

restore ==
    /\ ~busy
    /\ \E t \in history \ {markdown} : markdown' = t
    /\ UNCHANGED <<disk, versions, project, name, digest, history, conflict, acts, shown, texts, used>>

\* The conflict's buttons work during an action too.
useCurrent(load) ==
    /\ conflict # None
    /\ digest' = conflict /\ conflict' = None
    /\ markdown' = IF load THEN conflict ELSE markdown
    /\ UNCHANGED <<disk, versions, project, name, history, acts, shown, texts, used>>

begin(n, kind, f) ==
    /\ ~busy /\ Unused(n)
    /\ kind = "save" => markdown # 0 /\ f = name
    /\ acts' = [acts EXCEPT ![n] = Sent(kind, f)]
    /\ UNCHANGED <<disk, versions, form, shown, texts, used>>

-----------------------------------------------------------------------------
(* Opening a source. *)

hostReads(n) ==
    /\ acts[n] # None
    /\ \/ acts[n].kind = "inspect" /\ acts[n].pc = "sent"
       \/ acts[n].pc = "reread"
    /\ acts' = [acts EXCEPT ![n].pc = IF disk[Of(n)] = 0 THEN "ended" ELSE "read", ![n].got = disk[Of(n)]]
    /\ UNCHANGED <<disk, versions, form, shown, texts, used>>

\* An answer for another project is refused, the fields stay.
inspected(n) ==
    /\ acts[n] # None /\ acts[n].kind = "inspect" /\ acts[n].pc = "read"
    /\ acts' = [acts EXCEPT ![n].pc = "ended"]
    /\ IF acts[n].fresh
       THEN /\ name' = acts[n].name /\ markdown' = acts[n].got /\ digest' = acts[n].got
            /\ history' = versions[Of(n)] /\ conflict' = None
            /\ shown' = shown \cup {<<Of(n), acts[n].got>>}
       ELSE UNCHANGED <<name, markdown, digest, history, conflict, shown>>
    /\ UNCHANGED <<disk, versions, project, texts, used>>

-----------------------------------------------------------------------------
(* Saving. *)

\* A bug: the host compares the digest once.
UnchangedOnce(n) == acts[n].pc = "checked" \/ disk[Of(n)] = acts[n].expected
Unchanged(n) == disk[Of(n)] = acts[n].expected

\* A bug: the text to be replaced is not kept.
KeptNew(n) == {acts[n].markdown}
Kept(n) == {disk[Of(n)], acts[n].markdown} \ {0}

hostChecks(n) ==
    /\ acts[n] # None /\ acts[n].kind = "save" /\ acts[n].pc = "sent"
    /\ acts' = [acts EXCEPT ![n].pc = IF Unchanged(n) THEN "checked" ELSE "refused"]
    /\ versions' = IF Unchanged(n) THEN [versions EXCEPT ![Of(n)] = @ \cup Kept(n)] ELSE versions
    /\ UNCHANGED <<disk, form, shown, texts, used>>

hostReplaces(n) ==
    /\ acts[n] # None /\ acts[n].pc = "checked"
    /\ acts' = [acts EXCEPT ![n].pc = IF Unchanged(n) THEN "saved" ELSE "refused"]
    /\ disk' = IF Unchanged(n) THEN [disk EXCEPT ![Of(n)] = acts[n].markdown] ELSE disk
    /\ UNCHANGED <<versions, form, shown, texts, used>>

answerLost(n) ==
    /\ acts[n] # None /\ acts[n].pc = "saved" /\ Upset
    /\ acts' = [acts EXCEPT ![n].pc = "refused"]
    /\ UNCHANGED <<disk, versions, form, shown, texts>>

\* Saved: what was typed is the source now, unless its versions cannot be read.
\* Refused, or so it seems: the source is read again.
saved(n, unlisted) ==
    /\ acts[n] # None /\ acts[n].pc \in {"saved", "refused"}
    /\ IF unlisted THEN Upset ELSE UNCHANGED used
    /\ LET done == acts[n].fresh /\ acts[n].pc = "saved"
       IN  /\ digest' = IF done THEN acts[n].markdown ELSE digest
           /\ shown' = IF done THEN shown \cup {<<Of(n), acts[n].markdown>>} ELSE shown
           /\ history' = IF done /\ ~unlisted THEN versions[Of(n)] ELSE history
           /\ conflict' = IF done /\ ~unlisted THEN None ELSE conflict
           /\ acts' = [acts EXCEPT ![n].pc = IF acts[n].fresh /\ (unlisted \/ ~done) THEN "reread" ELSE "ended"]
    /\ UNCHANGED <<disk, versions, project, name, markdown, texts>>

reread(n) ==
    /\ acts[n] # None /\ acts[n].kind = "save" /\ acts[n].pc = "read"
    /\ acts' = [acts EXCEPT ![n].pc = "ended"]
    /\ IF acts[n].fresh
       THEN conflict' = acts[n].got /\ shown' = shown \cup {<<Of(n), acts[n].got>>}
       ELSE UNCHANGED <<conflict, shown>>
    /\ UNCHANGED <<disk, versions, project, name, markdown, digest, history, texts, used>>

otherPrograms(s) ==
    /\ texts < MaxTexts /\ Upset
    /\ texts' = texts + 1 /\ disk' = [disk EXCEPT ![s] = texts']
    /\ UNCHANGED <<versions, form, acts, shown>>

Step(n) == hostReads(n) \/ inspected(n) \/ hostChecks(n) \/ hostReplaces(n) \/ saved(n, FALSE) \/ reread(n)
Next ==
    \/ edit \/ restore
    \/ \E load \in BOOLEAN : useCurrent(load)
    \/ \E p \in Projects : setProject(p)
    \/ \E f \in Names : rename(f)
    \/ \E n \in Acts, kind \in {"inspect", "save"}, f \in Names : begin(n, kind, f)
    \/ \E n \in Acts : Step(n) \/ saved(n, TRUE) \/ answerLost(n)
    \/ \E s \in Sources : otherPrograms(s)

Spec == Init /\ [][Next]_vars

-----------------------------------------------------------------------------
(* A save replaces a source only by a text that the form was showing of that  *)
(* project's sources, and the text replaced can be restored.  Not of that very *)
(* source: a conflict on screen stays when the folder is renamed under it, and *)
(* its text then stands for that of the new name.                             *)
ReplacesWhatWasShown == [][\A n \in Acts :
    acts[n] # None /\ acts[n].pc = "checked" /\ acts'[n].pc = "saved" /\ disk[Of(n)] # 0 =>
        /\ \E f \in Names : <<<<acts[n].project, f>>, disk[Of(n)]>> \in shown
        /\ disk[Of(n)] \in versions[Of(n)]]_vars
=============================================================================
