----------------------------- MODULE ScheduleForms -----------------------------
(***************************************************************************)
(* The manager of scheduled tasks (features/ScheduleManager.tsx): the list   *)
(* of a project's schedules, polled and read again after each action, and    *)
(* the form that creates or edits one.  A save asks the host to preview the  *)
(* times first; a new schedule is created under a request id kept while the  *)
(* form says the same (workspace/automation.py); an edit is for the revision *)
(* that it was copied from.  When schedules run is ScheduledRuns'.           *)
(***************************************************************************)
EXTENDS Naturals, FiniteSets

CONSTANTS None, Scopes, Texts,    \* projects; what a form may say
          MaxActs, MaxTyped, MaxUpsets  \* bounds: actions, changes of the form,
                                  \* and projects changed, answers lost, others' changes

VARIABLES
    sched,     \* the host's schedules, by the request id that created them
    scope,     \* the project of the manager
    data,      \* the schedules listed, None while loading
    editing,   \* None, New, or the id and revision of the schedule edited
    text,      \* what the form says, None when it is blank
    intent,    \* the request id of what the form created, or began to, last
    poll,      \* the poll under way
    acts,      \* the actions begun, in order
    used

form == <<scope, data, editing, text, intent>>
vars == <<sched, form, poll, acts, used>>

Keys == 1..MaxActs
New == [id |-> 0, revision |-> 0]
Row == [id : Keys, revision : Nat, text : Texts, scope : Scopes]
Asked == [rows |-> None]   \* a read without its answer
RowsOf(s) == {r \in {sched[k] : k \in Keys} \ {None} : r.scope = s}

TypeOK ==
    /\ sched \in [Keys -> Row \cup {None}]
    /\ scope \in Scopes /\ text \in Texts \cup {None} /\ (data = None \/ data \subseteq Row)
    /\ editing = None \/ editing.id \in Keys \cup {0}
    /\ intent = None \/ (intent.key \in Keys /\ intent.text \in Texts)
    /\ \A n \in Keys : acts[n] = None \/ acts[n].pc \in {"preview", "write", "list", "ended"}

Init ==
    /\ sched = [k \in Keys |-> None]
    /\ scope = CHOOSE s \in Scopes : TRUE
    /\ data = None /\ editing = None /\ intent = None /\ text = None
    /\ poll = Asked /\ acts = [n \in Keys |-> None]
    /\ used = [typed |-> 0, upsets |-> 0]

Bound == [typed |-> MaxTyped, upsets |-> MaxUpsets]
Spend(what) == used[what] < Bound[what] /\ used' = [used EXCEPT ![what] = @ + 1]

\* flight: an action of this project is under way.
busy == \E n \in Keys : acts[n] # None /\ acts[n].fresh /\ acts[n].pc # "ended"
Unused(n) == acts[n] = None /\ \A m \in 1..(n - 1) : acts[m] # None

-----------------------------------------------------------------------------
(* The project and the list. *)

setScope(s) ==
    /\ s # scope /\ Spend("upsets")
    /\ scope' = s /\ data' = None /\ editing' = None /\ intent' = None /\ poll' = Asked
    /\ acts' = [n \in Keys |-> IF acts[n] = None THEN None ELSE [acts[n] EXCEPT !.fresh = FALSE]]
    /\ UNCHANGED <<sched, text>>

startPoll ==
    /\ poll = None
    /\ poll' = Asked
    /\ UNCHANGED <<sched, form, acts, used>>

hostLists ==
    /\ poll = Asked
    /\ poll' = [rows |-> RowsOf(scope)]
    /\ UNCHANGED <<sched, form, acts, used>>

pollEnds ==
    /\ poll # None /\ poll.rows # None
    /\ data' = poll.rows /\ poll' = None
    /\ UNCHANGED <<sched, scope, editing, text, intent, acts, used>>

-----------------------------------------------------------------------------
(* The form. *)

edit(row) ==
    /\ ~busy
    /\ IF row = New THEN editing' = New /\ text' = None
       ELSE editing' = [id |-> row.id, revision |-> row.revision] /\ text' = row.text
    /\ UNCHANGED <<sched, scope, data, intent, poll, acts, used>>

cancel ==
    /\ ~busy /\ editing # None
    /\ editing' = None
    /\ UNCHANGED <<sched, scope, data, text, intent, poll, acts, used>>

type(t) ==
    /\ ~busy /\ editing # None /\ t # text /\ Spend("typed")
    /\ text' = t
    /\ UNCHANGED <<sched, scope, data, editing, intent, poll, acts>>

save(n) ==
    /\ ~busy /\ editing # None /\ text # None /\ Unused(n)
    /\ acts' = [acts EXCEPT ![n] = [of |-> editing, text |-> text, scope |-> scope, fresh |-> TRUE,
                                    pc |-> "preview", key |-> 0, wire |-> "sent", rows |-> None]]
    /\ UNCHANGED <<sched, form, poll, used>>

\* A bug: every attempt to create is a request of its own.
KeyEach(n, t) == n
KeyOf(n, t) == IF intent # None /\ intent.text = t THEN intent.key ELSE n

\* A bug: the preview's answer is followed up in another project.
StaysAlways(q) == TRUE
Stays(q) == q.fresh

previewed(n) ==
    /\ acts[n] # None /\ acts[n].pc = "preview"
    /\ LET q == acts[n]
           key == KeyOf(n, q.text)
       IN  IF ~Stays(q)
           THEN acts' = [acts EXCEPT ![n].pc = "ended"] /\ UNCHANGED intent
           ELSE /\ acts' = [acts EXCEPT ![n].pc = "write", ![n].key = IF q.of = New THEN key ELSE q.of.id]
                /\ intent' = IF q.of = New THEN [key |-> key, text |-> q.text] ELSE intent
    /\ UNCHANGED <<sched, scope, data, editing, text, poll, used>>

previewFails(n) ==
    /\ acts[n] # None /\ acts[n].pc = "preview" /\ Spend("upsets")
    /\ acts' = [acts EXCEPT ![n].pc = "ended"]
    /\ UNCHANGED <<sched, form, poll>>

\* A bug: the host edits a schedule whatever its revision.
EditsAny(q) == TRUE
Edits(q) == sched[q.key].revision = q.of.revision

hostWrites(n) ==
    /\ acts[n] # None /\ acts[n].pc = "write" /\ acts[n].wire = "sent"
    /\ LET q == acts[n]
           made == [id |-> q.key, revision |-> 1, text |-> q.text, scope |-> q.scope]
       IN  IF q.of = New
           THEN /\ sched' = IF sched[q.key] = None THEN [sched EXCEPT ![q.key] = made] ELSE sched
                /\ acts' = [acts EXCEPT ![n].wire = "done"]
           ELSE IF Edits(q)
           THEN /\ sched' = [sched EXCEPT ![q.key] = [@ EXCEPT !.text = q.text, !.revision = @ + 1]]
                /\ acts' = [acts EXCEPT ![n].wire = "done"]
           ELSE acts' = [acts EXCEPT ![n].wire = "refused"] /\ UNCHANGED sched
    /\ UNCHANGED <<form, poll, used>>

answerLost(n) ==
    /\ acts[n] # None /\ acts[n].pc = "write" /\ acts[n].wire \in {"sent", "done"} /\ Spend("upsets")
    /\ acts' = [acts EXCEPT ![n].wire = "lost"]
    /\ UNCHANGED <<sched, form, poll>>

\* Saved: the request id is used up, the form closes and the list is read again.
written(n) ==
    /\ acts[n] # None /\ acts[n].pc = "write" /\ acts[n].wire # "sent"
    /\ LET q == acts[n]
           done == q.wire = "done"
       IN  /\ intent' = IF done /\ q.of = New /\ q.fresh THEN None ELSE intent
           /\ editing' = IF done /\ q.fresh THEN None ELSE editing
           /\ acts' = [acts EXCEPT ![n].pc = IF done /\ q.fresh THEN "list" ELSE "ended"]
    /\ UNCHANGED <<sched, scope, data, text, poll, used>>

hostListsAgain(n) ==
    /\ acts[n] # None /\ acts[n].pc = "list" /\ acts[n].rows = None
    /\ acts' = [acts EXCEPT ![n].rows = RowsOf(acts[n].scope)]
    /\ UNCHANGED <<sched, form, poll, used>>

listed(n) ==
    /\ acts[n] # None /\ acts[n].pc = "list" /\ acts[n].rows # None
    /\ data' = IF acts[n].fresh THEN acts[n].rows ELSE data
    /\ acts' = [acts EXCEPT ![n].pc = "ended"]
    /\ UNCHANGED <<sched, scope, editing, text, intent, poll, used>>

\* Another window, or a run that changes its schedule.
otherEdits(k, t) ==
    /\ sched[k] # None /\ Spend("upsets")
    /\ sched' = [sched EXCEPT ![k] = [@ EXCEPT !.text = t, !.revision = @ + 1]]
    /\ UNCHANGED <<form, poll, acts>>

Step(n) == previewed(n) \/ hostWrites(n) \/ written(n) \/ hostListsAgain(n) \/ listed(n)
Next ==
    \/ startPoll \/ hostLists \/ pollEnds \/ cancel \/ edit(New)
    \/ data # None /\ \E r \in data : edit(r)
    \/ \E s \in Scopes : setScope(s)
    \/ \E t \in Texts : type(t)
    \/ \E n \in Keys : save(n) \/ Step(n) \/ previewFails(n) \/ answerLost(n)
    \/ \E k \in Keys, t \in Texts : otherEdits(k, t)

Spec == Init /\ [][Next]_vars

-----------------------------------------------------------------------------
(* An attempt repeated with the form unchanged creates no second schedule     *)
(* unless the first was answered, or the project was left meanwhile.          *)
OneSchedulePerForm == \A m, n \in Keys :
    LET p == acts[m]
        q == acts[n]
    IN  /\ m < n /\ p # None /\ q # None /\ p.of = New /\ q.of = New
        /\ p.text = q.text /\ p.fresh /\ q.fresh /\ p.wire # "done"
        /\ \A l \in (m + 1)..(n - 1) : acts[l].of # New
        /\ 0 \notin {p.key, q.key}
        => p.key = q.key

(* Nothing is written for a project that was left during the preview, and an  *)
(* edit replaces only the schedule that it was copied from.                   *)
WritesAsReviewed == [][\A n \in Keys : acts[n] # None =>
    /\ acts[n].pc = "preview" /\ acts'[n].pc = "write" => acts[n].scope = scope
    /\ (acts[n].of # New /\ acts[n].wire = "sent" /\ acts'[n].wire = "done" =>
            sched[acts[n].key].revision = acts[n].of.revision)]_vars
=============================================================================
