------------------------------ MODULE ControlPlane ------------------------------
(***************************************************************************)
(* The control plane (desktop/workspace/src/features/ControlPlane.tsx): the  *)
(* latest run of every conversation, counted and filtered, and an inspector  *)
(* of one of them.  The list and the inspector read the host again and       *)
(* again, one request at a time, unless the window is hidden or the          *)
(* workspace locked; asking again, locking or inspecting another             *)
(* conversation leaves requests under way whose answers come late.           *)
(***************************************************************************)
EXTENDS Naturals, FiniteSets

CONSTANTS Rows, None,                                  \* conversations
          MaxChanges, MaxReads, MaxFailures, MaxLocks  \* bounds

Statuses == {"running", "attention", "completed", "archived"}
Pages == {"overview", "projects", "tasks"}
Filters == {"all", "running", "attention", "completed"}

VARIABLES
    host,        \* what the host has: conversation -> status, and how often it changed
    enabled, hidden,
    list,        \* the list last received, or None
    failed,      \* is its last reading known to have failed
    reads,       \* readings of the list under way
    page, filter, inspected,
    session,     \* what the inspector has read, or None
    looks,       \* readings of the inspector under way
    counts

vars == <<host, enabled, hidden, list, failed, reads, page, filter, inspected, session, looks, counts>>

Snapshot == [at : 0..MaxChanges, rows : [Rows -> Statuses]]

TypeOK ==
    /\ host \in Snapshot /\ enabled \in BOOLEAN /\ hidden \in BOOLEAN
    /\ list \in Snapshot \cup {None} /\ failed \in BOOLEAN
    /\ reads \subseteq [n : 1..MaxReads, stopped : BOOLEAN, answer : Snapshot \cup {None}]
    /\ page \in Pages /\ filter \in Filters /\ inspected \in Rows \cup {None}
    /\ session \in [of : Rows, status : Statuses, at : 0..MaxChanges] \cup {None}
    /\ looks \subseteq [n : 1..MaxReads, of : Rows, stopped : BOOLEAN, answer : Snapshot \cup {None}]
    /\ counts \in [reads : 0..MaxReads, failures : 0..MaxFailures, locks : 0..MaxLocks]

\* Opening the page reads the list.
Init ==
    /\ host = [at |-> 0, rows |-> [r \in Rows |-> "running"]]
    /\ enabled = TRUE /\ hidden = FALSE
    /\ list = None /\ failed = FALSE
    /\ reads = {[n |-> 1, stopped |-> FALSE, answer |-> None]}
    /\ page = "overview" /\ filter = "all" /\ inspected = None
    /\ session = None /\ looks = {}
    /\ counts = [reads |-> 1, failures |-> 0, locks |-> 0]

-----------------------------------------------------------------------------
(* What is shown. *)

Listed(snapshot) == IF snapshot = None THEN {} ELSE {r \in Rows : snapshot.rows[r] # "archived"}
controlRows == {r \in Listed(list) : filter \in {"all", list.rows[r]}}
Count(status) == Cardinality({r \in Listed(list) : list.rows[r] = status})

\* A bug: nothing read is nothing waiting.
QueueOf == IF Count("attention") = 0 THEN "no pending decisions" ELSE "queue"
\* What stands in the place of the attention queue.
Queue == IF list = None THEN (IF failed THEN "unavailable" ELSE "loading")
         ELSE IF Count("attention") = 0 THEN "no pending decisions" ELSE "queue"
Inspecting(shown, snapshot) == shown # None /\ shown \in Listed(snapshot)

-----------------------------------------------------------------------------
(* The list. *)

Stop(rs) == {[r EXCEPT !.stopped = TRUE] : r \in rs}
Live(rs) == {r \in rs : ~r.stopped}
Begin == /\ counts.reads < MaxReads
         /\ counts' = [counts EXCEPT !.reads = @ + 1]

\* The timer, or the window coming back.
refresh ==
    /\ enabled /\ ~hidden /\ Live(reads) = {}
    /\ Begin
    /\ reads' = reads \cup {[n |-> counts'.reads, stopped |-> FALSE, answer |-> None]}
    /\ UNCHANGED <<host, enabled, hidden, list, failed, page, filter, inspected, session, looks>>

\* Asking again; after a failure, even while it is being read.
retry ==
    /\ enabled /\ ~hidden /\ (failed \/ Live(reads) = {})
    /\ Begin
    /\ reads' = Stop(reads) \cup {[n |-> counts'.reads, stopped |-> FALSE, answer |-> None]}
    /\ UNCHANGED <<host, enabled, hidden, list, failed, page, filter, inspected, session, looks>>

hostLists(r) ==
    /\ r.answer = None
    /\ reads' = (reads \ {r}) \cup {[r EXCEPT !.answer = host]}
    /\ UNCHANGED <<host, enabled, hidden, list, failed, page, filter, inspected, session, looks, counts>>

\* A bug: an answer is shown whenever it comes.
Whenever(r) == TRUE
Wanted(r) == ~r.stopped

\* The inspector goes when its conversation does.
listArrives(r) ==
    /\ r.answer # None
    /\ reads' = reads \ {r}
    /\ IF Wanted(r)
       THEN /\ list' = r.answer /\ failed' = FALSE
            /\ session' = IF Inspecting(inspected, r.answer) THEN session ELSE None
            /\ looks' = IF Inspecting(inspected, r.answer) THEN looks ELSE Stop(looks)
       ELSE UNCHANGED <<list, failed, session, looks>>
    /\ UNCHANGED <<host, enabled, hidden, page, filter, inspected, counts>>

listFails(r) ==
    /\ counts.failures < MaxFailures
    /\ counts' = [counts EXCEPT !.failures = @ + 1]
    /\ reads' = reads \ {r}
    /\ failed' = (failed \/ Wanted(r))
    /\ UNCHANGED <<host, enabled, hidden, list, page, filter, inspected, session, looks>>

-----------------------------------------------------------------------------
(* Pages, filters and the inspector. *)

setPage(p) ==
    /\ p # page
    /\ page' = p
    /\ session' = None /\ looks' = Stop(looks)
    /\ UNCHANGED <<host, enabled, hidden, list, failed, reads, filter, inspected, counts>>

\* A count leads to its conversations.
openFilter(f) ==
    /\ page # "tasks"
    /\ filter' = f /\ page' = "tasks" /\ inspected' = None
    /\ session' = None /\ looks' = Stop(looks)
    /\ UNCHANGED <<host, enabled, hidden, list, failed, reads, counts>>

setFilter(f) ==
    /\ page = "tasks" /\ f # filter
    /\ filter' = f
    /\ UNCHANGED <<host, enabled, hidden, list, failed, reads, page, inspected, session, looks, counts>>

\* From the list, or from the attention queue.
inspect(r) ==
    /\ r # inspected
    /\ \/ page = "tasks" /\ r \in controlRows
       \/ page = "overview" /\ r \in Listed(list) /\ list.rows[r] = "attention"
    /\ inspected' = r /\ page' = "tasks"
    /\ session' = None /\ looks' = Stop(looks)
    /\ UNCHANGED <<host, enabled, hidden, list, failed, reads, filter, counts>>

close ==
    /\ page = "tasks" /\ inspected # None
    /\ inspected' = None /\ session' = None /\ looks' = Stop(looks)
    /\ UNCHANGED <<host, enabled, hidden, list, failed, reads, page, filter, counts>>

look ==
    /\ enabled /\ ~hidden /\ page = "tasks" /\ Inspecting(inspected, list) /\ Live(looks) = {}
    /\ Begin
    /\ looks' = looks \cup {[n |-> counts'.reads, of |-> inspected, stopped |-> FALSE, answer |-> None]}
    /\ UNCHANGED <<host, enabled, hidden, list, failed, reads, page, filter, inspected, session>>

hostShows(l) ==
    /\ l.answer = None
    /\ looks' = (looks \ {l}) \cup {[l EXCEPT !.answer = host]}
    /\ UNCHANGED <<host, enabled, hidden, list, failed, reads, page, filter, inspected, session, counts>>

lookArrives(l) ==
    /\ l.answer # None
    /\ looks' = looks \ {l}
    /\ session' = IF Wanted(l) THEN [of |-> l.of, status |-> l.answer.rows[l.of], at |-> l.answer.at] ELSE session
    /\ UNCHANGED <<host, enabled, hidden, list, failed, reads, page, filter, inspected, counts>>

\* What was read before stays, under the error.
lookFails(l) ==
    /\ counts.failures < MaxFailures
    /\ counts' = [counts EXCEPT !.failures = @ + 1]
    /\ looks' = looks \ {l}
    /\ UNCHANGED <<host, enabled, hidden, list, failed, reads, page, filter, inspected, session>>

-----------------------------------------------------------------------------
(* Around it. *)

\* Locked, nothing is read; unlocked, both are read again.
lock ==
    /\ counts.locks < MaxLocks
    /\ enabled' = ~enabled
    /\ counts' = [counts EXCEPT !.locks = @ + 1]
    /\ reads' = Stop(reads) /\ looks' = Stop(looks)
    /\ UNCHANGED <<host, hidden, list, failed, page, filter, inspected, session>>

hide ==
    /\ counts.locks < MaxLocks
    /\ hidden' = ~hidden
    /\ counts' = [counts EXCEPT !.locks = @ + 1]
    /\ UNCHANGED <<host, enabled, list, failed, reads, page, filter, inspected, session, looks>>

hostChanges(r, s) ==
    /\ host.at < MaxChanges /\ s # host.rows[r]
    /\ host' = [at |-> host.at + 1, rows |-> [host.rows EXCEPT ![r] = s]]
    /\ UNCHANGED <<enabled, hidden, list, failed, reads, page, filter, inspected, session, looks, counts>>

Next ==
    \/ refresh \/ retry \/ close \/ look \/ lock \/ hide
    \/ \E r \in reads : hostLists(r) \/ listArrives(r) \/ listFails(r)
    \/ \E l \in looks : hostShows(l) \/ lookArrives(l) \/ lookFails(l)
    \/ \E p \in Pages : setPage(p)
    \/ \E f \in Filters : openFilter(f) \/ setFilter(f)
    \/ \E r \in Rows : inspect(r) \/ \E s \in Statuses : hostChanges(r, s)

Spec == Init /\ [][Next]_vars

-----------------------------------------------------------------------------
(* Properties. *)

\* What is shown never goes back to an earlier state of the host, and the
\* inspector shows the conversation inspected: "ignores an earlier inspection
\* response after selecting another run" (control-plane.test.tsx:55;
\* ControlPlane.tsx:45-62, 110-123).
NeverBack ==
    [][/\ list # None => list'.at >= list.at
       /\ session' # None =>
            /\ session'.of = inspected'
            /\ session # None /\ session.of = session'.of => session'.at >= session.at]_vars

\* "does not describe a failed initial read as an empty healthy queue"
\* (control-plane.test.tsx:44): it says that no decision is pending only when
\* none was, at a time it read.
EmptyOnlyIfRead ==
    Queue = "no pending decisions" => list # None /\ \A r \in Rows : list.rows[r] # "attention"

=============================================================================
