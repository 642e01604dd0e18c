----------------------------- MODULE TaskControl -----------------------------
(***************************************************************************)
(* The supervision dialog of a task                                          *)
(* (desktop/workspace/src/features/TaskSupervisor.tsx, with the form of      *)
(* components/ai-elements/question.tsx, and the assembly of a team on the    *)
(* host, src/termx/workspace/swarms.py).  It polls the task's tree, sends    *)
(* orders to a task of it, and has the host start a team of workers.  An     *)
(* answer may come late, or never, after the dialog turned to another task,  *)
(* and the host may restart in the middle.                                   *)
(*                                                                         *)
(* A task is a root and a number: 0 for the root itself, else its worker.    *)
(* A text, and the form of a team, are known by the number of the edit.      *)
(***************************************************************************)
EXTENDS Naturals, FiniteSets

CONSTANTS Roots, First,   \* tasks the dialog is opened for, the first of them
          Parallel, Total,   \* workers at a time, and in all
          None,
          MaxOrders, MaxTeams,   \* bounds: orders and teams asked for, edits,
          MaxEdits, MaxTurns, MaxMishaps   \* dialogs opened, mishaps

Tasks == Roots \X (0..Total)
Workers(r) == {t \in Tasks : t[1] = r /\ t[2] > 0}
Orders == 1..MaxOrders
Teams == 1..MaxTeams
Edits == 0..MaxEdits

VARIABLES
    work,      \* the host's tasks: status, and how often their work was cut short
    teams,     \* the host's record of the teams asked for
    sup,       \* the dialog
    tree,      \* what it shows of the task, or None
    read,      \* its read of the tree in flight, or None
    order,     \* the orders it sent
    squad,     \* the teams it asked for
    mishaps

vars == <<work, teams, sup, tree, read, order, squad, mishaps>>
hostVars == <<work, teams>>

Statuses == {"absent", "running", "confirm", "done"}
Work == [status : Statuses, lapse : 0..MaxMishaps]
Form == [size : 1..Total, filled : BOOLEAN, edit : Edits]
Team == [root : Roots, id : Edits, form : Form, made : 0..Total, finished : BOOLEAN]

TypeOK ==
    /\ work \in [Tasks -> Work]
    /\ teams \subseteq Team
    /\ sup \in [root : Roots, generation : 1..MaxTurns, selected : 0..Total, edits : Edits,
                message : Edits, agreed : {None} \cup 0..MaxMishaps, busy : BOOLEAN,
                building : BOOLEAN, creating : BOOLEAN, form : Form, requestId : Edits,
                result : [of : Roots, form : Form, ok : BOOLEAN] \cup {None}]
    /\ tree \in [0..Total -> Work] \cup {None}
    /\ read \in [answer : [0..Total -> Work] \cup {None}] \cup {None}
    /\ \A n \in Orders : order[n] \in {None} \cup
          [action : {"cancel", "steer", "recover"}, to : Tasks, origin : 1..MaxTurns, text : Edits,
           agreed : {None} \cup 0..MaxMishaps, wire : {"sent", "done", "refused", "lost", "heard"}]
    /\ \A n \in Teams : squad[n] \in {None} \cup
          [root : Roots, origin : 1..MaxTurns, id : Edits, form : Form, ok : BOOLEAN,
           wire : {"sent", "assembling", "done", "refused", "lost", "heard"}]
    /\ mishaps \in 0..MaxMishaps

\* The dialog opened for root r; e numbers the edits made so far.
NewForm(n, e) == [size |-> n, filled |-> FALSE, edit |-> e]
Opened(r, g, e) == [root |-> r, generation |-> g, selected |-> 0, edits |-> e, message |-> 0,
                    agreed |-> None, busy |-> FALSE, building |-> FALSE, creating |-> FALSE,
                    form |-> NewForm(1, e), requestId |-> e, result |-> None]
Reading == [answer |-> None]

Init ==
    /\ work = [t \in Tasks |-> [status |-> IF t[2] = 0 THEN "running" ELSE "absent", lapse |-> 0]]
    /\ teams = {}
    /\ sup = Opened(First, 1, 0)
    /\ tree = None
    /\ read = Reading
    /\ order = [n \in Orders |-> None]
    /\ squad = [n \in Teams |-> None]
    /\ mishaps = 0

Mishap == mishaps < MaxMishaps /\ mishaps' = mishaps + 1
Edit == sup.edits < MaxEdits

-----------------------------------------------------------------------------
(* What the dialog makes of the tree. *)

active(t) == t.status \in {"running", "confirm"}
steerable(t) == t.status = "running"
shown == {k \in 1..Total : tree[k].status # "absent"}
live == {k \in shown : active(tree[k])}
least(m, n) == IF m < n THEN m ELSE n
less(m, n) == IF m < n THEN 0 ELSE m - n
slots == least(less(Parallel, Cardinality(live)), less(Total, Cardinality(shown)))
canBuild == tree # None /\ tree[0].status = "running"
validTeam == sup.form.size <= slots /\ sup.form.filled
chosen == IF sup.selected \in shown THEN sup.selected ELSE 0

-----------------------------------------------------------------------------
(* Reading the tree. *)

Tree(r) == [k \in 0..Total |-> work[<<r, k>>]]

hostReads ==
    /\ read # None /\ read.answer = None
    /\ read' = [answer |-> Tree(sup.root)]
    /\ UNCHANGED <<hostVars, sup, tree, order, squad, mishaps>>

treeArrives ==
    /\ read # None /\ read.answer # None
    /\ tree' = read.answer
    /\ read' = None
    /\ UNCHANGED <<hostVars, sup, order, squad, mishaps>>

readFails ==
    /\ read # None
    /\ read' = None
    /\ Mishap
    /\ UNCHANGED <<hostVars, sup, tree, order, squad>>

poll ==
    /\ read = None
    /\ read' = Reading
    /\ UNCHANGED <<hostVars, sup, tree, order, squad, mishaps>>

\* The dialog is given another task, or closed and opened again: nothing of
\* what it was stays.
open(r) ==
    /\ sup.generation < MaxTurns /\ Edit
    /\ sup' = Opened(r, sup.generation + 1, sup.edits + 1)
    /\ tree' = None
    /\ read' = Reading
    /\ UNCHANGED <<hostVars, order, squad, mishaps>>

select(k) ==
    /\ tree # None /\ k \in shown \cup {0} /\ k # sup.selected
    /\ sup' = [sup EXCEPT !.selected = k, !.message = 0, !.agreed = None]
    /\ UNCHANGED <<hostVars, tree, read, order, squad, mishaps>>

-----------------------------------------------------------------------------
(* Orders. *)

\* The form under the task: its text belongs to the dialog.
QuestionInput == ~sup.busy
setText ==
    /\ tree # None /\ steerable(tree[chosen]) /\ QuestionInput /\ Edit
    /\ sup' = [sup EXCEPT !.message = sup.edits + 1, !.edits = @ + 1]
    /\ UNCHANGED <<hostVars, tree, read, order, squad, mishaps>>

confirmRecovery ==
    /\ tree # None /\ tree[chosen].status = "confirm" /\ ~sup.busy
    /\ sup' = [sup EXCEPT !.agreed = IF @ = None THEN tree[chosen].lapse ELSE None]
    /\ UNCHANGED <<hostVars, tree, read, order, squad, mishaps>>

control(n, action) ==
    /\ ~sup.busy
    /\ order[n] = None /\ (n > 1 => order[n-1] # None)
    /\ order' = [order EXCEPT ![n] =
         [action |-> action, to |-> <<sup.root, chosen>>, origin |-> sup.generation,
          text |-> sup.message, agreed |-> sup.agreed, wire |-> "sent"]]
    /\ sup' = [sup EXCEPT !.busy = TRUE]
    /\ UNCHANGED <<hostVars, tree, read, squad, mishaps>>

\* Neither the button nor the form submits a text that says nothing.
QuestionSubmit == ~sup.busy /\ sup.message # 0
handleSubmit(n) == ~sup.busy /\ sup.message # 0 /\ control(n, "steer")
steer(n) == tree # None /\ steerable(tree[chosen]) /\ QuestionSubmit /\ handleSubmit(n)
recover(n) == /\ tree # None /\ tree[chosen].status = "confirm" /\ sup.agreed # None
              /\ control(n, "recover")
cancel(n) == tree # None /\ active(tree[chosen]) /\ control(n, "cancel")

HostTakes(n) == order[n] # None /\ order[n].wire = "sent"
Answered(n, wire) == order' = [order EXCEPT ![n].wire = wire]
Refused(n) == CASE order[n].action = "steer" -> work[order[n].to].status # "running"
                [] order[n].action = "recover" -> work[order[n].to].status # "confirm"
                [] OTHER -> FALSE

hostObeys(n) ==
    /\ HostTakes(n)
    /\ Answered(n, IF Refused(n) THEN "refused" ELSE "done")
    /\ LET t == order[n].to
           ended(u) == active(work[u]) /\ (u = t \/ (t[2] = 0 /\ u \in Workers(t[1])))
       IN work' = CASE Refused(n) \/ order[n].action = "steer" -> work
                    [] order[n].action = "recover" -> [work EXCEPT ![t].status = "running"]
                    [] OTHER -> [u \in Tasks |-> IF ended(u) THEN [work[u] EXCEPT !.status = "done"]
                                                             ELSE work[u]]
    /\ UNCHANGED <<teams, sup, tree, read, squad, mishaps>>

\* The answer is lost, before or after the host obeyed.
orderLost(n) ==
    /\ order[n] # None /\ order[n].wire \in {"sent", "done"}
    /\ Answered(n, "lost")
    /\ Mishap
    /\ UNCHANGED <<hostVars, sup, tree, read, squad>>

Back(q, wires) == q # None /\ q.wire \in wires

\* A bug: an answer is heard whatever task the dialog is at.
HeardAlways(q) == TRUE
Heard(q) == q.origin = sup.generation

\* A bug: only an order that was obeyed gives the buttons back.
DoneAlone(q) == q.wire # "done"
Held(q) == FALSE

orderAnswered(n) ==
    /\ Back(order[n], {"done", "refused", "lost"})
    /\ Answered(n, "heard")
    /\ sup' = IF ~Heard(order[n]) THEN sup
              ELSE [sup EXCEPT !.busy = Held(order[n]),
                    !.message = IF order[n].wire = "done" /\ order[n].action = "steer" THEN 0 ELSE @]
    /\ read' = IF Heard(order[n]) /\ order[n].wire = "done" THEN Reading ELSE read
    /\ UNCHANGED <<hostVars, tree, squad, mishaps>>

-----------------------------------------------------------------------------
(* Building a team. *)

\* Opening the builder starts another team, unless one is under way.
build ==
    /\ tree # None /\ canBuild /\ ~sup.busy /\ Edit
    /\ ~sup.building => sup.creating \/ slots > 0
    /\ LET e == sup.edits + 1 IN
       sup' = IF sup.building THEN [sup EXCEPT !.building = FALSE]
              ELSE IF sup.creating THEN [sup EXCEPT !.building = TRUE]
              ELSE [sup EXCEPT !.building = TRUE, !.form = NewForm(least(2, slots), e),
                               !.result = None, !.requestId = e, !.edits = e]
    /\ UNCHANGED <<hostVars, tree, read, order, squad, mishaps>>

\* A bug: an edit keeps the outcome of the team before it.
KeepResult(form) == [sup EXCEPT !.form = form, !.requestId = form.edit, !.edits = form.edit]

\* An edited team is another request, and has no outcome yet.
editMember(form) == [sup EXCEPT !.form = form, !.requestId = form.edit, !.edits = form.edit,
                                !.result = None]

editTeam ==
    /\ sup.building /\ tree # None /\ canBuild /\ ~sup.busy /\ ~sup.creating /\ Edit
    /\ \E size \in 1..Total, filled \in BOOLEAN :
         /\ size \in {sup.form.size - 1, sup.form.size}
               \cup (IF sup.form.size < slots THEN {sup.form.size + 1} ELSE {})
         /\ size > sup.form.size => ~filled
         /\ size < sup.form.size => filled \/ ~sup.form.filled
         /\ sup' = editMember([size |-> size, filled |-> filled, edit |-> sup.edits + 1])
    /\ UNCHANGED <<hostVars, tree, read, order, squad, mishaps>>

\* A bug: each attempt is a request of its own.
anotherId(n) == sup.edits + n
requestId(n) == sup.requestId

createTeam(n) ==
    /\ sup.building /\ tree # None /\ canBuild /\ validTeam
    /\ ~sup.busy /\ ~sup.creating /\ sup.result = None
    /\ squad[n] = None /\ (n > 1 => squad[n-1] # None)
    /\ squad' = [squad EXCEPT ![n] =
         [root |-> sup.root, origin |-> sup.generation, id |-> requestId(n), form |-> sup.form,
          ok |-> FALSE, wire |-> "sent"]]
    /\ sup' = [sup EXCEPT !.creating = TRUE]
    /\ UNCHANGED <<hostVars, tree, read, order, mishaps>>

teamAnswered(n) ==
    /\ Back(squad[n], {"done", "refused", "lost"})
    /\ squad' = [squad EXCEPT ![n].wire = "heard"]
    /\ sup' = IF ~Heard(squad[n]) THEN sup
              ELSE [sup EXCEPT !.creating = FALSE,
                    !.result = IF squad[n].wire = "done"
                               THEN [of |-> squad[n].root, form |-> squad[n].form, ok |-> squad[n].ok] ELSE @]
    /\ read' = IF Heard(squad[n]) /\ squad[n].wire = "done" THEN Reading ELSE read
    /\ UNCHANGED <<hostVars, tree, order, mishaps>>

teamLost(n) ==
    /\ Back(squad[n], {"sent", "done"})
    /\ squad' = [squad EXCEPT ![n].wire = "lost"]
    /\ Mishap
    /\ UNCHANGED <<hostVars, sup, tree, read, order>>

Assembled(q) == {m \in teams : m.root = q.root /\ m.id = q.id}
Assembling(r) == \E m \in Teams : squad[m] # None /\ squad[m].root = r /\ squad[m].wire = "assembling"
Running(r) == {t \in Workers(r) : active(work[t])}
Made(r) == {t \in Workers(r) : work[t].status # "absent"}
Allowed(q) == /\ work[<<q.root, 0>>].status = "running"
              /\ Cardinality(Running(q.root)) + q.form.size <= Parallel
              /\ Cardinality(Made(q.root)) + q.form.size <= Total

\* One team of a task is put together at a time; a request seen before has
\* its outcome, if there is one, and is never started again.
hostAssembles(n) ==
    /\ squad[n] # None /\ squad[n].wire = "sent" /\ ~Assembling(squad[n].root)
    /\ LET q == squad[n]
           again == \E m \in Assembled(q) : m.finished /\ m.form = q.form
       IN IF Assembled(q) # {} \/ ~Allowed(q)
          THEN /\ squad' = [squad EXCEPT ![n].wire = IF again THEN "done" ELSE "refused",
                              ![n].ok = \E m \in Assembled(q) : again /\ m.made = m.form.size]
               /\ UNCHANGED teams
          ELSE /\ squad' = [squad EXCEPT ![n].wire = "assembling"]
               /\ teams' = teams \cup {[root |-> q.root, id |-> q.id, form |-> q.form,
                                        made |-> 0, finished |-> FALSE]}
    /\ UNCHANGED <<work, sup, tree, read, order, mishaps>>

\* Workers are started until one cannot be.
hostSpawns(n) ==
    /\ squad[n] # None /\ squad[n].wire = "assembling"
    /\ \E made \in {squad[n].form.size} \cup (IF mishaps < MaxMishaps THEN {0} ELSE {}) :
       LET q == squad[n]
           team == CHOOSE m \in Assembled(q) : TRUE
           old == Cardinality(Made(q.root))
       IN /\ mishaps' = IF made < q.form.size THEN mishaps + 1 ELSE mishaps
          /\ work' = [t \in Tasks |-> IF t[1] = q.root /\ t[2] \in (old + 1)..(old + made)
                                      THEN [work[t] EXCEPT !.status = "running"] ELSE work[t]]
          /\ teams' = (teams \ {team}) \cup {[team EXCEPT !.made = made, !.finished = TRUE]}
          /\ squad' = [squad EXCEPT ![n].wire = "done", ![n].ok = (made = q.form.size)]
    /\ UNCHANGED <<sup, tree, read, order>>

-----------------------------------------------------------------------------
(* The host. *)

works(t) ==
    /\ work[t].status = "running"
    /\ t[2] = 0 => Running(t[1]) = {}
    /\ work' = [work EXCEPT ![t].status = "done"]
    /\ UNCHANGED <<teams, sup, tree, read, order, squad, mishaps>>

\* A restart cuts the work of every task short, and every team half made.
restart ==
    /\ Mishap
    /\ work' = [t \in Tasks |-> IF work[t].status = "running"
                                THEN [status |-> "confirm", lapse |-> work[t].lapse + 1] ELSE work[t]]
    /\ squad' = [n \in Teams |-> IF Back(squad[n], {"assembling"})
                                 THEN [squad[n] EXCEPT !.wire = "lost"] ELSE squad[n]]
    /\ UNCHANGED <<teams, sup, tree, read, order>>

Next ==
    \/ hostReads \/ treeArrives \/ readFails \/ poll
    \/ \E r \in Roots : open(r)
    \/ \E k \in 0..Total : select(k)
    \/ setText \/ confirmRecovery \/ build \/ editTeam
    \/ \E n \in Orders : steer(n) \/ recover(n) \/ cancel(n)
                         \/ hostObeys(n) \/ orderLost(n) \/ orderAnswered(n)
    \/ \E n \in Teams : createTeam(n) \/ hostAssembles(n) \/ hostSpawns(n)
                        \/ teamLost(n) \/ teamAnswered(n)
    \/ \E t \in Tasks : works(t)
    \/ restart

\* Requests are answered, or time out; the page polls on a timer.
Fairness ==
    /\ WF_vars(hostReads) /\ WF_vars(treeArrives) /\ WF_vars(poll)
    /\ \A n \in Orders : WF_vars(hostObeys(n)) /\ WF_vars(orderAnswered(n))
    /\ \A n \in Teams : WF_vars(hostAssembles(n)) /\ WF_vars(hostSpawns(n)) /\ WF_vars(teamAnswered(n))

Spec == Init /\ [][Next]_vars /\ Fairness

-----------------------------------------------------------------------------
(* Properties. *)

\* One form makes one team: an answer lost, a second attempt or a restart in
\* the middle never start its workers twice (TaskSupervisor.tsx:20 and 42,
\* swarms.py:20-32).
OneTeamPerForm ==
    \A m, o \in teams : (m.form = o.form /\ m.root = o.root) => m = o

\* The outcome shown is that of the team in the form, for the task the dialog
\* is at (TaskSupervisor.tsx:35 and 42).
OutcomeIsOfThisTeam ==
    sup.result # None => sup.result.of = sup.root /\ sup.result.form = sup.form

\* A text is cleared by the answer to an order only once the host has it, and
\* never by the order of another task (TaskSupervisor.tsx:21 and 38).
TextIsDelivered ==
    [][\A n \in Orders :
         (orderAnswered(n) /\ sup'.message # sup.message) => order[n].text = sup.message]_vars

\* The person agrees to each recovery of a task on its own: the box ticked is
\* about the interruption now on screen (TaskSupervisor.tsx:59).
RecoveryIsAgreed ==
    [][\A n \in Orders : recover(n) => sup.agreed = tree[chosen].lapse]_vars

\* An order or a team asked for is over some time, whatever fails, and its
\* buttons come back (TaskSupervisor.tsx:38 and 42).
OrdersEnd == []<>~sup.busy /\ []<>~sup.creating

=============================================================================
