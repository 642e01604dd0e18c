------------------------- MODULE ScheduledRunsProofs -------------------------
(***************************************************************************)
(* ScheduledRuns for every set of schedules and grants, every budget and    *)
(* every number of runs: claims, tasks and authority.                       *)
(***************************************************************************)
EXTENDS ScheduledRuns, FiniteSetTheorems, TLAPS

Statuses == Open \cup {"cancelled", "needs_attention", "ended"}
Claimed == [of : Schedules, asked : Nat, status : Statuses]

\* What a tick read: runs that were claimed, and rows of schedules.
Read ==
  /\ tick.at = "idle" => tick.scheds = {}
  /\ \A m \in tick.runs : m.id \in DOMAIN run /\ m.status \in Statuses
  /\ \A m \in tick.scheds : m.of \in Schedules /\ m.row \in Row

Types ==
  /\ TypeOK /\ Read
  /\ run \in Seq(Claimed)
  /\ tick = [at |-> tick.at, runs |-> tick.runs, scheds |-> tick.scheds]

\* A run nobody claimed has nothing; a worker is that of a claimed run, and it
\* has made no task until it plans.
Workers ==
  /\ \A r \in Runs \ DOMAIN run : worker[r] = "none" /\ made[r] = 0 /\ task[r] = "none"
  /\ \A r \in Runs : worker[r] \in {"start", "preparing"} => made[r] = 0

\* A task at work has its receipt.
Receipts == \A r \in Runs : task[r] \in ACTIVE => r \in linked

\* An occurrence is queued only where overlaps are, and a tick that has yet to
\* look at the schedule knows of it.
QueuedIsKnown ==
  /\ \A s \in Schedules : sched[s].queued => s \in Overlap
  /\ \A m \in tick.scheds : /\ sched[m.of].queued => m.row.queued
                            /\ m.row.queued => m.of \in Overlap
  /\ \A m, n \in tick.scheds : m.of = n.of => m = n

IInv ==
  /\ Types /\ BudgetHolds /\ Workers /\ RunsAtMostOnce /\ Receipts
  /\ StoppedRunsDoNotWork /\ QueuedIsKnown

-----------------------------------------------------------------------------
(* What a step of one run may do. *)

\* The claimed runs are among those the goal has.
LEMMA RunsInRange ==
    ASSUME Types, BudgetHolds
    PROVE  /\ DOMAIN run = 1 .. Len(run) /\ Len(run) \in Nat
           /\ DOMAIN run \subseteq Runs
           /\ \A r \in DOMAIN run : run[r] \in Claimed /\ Grant(r) \in Grants
<1>1. run \in Seq(Claimed) /\ Len(run) <= MaxRuns /\ MaxRuns \in Nat
  BY ScheduleAssumption DEF Types, BudgetHolds
<1>2. DOMAIN run = 1 .. Len(run) /\ Len(run) \in Nat
  BY <1>1
<1>3. \A r \in DOMAIN run : run[r] \in Claimed
  BY <1>1
<1>4. \A r \in DOMAIN run : Grant(r) \in Grants
  BY <1>3, ScheduleAssumption DEF Grant, Claimed
<1> QED
  BY <1>1, <1>2, <1>3, <1>4 DEF Runs

\* A step of run r: its status, its task, its worker and its receipt, and the
\* schedules stay as they are.
RunStep(r) ==
  /\ r \in DOMAIN run
  /\ UNCHANGED <<rows, now, up, crashes, wanted>>
  /\ \E st \in Statuses : run' = [run EXCEPT ![r].status = st]
  /\ task' \in [Runs -> ACTIVE \cup {"none", "ended"}]
  /\ worker' \in [Runs -> {"none", "start", "preparing", "planning"}]
  /\ made' \in [Runs -> Nat]
  /\ \A q \in Runs \ {r} :
       task'[q] = task[q] /\ worker'[q] = worker[q] /\ made'[q] = made[q]
  /\ linked' \in {linked, linked \cup {r}}
  /\ task'[r] \in ACTIVE => r \in linked'
  /\ run'[r].status \in {"cancelled", "needs_attention"} =>
       task'[r] \in {"none", "cancelling", "ended"}
  /\ worker'[r] \in {"start", "preparing"} => made'[r] = 0
  /\ made'[r] <= 1
  /\ \E m \in SUBSET tick.runs : tick' = [tick EXCEPT !.runs = m]
  /\ stopping' \subseteq stopping /\ other' \in BOOLEAN /\ hold' \in BOOLEAN

\* Writing a status keeps the claims as they are.
LEMMA StatusWritten ==
    ASSUME Types, NEW r \in DOMAIN run, NEW st \in Statuses,
           run' = [run EXCEPT ![r].status = st]
    PROVE  /\ run' \in Seq(Claimed) /\ DOMAIN run' = DOMAIN run /\ Len(run') = Len(run)
           /\ \A q \in DOMAIN run : run'[q].of = run[q].of /\ Grant(q)' = Grant(q)
           /\ \A q \in DOMAIN run \ {r} : run'[q] = run[q]
           /\ run'[r].status = st
<1>1. run \in Seq(Claimed) /\ run[r] \in Claimed
  BY DEF Types
<1>2. [run[r] EXCEPT !.status = st] \in Claimed
  BY <1>1 DEF Claimed
<1>3. run' = [run EXCEPT ![r] = [run[r] EXCEPT !.status = st]]
  OBVIOUS
<1>4. run' \in Seq(Claimed) /\ DOMAIN run' = DOMAIN run /\ Len(run') = Len(run)
  BY <1>1, <1>2, <1>3
<1>5. \A q \in DOMAIN run : run'[q].of = run[q].of
  BY <1>1, <1>3
<1>6. run'[r].status = st
  BY <1>1, <1>3 DEF Claimed
<1>7. \A q \in DOMAIN run \ {r} : run'[q] = run[q]
  BY <1>1, <1>3
<1> QED
  BY <1>4, <1>5, <1>6, <1>7 DEF Grant

LEMMA RunStepKeeps ==
    ASSUME IInv, NEW r, RunStep(r)
    PROVE  IInv'
<1> USE DEF IInv
<1>1. PICK st \in Statuses : run' = [run EXCEPT ![r].status = st]
  BY DEF RunStep
<1>2. PICK m \in SUBSET tick.runs : tick' = [tick EXCEPT !.runs = m]
  BY DEF RunStep
<1>3. r \in DOMAIN run /\ r \in Runs /\ DOMAIN run \subseteq Runs
  BY RunsInRange DEF RunStep
<1>4. /\ run' \in Seq(Claimed) /\ DOMAIN run' = DOMAIN run /\ Len(run') = Len(run)
      /\ \A q \in DOMAIN run : run'[q].of = run[q].of /\ Grant(q)' = Grant(q)
      /\ \A q \in DOMAIN run \ {r} : run'[q] = run[q]
      /\ run'[r].status = st
  BY <1>1, <1>3, StatusWritten
<1>5. /\ tick' = [at |-> tick.at, runs |-> m, scheds |-> tick.scheds]
      /\ tick'.at = tick.at /\ tick'.runs \subseteq tick.runs /\ tick'.scheds = tick.scheds
  BY <1>2 DEF Types
<1>6. Types'
  <2>1. \A q \in DOMAIN run' : run'[q] \in Claimed
    BY <1>4
  <2>2. Read'
    BY <1>4, <1>5 DEF Types, Read
  <2>3. TypeOK'
    BY <1>3, <1>4, <1>5, <2>1 DEF Types, TypeOK, RunStep, rows, Claimed, Statuses, Row
  <2> QED
    BY <1>4, <1>5, <2>2, <2>3 DEF Types
<1>7. BudgetHolds'
  <2>1. \A g \in Grants :
          {q \in DOMAIN run' : Grant(q)' = g} = {q \in DOMAIN run : Grant(q) = g}
    BY <1>4
  <2>2. used' = used /\ started' = started
    BY DEF RunStep, rows
  <2> QED
    BY <1>4, <2>1, <2>2 DEF BudgetHolds
<1>8. Workers' /\ RunsAtMostOnce' /\ Receipts'
  BY <1>3, <1>4 DEF RunStep, Workers, RunsAtMostOnce, Receipts
<1>9. StoppedRunsDoNotWork'
  BY <1>3, <1>4 DEF RunStep, StoppedRunsDoNotWork
<1>10. QueuedIsKnown'
  BY <1>5 DEF RunStep, rows, QueuedIsKnown
<1> QED
  BY <1>6, <1>7, <1>8, <1>9, <1>10

\* A step that leaves claims, tasks and workers alone.
LEMMA FrameKeeps ==
    ASSUME IInv, UNCHANGED <<used, started, run, task, linked, made, worker>>,
           Types', QueuedIsKnown'
    PROVE  IInv'
<1> USE DEF IInv
<1>1. \A q : Grant(q)' = Grant(q)
  BY DEF Grant
<1>2. BudgetHolds'
  BY <1>1 DEF BudgetHolds
<1> QED
  BY <1>2 DEF Workers, RunsAtMostOnce, Receipts, StoppedRunsDoNotWork

-----------------------------------------------------------------------------
(* The handlers and the workers of one run. *)

\* Stopping a task is no task at work, and needs no new receipt.
LEMMA StoppedTask ==
    ASSUME IInv, NEW r \in Runs
    PROVE  /\ Stopped(r) \in [Runs -> ACTIVE \cup {"none", "ended"}]
           /\ \A q \in Runs \ {r} : Stopped(r)[q] = task[q]
           /\ Stopped(r)[r] \in {"none", "cancelling", "ended"}
           /\ Stopped(r)[r] \in ACTIVE => r \in linked
<1>1. task \in [Runs -> ACTIVE \cup {"none", "ended"}]
  BY DEF IInv, Types, TypeOK
<1>2. linked \subseteq DOMAIN run /\ (task[r] \in ACTIVE => r \in linked)
  BY DEF IInv, Types, TypeOK, Receipts
<1>3. CASE r \in Turns
  BY <1>1, <1>3 DEF Stopped, Turns, ACTIVE
<1>4. CASE r \notin Turns
  <2>1. Stopped(r) = task /\ task[r] \notin ACTIVE
    BY <1>2, <1>4 DEF Stopped, Turns
  <2> QED
    BY <1>1, <2>1 DEF ACTIVE
<1> QED
  BY <1>3, <1>4

\* What is known of a claimed run before a step.
LEMMA RunBefore ==
    ASSUME IInv, NEW r \in DOMAIN run
    PROVE  /\ r \in Runs /\ run[r].status \in Statuses
           /\ run = [run EXCEPT ![r].status = run[r].status]
           /\ task \in [Runs -> ACTIVE \cup {"none", "ended"}]
           /\ worker \in [Runs -> {"none", "start", "preparing", "planning"}]
           /\ made \in [Runs -> Nat] /\ made[r] <= 1
           /\ (task[r] \in ACTIVE => r \in linked)
           /\ (run[r].status \in {"cancelled", "needs_attention"} =>
                 task[r] \in {"none", "cancelling", "ended"})
           /\ (worker[r] \in {"start", "preparing"} => made[r] = 0)
           /\ stopping \subseteq stopping /\ tick = [tick EXCEPT !.runs = tick.runs]
           /\ other \in BOOLEAN /\ hold \in BOOLEAN
<1>1. r \in Runs /\ run[r] \in Claimed
  BY RunsInRange DEF IInv
<1>2. run = [run EXCEPT ![r].status = run[r].status]
  BY <1>1 DEF IInv, Types, Claimed
<1>3. tick = [tick EXCEPT !.runs = tick.runs]
  BY DEF IInv, Types
<1> QED
  BY <1>1, <1>2, <1>3 DEF IInv, Types, TypeOK, Workers, RunsAtMostOnce, Receipts,
     StoppedRunsDoNotWork, Claimed

\* A run that is cancelled, whoever does it.
LEMMA CancelRunKeeps ==
    ASSUME IInv, NEW r \in DOMAIN run, CancelRun(r),
           UNCHANGED <<rows, linked, made, other, now, up, crashes, wanted>>,
           stopping' \subseteq stopping, hold' \in BOOLEAN,
           \E m \in SUBSET tick.runs : tick' = [tick EXCEPT !.runs = m]
    PROVE  RunStep(r)
<1>1. run' = [run EXCEPT ![r].status = "cancelled"] /\ "cancelled" \in Statuses
  BY DEF CancelRun, SetStatus, Statuses
<1>2. task' = Stopped(r) /\ worker' = [worker EXCEPT ![r] = "none"]
  BY DEF CancelRun
<1> QED
  BY <1>1, <1>2, RunBefore, StoppedTask DEF RunStep

LEMMA UserStops ==
    ASSUME IInv, NEW r \in Runs, StopRun(r) \/ StopNext(r)
    PROVE  RunStep(r)
<1>1. CASE StopRun(r)
  BY <1>1, CancelRunKeeps, RunBefore DEF StopRun, loop, rest, rows
<1>2. CASE StopNext(r)
  BY <1>2, CancelRunKeeps, RunBefore
     DEF StopNext, loop, host, rows, IInv, Types, TypeOK
<1> QED
  BY <1>1, <1>2

LEMMA TaskStops ==
    ASSUME IInv, NEW r \in Runs, StopTask(r) \/ TaskEnds(r)
    PROVE  RunStep(r)
<1>1. r \in DOMAIN run
  BY DEF StopTask, TaskEnds, Turns, IInv, Types, TypeOK, Receipts, ACTIVE
<1>2. CASE StopTask(r)
  BY <1>1, <1>2, RunBefore, StoppedTask DEF StopTask, RunStep, rest, loop, rows
<1>3. CASE TaskEnds(r)
  <2>1. task' = [task EXCEPT ![r] = "ended"]
    BY <1>3 DEF TaskEnds
  <2> QED
    BY <1>1, <1>3, <2>1, RunBefore DEF TaskEnds, RunStep, rest, loop, rows, ACTIVE
<1> QED
  BY <1>2, <1>3

\* An exception stops the run, unless the user did.
LEMMA FailKeeps ==
    ASSUME IInv, NEW r \in DOMAIN run, Fail(r),
           UNCHANGED <<rows, linked, made, other, loop, rest>>
    PROVE  RunStep(r)
<1>1. worker' = [worker EXCEPT ![r] = "none"]
  BY DEF Fail, Goto
<1>2. CASE run[r].status = "cancelled"
  BY <1>1, <1>2, RunBefore DEF Fail, RunStep, rest, loop, rows
<1>3. CASE run[r].status # "cancelled"
  <2>1. /\ run' = [run EXCEPT ![r].status = "needs_attention"]
        /\ "needs_attention" \in Statuses /\ task' = Stopped(r)
    BY <1>3 DEF Fail, SetStatus, Statuses
  <2> QED
    BY <1>1, <2>1, RunBefore, StoppedTask DEF RunStep, rest, loop, rows
<1> QED
  BY <1>2, <1>3

LEMMA ExecuteStep ==
    ASSUME IInv, NEW r \in Runs, Execute(r)
    PROVE  RunStep(r)
<1>1. r \in DOMAIN run
  BY DEF Execute, Prepare, Create, SendFails, PlanReady, Planned, At, IInv, Workers
<1> USE RunBefore DEF RunStep, rest, loop, rows
<1>2. CASE Prepare(r)
  <2>1. CASE Goto(r, "preparing") /\ UNCHANGED <<run, task>>
    BY <1>1, <1>2, <2>1 DEF Prepare, Goto, At
  <2>2. CASE Fail(r)
    BY <1>1, <1>2, <2>2, FailKeeps DEF Prepare
  <2> QED
    BY <1>2, <2>1, <2>2 DEF Prepare
<1>3. CASE Create(r)
  <2>1. /\ made' = [made EXCEPT ![r] = 1] /\ linked' = linked \cup {r}
        /\ task' = [task EXCEPT ![r] = "planning"] /\ run' = run
        /\ worker' = [worker EXCEPT ![r] = "planning"] /\ run[r].status \in Open
    <3>1. made[r] = 0 /\ made' = [made EXCEPT ![r] = @ + 1]
      BY <1>1, <1>3 DEF Create, At
    <3>2. made' = [made EXCEPT ![r] = 1]
      BY <1>1, <3>1
    <3> QED
      BY <1>3, <3>2 DEF Create, Guard, Goto
  <2>2. UNCHANGED <<sched, used, started, live, goal, target, tick, hold, stopping, other,
                    now, up, crashes, wanted>>
    BY <1>3 DEF Create
  <2>3. /\ task' \in [Runs -> ACTIVE \cup {"none", "ended"}]
        /\ worker' \in [Runs -> {"none", "start", "preparing", "planning"}]
        /\ made' \in [Runs -> Nat] /\ made'[r] = 1 /\ worker'[r] = "planning"
        /\ \A q \in Runs \ {r} :
             task'[q] = task[q] /\ worker'[q] = worker[q] /\ made'[q] = made[q]
    BY <1>1, <2>1 DEF ACTIVE
  <2>4. run'[r].status \notin {"cancelled", "needs_attention"}
    BY <2>1 DEF Open
  <2>5. /\ \E st \in Statuses : run' = [run EXCEPT ![r].status = st]
        /\ \E m \in SUBSET tick.runs : tick' = [tick EXCEPT !.runs = m]
    <3>1. /\ run[r].status \in Statuses /\ run' = [run EXCEPT ![r].status = run[r].status]
          /\ tick' = [tick EXCEPT !.runs = tick.runs]
      BY <1>1, <2>1, <2>2
    <3> QED
      BY <3>1
  <2>6. stopping' \subseteq stopping /\ other' \in BOOLEAN /\ hold' \in BOOLEAN
    BY <1>1, <2>2
  <2>7. UNCHANGED <<rows, now, up, crashes, wanted>>
    BY <2>2
  <2>8. /\ linked' \in {linked, linked \cup {r}} /\ r \in linked'
        /\ worker'[r] \notin {"start", "preparing"} /\ made'[r] <= 1
    BY <2>1, <2>3
  <2> HIDE RunBefore DEF rows
  <2> QED
    BY <1>1, <2>3, <2>4, <2>5, <2>6, <2>7, <2>8
<1>4. CASE SendFails(r)
  BY <1>1, <1>4, FailKeeps DEF SendFails
<1>5. CASE PlanReady(r)
  <2>1. PICK t \in {"plan", "active"} : task' = [task EXCEPT ![r] = t]
    BY <1>5 DEF PlanReady
  <2>2. task[r] = "planning" /\ t \in ACTIVE
    BY <1>5 DEF PlanReady, ACTIVE
  <2> QED
    BY <1>1, <1>5, <2>1, <2>2 DEF PlanReady, ACTIVE
<1>6. CASE Planned(r)
  <2>1. CASE Goto(r, "none") /\ task' = Stopped(r) /\ UNCHANGED run
    BY <1>1, <1>6, <2>1, StoppedTask DEF Planned, Goto
  <2>2. CASE /\ Goto(r, "none") /\ SetStatus(r, "running")
             /\ task' = IF task[r] = "plan" THEN [task EXCEPT ![r] = "active"] ELSE task
    <3>1. run' = [run EXCEPT ![r].status = "running"] /\ "running" \in Statuses
      BY <2>2 DEF SetStatus, Statuses, Open
    <3>2. run'[r].status = "running"
      BY <1>1, <3>1, StatusWritten DEF IInv
    <3>3. worker' = [worker EXCEPT ![r] = "none"]
      BY <2>2 DEF Goto
    <3>4. /\ task' \in [Runs -> ACTIVE \cup {"none", "ended"}]
          /\ \A q \in Runs \ {r} : task'[q] = task[q]
          /\ task'[r] \in ACTIVE => r \in linked
      BY <1>1, <2>2 DEF ACTIVE
    <3> QED
      BY <1>1, <1>6, <3>1, <3>2, <3>3, <3>4 DEF Planned
  <2>3. CASE Fail(r)
    BY <1>1, <1>6, <2>3, FailKeeps DEF Planned
  <2> QED
    BY <1>6, <2>1, <2>2, <2>3 DEF Planned
<1> QED
  BY <1>2, <1>3, <1>4, <1>5, <1>6 DEF Execute

LEMMA ReconcileStep ==
    ASSUME IInv, ReconcileRun
    PROVE  \E r \in DOMAIN run : RunStep(r)
<1> USE RunBefore
<1>1. PICK m \in tick.runs :
        LET r == m.id
            known == m.status = "running" \/ r \in linked
        IN
        /\ Ticking("runs")
        /\ tick' = [tick EXCEPT !.runs = @ \ {m}]
        /\ \/ /\ ~Authority(Grant(r)) /\ (m.status = "dispatching" \/ r \in Turns)
              /\ CancelRun(r) /\ hold' = FALSE
           \/ /\ Authority(Grant(r)) /\ r \in Turns
              /\ task' = IF task[r] = "plan" THEN [task EXCEPT ![r] = "active"] ELSE task
              /\ hold' = (task[r] # "plan")
              /\ SetStatus(r, "running") /\ UNCHANGED worker
           \/ /\ m.status = "dispatching" => Authority(Grant(r))
              /\ known /\ r \notin Turns
              /\ SetStatus(r, "ended")
              /\ hold' = TRUE /\ UNCHANGED <<task, worker>>
           \/ /\ Authority(Grant(r)) /\ ~known
              /\ hold' = TRUE /\ UNCHANGED <<run, task, worker>>
        /\ UNCHANGED <<sched, budget, authority, linked, made, other, stopping, now, host,
                       wanted>>
  BY DEF ReconcileRun
<1> DEFINE r == m.id
<1>2. r \in DOMAIN run
  BY DEF IInv, Types, Read
<1>3. \E n \in SUBSET tick.runs : tick' = [tick EXCEPT !.runs = n]
  <2>1. tick.runs \ {m} \in SUBSET tick.runs
    OBVIOUS
  <2> QED
    BY <1>1, <2>1
<1>4. UNCHANGED <<sched, used, started, live, goal, target, linked, made, other, stopping,
                  now, up, crashes, wanted>>
  BY <1>1 DEF budget, authority, host
<1>5. CASE CancelRun(r) /\ hold' = FALSE
  BY <1>2, <1>3, <1>4, <1>5, CancelRunKeeps DEF rows
<1>6. CASE /\ task' = IF task[r] = "plan" THEN [task EXCEPT ![r] = "active"] ELSE task
           /\ hold' = (task[r] # "plan")
           /\ SetStatus(r, "running") /\ UNCHANGED worker
  <2>1. run' = [run EXCEPT ![r].status = "running"] /\ "running" \in Statuses
    BY <1>6 DEF SetStatus, Statuses, Open
  <2>2. run'[r].status = "running"
    BY <1>2, <2>1, StatusWritten DEF IInv
  <2>3. /\ task' \in [Runs -> ACTIVE \cup {"none", "ended"}]
        /\ \A q \in Runs \ {r} : task'[q] = task[q]
        /\ task'[r] \in ACTIVE => r \in linked
    BY <1>2, <1>6 DEF ACTIVE
  <2> QED
    BY <1>2, <1>3, <1>4, <1>6, <2>1, <2>2, <2>3 DEF RunStep, rows
<1>7. CASE SetStatus(r, "ended") /\ hold' = TRUE /\ UNCHANGED <<task, worker>>
  <2>1. run' = [run EXCEPT ![r].status = "ended"] /\ "ended" \in Statuses
    BY <1>7 DEF SetStatus, Statuses
  <2>2. run'[r].status = "ended"
    <3> HIDE RunBefore
    <3>1. Types
      BY DEF IInv
    <3> QED
      BY <1>2, <2>1, <3>1, StatusWritten
  <2> QED
    BY <1>2, <1>3, <1>4, <1>7, <2>1, <2>2 DEF RunStep, rows
<1>8. CASE hold' = TRUE /\ UNCHANGED <<run, task, worker>>
  BY <1>2, <1>3, <1>4, <1>8 DEF RunStep, rows
<1> QED
  BY <1>1, <1>2, <1>5, <1>6, <1>7, <1>8

-----------------------------------------------------------------------------
(* The schedules, their claims, the tick, and the host. *)

\* A row that was read is written with a revision of its own.
LEMMA PutRow ==
    ASSUME Types, NEW s \in Schedules, NEW b \in Row, Put(s, b)
    PROVE  /\ sched' \in [Schedules -> Row]
           /\ sched'[s].queued = b.queued
           /\ \A t \in Schedules \ {s} : sched'[t] = sched[t]
<1>1. sched \in [Schedules -> Row]
  BY DEF Types, TypeOK
<1>2. sched[s].rev + 1 \in Nat
  BY <1>1 DEF Row
<1>3. [b EXCEPT !.rev = sched[s].rev + 1] \in Row
  BY <1>2 DEF Row
<1>4. [b EXCEPT !.rev = sched[s].rev + 1].queued = b.queued
  BY DEF Row
<1> QED
  BY <1>1, <1>3, <1>4 DEF Put

\* The rows that are written are rows.
LEMMA RowsWritten ==
    ASSUME Types, NEW s \in Schedules, NEW b \in Row
    PROVE  /\ [b EXCEPT !.enabled = FALSE] \in Row
           /\ [b EXCEPT !.enabled = FALSE].queued = b.queued
           /\ [b EXCEPT !.queued = TRUE] \in Row /\ [b EXCEPT !.queued = TRUE].queued
           /\ [b EXCEPT !.queued = FALSE] \in Row /\ ~[b EXCEPT !.queued = FALSE].queued
           /\ Advance(s, b) \in Row /\ ~Advance(s, b).queued
<1>1. now + Period[s] \in Nat
  BY ScheduleAssumption DEF Types, TypeOK
<1> QED
  BY <1>1 DEF Row, Advance

\* The handlers that write a schedule leave it queued only if it was.
LEMMA UserRow ==
    ASSUME IInv, NEW s \in Schedules, pause(s) \/ resume(s) \/ edit(s) \/ archive(s)
    PROVE  IInv'
<1>1. sched[s] \in Row /\ now + Period[s] \in Nat
  BY ScheduleAssumption DEF IInv, Types, TypeOK
<1>2. \E b \in Row : Put(s, b) /\ (b.queued => sched[s].queued)
  <2>1. CASE pause(s)
    <3>1. [sched[s] EXCEPT !.enabled = FALSE, !.queued = FALSE] \in Row
      BY <1>1 DEF Row
    <3> QED
      BY <1>1, <2>1, <3>1 DEF pause, Row
  <2>2. CASE resume(s)
    <3> DEFINE b == [sched[s] EXCEPT !.enabled = TRUE, !.queued = FALSE,
                                     !.next = IF Period[s] = 0 THEN @ ELSE now + Period[s]]
    <3>1. b \in Row /\ b.queued = FALSE
      BY <1>1 DEF Row
    <3>2. Put(s, b)
      BY <2>2 DEF resume
    <3> QED
      BY <3>1, <3>2
  <2>3. CASE edit(s)
    <3>1. [sched[s] EXCEPT !.next = now + Period[s], !.queued = FALSE] \in Row
      BY <1>1 DEF Row
    <3>2. ~[sched[s] EXCEPT !.next = now + Period[s], !.queued = FALSE].queued
      BY <1>1 DEF Row
    <3> QED
      BY <1>1, <2>3, <3>1, <3>2 DEF edit
  <2>4. CASE archive(s)
    <3>1. [sched[s] EXCEPT !.enabled = FALSE, !.archived = TRUE] \in Row
      BY <1>1 DEF Row
    <3>2. [sched[s] EXCEPT !.enabled = FALSE, !.archived = TRUE].queued = sched[s].queued
      BY <1>1 DEF Row
    <3> QED
      BY <2>4, <3>1, <3>2 DEF archive
  <2> QED
    BY <2>1, <2>2, <2>3, <2>4
<1>3. PICK b \in Row : Put(s, b) /\ (b.queued => sched[s].queued)
  BY <1>2
<1>4. /\ sched' \in [Schedules -> Row]
      /\ \A t \in Schedules : sched'[t].queued => sched[t].queued
  BY <1>3, PutRow DEF IInv
<1>5. UNCHANGED <<used, started, live, goal, target, run, task, linked, made, other, worker,
                  tick, hold, stopping, now, up, crashes>>
      /\ wanted' \subseteq Schedules
  BY DEF pause, resume, edit, archive, Unscheduled, budget, authority, tasks, loop, host,
         IInv, Types, TypeOK
<1>6. Types'
  BY <1>4, <1>5 DEF IInv, Types, TypeOK, Read
<1>7. QueuedIsKnown'
  BY <1>4, <1>5 DEF IInv, QueuedIsKnown, Types, Read
<1> QED
  BY <1>5, <1>6, <1>7, FrameKeeps

\* A revocation and a cancelled goal disable schedules and look for runs.
LEMMA RevokeKeeps ==
    ASSUME IInv, cancel_goal \/ \E g \in Grants : revoke(g)
    PROVE  IInv'
<1>1. sched \in [Schedules -> Row]
  BY DEF IInv, Types, TypeOK
<1>2. \A s \in Schedules :
        /\ [sched[s] EXCEPT !.enabled = FALSE, !.rev = @ + 1] \in Row
        /\ [sched[s] EXCEPT !.enabled = FALSE, !.rev = @ + 1].queued = sched[s].queued
  <2> SUFFICES ASSUME NEW s \in Schedules
               PROVE  /\ [sched[s] EXCEPT !.enabled = FALSE, !.rev = @ + 1] \in Row
                      /\ [sched[s] EXCEPT !.enabled = FALSE, !.rev = @ + 1].queued
                            = sched[s].queued
    OBVIOUS
  <2>1. sched[s] \in Row /\ sched[s].rev + 1 \in Nat
    BY <1>1 DEF Row
  <2> QED
    BY <2>1 DEF Row
<1>3. /\ sched' \in [Schedules -> Row]
      /\ \A s \in Schedules : sched'[s].queued = sched[s].queued
  <2>1. CASE cancel_goal
    BY <1>1, <1>2, <2>1 DEF cancel_goal
  <2>2. CASE \E g \in Grants : revoke(g)
    <3>1. PICK g \in Grants :
            sched' = [s \in Schedules |-> IF GrantOf[s] # g THEN sched[s] ELSE
                        [sched[s] EXCEPT !.enabled = FALSE, !.rev = @ + 1]]
      BY <2>2 DEF revoke
    <3>2. \A s \in Schedules :
            /\ sched'[s] \in Row /\ sched'[s].queued = sched[s].queued
      BY <1>1, <1>2, <3>1
    <3> QED
      BY <3>1, <3>2
  <2> QED
    BY <2>1, <2>2
<1>4. /\ UNCHANGED <<used, started, target, run, task, linked, made, other, worker, tick,
                     hold, now, up, crashes, wanted>>
      /\ live' \subseteq live /\ goal' \in BOOLEAN /\ stopping' \subseteq DOMAIN run
  BY DEF cancel_goal, revoke, budget, tasks, loop, host, IInv, Types, TypeOK
<1>5. Types'
  BY <1>3, <1>4 DEF IInv, Types, TypeOK, Read
<1>6. QueuedIsKnown'
  BY <1>3, <1>4 DEF IInv, QueuedIsKnown, Types, Read
<1> QED
  BY <1>4, <1>5, <1>6, FrameKeeps

\* The world around: authority, the clock, and the user's own turn.
LEMMA AroundKeeps ==
    ASSUME IInv,
           \/ \E g \in Grants : Expire(g)
           \/ TargetChanges \/ Clock \/ UserTurn \/ UserTurnEnds \/ UNCHANGED vars
    PROVE  IInv'
<1>1. /\ UNCHANGED <<sched, used, started, run, task, linked, made, worker, tick, hold,
                     stopping, up, crashes, wanted>>
      /\ live' \subseteq live /\ goal' = goal /\ target' \in BOOLEAN /\ other' \in BOOLEAN
      /\ now' \in Nat
  <2>1. /\ live \subseteq live /\ target \in BOOLEAN /\ other \in BOOLEAN
        /\ now \in Nat /\ now + 1 \in Nat
    BY DEF IInv, Types, TypeOK
  <2>2. CASE \E g \in Grants : Expire(g)
    BY <2>1, <2>2 DEF Expire, rest, budget, tasks, loop
  <2>3. CASE TargetChanges
    BY <2>1, <2>3 DEF TargetChanges, rest, budget, tasks, loop
  <2>4. CASE Clock
    BY <2>1, <2>4 DEF Clock, rows, tasks, loop, host
  <2>5. CASE UserTurn \/ UserTurnEnds
    BY <2>1, <2>5 DEF UserTurn, UserTurnEnds, rows, rest, tasks, loop
  <2>6. CASE UNCHANGED vars
    BY <2>1, <2>6 DEF vars
  <2> QED
    BY <2>2, <2>3, <2>4, <2>5, <2>6
<1>2. Types'
  BY <1>1 DEF IInv, Types, TypeOK, Read
<1>3. QueuedIsKnown'
  BY <1>1 DEF IInv, QueuedIsKnown
<1> QED
  BY <1>1, <1>2, <1>3, FrameKeeps

\* A tick begins, turns to the schedules, and ends.
LEMMA TickKeeps ==
    ASSUME IInv, StartTick \/ ReadSchedules \/ EndTick
    PROVE  IInv'
<1>1. /\ UNCHANGED <<sched, used, started, live, goal, target, run, task, linked, made,
                     other, worker, stopping, now, up, crashes, wanted>>
      /\ hold' \in BOOLEAN
  BY DEF StartTick, ReadSchedules, EndTick, rows, tasks, rest
<1>2. CASE StartTick
  <2>1. tick' = [at |-> "runs", scheds |-> {},
                 runs |-> {[id |-> r, status |-> run[r].status] : r \in
                            {q \in DOMAIN run : run[q].status \in Open}}]
    BY <1>2 DEF StartTick, Idle
  <2>2. Types'
    BY <1>1, <2>1 DEF IInv, Types, TypeOK, Read, Statuses
  <2>3. QueuedIsKnown'
    BY <1>1, <2>1 DEF IInv, QueuedIsKnown
  <2> QED
    BY <1>1, <2>2, <2>3, FrameKeeps
<1>3. CASE ReadSchedules
  <2>1. tick' = [at |-> "schedules", runs |-> {},
                 scheds |-> {[of |-> s, row |-> sched[s]] : s \in
                              {q \in Schedules : sched[q].enabled}}]
    BY <1>3 DEF ReadSchedules, Idle
  <2>2. \A m \in tick'.scheds : m.of \in Schedules /\ m.row = sched[m.of] /\ m.row \in Row
    BY <2>1 DEF IInv, Types, TypeOK
  <2>3. \A m, n \in tick'.scheds : m.of = n.of => m = n
    BY <2>1
  <2>4. Types'
    BY <1>1, <2>1, <2>2 DEF IInv, Types, TypeOK, Read
  <2>5. QueuedIsKnown'
    BY <1>1, <2>2, <2>3 DEF IInv, QueuedIsKnown
  <2> QED
    BY <1>1, <2>4, <2>5, FrameKeeps
<1>4. CASE EndTick
  <2>1. tick' = [at |-> "idle", runs |-> {}, scheds |-> {}]
    BY <1>4 DEF EndTick, Idle
  <2>2. Types'
    BY <1>1, <2>1 DEF IInv, Types, TypeOK, Read
  <2>3. QueuedIsKnown'
    BY <1>1, <2>1 DEF IInv, QueuedIsKnown
  <2> QED
    BY <1>1, <2>2, <2>3, FrameKeeps
<1> QED
  BY <1>2, <1>3, <1>4

\* A claim: one more run of the goal and of the grant, with a worker that has
\* made nothing yet.
LEMMA ClaimKeeps ==
    ASSUME IInv, NEW s \in Schedules, NEW b \in Row, NEW asked \in Nat,
           Claim(s, b, asked), ~Denied(s), sched[s].queued => b.queued,
           UNCHANGED <<live, goal, target, task, linked, made, other, stopping, now, up,
                       crashes, wanted>>,
           hold' \in BOOLEAN,
           tick' = [tick EXCEPT !.scheds = {n \in @ : n.of # s}]
    PROVE  IInv'
<1> DEFINE g == GrantOf[s]
           c == [of |-> s, asked |-> asked, status |-> "dispatching"]
<1> USE DEF IInv
<1>0. PICK r : r = Len(run) + 1
  OBVIOUS
<1>1. /\ DOMAIN run = 1 .. Len(run) /\ Len(run) \in Nat /\ run \in Seq(Claimed)
      /\ DOMAIN run \subseteq Runs /\ r \notin DOMAIN run /\ g \in Grants
      /\ r \in Nat /\ r = Len(run) + 1
  BY <1>0, RunsInRange, ScheduleAssumption DEF Types
<1>2. started = Len(run) /\ started < MaxRuns /\ used[g] < GrantRuns[g]
  BY <1>1, ScheduleAssumption DEF Denied, BudgetHolds, Types, TypeOK
<1>3. r \in Runs
  BY <1>1, <1>2, ScheduleAssumption DEF Runs
<1>4. c \in Claimed
  BY DEF Claimed, Statuses, Open
<1>5. /\ run' \in Seq(Claimed) /\ Len(run') = r /\ DOMAIN run' = DOMAIN run \cup {r}
      /\ run'[r] = c /\ \A q \in DOMAIN run : run'[q] = run[q]
  <2>1. run' = Append(run, c)
    BY DEF Claim
  <2>2. run' \in Seq(Claimed) /\ Len(run') = r
    BY <1>1, <1>4, <2>1
  <2>3. run'[r] = c /\ \A q \in DOMAIN run : run'[q] = run[q]
    BY <1>1, <1>4, <2>1
  <2>4. DOMAIN run' = 1 .. r
    BY <2>2
  <2>5. 1 .. r = (1 .. Len(run)) \cup {r}
    BY <1>1
  <2> QED
    BY <1>1, <2>2, <2>3, <2>4, <2>5
<1>6. sched' \in [Schedules -> Row] /\ ~sched'[s].queued
      /\ \A t \in Schedules \ {s} : sched'[t] = sched[t]
  <2> DEFINE a == IF asked # 0 THEN [b EXCEPT !.queued = FALSE] ELSE Advance(s, b)
  <2>1. a \in Row /\ ~a.queued
    BY RowsWritten
  <2>2. Put(s, a)
    BY DEF Claim
  <2> HIDE DEF a
  <2> QED
    BY <2>1, <2>2, PutRow
<1>7. worker' = [worker EXCEPT ![r] = "start"]
      /\ used' = [used EXCEPT ![g] = @ + 1] /\ started' = started + 1
  BY <1>0 DEF Claim
<1>8. tick' = [at |-> tick.at, runs |-> tick.runs, scheds |-> {n \in tick.scheds : n.of # s}]
  BY DEF Types
<1>9. Types'
  <2>1. Read'
    BY <1>5, <1>8 DEF Types, Read
  <2>2. used' \in [Grants -> Nat] /\ started' \in Nat
    BY <1>1, <1>7 DEF Types, TypeOK
  <2>3. \A q \in DOMAIN run' : run'[q] \in Claimed
    BY <1>4, <1>5 DEF Types
  <2>4. worker' \in [Runs -> {"none", "start", "preparing", "planning"}]
    BY <1>3, <1>7 DEF Types, TypeOK
  <2>5. TypeOK'
    BY <1>5, <1>6, <1>8, <2>2, <2>3, <2>4 DEF Types, TypeOK, Claimed, Statuses
  <2> QED
    BY <1>5, <1>8, <2>1, <2>5 DEF Types
<1>10. BudgetHolds'
  <2> DEFINE Of(h) == {q \in DOMAIN run : Grant(q) = h}
             Now(h) == {q \in DOMAIN run' : Grant(q)' = h}
  <2>1. \A q \in DOMAIN run : Grant(q)' = Grant(q)
    BY <1>5 DEF Grant
  <2>2. Grant(r)' = g
    BY <1>5 DEF Grant
  <2>3. \A h \in Grants : IsFiniteSet(Of(h))
    <3>1. IsFiniteSet(1 .. Len(run))
      <4>1. Len(run) \in Int /\ 1 \in Int
        BY <1>1
      <4> QED
        BY <4>1, FS_Interval
    <3>2. \A h \in Grants : Of(h) \in SUBSET (1 .. Len(run))
      BY <1>1
    <3> QED
      BY <3>1, <3>2, FS_Subset
  <2>4. \A h \in Grants \ {g} : Now(h) = Of(h)
    BY <1>5, <2>1, <2>2
  <2>5. Now(g) = Of(g) \cup {r} /\ r \notin Of(g)
    BY <1>1, <1>5, <2>1, <2>2
  <2>6. Cardinality(Now(g)) = Cardinality(Of(g)) + 1
    BY <1>1, <2>3, <2>5, FS_AddElement
  <2>7. \A h \in Grants : used[h] = Cardinality(Of(h)) /\ used[h] <= GrantRuns[h]
                          /\ used[h] \in Nat /\ GrantRuns[h] \in Nat
    BY ScheduleAssumption DEF BudgetHolds, Types, TypeOK
  <2>8. ASSUME NEW h \in Grants
        PROVE  used'[h] = Cardinality(Now(h)) /\ used'[h] <= GrantRuns[h]
    <3>1. CASE h = g
      <4>1. used'[h] = used[g] + 1
        BY <1>1, <1>7, <3>1 DEF Types, TypeOK
      <4> HIDE DEF Of, Now
      <4> QED
        BY <1>1, <1>2, <2>6, <2>7, <3>1, <4>1
    <3>2. CASE h # g
      <4>1. used'[h] = used[h]
        BY <1>1, <1>7, <3>2 DEF Types, TypeOK
      <4> QED
        BY <2>4, <2>7, <3>2, <4>1
    <3> QED
      BY <3>1, <3>2
  <2>9. started' = Len(run') /\ started' <= MaxRuns
    BY <1>1, <1>2, <1>5, <1>7, ScheduleAssumption
  <2> QED
    BY <2>8, <2>9 DEF BudgetHolds
<1>11. Workers' /\ RunsAtMostOnce' /\ Receipts'
  BY <1>1, <1>3, <1>5, <1>7 DEF Workers, RunsAtMostOnce, Receipts, Types, TypeOK
<1>12. StoppedRunsDoNotWork'
  BY <1>1, <1>5 DEF StoppedRunsDoNotWork
<1>13. QueuedIsKnown'
  BY <1>6, <1>8 DEF QueuedIsKnown, Types, Read
<1> QED
  BY <1>9, <1>10, <1>11, <1>12, <1>13

\* A run by hand is refused without authority, and claimed otherwise.
LEMMA RunNowKeeps ==
    ASSUME IInv, NEW s \in Schedules, NEW v \in 1 .. MaxRevision, run_now(s, v)
    PROVE  IInv'
<1>1. sched[s] \in Row /\ v \in Nat /\ tick.at = "idle" /\ tick.scheds = {}
  BY ScheduleAssumption DEF IInv, Types, TypeOK, Read, run_now
<1>2. UNCHANGED <<live, goal, target, task, linked, made, other, tick, hold, stopping, now,
                  up, crashes, wanted>>
  BY DEF run_now, authority, tasks, loop, rest
<1>3. CASE Denied(s)
  <2>1. /\ Put(s, [sched[s] EXCEPT !.enabled = FALSE])
        /\ UNCHANGED <<used, started, run, worker>>
    BY <1>3 DEF run_now, budget
  <2>2. [sched[s] EXCEPT !.enabled = FALSE] \in Row
        /\ [sched[s] EXCEPT !.enabled = FALSE].queued = sched[s].queued
    BY <1>1, RowsWritten DEF IInv
  <2>3. /\ sched' \in [Schedules -> Row]
        /\ \A t \in Schedules : sched'[t].queued = sched[t].queued
    BY <2>1, <2>2, PutRow DEF IInv
  <2>4. Types'
    BY <1>2, <2>1, <2>3 DEF IInv, Types, TypeOK, Read
  <2>5. QueuedIsKnown'
    BY <1>1, <1>2, <2>3 DEF IInv, QueuedIsKnown
  <2> QED
    BY <1>2, <2>1, <2>4, <2>5, FrameKeeps
<1>4. CASE ~Denied(s)
  <2>1. Claim(s, sched[s], v)
    BY <1>4 DEF run_now
  <2>2. tick' = [tick EXCEPT !.scheds = {n \in @ : n.of # s}]
    BY <1>1, <1>2 DEF IInv, Types
  <2>3. hold' \in BOOLEAN
    BY <1>2 DEF IInv, Types, TypeOK
  <2> QED
    BY <1>1, <1>2, <1>4, <2>1, <2>2, <2>3, ClaimKeeps
<1> QED
  BY <1>3, <1>4

\* The tick looks at a schedule: it writes what becomes of the occurrence, or
\* claims it if the row is still the one that was read.
LEMMA DispatchKeeps ==
    ASSUME IInv, DispatchNext
    PROVE  IInv'
<1> DEFINE Raises(s, b) == /\ b.next <= now /\ ~Denied(s) /\ Occupied /\ s \in Overlap
                           /\ ~b.queued /\ sched[s].rev # b.rev
<1>1. PICK m \in tick.scheds :
        /\ Ticking("schedules")
        /\ tick' = IF Raises(m.of, m.row) THEN Idle ELSE [tick EXCEPT !.scheds = @ \ {m}]
        /\ \/ /\ m.row.next > now
              /\ hold' = TRUE /\ UNCHANGED <<sched, budget, run, worker>>
           \/ /\ m.row.next <= now /\ Denied(m.of)
              /\ Put(m.of, [m.row EXCEPT !.enabled = FALSE])
              /\ hold' = TRUE /\ UNCHANGED <<budget, run, worker>>
           \/ /\ m.row.next <= now /\ ~Denied(m.of)
              /\ Occupied \/ IsMissed(m.of, m.row)
              /\ IF Occupied /\ m.of \in Overlap
                 THEN IF m.row.queued \/ Raises(m.of, m.row) THEN UNCHANGED sched
                      ELSE Put(m.of, [m.row EXCEPT !.queued = TRUE])
                 ELSE Put(m.of, Advance(m.of, m.row))
              /\ hold' = ~Raises(m.of, m.row) /\ UNCHANGED <<budget, run, worker>>
           \/ /\ m.row.next <= now /\ ~Denied(m.of) /\ ~Occupied
              /\ ~IsMissed(m.of, m.row)
              /\ IF Claimable(m.of, m.row, FALSE)
                 THEN Claim(m.of, m.row, 0) /\ hold' = FALSE
                 ELSE hold' = TRUE /\ UNCHANGED <<sched, budget, run, worker>>
        /\ UNCHANGED <<authority, tasks, other, stopping, now, host, wanted>>
  BY DEF DispatchNext
<1>2. PICK s, b : s = m.of /\ b = m.row
  OBVIOUS
<1>3. /\ s \in Schedules /\ b \in Row /\ (sched[s].queued => b.queued)
      /\ {n \in tick.scheds : n.of # s} = tick.scheds \ {m}
  BY <1>2 DEF IInv, Types, Read, QueuedIsKnown
<1>4. /\ UNCHANGED <<live, goal, target, task, linked, made, other, stopping, now, up,
                     crashes, wanted>>
      /\ hold' \in BOOLEAN
  BY <1>1 DEF authority, tasks, host
<1>5. CASE Claim(s, b, 0) /\ ~Denied(s) /\ ~Occupied
  <2>1. ~Raises(s, b)
    BY <1>5
  <2>2. tick' = [tick EXCEPT !.scheds = @ \ {m}]
    BY <1>1, <1>2, <2>1
  <2>3. tick' = [tick EXCEPT !.scheds = {n \in @ : n.of # s}]
    BY <1>3, <2>2
  <2> QED
    BY <1>3, <1>4, <1>5, <2>3, ClaimKeeps
<1>6. ASSUME UNCHANGED <<used, started, run, worker>>,
             \/ sched' = sched
             \/ \E c \in Row : Put(s, c) /\ (c.queued => s \in Overlap)
      PROVE  IInv'
  <2>1. /\ sched' \in [Schedules -> Row]
        /\ \A t \in Schedules : sched'[t].queued => t \in Overlap
        /\ \A t \in Schedules \ {s} : sched'[t] = sched[t]
    <3>1. CASE sched' = sched
      BY <3>1 DEF IInv, Types, TypeOK, QueuedIsKnown
    <3>2. ASSUME NEW c \in Row, Put(s, c), c.queued => s \in Overlap
          PROVE  /\ sched' \in [Schedules -> Row]
                 /\ \A t \in Schedules : sched'[t].queued => t \in Overlap
                 /\ \A t \in Schedules \ {s} : sched'[t] = sched[t]
      BY <1>3, <3>2, PutRow DEF IInv, QueuedIsKnown
    <3> QED
      BY <1>6, <3>1, <3>2
  <2>2. /\ tick'.at \in {"idle", "runs", "schedules"}
        /\ tick' = [at |-> tick'.at, runs |-> tick'.runs, scheds |-> tick'.scheds]
        /\ tick'.runs \subseteq tick.runs /\ tick'.scheds \subseteq tick.scheds \ {m}
        /\ (tick'.at = "idle" => tick'.scheds = {})
    BY <1>1 DEF IInv, Types, TypeOK, Read, Idle, Ticking
  <2>3. Types'
    BY <1>4, <1>6, <2>1, <2>2 DEF IInv, Types, TypeOK, Read
  <2>4. QueuedIsKnown'
    BY <1>3, <2>1, <2>2 DEF IInv, QueuedIsKnown, Types, Read
  <2> QED
    BY <1>4, <1>6, <2>3, <2>4, FrameKeeps
<1>7. CASE UNCHANGED <<sched, budget, run, worker>>
  BY <1>6, <1>7 DEF budget
<1>8. CASE /\ Put(s, [b EXCEPT !.enabled = FALSE])
           /\ UNCHANGED <<budget, run, worker>>
  <2>1. [b EXCEPT !.enabled = FALSE] \in Row /\ [b EXCEPT !.enabled = FALSE].queued = b.queued
    BY <1>3, RowsWritten DEF IInv
  <2>2. b.queued => s \in Overlap
    BY <1>2 DEF IInv, QueuedIsKnown
  <2> QED
    BY <1>6, <1>8, <2>1, <2>2 DEF budget
<1>9. CASE /\ Put(s, [b EXCEPT !.queued = TRUE]) /\ s \in Overlap
           /\ UNCHANGED <<budget, run, worker>>
  <2>1. [b EXCEPT !.queued = TRUE] \in Row
    BY <1>3, RowsWritten DEF IInv
  <2> QED
    BY <1>6, <1>9, <2>1 DEF budget
<1>10. CASE Put(s, Advance(s, b)) /\ UNCHANGED <<budget, run, worker>>
  <2>1. Advance(s, b) \in Row /\ ~Advance(s, b).queued
    BY <1>3, RowsWritten DEF IInv
  <2> QED
    BY <1>6, <1>10, <2>1 DEF budget
<1> QED
  BY <1>1, <1>2, <1>5, <1>7, <1>8, <1>9, <1>10

\* A crash ends workers and tick; a task it left without a receipt has ended.
LEMMA CrashKeeps ==
    ASSUME IInv, Crash
    PROVE  IInv'
<1>1. /\ UNCHANGED <<sched, used, started, live, goal, target, run, linked, now, wanted>>
      /\ worker' = [r \in Runs |-> "none"] /\ stopping' = {} /\ other' = FALSE
      /\ hold' = FALSE /\ up' = FALSE /\ crashes' \in Nat
      /\ tick' = [at |-> "idle", runs |-> {}, scheds |-> {}]
  BY DEF Crash, rows, Idle, IInv, Types, TypeOK
<1>2. /\ task' \in [Runs -> ACTIVE \cup {"none", "ended"}] /\ made' \in [Runs -> Nat]
      /\ \A r \in Runs : \/ task'[r] = task[r] /\ made'[r] = made[r]
                         \/ /\ worker[r] = "preparing" /\ task'[r] = "ended"
                            /\ made'[r] = made[r] + 1
  <2>1. task \in [Runs -> ACTIVE \cup {"none", "ended"}] /\ made \in [Runs -> Nat]
    BY DEF IInv, Types, TypeOK
  <2>2. CASE UNCHANGED <<made, task>>
    BY <2>1, <2>2
  <2>3. ASSUME NEW r \in Runs, worker[r] = "preparing",
               made' = [made EXCEPT ![r] = @ + 1], task' = [task EXCEPT ![r] = "ended"]
        PROVE  /\ task' \in [Runs -> ACTIVE \cup {"none", "ended"}] /\ made' \in [Runs -> Nat]
               /\ \A q \in Runs : \/ task'[q] = task[q] /\ made'[q] = made[q]
                                  \/ /\ worker[q] = "preparing" /\ task'[q] = "ended"
                                     /\ made'[q] = made[q] + 1
    BY <2>1, <2>3
  <2> QED
    BY <2>2, <2>3 DEF Crash
<1>3. Types'
  BY <1>1, <1>2 DEF IInv, Types, TypeOK, Read
<1>4. BudgetHolds'
  <2>1. \A q : Grant(q)' = Grant(q)
    BY <1>1 DEF Grant
  <2> QED
    BY <1>1, <2>1 DEF IInv, BudgetHolds
<1>5. Workers' /\ RunsAtMostOnce' /\ Receipts'
  <2>1. \A r \in Runs : made[r] \in Nat
    BY DEF IInv, Types, TypeOK
  <2> QED
    BY <1>1, <1>2, <2>1 DEF IInv, Workers, RunsAtMostOnce, Receipts, ACTIVE
<1>6. StoppedRunsDoNotWork'
  <2>1. DOMAIN run \subseteq Runs
    BY RunsInRange DEF IInv
  <2> QED
    BY <1>1, <1>2, <2>1 DEF IInv, StoppedRunsDoNotWork
<1>7. QueuedIsKnown'
  BY <1>1 DEF IInv, QueuedIsKnown
<1> QED
  BY <1>3, <1>4, <1>5, <1>6, <1>7 DEF IInv

\* A restart ends tasks, and an interrupted dispatch without a receipt needs
\* attention: it has no task at work.
LEMMA RestartKeeps ==
    ASSUME IInv, Restart
    PROVE  IInv'
<1>1. UNCHANGED <<sched, used, started, live, goal, target, linked, made, other, worker,
                  tick, hold, stopping, now, crashes, wanted>> /\ up' = TRUE
  BY DEF Restart, rows, loop
<1>2. PICK lost \in SUBSET Turns :
        task' = [r \in Runs |-> IF r \in lost THEN "ended" ELSE task[r]]
  BY DEF Restart
<1>3. /\ task' \in [Runs -> ACTIVE \cup {"none", "ended"}]
      /\ \A r \in Runs : task'[r] = task[r] \/ task'[r] = "ended"
  BY <1>2 DEF IInv, Types, TypeOK
<1>4. run' = [r \in DOMAIN run |-> [run[r] EXCEPT !.status =
                IF @ # "dispatching" THEN @
                ELSE IF r \in linked THEN "running" ELSE "needs_attention"]]
  BY DEF Restart
<1>5. /\ DOMAIN run = 1 .. Len(run) /\ Len(run) \in Nat /\ DOMAIN run \subseteq Runs
      /\ \A r \in DOMAIN run : run[r] \in Claimed
  BY RunsInRange DEF IInv
<1>6. /\ DOMAIN run' = DOMAIN run
      /\ \A r \in DOMAIN run :
           /\ run'[r] \in Claimed /\ run'[r].of = run[r].of
           /\ \/ run'[r].status = run[r].status
              \/ run'[r].status = "running"
              \/ run'[r].status = "needs_attention" /\ r \notin linked
  <2>1. DOMAIN run' = DOMAIN run
    BY <1>4
  <2>2. ASSUME NEW r \in DOMAIN run
        PROVE  /\ run'[r] \in Claimed /\ run'[r].of = run[r].of
               /\ \/ run'[r].status = run[r].status
                  \/ run'[r].status = "running"
                  \/ run'[r].status = "needs_attention" /\ r \notin linked
    <3>1. run[r] \in Claimed
      BY <1>5
    <3>2. CASE run[r].status # "dispatching"
      <4>1. run'[r] = [run[r] EXCEPT !.status = run[r].status]
        BY <1>4, <3>2
      <4> QED
        BY <3>1, <4>1 DEF Claimed
    <3>3. CASE run[r].status = "dispatching" /\ r \in linked
      <4>1. run'[r] = [run[r] EXCEPT !.status = "running"]
        BY <1>4, <3>3
      <4> QED
        BY <3>1, <4>1 DEF Claimed, Statuses, Open
    <3>4. CASE run[r].status = "dispatching" /\ r \notin linked
      <4>1. run'[r] = [run[r] EXCEPT !.status = "needs_attention"]
        BY <1>4, <3>4
      <4> QED
        BY <3>1, <3>4, <4>1 DEF Claimed, Statuses
    <3> QED
      BY <3>2, <3>3, <3>4
  <2> QED
    BY <2>1, <2>2
<1>7. run' \in Seq(Claimed) /\ Len(run') = Len(run)
  <2>1. run' \in [1 .. Len(run) -> Claimed]
    BY <1>4, <1>5, <1>6
  <2> QED
    BY <1>5, <2>1
<1>8. Types'
  <2>1. Read'
    BY <1>1, <1>6 DEF IInv, Types, Read
  <2>2. TypeOK'
    BY <1>1, <1>3, <1>6 DEF IInv, Types, TypeOK, Claimed, Statuses
  <2> QED
    BY <1>1, <1>7, <2>1, <2>2 DEF IInv, Types
<1>9. BudgetHolds'
  <2>1. \A r \in DOMAIN run : Grant(r)' = Grant(r)
    BY <1>6 DEF Grant
  <2>2. \A g \in Grants :
          {r \in DOMAIN run' : Grant(r)' = g} = {r \in DOMAIN run : Grant(r) = g}
    BY <1>6, <2>1
  <2> QED
    BY <1>1, <1>7, <2>2 DEF IInv, BudgetHolds
<1>10. Workers' /\ RunsAtMostOnce' /\ Receipts'
  <2>1. \A r \in Runs \ DOMAIN run : task'[r] = "none"
    BY <1>2, <1>5 DEF IInv, Workers, Turns, ACTIVE
  <2> QED
    BY <1>1, <1>3, <1>6, <2>1 DEF IInv, Workers, RunsAtMostOnce, Receipts, ACTIVE
<1>11. StoppedRunsDoNotWork'
  <2> SUFFICES ASSUME NEW r \in DOMAIN run,
                      run'[r].status \in {"cancelled", "needs_attention"}
               PROVE  task'[r] \in {"none", "cancelling", "ended"}
    BY <1>6 DEF StoppedRunsDoNotWork
  <2>1. r \in Runs /\ task[r] \in ACTIVE \cup {"none", "ended"}
    BY <1>5 DEF IInv, Types, TypeOK
  <2>2. CASE run'[r].status = run[r].status
    BY <1>3, <2>1, <2>2 DEF IInv, StoppedRunsDoNotWork
  <2>3. CASE run'[r].status = "needs_attention" /\ r \notin linked
    BY <1>3, <2>1, <2>3 DEF IInv, Receipts
  <2> QED
    BY <1>6, <2>2, <2>3
<1>12. QueuedIsKnown'
  BY <1>1 DEF IInv, QueuedIsKnown
<1> QED
  BY <1>8, <1>9, <1>10, <1>11, <1>12 DEF IInv

-----------------------------------------------------------------------------
(* The theorems. *)

LEMMA InitIInv == Init => IInv
<1> SUFFICES ASSUME Init PROVE IInv
  OBVIOUS
<1>1. run = <<>> /\ run \in Seq(Claimed) /\ DOMAIN run = {} /\ Len(run) = 0
  BY DEF Init
<1>2. Types
  BY <1>1 DEF Init, Types, TypeOK, Read, Row, Idle
<1>3. BudgetHolds
  <2>1. \A g \in Grants : {r \in DOMAIN run : Grant(r) = g} = {}
    BY <1>1
  <2>2. Cardinality({}) = 0
    BY FS_EmptySet
  <2> QED
    BY <1>1, <2>1, <2>2, ScheduleAssumption DEF Init, BudgetHolds
<1>4. Workers /\ RunsAtMostOnce /\ Receipts /\ StoppedRunsDoNotWork /\ QueuedIsKnown
  BY <1>1 DEF Init, Workers, RunsAtMostOnce, Receipts, StoppedRunsDoNotWork, QueuedIsKnown,
     ACTIVE, Idle
<1> QED
  BY <1>2, <1>3, <1>4 DEF IInv

LEMMA NextIInv == IInv /\ [Next]_vars => IInv'
<1> SUFFICES ASSUME IInv, [Next]_vars PROVE IInv'
  OBVIOUS
<1>1. ASSUME NEW r \in Runs,
             StopRun(r) \/ StopNext(r) \/ StopTask(r) \/ TaskEnds(r) \/ Execute(r)
      PROVE  IInv'
  BY <1>1, UserStops, TaskStops, ExecuteStep, RunStepKeeps
<1>2. CASE ReconcileRun
  BY <1>2, ReconcileStep, RunStepKeeps
<1>3. ASSUME NEW s \in Schedules, pause(s) \/ resume(s) \/ edit(s) \/ archive(s)
      PROVE  IInv'
  BY <1>3, UserRow
<1>4. ASSUME NEW s \in Schedules, NEW v \in 1 .. MaxRevision, run_now(s, v)
      PROVE  IInv'
  BY <1>4, RunNowKeeps
<1>5. CASE cancel_goal \/ \E g \in Grants : revoke(g)
  BY <1>5, RevokeKeeps
<1>6. CASE \/ \E g \in Grants : Expire(g)
           \/ TargetChanges \/ Clock \/ UserTurn \/ UserTurnEnds \/ UNCHANGED vars
  BY <1>6, AroundKeeps
<1>7. CASE StartTick \/ ReadSchedules \/ EndTick
  BY <1>7, TickKeeps
<1>8. CASE DispatchNext
  BY <1>8, DispatchKeeps
<1>9. CASE Crash
  BY <1>9, CrashKeeps
<1>10. CASE Restart
  BY <1>10, RestartKeeps
<1> QED
  BY <1>1, <1>2, <1>3, <1>4, <1>5, <1>6, <1>7, <1>8, <1>9, <1>10 DEF Next, User, Tick

\* The inductive invariant: what schedules, claims, workers and tasks know of
\* one another (workspace/automation.py, reserve_schedule_run).
THEOREM ScheduleInvariant == Spec => []IInv
BY InitIInv, NextIInv, PTL DEF Spec

\* A claimed run becomes one task at most, the budgets of its goal and its grant
\* hold, and the task of a stopped run does not work (reserve_schedule_run,
\* _execute_dispatch, _cancel_agent_run).
THEOREM RunsStayBounded == Spec => []RunsAreBounded
<1>1. IInv => RunsAreBounded
  BY DEF IInv, Types, RunsAreBounded
<1> QED
  BY ScheduleInvariant, <1>1, PTL

\* What gives a task work: its creation under the guard, and the approval of its
\* plan by a tick or by the worker, each under the authority of the run.
LEMMA WorkNeedsAuthority ==
    ASSUME IInv, [Next]_vars, NEW r \in Runs, task[r] \in {"none", "plan"},
           task'[r] \in {"planning", "active"}
    PROVE  Authority(Grant(r))
<1>1. task \in [Runs -> ACTIVE \cup {"none", "ended"}]
  BY DEF IInv, Types, TypeOK
<1>2. task' # task
  OBVIOUS
<1>3. ASSUME NEW q \in Runs, task' = Stopped(q) PROVE FALSE
  <2>1. task'[r] = task[r] \/ task'[r] = "cancelling"
    BY <1>1, <1>3 DEF Stopped
  <2> QED
    BY <2>1
<1>4. ASSUME NEW q \in Runs,
             StopRun(q) \/ StopNext(q) \/ StopTask(q) \/ TaskEnds(q)
      PROVE FALSE
  <2>1. CASE TaskEnds(q)
    BY <1>1, <2>1 DEF TaskEnds
  <2>2. CASE StopRun(q) \/ StopNext(q) \/ StopTask(q)
    BY <1>3, <2>2 DEF StopRun, StopNext, StopTask, CancelRun
  <2> QED
    BY <1>4, <2>1, <2>2
<1>5. ASSUME NEW q \in Runs, Execute(q) PROVE Authority(Grant(r))
  <2>1. CASE Prepare(q)
    BY <1>2, <1>3, <2>1 DEF Prepare, Fail
  <2>2. CASE Create(q)
    BY <1>1, <2>2 DEF Create, Guard
  <2>3. CASE SendFails(q)
    BY <1>2, <1>3, <2>3 DEF SendFails, Fail
  <2>4. CASE PlanReady(q)
    BY <1>1, <2>4 DEF PlanReady
  <2>5. CASE Planned(q)
    BY <1>1, <1>2, <1>3, <2>5 DEF Planned, Fail
  <2> QED
    BY <1>5, <2>1, <2>2, <2>3, <2>4, <2>5 DEF Execute
<1>6. CASE ReconcileRun
  <2>1. PICK m \in tick.runs :
          \/ UNCHANGED task
          \/ CancelRun(m.id)
          \/ /\ Authority(Grant(m.id))
             /\ task' = IF task[m.id] = "plan" THEN [task EXCEPT ![m.id] = "active"] ELSE task
    BY <1>6 DEF ReconcileRun
  <2>2. m.id \in Runs
    BY RunsInRange DEF IInv, Types, Read
  <2> QED
    BY <1>1, <1>2, <1>3, <2>1, <2>2 DEF CancelRun
<1>7. CASE Crash
  BY <1>1, <1>7 DEF Crash
<1>8. CASE Restart
  BY <1>1, <1>8 DEF Restart
<1>9. CASE \/ \E s \in Schedules : \/ pause(s) \/ resume(s) \/ edit(s) \/ archive(s)
                                   \/ \E v \in 1 .. MaxRevision : run_now(s, v)
           \/ \E g \in Grants : revoke(g) \/ Expire(g)
           \/ cancel_goal \/ UserTurn \/ UserTurnEnds \/ TargetChanges \/ Clock
           \/ StartTick \/ ReadSchedules \/ DispatchNext \/ EndTick \/ UNCHANGED vars
  <2>1. task' = task
    BY <1>9 DEF pause, resume, edit, archive, Unscheduled, run_now, revoke, Expire,
       cancel_goal, UserTurn, UserTurnEnds, TargetChanges, Clock, StartTick,
       ReadSchedules, DispatchNext, EndTick, vars, tasks
  <2> QED
    BY <1>2, <2>1
<1> QED
  BY <1>4, <1>5, <1>6, <1>7, <1>8, <1>9 DEF Next, User, Tick

\* No task starts and no plan is approved without the authority of the run, at
\* that very moment (_dispatch_guard, _approve_initial_plan).
THEOREM WorkStaysAuthorized == Spec => WorkIsAuthorized
<1>1. IInv /\ [Next]_vars =>
        [\A r \in Runs : task[r] \in {"none", "plan"} /\ task'[r] \in {"planning", "active"}
           => Authority(Grant(r))]_vars
  BY WorkNeedsAuthority
<1> QED
  BY ScheduleInvariant, <1>1, PTL DEF Spec, WorkIsAuthorized

\* A tick that takes the mark from a queued occurrence has claimed it.
LEMMA QueuedUntilClaimed ==
    ASSUME IInv, [Next]_vars, NEW s \in Schedules, sched[s].queued, ~sched'[s].queued,
           tick' # tick
    PROVE  Len(run') > Len(run) /\ run'[Len(run')].of = s
<1>1. DispatchNext
  BY DEF Next, User, Tick, Execute, pause, resume, edit, archive, Unscheduled, run_now,
     StopRun, StopTask, revoke, cancel_goal, UserTurn, UserTurnEnds, StartTick,
     ReconcileRun, ReadSchedules, EndTick, Prepare, Create, SendFails, PlanReady, Planned,
     StopNext, TaskEnds, Expire, TargetChanges, Clock, Crash, Restart, vars, rows, loop
<1>2. PICK m \in tick.scheds :
        \/ UNCHANGED sched
        \/ Put(m.of, [m.row EXCEPT !.enabled = FALSE])
        \/ /\ Occupied \/ IsMissed(m.of, m.row)
           /\ \/ Put(m.of, [m.row EXCEPT !.queued = TRUE])
              \/ ~(Occupied /\ m.of \in Overlap) /\ Put(m.of, Advance(m.of, m.row))
        \/ Claim(m.of, m.row, 0)
  BY <1>1 DEF DispatchNext
<1>3. PICK t, b : t = m.of /\ b = m.row
  OBVIOUS
<1>4. /\ t \in Schedules /\ b \in Row
      /\ (sched[t].queued => b.queued) /\ (b.queued => t \in Overlap)
  BY <1>3 DEF IInv, Types, Read, QueuedIsKnown
<1>5. ASSUME Put(t, Advance(t, b)) PROVE \A u \in Schedules \ {t} : sched'[u] = sched[u]
  <2>1. Advance(t, b) \in Row
    BY <1>4, RowsWritten DEF IInv
  <2>2. Types
    BY DEF IInv
  <2> QED
    BY <1>4, <1>5, <2>1, <2>2, PutRow
<1>9. CASE UNCHANGED sched
  BY <1>9
<1>6. CASE Put(t, [b EXCEPT !.enabled = FALSE]) \/ Put(t, [b EXCEPT !.queued = TRUE])
  <2>1. /\ [b EXCEPT !.enabled = FALSE] \in Row
        /\ [b EXCEPT !.enabled = FALSE].queued = b.queued
        /\ [b EXCEPT !.queued = TRUE] \in Row /\ [b EXCEPT !.queued = TRUE].queued
    BY <1>4, RowsWritten DEF IInv
  <2>2. sched'[s].queued
    BY <1>4, <1>6, <2>1, PutRow DEF IInv
  <2> QED
    BY <2>2
<1>7. CASE /\ Occupied \/ IsMissed(t, b)
           /\ ~(Occupied /\ t \in Overlap) /\ Put(t, Advance(t, b))
  <2>1. ~b.queued
    BY <1>4, <1>7 DEF IsMissed
  <2>2. t # s
    BY <1>4, <2>1
  <2>3. sched'[s] = sched[s]
    BY <1>5, <1>7, <2>2
  <2> QED
    BY <2>3
<1>8. CASE Claim(t, b, 0)
  <2>1. Put(t, Advance(t, b)) /\ run' = Append(run, [of |-> t, asked |-> 0, status |-> "dispatching"])
    BY <1>8 DEF Claim
  <2>2. t = s
    BY <1>5, <2>1
  <2>3. run \in Seq(Claimed) /\ Len(run) \in Nat
    BY RunsInRange DEF IInv, Types
  <2>4. [of |-> t, asked |-> 0, status |-> "dispatching"] \in Claimed
    BY <1>4 DEF Claimed, Statuses, Open
  <2>5. Len(run') = Len(run) + 1
        /\ run'[Len(run) + 1] = [of |-> t, asked |-> 0, status |-> "dispatching"]
    BY <2>1, <2>3, <2>4
  <2> QED
    BY <2>2, <2>3, <2>5
<1> QED
  BY <1>2, <1>3, <1>6, <1>7, <1>8, <1>9

\* "queue keeps one overdue occurrence": a tick takes a queued occurrence from
\* the queue only by claiming it (_dispatch).
THEOREM QueuedStays == Spec => QueuedIsKept
<1>1. IInv /\ [Next]_vars =>
        [\A s \in Schedules : sched[s].queued /\ ~sched'[s].queued /\ tick' # tick =>
           Len(run') > Len(run) /\ run'[Len(run')].of = s]_vars
  BY QueuedUntilClaimed
<1> QED
  BY ScheduleInvariant, <1>1, PTL DEF Spec, QueuedIsKept
=============================================================================
