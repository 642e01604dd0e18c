---------------------------- MODULE ScheduledRuns ----------------------------
(***************************************************************************)
(* Delegated schedules (workspace/automation.py) and the atomic claim of    *)
(* their occurrences (reserve_schedule_run in workspace/store.py).          *)
(*                                                                          *)
(* The schedules share one goal and one conversation, each under a grant.   *)
(* The scheduler's tick, the worker that dispatches a claimed run and the   *)
(* asynchronous handlers share an event loop: they interleave only where    *)
(* one of them awaits (`hold`).  The handlers that pause, edit and archive  *)
(* a schedule run in threads, at any time.                                  *)
(*                                                                          *)
(* The turns are those of the internal engine; the send service behind      *)
(* them is modelled in TurnDispatch and appears here as three steps.        *)
(***************************************************************************)
EXTENDS Naturals, Sequences, FiniteSets

CONSTANTS
  Schedules, Grants,
  GrantOf,     \* the grant of each schedule
  Period,      \* seconds between occurrences, 0 for a single one
  Missed,      \* schedules whose missed occurrences are skipped
  Overlap,     \* schedules whose overlapping occurrences are queued
  Grace,       \* lateness from which an occurrence counts as missed
  MaxRuns,     \* max_runs of the goal
  GrantRuns,   \* max_runs of each grant
  MaxTime,     \* bound: the clock
  MaxRevision, \* bound: revisions of a schedule that users make
  MaxCrashes,  \* bound: crashes
  TargetReturns \* bound: whether a changed conversation is set back

ASSUME ScheduleAssumption ==
  /\ GrantOf \in [Schedules -> Grants] /\ Period \in [Schedules -> Nat]
  /\ Missed \subseteq Schedules /\ Overlap \subseteq Schedules
  /\ GrantRuns \in [Grants -> Nat]
  /\ TargetReturns \in BOOLEAN
  /\ {Grace, MaxRuns, MaxTime, MaxRevision, MaxCrashes} \subseteq Nat

\* Values for the runs: one grant for every schedule, with two runs; the schedules
\* that queue what overlaps recur and the others are due once, or all recur.
OneGrantOf == [s \in Schedules |-> CHOOSE g \in Grants : TRUE]
TwoRuns == [g \in Grants |-> 2]
QueuedRecur == [s \in Schedules |-> IF s \in Overlap THEN 2 ELSE 0]
AllRecur == [s \in Schedules |-> 2]

Runs == 1 .. MaxRuns

VARIABLES
  sched,     \* the row of each schedule
  used,      \* used_runs of each grant
  started,   \* runs_started of the goal
  live,      \* grants that are neither revoked, expired nor outdated
  goal,      \* whether the goal is active
  target,    \* whether the conversation is as it was granted
  run,       \* the rows of the claimed runs
  task,      \* the task of each run
  linked,    \* runs whose request receipt names their task
  other,     \* whether the user's own turn is active in the conversation
  worker,    \* where the worker of each run is in _execute_dispatch
  tick,      \* where the tick is, and what it read
  hold,      \* whether the tick has the event loop
  stopping,  \* runs a revocation or a cancelled goal is about to stop
  now, up, crashes,
  made,      \* history: tasks created for each run
  wanted     \* history: schedules the user wants to run

authority == <<live, goal, target>>
budget == <<used, started>>
tasks == <<task, linked, made>>
loop == <<tick, hold>>
host == <<up, crashes>>
rows == <<sched, used, started, live, goal, target>>
rest == <<stopping, now, up, crashes, wanted>>
vars == <<sched, used, started, live, goal, target, run, task, linked, other, worker,
          tick, hold, stopping, now, up, crashes, made, wanted>>

ACTIVE == {"planning", "plan", "active", "cancelling"}
Open == {"dispatching", "running"}
Idle == [at |-> "idle", runs |-> {}, scheds |-> {}]

Init ==
  /\ sched = [s \in Schedules |-> [enabled |-> TRUE, archived |-> FALSE,
                                   queued |-> FALSE, next |-> 1, rev |-> 1]]
  /\ used = [g \in Grants |-> 0] /\ started = 0
  /\ live = Grants /\ goal = TRUE /\ target = TRUE
  /\ run = <<>>
  /\ task = [r \in Runs |-> "none"] /\ linked = {} /\ made = [r \in Runs |-> 0]
  /\ other = FALSE
  /\ worker = [r \in Runs |-> "none"]
  /\ tick = Idle /\ hold = FALSE
  /\ stopping = {}
  /\ now = 0 /\ up = TRUE /\ crashes = 0
  /\ wanted = Schedules

-----------------------------------------------------------------------------
(* What the schedules and the runs rest on. *)

\* A row is written as it was read, whatever has been written since.
Put(s, b) == sched' = [sched EXCEPT ![s] = [b EXCEPT !.rev = sched[s].rev + 1]]

\* _advance
Advance(s, b) ==
  IF Period[s] = 0 THEN [b EXCEPT !.next = 0, !.enabled = FALSE, !.queued = FALSE]
  ELSE [b EXCEPT !.next = now + Period[s], !.queued = FALSE]

Grant(r) == GrantOf[run[r].of]

\* _run_authority
Authority(g) == g \in live /\ goal /\ target

\* workspace.active, and a dispatch that has not created its task yet.
Turns == {r \in linked : task[r] \in ACTIVE}
Busy == other \/ Turns # {}
Dispatching == {r \in DOMAIN run : run[r].status = "dispatching"}

SetStatus(r, st) == run' = [run EXCEPT ![r].status = st]

\* A bug: the task takes the word of its run.
StoppedAsRun(r) == IF r \in Turns THEN [task EXCEPT ![r] = "cancelled"] ELSE task

\* _stop_task_tree
Stopped(r) == IF r \in Turns THEN [task EXCEPT ![r] = "cancelling"] ELSE task

\* A bug: only the row and the worker are stopped, not the task.
CancelRunRow(r) ==
  /\ SetStatus(r, "cancelled") /\ UNCHANGED task
  /\ worker' = [worker EXCEPT ![r] = "none"]

\* _cancel_agent_run: the row, the task and the worker.
CancelRun(r) ==
  /\ SetStatus(r, "cancelled")
  /\ task' = Stopped(r)
  /\ worker' = [worker EXCEPT ![r] = "none"]

-----------------------------------------------------------------------------
(* Users.  The first four handlers run in threads. *)

\* The revision of the request is the current one, otherwise it is refused.
UserMay(s) == up /\ ~sched[s].archived /\ sched[s].rev < MaxRevision

Unscheduled ==
  UNCHANGED <<budget, authority, run, tasks, other, worker, loop, stopping, now, host>>

pause(s) ==
  /\ UserMay(s)
  /\ Put(s, [sched[s] EXCEPT !.enabled = FALSE, !.queued = FALSE])
  /\ wanted' = wanted \ {s}
  /\ Unscheduled

\* A single occurrence that has passed cannot be enabled again.
resume(s) ==
  /\ UserMay(s) /\ GrantOf[s] \in live /\ goal
  /\ Period[s] = 0 => sched[s].next > now
  /\ Put(s, [sched[s] EXCEPT !.enabled = TRUE, !.queued = FALSE,
                             !.next = IF Period[s] = 0 THEN @ ELSE now + Period[s]])
  /\ wanted' = wanted \cup {s}
  /\ Unscheduled

\* The prompt or the timing changes.
edit(s) ==
  /\ UserMay(s)
  /\ \/ Put(s, sched[s])
     \/ Period[s] # 0 /\ Put(s, [sched[s] EXCEPT !.next = now + Period[s], !.queued = FALSE])
  /\ UNCHANGED wanted
  /\ Unscheduled

archive(s) ==
  /\ UserMay(s)
  /\ Put(s, [sched[s] EXCEPT !.enabled = FALSE, !.archived = TRUE])
  /\ wanted' = wanted \ {s}
  /\ Unscheduled

LoopIsFree == up /\ ~hold

\* control_run: Stop.
StopRun(r) ==
  /\ LoopIsFree /\ r \in DOMAIN run /\ run[r].status \in Open
  /\ CancelRun(r)
  /\ UNCHANGED <<rows, linked, made, other, loop, rest>>

\* revoke, then cancel_delegation_runs with the runs it finds.
revoke(g) ==
  /\ LoopIsFree /\ g \in live /\ live' = live \ {g}
  /\ sched' = [s \in Schedules |-> IF GrantOf[s] # g THEN sched[s] ELSE
                 [sched[s] EXCEPT !.enabled = FALSE, !.rev = @ + 1]]
  /\ stopping' = stopping \cup {r \in DOMAIN run : Grant(r) = g /\ run[r].status \in Open}
  /\ UNCHANGED <<budget, goal, target, run, tasks, other, worker, loop, now, host, wanted>>

cancel_goal ==
  /\ LoopIsFree /\ goal /\ goal' = FALSE
  /\ sched' = [s \in Schedules |-> [sched[s] EXCEPT !.enabled = FALSE, !.rev = @ + 1]]
  /\ stopping' = stopping \cup {r \in DOMAIN run : run[r].status \in Open}
  /\ UNCHANGED <<budget, live, target, run, tasks, other, worker, loop, now, host, wanted>>

\* The runs that were found open are cancelled, ended or not by then.
StopNext(r) ==
  /\ LoopIsFree /\ r \in stopping /\ stopping' = stopping \ {r}
  /\ CancelRun(r)
  /\ UNCHANGED <<rows, linked, made, other, loop, now, host, wanted>>

\* A grant expires or its principal changes; the conversation is set up anew.
Expire(g) ==
  /\ g \in live /\ live' = live \ {g}
  /\ UNCHANGED <<sched, budget, goal, target, run, tasks, other, worker, loop, rest>>

TargetChanges ==
  /\ target \/ TargetReturns
  /\ target' = ~target
  /\ UNCHANGED <<sched, budget, live, goal, run, tasks, other, worker, loop, rest>>

\* The user's own turn; the lock of the conversation is free.
UserTurn ==
  /\ LoopIsFree /\ ~Busy /\ \A r \in Runs : worker[r] # "preparing"
  /\ other' = TRUE
  /\ UNCHANGED <<rows, run, tasks, worker, loop, rest>>

UserTurnEnds ==
  /\ LoopIsFree /\ other /\ other' = FALSE
  /\ UNCHANGED <<rows, run, tasks, worker, loop, rest>>

\* The user stops the task in its conversation; it ends by itself or so.
StopTask(r) ==
  /\ LoopIsFree /\ r \in Turns /\ task' = Stopped(r)
  /\ UNCHANGED <<rows, run, linked, made, other, worker, loop, rest>>

TaskEnds(r) ==
  /\ LoopIsFree /\ task[r] \in {"active", "cancelling"}
  /\ task' = [task EXCEPT ![r] = "ended"]
  /\ UNCHANGED <<rows, run, linked, made, other, worker, loop, rest>>

Clock ==
  /\ now < MaxTime /\ now' = now + 1
  /\ UNCHANGED <<rows, run, tasks, other, worker, loop, stopping, host, wanted>>

-----------------------------------------------------------------------------
(* _dispatch of schedule s with the row b that was read of it. *)

\* A bug: the budget of the goal is not looked at.
DeniedByGrant(s) ==
  GrantOf[s] \notin live \/ ~goal \/ ~target \/ used[GrantOf[s]] >= GrantRuns[GrantOf[s]]

Denied(s) ==
  \/ GrantOf[s] \notin live \/ ~goal \/ ~target
  \/ used[GrantOf[s]] >= GrantRuns[GrantOf[s]] \/ started >= MaxRuns

Occupied == Busy \/ Dispatching # {}

\* A bug: a queued occurrence counts as missed when it has become late.
IsMissedQueued(s, b) == s \in Missed /\ now > b.next + Grace

IsMissed(s, b) == s \in Missed /\ ~b.queued /\ now > b.next + Grace

\* A bug: the revision after the claim is expected before it.
ClaimableNext(s, b, manual) ==
  /\ sched[s].rev = b.rev + 1 /\ ~sched[s].archived
  /\ manual \/ sched[s].enabled

\* reserve_schedule_run and the start of a worker: one transaction claims the
\* occurrence if the row is still the one that was read.
Claimable(s, b, manual) ==
  /\ sched[s].rev = b.rev /\ ~sched[s].archived
  /\ manual \/ sched[s].enabled

Claim(s, b, asked) ==
  LET manual == asked # 0
      r == Len(run) + 1
  IN
  /\ Put(s, IF manual THEN [b EXCEPT !.queued = FALSE] ELSE Advance(s, b))
  /\ used' = [used EXCEPT ![GrantOf[s]] = @ + 1] /\ started' = started + 1
  /\ run' = Append(run, [of |-> s, asked |-> asked, status |-> "dispatching"])
  /\ worker' = [worker EXCEPT ![r] = "start"]

\* run_now, with the revision the user saw.
run_now(s, v) ==
  /\ LoopIsFree /\ tick.at = "idle"
  /\ v = sched[s].rev /\ ~sched[s].archived
  /\ IF Denied(s)
     THEN /\ Put(s, [sched[s] EXCEPT !.enabled = FALSE])
          /\ UNCHANGED <<budget, run, worker>>
     ELSE /\ ~Occupied
          /\ Claim(s, sched[s], v)
  /\ UNCHANGED <<authority, tasks, other, loop, rest>>

-----------------------------------------------------------------------------
(* The tick: first the runs it found, then the schedules. *)

Ticking(at) == up /\ tick.at = at

StartTick ==
  /\ LoopIsFree /\ tick.at = "idle"
  /\ tick' = [Idle EXCEPT !.at = "runs",
                !.runs = {[id |-> r, status |-> run[r].status] : r \in
                            {q \in DOMAIN run : run[q].status \in Open}}]
  /\ hold' = TRUE
  /\ UNCHANGED <<rows, run, tasks, other, worker, rest>>

\* An open run without authority is cancelled, a plan that waits under it is
\* approved, and both await; the outcome of a task is written to its run.
\* Whatever is written rests on the row as it was read.
ReconcileRun ==
  \E m \in tick.runs :
    LET r == m.id
        known == m.status = "running" \/ r \in linked
    IN
    /\ Ticking("runs")
    /\ tick' = [tick EXCEPT !.runs = @ \ {m}]
    /\ \/ /\ ~Authority(Grant(r)) /\ (m.status = "dispatching" \/ r \in Turns)
          /\ CancelRun(r) /\ hold' = FALSE
       \/ /\ Authority(Grant(r)) /\ r \in Turns
          /\ task' = IF task[r] = "plan" THEN [task EXCEPT ![r] = "active"] ELSE task
          /\ hold' = (task[r] # "plan")
          /\ SetStatus(r, "running") /\ UNCHANGED worker
       \/ /\ m.status = "dispatching" => Authority(Grant(r))
          /\ known /\ r \notin Turns
          /\ SetStatus(r, "ended")
          /\ hold' = TRUE /\ UNCHANGED <<task, worker>>
       \/ /\ Authority(Grant(r)) /\ ~known
          /\ hold' = TRUE /\ UNCHANGED <<run, task, worker>>
    /\ UNCHANGED <<sched, budget, authority, linked, made, other, stopping, now, host,
                   wanted>>

ReadSchedules ==
  /\ Ticking("runs") /\ tick.runs = {}
  /\ tick' = [Idle EXCEPT !.at = "schedules",
                !.scheds = {[of |-> s, row |-> sched[s]] : s \in
                              {q \in Schedules : sched[q].enabled}}]
  /\ hold' = TRUE
  /\ UNCHANGED <<rows, run, tasks, other, worker, rest>>

\* The next schedule of the tick; a stale row that would be queued ends it.
DispatchNext ==
  \E m \in tick.scheds :
    LET s == m.of
        b == m.row
        raises == /\ b.next <= now /\ ~Denied(s) /\ Occupied /\ s \in Overlap
                  /\ ~b.queued /\ sched[s].rev # b.rev
    IN
    /\ Ticking("schedules")
    /\ tick' = IF raises THEN Idle ELSE [tick EXCEPT !.scheds = @ \ {m}]
    /\ \/ /\ b.next > now
          /\ hold' = TRUE /\ UNCHANGED <<sched, budget, run, worker>>
       \/ /\ b.next <= now /\ Denied(s)
          /\ Put(s, [b EXCEPT !.enabled = FALSE])
          /\ hold' = TRUE /\ UNCHANGED <<budget, run, worker>>
       \/ /\ b.next <= now /\ ~Denied(s)
          /\ Occupied \/ IsMissed(s, b)
          /\ IF Occupied /\ s \in Overlap
             THEN IF b.queued \/ raises THEN UNCHANGED sched
                  ELSE Put(s, [b EXCEPT !.queued = TRUE])
             ELSE Put(s, Advance(s, b))
          /\ hold' = ~raises /\ UNCHANGED <<budget, run, worker>>
       \/ /\ b.next <= now /\ ~Denied(s) /\ ~Occupied /\ ~IsMissed(s, b)
          /\ IF Claimable(s, b, FALSE)
             THEN Claim(s, b, 0) /\ hold' = FALSE
             ELSE hold' = TRUE /\ UNCHANGED <<sched, budget, run, worker>>
    /\ UNCHANGED <<authority, tasks, other, stopping, now, host, wanted>>

EndTick ==
  /\ Ticking("schedules") /\ tick.scheds = {}
  /\ tick' = Idle /\ hold' = FALSE
  /\ UNCHANGED <<rows, run, tasks, other, worker, rest>>

-----------------------------------------------------------------------------
(* _execute_dispatch of a run. *)

At(r, p) == LoopIsFree /\ worker[r] = p

Goto(r, p) == worker' = [worker EXCEPT ![r] = p]

\* The exception handler: a run the user cancelled stays cancelled.
Fail(r) ==
  /\ Goto(r, "none")
  /\ IF run[r].status = "cancelled" THEN UNCHANGED <<run, task>>
     ELSE SetStatus(r, "needs_attention") /\ task' = Stopped(r)

\* A bug: the guard knows the status of the run, not its authority.
GuardStatus(r) == run[r].status \in Open

\* _dispatch_guard
Guard(r) == run[r].status \in Open /\ Authority(Grant(r))

\* The guard, and the receipt that send() writes in a free conversation.
Prepare(r) ==
  /\ At(r, "start")
  /\ IF Guard(r) /\ ~Busy THEN Goto(r, "preparing") /\ UNCHANGED <<run, task>>
     ELSE Fail(r)
  /\ UNCHANGED <<rows, linked, made, other, loop, rest>>

\* After the hooks: the guard again, then the task, its receipt and its turn.
Create(r) ==
  /\ At(r, "preparing") /\ Guard(r)
  /\ made' = [made EXCEPT ![r] = @ + 1]
  /\ linked' = linked \cup {r}
  /\ task' = [task EXCEPT ![r] = "planning"]
  /\ Goto(r, "planning")
  /\ UNCHANGED <<rows, run, other, loop, rest>>

\* A hook, the guard or the planning fails.
SendFails(r) ==
  /\ LoopIsFree /\ worker[r] \in {"preparing", "planning"}
  /\ Fail(r)
  /\ UNCHANGED <<rows, linked, made, other, loop, rest>>

\* Planning ends with a plan to approve, or an asking task works on at once.
PlanReady(r) ==
  /\ At(r, "planning") /\ task[r] = "planning"
  /\ \E t \in {"plan", "active"} : task' = [task EXCEPT ![r] = t]
  /\ UNCHANGED <<rows, run, linked, made, other, worker, loop, rest>>

\* send() returned: a run stopped meanwhile takes its task with it, and a plan
\* is approved under the authority of the run.
Planned(r) ==
  /\ At(r, "planning") /\ task[r] # "planning"
  /\ \/ /\ run[r].status \in {"cancelled", "needs_attention"}
        /\ Goto(r, "none") /\ task' = Stopped(r) /\ UNCHANGED run
     \/ /\ run[r].status \notin {"cancelled", "needs_attention"}
        /\ task[r] = "plan" => Authority(Grant(r))
        /\ Goto(r, "none") /\ SetStatus(r, "running")
        /\ task' = IF task[r] = "plan" THEN [task EXCEPT ![r] = "active"] ELSE task
     \/ task[r] = "plan" /\ ~Authority(Grant(r)) /\ Fail(r)
  /\ UNCHANGED <<rows, linked, made, other, loop, rest>>

-----------------------------------------------------------------------------
(* Crash and restart. *)

\* A crash may fall between the commits of a task and of its receipt.
Crash ==
  /\ up /\ up' = FALSE /\ crashes < MaxCrashes /\ crashes' = crashes + 1
  /\ \/ UNCHANGED <<made, task>>
     \/ \E r \in Runs : /\ worker[r] = "preparing"
                        /\ made' = [made EXCEPT ![r] = @ + 1]
                        /\ task' = [task EXCEPT ![r] = "ended"]
  /\ worker' = [r \in Runs |-> "none"]
  /\ tick' = Idle /\ hold' = FALSE /\ stopping' = {} /\ other' = FALSE
  /\ UNCHANGED <<rows, run, linked, now, wanted>>

\* A bug: interrupted dispatches are left as they are.
RestartOnly ==
  /\ ~up /\ up' = TRUE
  /\ task' = [r \in Runs |-> IF r \in Turns THEN "ended" ELSE task[r]]
  /\ UNCHANGED <<rows, run, linked, made, other, worker, loop, stopping, now, crashes, wanted>>

\* A bug: a dispatch whose task is not known is begun again.
RestartReplays ==
  /\ ~up /\ up' = TRUE
  /\ task' = [r \in Runs |-> IF r \in Turns THEN "ended" ELSE task[r]]
  /\ worker' = [r \in Runs |-> IF r \in Dispatching \ linked THEN "start" ELSE "none"]
  /\ UNCHANGED <<rows, run, linked, made, other, loop, stopping, now, crashes, wanted>>

\* Planned tasks recover under a valid authority; __init__ reconciles the runs.
Restart ==
  /\ ~up /\ up' = TRUE
  /\ \E lost \in SUBSET Turns :
       /\ {r \in Turns : ~Authority(Grant(r)) \/ task[r] \in {"planning", "cancelling"}}
            \subseteq lost
       /\ task' = [r \in Runs |-> IF r \in lost THEN "ended" ELSE task[r]]
  /\ run' = [r \in DOMAIN run |-> [run[r] EXCEPT !.status =
               IF @ # "dispatching" THEN @
               ELSE IF r \in linked THEN "running" ELSE "needs_attention"]]
  /\ UNCHANGED <<rows, linked, made, other, worker, loop, stopping, now, crashes, wanted>>

-----------------------------------------------------------------------------
Tick == StartTick \/ ReconcileRun \/ ReadSchedules \/ DispatchNext \/ EndTick
Execute(r) == Prepare(r) \/ Create(r) \/ SendFails(r) \/ PlanReady(r) \/ Planned(r)

User ==
  \/ \E s \in Schedules : \/ pause(s) \/ resume(s) \/ edit(s) \/ archive(s)
                          \/ \E v \in 1 .. MaxRevision : run_now(s, v)
  \/ \E r \in Runs : StopRun(r) \/ StopTask(r)
  \/ \E g \in Grants : revoke(g)
  \/ cancel_goal \/ UserTurn \/ UserTurnEnds

Next ==
  \/ User \/ Tick
  \/ \E r \in Runs : Execute(r) \/ StopNext(r) \/ TaskEnds(r)
  \/ \E g \in Grants : Expire(g)
  \/ TargetChanges \/ Clock \/ Crash \/ Restart

Spec == Init /\ [][Next]_vars

\* The loop ticks every five seconds, hooks and providers have time limits, and
\* the host is started again.  What is ready runs when the tick lets go of the
\* event loop, which is free only now and then: that fairness is strong.
FairSpec ==
  /\ Spec /\ WF_vars(Tick) /\ WF_vars(Restart)
  /\ \A r \in Runs : SF_vars(Execute(r)) /\ SF_vars(StopNext(r))

-----------------------------------------------------------------------------
(* Properties. *)

\* Types of the rows, the tasks, the workers and the tick.
Row == [enabled : BOOLEAN, archived : BOOLEAN, queued : BOOLEAN, next : Nat, rev : Nat]
TypeOK ==
  /\ sched \in [Schedules -> Row]
  /\ used \in [Grants -> Nat] /\ started \in Nat
  /\ live \subseteq Grants /\ goal \in BOOLEAN /\ target \in BOOLEAN
  /\ \A r \in DOMAIN run : run[r] \in [of : Schedules, asked : Nat, status :
                             Open \cup {"cancelled", "needs_attention", "ended"}]
  /\ task \in [Runs -> ACTIVE \cup {"none", "ended"}] /\ linked \subseteq DOMAIN run
  /\ other \in BOOLEAN /\ hold \in BOOLEAN /\ up \in BOOLEAN
  /\ worker \in [Runs -> {"none", "start", "preparing", "planning"}]
  /\ tick.at \in {"idle", "runs", "schedules"}
  /\ stopping \subseteq DOMAIN run
  /\ now \in Nat /\ crashes \in Nat /\ made \in [Runs -> Nat] /\ wanted \subseteq Schedules

\* The shared budget of the goal and the budget of each grant hold, and count
\* every claimed run, by hand or not (reserve_schedule_run).
BudgetHolds ==
  /\ started = Len(run) /\ started <= MaxRuns
  /\ \A g \in Grants :
       /\ used[g] = Cardinality({r \in DOMAIN run : Grant(r) = g})
       /\ used[g] <= GrantRuns[g]

\* A claimed run becomes at most one task, over failures, stops and restarts
\* (__init__, _execute_dispatch).
RunsAtMostOnce == \A r \in Runs : made[r] <= 1

\* A run that was stopped or needs attention has no task at work, whatever its
\* worker or a tick that read it before does (_cancel_agent_run).
StoppedRunsDoNotWork ==
  \A r \in DOMAIN run : run[r].status \in {"cancelled", "needs_attention"} =>
    task[r] \in {"none", "cancelling", "ended"}

\* A claimed run becomes one task at most and stays within the budgets of its
\* goal and grant, and the task of a stopped run does not work
\* (reserve_schedule_run, _execute_dispatch, _cancel_agent_run).
RunsAreBounded == TypeOK /\ BudgetHolds /\ RunsAtMostOnce /\ StoppedRunsDoNotWork

\* A task starts, and a plan is approved, only while its grant, its goal and
\* its target authorize it, at that very moment (_dispatch_guard,
\* _approve_initial_plan).
WorkIsAuthorized ==
  [][\A r \in Runs : task[r] \in {"none", "plan"} /\ task'[r] \in {"planning", "active"}
       => Authority(Grant(r))]_vars

\* A queued occurrence waits until it is claimed: no tick drops it because it
\* has become late (_dispatch: "queue keeps one overdue occurrence").
QueuedIsKept ==
  [][\A s \in Schedules :
       sched[s].queued /\ ~sched'[s].queued /\ tick' # tick =>
         Len(run') > Len(run) /\ run'[Len(run')].of = s]_vars

\* A paused or archived schedule claims no occurrence by itself (docs:
\* "Pause stops future automatic dispatches").
PausedDoesNotRun ==
  [][\A r \in DOMAIN run' \ DOMAIN run : run'[r].asked = 0 => run'[r].of \in wanted]_vars

\* Every dispatch comes to an inspectable end, also over a crash.
DispatchEnds ==
  \A r \in Runs : (r \in Dispatching) ~> (r \notin Dispatching)

\* The work of a revoked grant or a cancelled goal is stopped, also when the
\* host stops in between (cancel_delegation_runs, tick).
RevokedWorkStops ==
  \A r \in Runs : (r \in Turns /\ (~goal \/ Grant(r) \notin live)) ~>
                    (task[r] \in {"cancelling", "ended"})

\* A due occurrence is claimed, skipped or queued, or the schedule is stopped.
DueIsHandled ==
  \A s \in Schedules : (sched[s].enabled /\ sched[s].next <= now) ~>
    (~sched[s].enabled \/ sched[s].queued \/ sched[s].next > now)
=============================================================================
