------------------------------ MODULE AgentTask ------------------------------
(***************************************************************************)
(* One task of the internal agent engine (agent/manager.py): its planning, *)
(* its provider turns, the batch of tool calls each turn returns, the       *)
(* approvals it waits for, cancellation and takeover, and what a restarted  *)
(* host makes of it.                                                        *)
(*                                                                          *)
(* The manager runs on one asyncio loop.  A worker that is not suspended    *)
(* at an await runs alone, so requests interleave with it only when it is   *)
(* at one of AwaitPoints; a crash of the host interleaves anywhere, and     *)
(* every commit to SQLite is therefore a step of its own.                   *)
(*                                                                          *)
(* Calls are numbered in the order the provider issues them.  A call is     *)
(*   "read"     a tool that changes nothing and asks nobody,                *)
(*   "auto"     an effect that a rule or the agent's own mode allows,       *)
(*   "ask"      an effect that needs the user's approval,                   *)
(*   "managed"  an effect reviewed by the decision broker (module           *)
(*              DecisionBroker), whose row is abstracted to `review'.       *)
(***************************************************************************)
EXTENDS Naturals, Sequences, FiniteSets

CONSTANTS
  MaxCalls,     \* bound: calls the provider issues over the task's life
  MaxBatch,     \* bound: calls of one turn
  Kinds,        \* the kinds of call the provider may issue
  MaxPauses,    \* bound: budget pauses
  MaxAsks,      \* bound: approvals the user grants
  MaxCrashes,   \* bound: host crashes
  WithTakeover  \* whether the user may take over the computer

ASSUME AgentTaskAssumption ==
  /\ MaxCalls \in Nat /\ MaxBatch \in Nat /\ MaxPauses \in Nat
  /\ MaxAsks \in Nat /\ MaxCrashes \in Nat
  /\ Kinds \subseteq {"read", "auto", "ask", "managed"}
  /\ WithTakeover \in BOOLEAN

Calls == 1..MaxCalls

VARIABLES
  \* rows of the task store and the broker, which survive a crash
  status,      \* tasks.status
  planning,    \* runtime.tree_phase = "planning"
  transcript,  \* calls whose result is in runtime.history
  parked,      \* runtime.tree_pending_calls and tree_approved_first
  resume,      \* runtime.tree_budget_resume
  lost,        \* runtime.restart_lost_tool_approvals is not empty
  pending,     \* approvals rows with status "pending"
  ckpt,        \* the latest execution checkpoint
  review,      \* the broker's row of each managed call
  \* memory of the host process
  host,        \* "up", "down", or at a commit of its startup recovery
  cancel,      \* _cancel[task]: no event, a clear one or a set one
  private,     \* ids in _pending_approval_calls
  worker,      \* the coroutine that drives the task
  api,         \* a resolve_approval request between its commits
  takeover,    \* a takeover request awaiting computer.release_all
  \* history
  kind,        \* the kind of each call
  issued,      \* calls issued so far
  effects,     \* how often each call took effect
  grants,      \* how often the user approved each call
  confirms,    \* how often the user confirmed an ambiguous recovery of it
  everParked,  \* calls that were in a parked batch
  pauses, asks, crashes

vars == <<status, planning, transcript, parked, resume, lost, pending, ckpt,
          review, host, cancel, private, worker, api, takeover, kind, issued,
          effects, grants, confirms, everParked, pauses, asks, crashes>>

durable == <<planning, transcript, parked, resume, lost, pending, ckpt, review>>
ghosts == <<kind, issued, effects, grants, confirms, everParked, pauses, asks,
            crashes>>

-----------------------------------------------------------------------------
Terminal == {"cancelled", "failed", "completed"}
ACTIVE_STATUSES == {"planning", "awaiting_approval", "running", "cancelling",
                    "recovering", "recovery_confirmation_required"}

AwaitPoints == {"none", "created", "planning", "turn", "tool", "review",
                "releasing"}

NoWorker == [pc |-> "none", mode |-> "none", calls |-> <<>>, first |-> FALSE,
             fromParked |-> FALSE, drive |-> FALSE, done |-> FALSE, hist |-> {}]
NoCkpt == [state |-> "none", call |-> 0, rest |-> <<>>, hist |-> {}]
Unparked == [calls |-> <<>>, first |-> FALSE]
Idle == [op |-> "idle", approval |-> 0]

\* No coroutine of the loop is between two awaits.
LoopFree == host = "up" /\ api.op = "idle" /\ worker.pc \in AwaitPoints
CancelSet == cancel = "set"
Setdefault == IF cancel = "none" THEN "clear" ELSE cancel
At(pc) == host = "up" /\ api.op = "idle" /\ worker.pc = pc
To(pc) == [worker EXCEPT !.pc = pc]

-----------------------------------------------------------------------------
(* How a worker ends. *)

\* The worker returns; _drive's finally clause pops the cancel event, the
\* other entry points (_resume_approved, _resume_execution) do not.
EndWorker ==
  /\ worker' = NoWorker
  /\ cancel' = IF worker.drive THEN "none" ELSE cancel

\* _finish_state drops the private requests of the task.
_fail == status' = "failed" /\ private' = {} /\ EndWorker

\* Mutant: A cancelled await goes back to the loop.
UnwindRetries == worker' = To("top")

\* `except CancelledError': _cancelled awaits computer.release_all.
Unwind == worker' = To("releasing")

\* An exception inside the worker: _drive looks at the cancel event first.
Raise ==
  \/ /\ worker.drive /\ CancelSet /\ Unwind
     /\ UNCHANGED <<status, private, cancel>>
  \/ /\ ~(worker.drive /\ CancelSet) /\ _fail

\* _cancelled, _mark_cancelled.
MarkCancelled ==
  /\ At("releasing")
  /\ IF status = "cancelled"
     THEN UNCHANGED <<status, private>>
     ELSE status' = "cancelled" /\ private' = {}
  /\ EndWorker
  /\ UNCHANGED <<durable, host, api, takeover, ghosts>>

-----------------------------------------------------------------------------
(* Waiting for the user. *)

Fresh == CHOOSE n \in 1..Cardinality(pending) + 1 : \A a \in pending : a.id # n

\* Mutant: The pause does not save the transcript.
PauseBudgetForgets(shared, hist) ==
  /\ pauses < MaxPauses
  /\ pauses' = pauses + 1
  /\ status' = "awaiting_approval"
  /\ UNCHANGED transcript
  /\ worker' = To(IF shared THEN "pause_shared" ELSE "pause_own")

\* _pause_budget, first commit: the status and the saved transcript.
PauseBudget(shared, hist) ==
  /\ pauses < MaxPauses
  /\ pauses' = pauses + 1
  /\ status' = "awaiting_approval"
  /\ transcript' = hist
  /\ worker' = To(IF shared THEN "pause_shared" ELSE "pause_own")

\* _pause_budget, second commit: the approval; then the worker returns.
PauseBudgetAsks ==
  /\ At("pause_shared") \/ At("pause_own")
  /\ pending' = pending \cup {[id |-> Fresh, kind |-> "budget", calls |-> <<>>,
                               hist |-> {}, shared |-> worker.pc = "pause_shared"]}
  /\ EndWorker
  /\ UNCHANGED <<status, planning, transcript, parked, resume, lost, ckpt,
                 review, host, private, api, takeover, ghosts>>

\* _run_calls, the call at the head needs the user: first commit, the
\* approval row, and the private request kept in memory.
AskFor(calls) ==
  /\ pending' = pending \cup {[id |-> Fresh, kind |-> "tool", calls |-> calls,
                               hist |-> worker.hist, shared |-> FALSE]}
  /\ private' = private \cup {Fresh}
  /\ worker' = To("asking")

\* Second commit: the status; a managed call also saves the transcript.
AskedFor ==
  /\ At("asking")
  /\ status' = "awaiting_approval"
  /\ transcript' = IF kind[Head(worker.calls)] = "managed"
                   THEN worker.hist ELSE transcript
  /\ EndWorker
  /\ UNCHANGED <<planning, parked, resume, lost, pending, ckpt, review, host,
                 private, api, takeover, ghosts>>

-----------------------------------------------------------------------------
(* Planning: create_task, _prepare_task, _resume_planning. *)

Init ==
  /\ status = "planning" /\ planning = TRUE /\ transcript = {}
  /\ parked = Unparked /\ resume = FALSE /\ lost = FALSE
  /\ pending = {} /\ ckpt = NoCkpt
  /\ review = [c \in Calls |-> "new"]
  /\ host = "up" /\ cancel = "clear" /\ private = {}
  /\ worker = [NoWorker EXCEPT !.pc = "planning", !.mode = "plan",
                               !.drive = TRUE]
  /\ api = Idle /\ takeover = FALSE
  /\ kind \in [Calls -> Kinds]
  /\ issued = 0
  /\ effects = [c \in Calls |-> 0] /\ grants = [c \in Calls |-> 0]
  /\ confirms = [c \in Calls |-> 0] /\ everParked = {}
  /\ pauses = 0 /\ asks = 0 /\ crashes = 0

\* The plan arrives: the status is committed, then its approval.  Nothing
\* looks at the cancel event after the plan was awaited.
PlanReady ==
  /\ At("planning")
  /\ status' = "awaiting_approval" /\ planning' = FALSE /\ transcript' = {}
  /\ parked' = Unparked /\ resume' = FALSE
  /\ worker' = To("planned")
  /\ UNCHANGED <<lost, pending, ckpt, review, host, cancel, private, api,
                 takeover, ghosts>>

PlanAsks ==
  /\ At("planned")
  /\ pending' = pending \cup {[id |-> Fresh, kind |-> "plan", calls |-> <<>>,
                               hist |-> {}, shared |-> FALSE]}
  /\ EndWorker
  /\ UNCHANGED <<status, planning, transcript, parked, resume, lost, ckpt,
                 review, host, private, api, takeover, ghosts>>

\* Planning is cancelled, fails, or runs out of the tree's time.
PlanFails ==
  /\ At("planning")
  /\ \/ /\ CancelSet /\ status' = "cancelled" /\ private' = {} /\ EndWorker
        /\ UNCHANGED <<transcript, pauses>>
     \/ /\ ~CancelSet /\ _fail
        /\ UNCHANGED <<transcript, pauses>>
     \/ /\ PauseBudget(TRUE, {})
        /\ UNCHANGED <<private, cancel>>
  /\ UNCHANGED <<planning, parked, resume, lost, pending, ckpt, review, host,
                 api, takeover, kind, issued, effects, grants, confirms,
                 everParked, asks, crashes>>

-----------------------------------------------------------------------------
(* The worker: _launch, _drive. *)

\* _launch only schedules the coroutine; it runs when the loop reaches it.
Launched(mode, calls, first, hist) ==
  [NoWorker EXCEPT !.pc = "created", !.mode = mode, !.calls = calls,
                   !.first = first, !.hist = hist, !.drive = mode = "plan"]

\* _drive starts: it registers the cancel event and sets the status
\* whatever the status was.
StartDrive(hist) ==
  /\ status' = "running"
  /\ cancel' = Setdefault
  /\ worker' = [worker EXCEPT !.pc = "top", !.drive = TRUE, !.calls = <<>>,
                              !.first = FALSE, !.hist = hist]

\* The worker's first step, by entry point: _resume_planning, _drive,
\* _resume_approved, _resume_execution.
Begin ==
  /\ At("created")
  /\ CASE worker.mode = "plan" ->
            /\ cancel' = Setdefault /\ worker' = To("planning")
            /\ UNCHANGED <<status, ckpt>>
       [] worker.mode = "drive" ->
            StartDrive(transcript) /\ UNCHANGED ckpt
       [] worker.mode = "approved" ->
            /\ cancel' = Setdefault /\ worker' = To("calls")
            /\ UNCHANGED <<status, ckpt>>
       [] worker.mode = "resume" ->
            /\ ckpt' = IF ckpt.state = "completed_uncommitted"
                       THEN [ckpt EXCEPT !.state = "committed"] ELSE ckpt
            /\ status' = "running"
            /\ cancel' = Setdefault /\ worker' = To("calls")
  /\ UNCHANGED <<planning, transcript, parked, resume, lost, pending, review,
                 host, private, api, takeover, ghosts>>

\* The head of _drive's loop: cancellation, then the budget, then a batch
\* that a refused reservation left parked, then a provider turn.
Top ==
  /\ At("top")
  /\ \/ CancelSet /\ Unwind /\ UNCHANGED <<status, transcript, pauses>>
     \/ /\ ~CancelSet
        /\ \E shared \in BOOLEAN : PauseBudget(shared, worker.hist)
     \/ /\ ~CancelSet /\ parked.calls # <<>>
        /\ worker' = [worker EXCEPT !.pc = "calls", !.calls = parked.calls,
                        !.first = parked.first, !.fromParked = TRUE]
        /\ UNCHANGED <<status, transcript, pauses>>
     \/ /\ ~CancelSet /\ parked.calls = <<>>
        /\ worker' = To("turn")
        /\ UNCHANGED <<status, transcript, pauses>>
  /\ UNCHANGED <<planning, parked, resume, lost, pending, ckpt, review, host,
                 cancel, private, api, takeover, kind, issued, effects, grants,
                 confirms, everParked, asks, crashes>>

\* The provider answers with a batch of calls.
TurnCalls ==
  /\ At("turn") /\ ~CancelSet
  /\ \E n \in 1..MaxBatch :
       /\ issued + n <= MaxCalls
       /\ issued' = issued + n
       /\ worker' = [worker EXCEPT !.pc = "calls", !.fromParked = FALSE,
                       !.first = FALSE, !.calls = [i \in 1..n |-> issued + i]]
  /\ UNCHANGED <<status, durable, host, cancel, private, api, takeover, kind,
                 effects, grants, confirms, everParked, pauses, asks, crashes>>

\* The provider answers with no call: the task is completed, runtime = {}.
TurnCompletes ==
  /\ At("turn") /\ ~CancelSet
  /\ status' = "completed"
  /\ planning' = FALSE /\ transcript' = {} /\ parked' = Unparked
  /\ resume' = FALSE /\ lost' = FALSE
  /\ EndWorker
  /\ UNCHANGED <<pending, ckpt, review, host, private, api, takeover, ghosts>>

\* The turn is cancelled, fails, or runs out of the tree's time; the clock is
\* read before the cancelled request is looked at.
TurnFails ==
  /\ At("turn")
  /\ \/ CancelSet /\ Unwind
        /\ UNCHANGED <<status, private, cancel, transcript, pauses>>
     \/ ~CancelSet /\ _fail /\ UNCHANGED <<transcript, pauses>>
     \/ /\ PauseBudget(TRUE, worker.hist)
        /\ UNCHANGED <<private, cancel>>
  /\ UNCHANGED <<planning, parked, resume, lost, pending, ckpt, review, host,
                 api, takeover, kind, issued, effects, grants, confirms,
                 everParked, asks, crashes>>

-----------------------------------------------------------------------------
(* A batch of calls: _run_calls. *)

HeadCall == Head(worker.calls)
HeadKind == kind[HeadCall]

\* The scheduler's group at the head: adjacent reads run together.
GroupSize ==
  IF HeadKind # "read" THEN 1
  ELSE CHOOSE n \in 1..Len(worker.calls) :
         /\ \A i \in 1..n : kind[worker.calls[i]] = "read"
         /\ n = Len(worker.calls) \/ kind[worker.calls[n + 1]] # "read"

\* Mutant: `index == 0' is missing, the approval covers the whole batch.
AdvanceApproved(n, hist) ==
  [worker EXCEPT !.pc = "calls", !.done = FALSE, !.hist = hist,
                 !.calls = SubSeq(worker.calls, n + 1, Len(worker.calls))]

Advance(n, hist) ==
  [worker EXCEPT !.pc = "calls", !.first = FALSE, !.done = FALSE, !.hist = hist,
                 !.calls = SubSeq(worker.calls, n + 1, Len(worker.calls))]

\* tree_budget.reserve refuses the group: the rest of the batch is parked in
\* the task's row, then the task pauses for a budget decision.
ParkBatch ==
  /\ At("calls") /\ worker.calls # <<>> /\ pauses < MaxPauses
  /\ parked' = [calls |-> worker.calls, first |-> worker.first]
  /\ everParked' = everParked \cup {worker.calls[i] : i \in DOMAIN worker.calls}
  /\ worker' = To("parked")
  /\ UNCHANGED <<status, planning, transcript, resume, lost, pending, ckpt,
                 review, host, cancel, private, api, takeover, kind, issued,
                 effects, grants, confirms, pauses, asks, crashes>>

PausePark ==
  /\ At("parked")
  /\ PauseBudget(TRUE, worker.hist)
  /\ UNCHANGED <<planning, parked, resume, lost, pending, ckpt, review, host,
                 cancel, private, api, takeover, kind, issued, effects, grants,
                 confirms, everParked, asks, crashes>>

\* _invoke_tool: a set cancel event stops the call before it starts.
Invoke == IF CancelSet THEN Unwind ELSE worker' = To("tool")

RunReads ==
  /\ At("calls") /\ worker.calls # <<>> /\ HeadKind = "read"
  /\ Invoke
  /\ UNCHANGED <<status, durable, host, cancel, private, api, takeover, ghosts>>

\* A call that needs the user, unless it is the approved head of the batch.
Ask ==
  /\ At("calls") /\ worker.calls # <<>>
  /\ HeadKind = "ask" /\ ~worker.first
  /\ AskFor(worker.calls)
  /\ UNCHANGED <<status, planning, transcript, parked, resume, lost, ckpt,
                 review, host, cancel, api, takeover, ghosts>>

WriteCheckpoint(state) ==
  ckpt' = [state |-> state, call |-> HeadCall, rest |-> Tail(worker.calls),
           hist |-> worker.hist]

\* An allowed effect: its checkpoint is committed as prepared.
Prepare ==
  /\ At("calls") /\ worker.calls # <<>>
  /\ HeadKind = "auto" \/ (HeadKind = "ask" /\ worker.first)
  /\ WriteCheckpoint("prepared")
  /\ worker' = To("prepared")
  /\ UNCHANGED <<status, planning, transcript, parked, resume, lost, pending,
                 review, host, cancel, private, api, takeover, ghosts>>

\* A managed call is put to the broker, which may await a reviewer.
StartReview ==
  /\ At("calls") /\ worker.calls # <<>> /\ HeadKind = "managed"
  /\ worker' = To("review")
  /\ UNCHANGED <<status, durable, host, cancel, private, api, takeover, ghosts>>

\* The broker permits it: new actions by its rules or reviewer, an approved
\* one always.  The permit is consumed when the effect starts.
ReviewPermits ==
  /\ At("review") /\ review[HeadCall] \in {"new", "approved"}
  /\ review' = [review EXCEPT ![HeadCall] = "permitted"]
  /\ WriteCheckpoint("prepared")
  /\ worker' = To("prepared")
  /\ UNCHANGED <<status, planning, transcript, parked, resume, lost, pending,
                 host, cancel, private, api, takeover, ghosts>>

\* It wants the user's decision.
ReviewAsks ==
  /\ At("review") /\ review[HeadCall] \in {"new", "needs_user"}
  /\ review' = [review EXCEPT ![HeadCall] = "needs_user"]
  /\ AskFor(worker.calls)
  /\ UNCHANGED <<status, planning, transcript, parked, resume, lost, ckpt,
                 host, cancel, api, takeover, ghosts>>

\* It blocks the action, or the action was consumed before: the model is
\* told, and the batch goes on.
ReviewRefuses ==
  /\ At("review")
  /\ review' = IF review[HeadCall] = "spent" THEN review
               ELSE [review EXCEPT ![HeadCall] = "spent"]
  /\ worker' = Advance(1, worker.hist \cup {HeadCall})
  /\ UNCHANGED <<status, planning, transcript, parked, resume, lost, pending,
                 ckpt, host, cancel, private, api, takeover, ghosts>>

\* The action id was seen with other arguments or another baseline.
ReviewFails ==
  /\ At("review") /\ review[HeadCall] # "new"
  /\ Raise
  /\ UNCHANGED <<durable, host, api, takeover, ghosts>>

\* The checkpoint is committed as running and the tool is called; a managed
\* call consumes its permit first.
StartEffect ==
  /\ At("prepared")
  /\ ckpt' = [ckpt EXCEPT !.state = "running"]
  /\ review' = IF HeadKind = "managed"
               THEN [review EXCEPT ![HeadCall] = "spent"] ELSE review
  /\ Invoke
  /\ UNCHANGED <<status, planning, transcript, parked, resume, lost, pending,
                 host, cancel, private, api, takeover, ghosts>>

\* The tool does its work, on the host or in a process of its own.
ToolActs ==
  /\ At("tool") /\ ~worker.done /\ HeadKind # "read"
  /\ worker' = [worker EXCEPT !.done = TRUE]
  /\ effects' = [effects EXCEPT ![HeadCall] = @ + 1]
  /\ UNCHANGED <<status, durable, host, cancel, private, api, takeover, kind,
                 issued, grants, confirms, everParked, pauses, asks, crashes>>

\* The results of a group of reads join the transcript.
ReadsReturn ==
  /\ At("tool") /\ HeadKind = "read"
  /\ worker' = Advance(GroupSize, worker.hist \cup
                         {worker.calls[i] : i \in 1..GroupSize})
  /\ UNCHANGED <<status, durable, host, cancel, private, api, takeover, ghosts>>

\* The result of an effect is saved with its checkpoint.
ToolReturns ==
  /\ At("tool") /\ worker.done
  /\ ckpt' = [ckpt EXCEPT !.state = "completed_uncommitted"]
  /\ worker' = To("saved")
  /\ UNCHANGED <<status, planning, transcript, parked, resume, lost, pending,
                 review, host, cancel, private, api, takeover, ghosts>>

\* The checkpoint is committed; a tool that saw the cancellation says so.
CommitResult ==
  /\ At("saved")
  /\ ckpt' = [ckpt EXCEPT !.state = "committed"]
  /\ \/ worker' = Advance(1, worker.hist \cup {HeadCall})
     \/ CancelSet /\ Unwind
  /\ UNCHANGED <<status, planning, transcript, parked, resume, lost, pending,
                 review, host, cancel, private, api, takeover, ghosts>>

\* The tool raises, runs out of the tree's time, or is cancelled.
ToolFails ==
  /\ At("tool")
  /\ \/ Raise
     \/ CancelSet /\ Unwind /\ UNCHANGED <<status, private, cancel>>
  /\ UNCHANGED <<durable, host, api, takeover, ghosts>>

\* The batch is finished.  Inside _drive the transcript is saved: after a
\* parked batch the parked calls are forgotten and a turn follows, after a
\* turn's own batch the whole runtime is replaced.  Outside, _drive starts.
BatchDone ==
  /\ At("calls") /\ worker.calls = <<>>
  /\ \/ /\ worker.drive
        /\ transcript' = worker.hist /\ parked' = Unparked
        /\ worker' = [worker EXCEPT !.pc = IF worker.fromParked THEN "turn"
                                           ELSE "top",
                                    !.fromParked = FALSE]
        /\ resume' = (resume /\ worker.fromParked)
        /\ lost' = (lost /\ worker.fromParked)
        /\ planning' = (planning /\ worker.fromParked)
        /\ UNCHANGED <<status, cancel>>
     \/ /\ ~worker.drive
        /\ StartDrive(worker.hist)
        /\ UNCHANGED <<transcript, parked, resume, lost, planning>>
  /\ UNCHANGED <<pending, ckpt, review, host, private, api, takeover, ghosts>>

-----------------------------------------------------------------------------
(* Requests of the user: resolve_approval, cancel, takeover. *)

Resolvable(a) == a.kind = "tool" => a.id \in private

\* A decision is committed to the approval row first.  A grant of the shared
\* budget leaves a durable mark in the same transaction.
Approve(a) ==
  /\ LoopFree /\ status = "awaiting_approval" /\ a \in pending
  /\ Resolvable(a) /\ worker.pc = "none" /\ asks < MaxAsks
  /\ asks' = asks + 1
  /\ pending' = pending \ {a}
  /\ private' = private \ {a.id}
  /\ resume' = (resume \/ a.shared)
  /\ grants' = IF a.kind = "tool"
               THEN [grants EXCEPT ![Head(a.calls)] = @ + 1] ELSE grants
  /\ api' = [op |-> "granted", approval |-> a]
  /\ UNCHANGED <<status, planning, transcript, parked, lost, ckpt, review,
                 host, cancel, worker, takeover, kind, issued, effects,
                 confirms, everParked, pauses, crashes>>

\* Then the worker is launched: for a budget the mark is removed and planning
\* or driving goes on, for a plan driving begins, for a tool its request runs.
Granted ==
  /\ host = "up" /\ api.op = "granted"
  /\ LET a == api.approval IN
     /\ worker' =
          CASE a.kind = "budget" /\ planning -> Launched("plan", <<>>, FALSE, {})
            [] a.kind = "plan" \/ (a.kind = "budget" /\ ~planning) ->
                 Launched("drive", <<>>, FALSE, {})
            [] a.kind = "tool" -> Launched("approved", a.calls, TRUE, a.hist)
     /\ resume' = (resume /\ a.kind # "budget")
     /\ review' = IF a.kind = "tool" /\ review[Head(a.calls)] = "needs_user"
                  THEN [review EXCEPT ![Head(a.calls)] = "approved"] ELSE review
  /\ api' = Idle
  /\ UNCHANGED <<status, planning, transcript, parked, lost, pending, ckpt,
                 host, cancel, private, takeover, ghosts>>

\* Mutant: The decision is committed and the private request stays until the
\* task is finished.
DenyKeepsRequest(a) ==
  /\ LoopFree /\ status = "awaiting_approval" /\ a \in pending
  /\ pending' = pending \ {a}
  /\ api' = [op |-> "denied", approval |-> a]
  /\ UNCHANGED <<status, planning, transcript, parked, resume, lost, ckpt,
                 review, host, cancel, private, worker, takeover, ghosts>>

Deny(a) ==
  /\ LoopFree /\ status = "awaiting_approval" /\ a \in pending
  /\ pending' = pending \ {a}
  /\ private' = private \ {a.id}
  /\ api' = [op |-> "denied", approval |-> a]
  /\ UNCHANGED <<status, planning, transcript, parked, resume, lost, ckpt,
                 review, host, cancel, worker, takeover, ghosts>>

Denied ==
  /\ host = "up" /\ api.op = "denied"
  /\ status' = "cancelled" /\ private' = {}
  /\ review' = LET a == api.approval IN
       IF a.kind = "tool" /\ review[Head(a.calls)] = "needs_user"
       THEN [review EXCEPT ![Head(a.calls)] = "spent"] ELSE review
  /\ api' = Idle
  /\ UNCHANGED <<planning, transcript, parked, resume, lost, pending, ckpt,
                 host, cancel, worker, takeover, ghosts>>

\* cancel(): with a cancel event the worker is told, without one the task is
\* taken to have no live worker and is finalized in place.
RequestCancel ==
  IF cancel = "none"
  THEN /\ status' = "cancelled" /\ private' = {} /\ UNCHANGED cancel
  ELSE /\ cancel' = "set" /\ status' = "cancelling" /\ UNCHANGED private

Cancel ==
  /\ LoopFree /\ status \in ACTIVE_STATUSES
  /\ ~(status = "cancelling" /\ CancelSet)
  /\ RequestCancel
  /\ UNCHANGED <<durable, host, worker, api, takeover, ghosts>>

\* takeover(): cancel(), then computer.release_all is awaited, then the task
\* is marked cancelled whatever its worker is doing.
Takeover ==
  /\ WithTakeover /\ LoopFree /\ ~takeover /\ status \in ACTIVE_STATUSES
  /\ RequestCancel
  /\ takeover' = TRUE
  /\ UNCHANGED <<durable, host, worker, api, ghosts>>

TakeoverMarks ==
  /\ LoopFree /\ takeover
  /\ takeover' = FALSE
  /\ IF status = "cancelled" THEN UNCHANGED <<status, private>>
     ELSE status' = "cancelled" /\ private' = {}
  /\ UNCHANGED <<durable, host, cancel, worker, api, ghosts>>

-----------------------------------------------------------------------------
(* The host stops anywhere; what is in memory is gone. *)

Crash ==
  /\ host # "down" /\ crashes < MaxCrashes
  /\ crashes' = crashes + 1
  /\ host' = "down"
  /\ cancel' = "none" /\ private' = {} /\ worker' = NoWorker
  /\ api' = Idle /\ takeover' = FALSE
  /\ UNCHANGED <<status, durable, kind, issued, effects, grants, confirms,
                 everParked, pauses, asks>>

(* _recover_interrupted_tasks, at startup, in its order of commits. *)

MissingRequests == {a \in pending : a.kind = "tool"}
volatile == <<cancel, private, worker, api, takeover>>

\* The broker starts first: a permit that was not used is void.  A task whose
\* tool request was lost with the memory is marked before it is settled.
Restart ==
  /\ host = "down"
  /\ host' = "marked"
  /\ review' = [c \in Calls |->
                  IF review[c] = "permitted" THEN "spent" ELSE review[c]]
  /\ lost' = (lost \/ (status \in ACTIVE_STATUSES /\ MissingRequests # {}))
  /\ UNCHANGED <<status, planning, transcript, parked, resume, pending, ckpt,
                 volatile, ghosts>>

SettleMissing ==
  /\ host = "marked"
  /\ host' = "settled"
  /\ pending' = IF status \in ACTIVE_STATUSES
                THEN pending \ MissingRequests ELSE pending
  /\ UNCHANGED <<status, planning, transcript, parked, resume, lost, ckpt,
                 review, volatile, ghosts>>

\* Mutant: An ambiguous effect is resumed like one that never started.
recovery_decisionReplays ==
  CASE ckpt.state = "none" -> "not_resumable"
    [] ckpt.state \in {"prepared", "running"} -> "resume_safe"
    [] ckpt.state = "committed" -> "resume_committed"
    [] ckpt.state = "completed_uncommitted" -> "resume_reuse"

\* recovery_decision, _managed_action_needs_fresh_instruction.
recovery_decision ==
  CASE ckpt.state = "none" -> "not_resumable"
    [] ckpt.state = "prepared" -> "resume_safe"
    [] ckpt.state = "committed" -> "resume_committed"
    [] ckpt.state = "completed_uncommitted" -> "resume_reuse"
    [] ckpt.state = "running" -> "confirm_required"

NeedsFreshInstruction ==
  ckpt.state \in {"prepared", "running"} /\ kind[ckpt.call] = "managed"

PendingBudget == \E a \in pending : a.kind = "budget"

\* Mutant: Any task that waits is left alone, whether a request is pending.
PendingBoundaryAny == TRUE

PendingBoundary == \E a \in pending : a.kind \in {"plan", "budget"}

\* Mutant: The checkpoint is asked before the cancellation.
RecoveredStatusResurrects ==
  CASE lost -> "failed"
    [] ~lost /\ recovery_decision = "not_resumable" -> "failed"
    [] ~lost /\ recovery_decision = "confirm_required" ->
         "recovery_confirmation_required"
    [] OTHER -> "recovering"

\* Mutant: A task without a checkpoint keeps its status.
RecoveredStatusKeeps ==
  CASE status = "cancelling" -> "cancelled"
    [] status # "cancelling" /\ lost -> "failed"
    [] status # "cancelling" /\ ~lost /\ PendingBoundary -> status
    [] status # "cancelling" /\ ~lost /\ ~PendingBoundary ->
         IF recovery_decision = "not_resumable" THEN status ELSE "recovering"

\* What an interrupted task becomes: cancellation wins, then a lost request,
\* then a budget grant that was cut short, then a durable approval, then the
\* checkpoint.
RecoveredStatus ==
  CASE status = "cancelling" -> "cancelled"
    [] status # "cancelling" /\ lost -> "failed"
    [] status # "cancelling" /\ ~lost /\ resume ->
         IF PendingBudget THEN status ELSE "awaiting_approval"
    [] status = "awaiting_approval" /\ ~lost /\ ~resume /\ PendingBoundary -> status
    [] OTHER ->
         CASE NeedsFreshInstruction -> "failed"
           [] ~NeedsFreshInstruction /\ recovery_decision = "not_resumable" -> "failed"
           [] ~NeedsFreshInstruction /\ recovery_decision = "confirm_required" ->
                "recovery_confirmation_required"
           [] OTHER -> "recovering"

RecoveredPending ==
  IF status # "cancelling" /\ lost THEN {}
  ELSE IF status # "cancelling" /\ resume /\ ~PendingBudget
  THEN pending \cup {[id |-> Fresh, kind |-> "budget", calls |-> <<>>,
                      hist |-> {}, shared |-> TRUE]}
  ELSE pending

RecoverInterrupted ==
  /\ host = "settled"
  /\ host' = "up"
  /\ IF status \in ACTIVE_STATUSES
     THEN status' = RecoveredStatus /\ pending' = RecoveredPending
     ELSE UNCHANGED <<status, pending>>
  /\ UNCHANGED <<planning, transcript, parked, resume, lost, ckpt, review,
                 volatile, ghosts>>

\* recover_task: by the host at startup for "recovering", by the user with
\* confirm for an ambiguous effect.
Recover(confirm) ==
  /\ LoopFree /\ worker.pc = "none"
  /\ status = IF confirm THEN "recovery_confirmation_required" ELSE "recovering"
  /\ IF NeedsFreshInstruction
     THEN /\ status' = "failed"
          /\ UNCHANGED <<worker, confirms>>
     ELSE /\ confirm \/ recovery_decision # "confirm_required"
          /\ status' = "recovering"
          /\ confirms' = IF recovery_decision = "confirm_required"
                         THEN [confirms EXCEPT ![ckpt.call] = @ + 1]
                         ELSE confirms
          /\ worker' =
               IF recovery_decision \in {"resume_reuse", "resume_committed"}
               THEN Launched("resume", ckpt.rest, FALSE,
                             ckpt.hist \cup {ckpt.call})
               ELSE Launched("resume", <<ckpt.call>> \o ckpt.rest, TRUE,
                             ckpt.hist)
  /\ UNCHANGED <<durable, host, cancel, private, api, takeover, kind, issued,
                 effects, grants, everParked, pauses, asks, crashes>>

-----------------------------------------------------------------------------
WorkerStep ==
  \/ PlanReady \/ PlanAsks \/ PlanFails
  \/ Begin \/ Top \/ TurnCalls \/ TurnCompletes \/ TurnFails
  \/ ParkBatch \/ PausePark \/ PauseBudgetAsks
  \/ RunReads \/ Ask \/ AskedFor \/ Prepare
  \/ StartReview \/ ReviewPermits \/ ReviewAsks \/ ReviewRefuses \/ ReviewFails
  \/ StartEffect \/ ToolActs \/ ReadsReturn \/ ToolReturns \/ CommitResult
  \/ ToolFails \/ BatchDone \/ MarkCancelled

HostStep == Restart \/ SettleMissing \/ RecoverInterrupted
            \/ Granted \/ Denied \/ TakeoverMarks \/ Recover(FALSE)

UserStep == \/ \E a \in pending : Approve(a) \/ Deny(a)
            \/ Cancel \/ Takeover \/ Recover(TRUE)

Next == WorkerStep \/ HostStep \/ UserStep \/ Crash

Spec == Init /\ [][Next]_vars

\* The loop runs every coroutine that can go on, a provider turn and a tool
\* end (both have time limits), and a stopped host is started again.  Nothing
\* is assumed of the user.
FairSpec == Spec /\ WF_vars(WorkerStep) /\ WF_vars(HostStep)

-----------------------------------------------------------------------------
(* Type invariant. *)
Requests ==
  [id : Nat \ {0}, kind : {"plan", "budget", "tool"}, calls : Seq(Calls),
   hist : SUBSET Calls, shared : BOOLEAN]

\* Every variable stays within the values the code gives it.
TypeOK ==
  /\ status \in ACTIVE_STATUSES \cup Terminal
  /\ {planning, resume, lost, takeover} \subseteq BOOLEAN
  /\ {transcript, everParked} \subseteq SUBSET Calls
  /\ parked \in [calls : Seq(Calls), first : BOOLEAN]
  /\ pending \subseteq Requests
  /\ ckpt \in [state : {"none", "prepared", "running", "completed_uncommitted",
                        "committed"},
               call : Calls \cup {0}, rest : Seq(Calls), hist : SUBSET Calls]
  /\ review \in [Calls -> {"new", "needs_user", "approved", "permitted", "spent"}]
  /\ host \in {"up", "down", "marked", "settled"}
  /\ cancel \in {"none", "clear", "set"}
  /\ private \subseteq {a.id : a \in pending}
  /\ worker.pc \in AwaitPoints \cup
       {"planned", "top", "calls", "parked", "pause_shared", "pause_own",
        "asking", "prepared", "saved"}
  /\ worker.calls \in Seq(Calls) /\ worker.hist \subseteq Calls
  /\ api.op \in {"idle", "granted", "denied"}

-----------------------------------------------------------------------------
(* Safety. *)

Settled == status \in Terminal
Waiting == status \in {"awaiting_approval", "recovery_confirmation_required"}

\* An effect that took place is not repeated, by a crash, by a recovery, or by
\* an approval, unless the user confirmed an ambiguous recovery of that very
\* call (recovery.py: "never replays an ambiguous side effect
\* automatically").  Calls that were in a parked batch are the exception that
\* CompletedToolsAreNotReplayed is about.  A reviewed action takes effect once
\* at most, parked or confirmed as it may be: "confirmation never recreates or
\* replays a consumed exact permit" (recover_task).
NoUnconfirmedReplay ==
  /\ \A c \in Calls \ everParked : effects[c] <= 1 + confirms[c]
  /\ \A c \in Calls : kind[c] = "managed" => effects[c] <= 1

\* A call that needs the user takes effect no more often than the user
\* granted it or confirmed its recovery.
EveryEffectWasGranted ==
  \A c \in Calls \ everParked :
    kind[c] = "ask" => effects[c] <= grants[c] + confirms[c]

\* The provider is never asked to go on without the result of an effect that
\* took place: not after an approval, a pause, or any recovery.
NoResultIsLost ==
  worker.pc = "turn" => \A c \in Calls : effects[c] > 0 => c \in worker.hist

\* A task that waits for approval, and whose worker is gone, has a request
\* that can still be granted: no wait that only cancellation ends.
WaitCanBeAnswered ==
  LoopFree /\ status = "awaiting_approval" /\ worker.pc = "none"
    => \E a \in pending : Resolvable(a)

(* Action properties. *)

\* A cancellation that was recorded before the host stopped is carried out by
\* the next host, and no worker is started for it.
CancelSurvivesRestart ==
  [][host # "up" /\ status = "cancelling"
       => status' \in {"cancelling", "cancelled"} /\ worker'.pc = "none"]_vars

(* Liveness, under FairSpec. *)

\* However it is cancelled, paused, parked, or crashed, the task comes to rest:
\* finished, or waiting for the user.  The exception is a task left cancelling
\* with no worker: a resumed worker that pauses again leaves its cancel event
\* behind, and the next cancel() sets that event and finds nobody to read it.
ComesToRest ==
  []<>(Settled \/ Waiting \/ (status = "cancelling" /\ worker.pc = "none"))

\* A cancellation that finds a worker does not stay a request.
WorkerAnswersCancel ==
  (status = "cancelling" /\ worker.pc # "none") ~> (status # "cancelling")

\* A task can always go on from what is recorded: no result of an effect is
\* missing from the transcript handed to the provider, and a wait for approval
\* has a request that can be answered (_pause_budget, _recover_interrupted_tasks).
NothingIsForgotten == TypeOK /\ NoResultIsLost /\ WaitCanBeAnswered

\* A recorded cancellation is carried out, by the worker it finds or by the
\* host that starts after a crash (cancel, _drive, _recover_interrupted_tasks).
CancelIsAnswered == CancelSurvivesRestart /\ WorkerAnswersCancel

(* What the documents say, and the code does not do. *)

\* "Approving it continues the same task with an additional step allowance and
\* a fresh time window; completed tools are not replayed." (README.md:113-115)
CompletedToolsAreNotReplayed ==
  \A c \in Calls : effects[c] <= 1 + confirms[c]

\* "Cancelled tasks stay terminal."
\* (docs/verification/product-completion-audit-2026-10-26.md:24)
TerminalIsFinal == [][Settled => status' \in Terminal]_vars

\* "Stop run cancels a current run, including one still planning."
\* (docs/autonomous-agents.md:81): the request does not become a wait for the user.
CancelIsKept ==
  [][status = "cancelling" => status' # "awaiting_approval"]_vars

=============================================================================
