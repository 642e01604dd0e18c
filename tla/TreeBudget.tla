----------------------------- MODULE TreeBudget -----------------------------
(***************************************************************************)
(* The durable execution allowance that one parent task shares with all    *)
(* its subagents (src/src/termx/agent/tree_budget.py), with the manager's  *)
(* decisions that feed it: parking an exhausted task, approving or denying *)
(* its budget request, and relaunching it (src/src/termx/agent/manager.py).*)
(* Every method of TreeBudget is one SQLite transaction, hence one action. *)
(***************************************************************************)
EXTENDS Integers, FiniteSets

CONSTANTS
    Tasks,          \* task identifiers
    Parent,         \* [Tasks -> Tasks \cup {NoTask}]: tasks.parent_id
    RootOf,         \* [Tasks -> Tasks]: the top of each parent chain
    NoTask,         \* no parent, no pending launch
    Positions,      \* execution-call positions ("step:digest") of a task
    StepLimits,     \* max_steps values a human or the defaults may choose
    SecondLimits,   \* max_seconds values likewise
    MaxTime,        \* bound on the modelled clock
    MaxWorked,      \* bound on the worker seconds of one grant
    MaxVersion      \* bound on the number of grants of one tree

NoLease == -1
NoRequest == [version |-> 0, reuse |-> FALSE]

Limits == [max_steps : StepLimits, max_seconds : SecondLimits]

ASSUME TreeAssumption ==
    /\ IsFiniteSet(Tasks) /\ NoTask \notin Tasks
    /\ Parent \in [Tasks -> Tasks \cup {NoTask}]
    /\ RootOf \in [Tasks -> Tasks]
    /\ \A t \in Tasks :
         RootOf[t] = IF Parent[t] = NoTask THEN t ELSE RootOf[Parent[t]]

ASSUME BoundsAssumption ==
    /\ StepLimits \subseteq Nat \ {0} /\ SecondLimits \subseteq Nat \ {0}
    /\ IsFiniteSet(Positions)
    /\ MaxTime \in Nat /\ MaxWorked \in Nat /\ MaxVersion \in Nat

VARIABLES
    limits,     \* tasks.limits, rewritten by an approved budget
    rows,       \* roots with a row in agent_tree_budget
    budget,     \* the row of each root
    member,     \* agent_tree_member
    reserved,   \* agent_tree_step: <<task, position>> pairs
    lease,      \* agent_tree_lease.touched, or NoLease
    request,    \* the task's pending budget approval, or NoRequest
    resume,     \* tasks whose runtime carries tree_budget_resume
    ended,      \* tasks in a terminal status
    launching,  \* a task approved whose worker is not launched yet
    up,         \* the host process runs
    now,        \* the host's clock
    worked,     \* history: worker seconds of the tree since its last grant
    uncertain,  \* history: roots that lost a live lease since their last grant
    monotone    \* history: the clock was never set back

durable == <<limits, rows, budget, member, reserved>>
decision == <<request, resume, ended, launching>>
history == <<worked, uncertain, monotone>>
vars == <<durable, lease, decision, up, now, history>>

TypeOK ==
    /\ limits \in [Tasks -> [max_steps : Nat, max_seconds : Nat]]
    /\ rows \subseteq Tasks /\ member \subseteq Tasks
    /\ budget \in [Tasks -> [max_steps : Nat, max_seconds : Nat, steps : Nat,
                             seconds : Nat, version : Nat]]
    /\ reserved \subseteq Tasks \X Positions
    /\ lease \in [Tasks -> Nat \cup {NoLease}]
    /\ request \in [Tasks -> [version : Nat, reuse : BOOLEAN]]
    /\ resume \subseteq Tasks /\ ended \subseteq Tasks
    /\ launching \in Tasks \cup {NoTask}
    /\ up \in BOOLEAN /\ now \in Nat
    /\ worked \in [Tasks -> Nat] /\ uncertain \subseteq Tasks
    /\ monotone \in BOOLEAN

-----------------------------------------------------------------------------
\* The ancestors of t, t included: the smallest set that holds t and is
\* closed under Parent.
Chain(t) ==
    {u \in Tasks : \A S \in SUBSET Tasks :
        (t \in S /\ \A v \in S : Parent[v] # NoTask => Parent[v] \in S) => u \in S}

TreeOf(r) == {t \in Tasks : RootOf[t] = r}
Leased(r) == {t \in TreeOf(r) : lease[t] # NoLease}
Reserved(r) == {s \in reserved : RootOf[s[1]] = r}

\* Worker seconds not yet added to the row, one element per second of a lease:
\* their number is the sum of max(0, now - touched) over the leases of r.
Unsettled(r) ==
    Cardinality({w \in Leased(r) \X (1..now) : w[2] > lease[w[1]]})

\* Mutant: Keeps a remaining allowance and counts it down.
SpentCountsDown(r) == budget[r].seconds - Unsettled(r)

Spent(r) == budget[r].seconds + Unsettled(r)

\* Mutant: A settled lease keeps its old touched time.
TouchedNever(r) == lease

Touched(r) ==
    [t \in Tasks |-> IF t \in Leased(r) /\ now > lease[t] THEN now ELSE lease[t]]

OutOfTime(r) == Spent(r) >= budget[r].max_seconds
OutOfSteps(r) == budget[r].steps >= budget[r].max_steps
Exhausted(r) == OutOfTime(r) \/ OutOfSteps(r)

\* A settled row, and the leases that settling leaves.
Settle(r) ==
    /\ budget' = [budget EXCEPT ![r].seconds = Spent(r)]
    /\ lease' = Touched(r)

Live(t) == up /\ launching = NoTask /\ t \in member \ ended
Working(t) == Live(t) /\ request[t] = NoRequest /\ t \notin resume

-----------------------------------------------------------------------------
Init ==
    /\ limits \in [Tasks -> Limits]
    /\ rows = {} /\ member = {} /\ reserved = {}
    /\ budget = [r \in Tasks |-> [max_steps |-> 0, max_seconds |-> 0,
                                  steps |-> 0, seconds |-> 0, version |-> 0]]
    /\ lease = [t \in Tasks |-> NoLease]
    /\ request = [t \in Tasks |-> NoRequest]
    /\ resume = {} /\ ended = {} /\ launching = NoTask
    /\ up = TRUE /\ now = 0
    /\ worked = [r \in Tasks |-> 0] /\ uncertain = {} /\ monotone = TRUE

\* bind: INSERT OR IGNORE the root's row, with the root's own limits, and the
\* membership of every task on the way up. create_task binds each task.
bind(t) ==
    LET r == RootOf[t] IN
    /\ up /\ launching = NoTask /\ t \notin member
    /\ rows' = rows \cup {r}
    /\ budget' = IF r \in rows THEN budget
                 ELSE [budget EXCEPT ![r] =
                         [max_steps |-> limits[r].max_steps,
                          max_seconds |-> limits[r].max_seconds,
                          steps |-> 0, seconds |-> 0, version |-> 1]]
    /\ member' = member \cup Chain(t)
    /\ UNCHANGED <<limits, reserved, lease, decision, up, now, history>>

\* snapshot: any reader settles the whole tree.
snapshot(t) ==
    /\ Live(t)
    /\ Settle(RootOf[t])
    /\ UNCHANGED <<limits, rows, member, reserved, decision, up, now, history>>

\* start: settle, then INSERT OR IGNORE a lease touched now. A worker runs it
\* when it is launched, a parent when its subagents' requests are resolved.
start(t) ==
    /\ Working(t)
    /\ budget' = [budget EXCEPT ![RootOf[t]].seconds = Spent(RootOf[t])]
    /\ lease' = [Touched(RootOf[t]) EXCEPT ![t] = IF @ = NoLease THEN now ELSE @]
    /\ UNCHANGED <<limits, rows, member, reserved, decision, up, now, history>>

\* stop: settle, then delete the lease. Ended and parked workers run it too.
stop(t) ==
    /\ up /\ launching = NoTask /\ lease[t] # NoLease
    /\ budget' = [budget EXCEPT ![RootOf[t]].seconds = Spent(RootOf[t])]
    /\ lease' = [Touched(RootOf[t]) EXCEPT ![t] = NoLease]
    /\ UNCHANGED <<limits, rows, member, reserved, decision, up, now, history>>

\* Mutant: The whole batch is charged, whatever was reserved before.
NewPositionsAll(t, P) == P

NewPositions(t, P) == {p \in P : <<t, p>> \notin reserved}

\* Mutant: The batch's own size is left out of the ceiling test.
RefusedLate(t, P) == Exhausted(RootOf[t])

Refused(t, P) ==
    \/ OutOfTime(RootOf[t])
    \/ budget[RootOf[t]].steps + Cardinality(NewPositions(t, P))
          > budget[RootOf[t]].max_steps

\* reserve, admitted: every new position of the batch, or none.
reserve(t, P) ==
    LET r == RootOf[t] IN
    /\ Working(t) /\ ~Refused(t, P)
    /\ budget' = [budget EXCEPT ![r] =
                    [max_steps |-> @.max_steps, max_seconds |-> @.max_seconds,
                     steps |-> @.steps + Cardinality(NewPositions(t, P)),
                     seconds |-> Spent(r), version |-> @.version]]
    /\ lease' = Touched(r)
    /\ reserved' = reserved \cup {<<t, p>> : p \in P}
    /\ UNCHANGED <<limits, rows, member, decision, up, now, history>>

\* _pause_budget: the batch is refused, or the drive loop finds the tree
\* exhausted; the task is parked behind a budget request that quotes the
\* version it inspected. The worker still has to stop its lease.
PauseBudget(t) ==
    /\ Working(t)
    /\ Exhausted(RootOf[t]) \/ \E P \in SUBSET Positions \ {{}} : Refused(t, P)
    /\ Settle(RootOf[t])
    /\ request' = [request EXCEPT ![t] =
                     [version |-> budget[RootOf[t]].version, reuse |-> FALSE]]
    /\ UNCHANGED <<limits, rows, member, reserved, resume, ended, launching,
                   up, now, history>>

\* Mutant: A restart receipt is answered like any request.
RenewsReceipt(t) == request[t].version = budget[RootOf[t]].version

\* Mutant: A request is renewed whatever version it inspected.
RenewsStale(t) == ~(request[t].reuse /\ ~Exhausted(RootOf[t]))

\* resolve_approval and approve: a request that quotes the current version
\* renews the tree with the chosen limits, unless it is a restart receipt and
\* allowance is left. A receipt or a stale request only resumes within the
\* current grant. Worker leases are re-touched, so that time spent before the
\* grant is not charged to it.
Renews(t) ==
    /\ request[t].version = budget[RootOf[t]].version
    /\ ~(request[t].reuse /\ ~Exhausted(RootOf[t]))

ApproveRenew(t, l) ==
    LET r == RootOf[t] IN
    /\ Live(t) /\ request[t] # NoRequest /\ lease[t] = NoLease
    /\ Renews(t)
    /\ l.max_steps > budget[r].steps
    /\ budget[r].version < MaxVersion
    /\ budget' = [budget EXCEPT ![r] =
                    [max_steps |-> l.max_steps, max_seconds |-> l.max_seconds,
                     steps |-> @.steps, seconds |-> 0, version |-> @.version + 1]]
    /\ lease' = [u \in Tasks |-> IF u \in Leased(r) THEN now ELSE lease[u]]
    /\ limits' = [limits EXCEPT ![t] = l]
    /\ request' = [request EXCEPT ![t] = NoRequest]
    /\ resume' = resume \cup {t}
    /\ launching' = t
    /\ worked' = [worked EXCEPT ![r] = 0]
    /\ uncertain' = uncertain \ {r}
    /\ UNCHANGED <<rows, member, reserved, ended, up, now, monotone>>

ApproveReuse(t) ==
    LET r == RootOf[t] IN
    /\ Live(t) /\ request[t] # NoRequest /\ lease[t] = NoLease
    /\ ~Renews(t) /\ ~Exhausted(r)
    /\ Settle(r)
    /\ limits' = [limits EXCEPT ![t] = [max_steps |-> budget[r].max_steps,
                                       max_seconds |-> budget[r].max_seconds]]
    /\ request' = [request EXCEPT ![t] = NoRequest]
    /\ resume' = resume \cup {t}
    /\ launching' = t
    /\ UNCHANGED <<rows, member, reserved, ended, up, now, history>>

\* The rest of resolve_approval: drop the receipt and launch the worker.
Relaunch ==
    /\ up /\ launching # NoTask
    /\ resume' = resume \ {launching}
    /\ launching' = NoTask
    /\ UNCHANGED <<durable, lease, request, ended, up, now, history>>

\* The task reaches a terminal status: its worker ended it, or the user
\* denied its request or cancelled it while it was parked.
End(t) ==
    /\ Live(t) /\ lease[t] = NoLease
    /\ ended' = ended \cup {t}
    /\ request' = [request EXCEPT ![t] = NoRequest]
    /\ UNCHANGED <<durable, lease, resume, launching, up, now, history>>

\* The host dies between two transactions; leases stay in the database.
Crash ==
    /\ up /\ up' = FALSE
    /\ launching' = NoTask
    /\ UNCHANGED <<durable, lease, request, resume, ended, now, history>>

\* Mutant: Startup deletes the leases and charges nothing.
RestartForgives ==
    /\ ~up /\ up' = TRUE
    /\ lease' = [t \in Tasks |-> NoLease]
    /\ request' = [t \in Tasks |->
                     IF t \in resume \ ended /\ request[t] = NoRequest
                     THEN [version |-> budget[RootOf[t]].version,
                           reuse |-> ~Exhausted(RootOf[t])]
                     ELSE request[t]]
    /\ uncertain' = uncertain \cup {r \in rows : Leased(r) # {}}
    /\ UNCHANGED <<durable, resume, ended, launching, now, worked, monotone>>

\* Mutant: Startup does not look for committed grants.
RestartForgets ==
    /\ ~up /\ up' = TRUE
    /\ budget' = [r \in Tasks |->
                    IF r \in rows /\ Leased(r) # {}
                    THEN [budget[r] EXCEPT !.seconds = @ + budget[r].max_seconds]
                    ELSE budget[r]]
    /\ lease' = [t \in Tasks |-> NoLease]
    /\ uncertain' = uncertain \cup {r \in rows : Leased(r) # {}}
    /\ UNCHANGED <<limits, rows, member, reserved, decision, now, worked,
                   monotone>>

\* Startup: a tree with a surviving lease has its time used up, leases are
\* deleted, and _recover_interrupted_tasks asks again for each task whose
\* grant was committed but whose worker was never launched.
Restart ==
    LET lost == {r \in rows : Leased(r) # {}}
        used(b) == IF b.seconds > b.max_seconds THEN b.seconds ELSE b.max_seconds
        row(r) == IF r \in lost THEN [budget[r] EXCEPT !.seconds = used(budget[r])]
                                ELSE budget[r]
        spent(r) == row(r).seconds >= row(r).max_seconds \/ OutOfSteps(r)
    IN
    /\ ~up /\ up' = TRUE
    /\ budget' = [r \in Tasks |-> row(r)]
    /\ lease' = [t \in Tasks |-> NoLease]
    /\ request' = [t \in Tasks |->
                     IF t \in resume \ ended /\ request[t] = NoRequest
                     THEN [version |-> budget[RootOf[t]].version,
                           reuse |-> ~spent(RootOf[t])]
                     ELSE request[t]]
    /\ uncertain' = uncertain \cup lost
    /\ UNCHANGED <<limits, rows, member, reserved, resume, ended, launching,
                   now, worked, monotone>>

\* A second passes: every worker with a lease has worked it.
Tick ==
    /\ now < MaxTime /\ launching = NoTask
    /\ \A r \in Tasks : worked[r] < MaxWorked
    /\ now' = now + 1
    /\ worked' = [r \in Tasks |-> worked[r] + (IF up THEN Cardinality(Leased(r)) ELSE 0)]
    /\ UNCHANGED <<durable, lease, decision, up, uncertain, monotone>>

\* The wall clock is set back, as time.time() may be; once is the bound.
ClockStepsBack ==
    /\ monotone /\ now > 0 /\ launching = NoTask
    /\ now' = now - 1 /\ monotone' = FALSE
    /\ UNCHANGED <<durable, lease, decision, up, worked, uncertain>>

Next ==
    \/ \E t \in Tasks : bind(t) \/ snapshot(t) \/ start(t) \/ stop(t)
    \/ \E t \in Tasks, P \in SUBSET Positions \ {{}} : reserve(t, P)
    \/ \E t \in Tasks : PauseBudget(t) \/ ApproveReuse(t) \/ End(t)
    \/ \E t \in Tasks, l \in Limits : ApproveRenew(t, l)
    \/ Relaunch \/ Crash \/ Restart \/ Tick \/ ClockStepsBack

Spec == Init /\ [][Next]_vars

-----------------------------------------------------------------------------
\* Safety.

\* The counter of a tree is the number of positions its members reserved: a
\* retried, replayed or parked batch is charged once, a refused one never,
\* and neither cancellation, renewal nor a restart loses a charge (reserve).
StepsAccounted ==
    \A r \in rows : budget[r].steps = Cardinality(Reserved(r))

\* Parent and children together never hold more reservations than the
\* ceiling in force, also after a renewal has replaced it (reserve, _renew).
StepsWithinCeiling ==
    \A r \in rows : budget[r].steps <= budget[r].max_steps

\* As long as no lease was lost, the charged and the unsettled seconds are the
\* worker seconds since the last grant: parallel workers add up, waits are
\* free, a lease is never charged twice, nor for the time before a renewal.
\* A clock set back may lose time, and never charges time nobody worked
\* (_settle, start, stop, _renew).
TimeCharged ==
    up => \A r \in rows \ uncertain :
        /\ Spent(r) <= worked[r]
        /\ monotone => Spent(r) = worked[r]

\* A tree that lost a live lease to a crash stays out of time until a human
\* renews it, whatever is reserved, resumed or approved meanwhile (__init__).
UncertainIsExhausted ==
    \A r \in uncertain : budget[r].seconds >= budget[r].max_seconds

\* A task whose grant was committed but whose worker was not launched is
\* never forgotten: it is being launched, or it asks again (approve's receipt).
ReceiptAskedAgain ==
    up => \A t \in resume \ ended : launching = t \/ request[t] # NoRequest

\* What a step may never do.

\* Charged time goes down only in a grant, and each grant consumes a request
\* that quoted the version it replaces: one inspected version is renewed once.
OnlyADecisionRefunds ==
    [][\A r \in rows :
        (budget'[r].seconds < budget[r].seconds \/ budget'[r].version # budget[r].version)
          => /\ budget'[r].version = budget[r].version + 1
             /\ \E t \in TreeOf(r) : /\ request[t].version = budget[r].version
                                      /\ request'[t] = NoRequest]_vars

\* Nothing is reserved in a tree between an uncertain restart and its renewal.
NoWorkUntilRegranted ==
    [][\A r \in uncertain \cap uncertain' :
        {s \in reserved' : RootOf[s[1]] = r} = Reserved(r)]_vars

\* A restart receipt continues within the committed grant: answering it while
\* allowance is left never resets the tree a second time.
ReceiptNeverRenews ==
    [][\A t \in resume :
        (up /\ request[t].reuse /\ request'[t] = NoRequest /\ ~Exhausted(RootOf[t]))
          => budget'[RootOf[t]].version = budget[RootOf[t]].version]_vars

\* What a tree is charged is what it used, and what it was promised is not
\* forgotten: every reserved step counts once, every second of work is charged
\* unless a lease was lost, and a granted request whose worker was not started
\* is asked again (manager.py: reserve, _settle, approve).
ChargesAreExact == TypeOK /\ StepsAccounted /\ TimeCharged /\ ReceiptAskedAgain

\* A charge is taken back by a decision of the user and by nothing else, and
\* answering the receipt of a restart is no such decision (_renew).
OnlyADecisionRenews == OnlyADecisionRefunds /\ ReceiptNeverRenews

-----------------------------------------------------------------------------
\* A small tree for the checked instance: one task is the parent of the others.
TopTask == CHOOSE t \in Tasks : TRUE
StarParent == [t \in Tasks |-> IF t = TopTask THEN NoTask ELSE TopTask]
StarRoot == [t \in Tasks |-> TopTask]
=============================================================================
