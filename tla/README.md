# Termx: a verification development

Termx lets one user run coding agents, terminals, a managed browser and
scheduled work on their own host, and follow them from a desktop or a phone.
The server is Python (`src/src/termx`), a FastAPI application whose services
share one asyncio event loop and keep their state in SQLite files. The
workspace is a React application (`src/desktop/workspace/src`) in a browser or
in windows of a Tauri shell (`src/desktop/src-tauri`).

Two things are hard to test in it. On the server, work that costs money or
changes files is started by queues, schedules, approvals and recoveries that
race with each other, with the user and with a crash of the host. In the
workspace, every panel shows a copy of the host's state, asks for changes whose
answers are late, lost or refused, and goes on being used meanwhile: by the
same user in another window, by other clients, through a lock or an expired
sign-in. These modules model both: who may start an effect, how often it
happens, what a crash leaves behind, what must come to an end; and whether what
the user sees, confirms and typed is what the host does, refuses or keeps.

Paths of `.py` files are relative to `src/src/termx`, those of `.ts` and `.tsx`
files to `src/desktop/workspace/src`, unless they start with `src/`.

## 1. Inventory

| component | code | state it keeps | operations | talks to | modelled |
|---|---|---|---|---|---|
| execution-tree budget | `agent/tree_budget.py`, `agent/limits.py` | SQLite: one row per tree (steps, seconds, ceilings, version), members, reserved positions, one lease per worker | bind, snapshot, start, stop, reserve, approve | called by the agent task and its approvals | `TreeBudget` |
| internal agent task | `agent/manager.py`, `agent/recovery.py`, `agent/store.py` | SQLite: status, transcript, approvals, checkpoint, runtime; memory: worker, cancel events, private requests | create, plan, turn, run a batch, pause, resolve an approval, cancel, take over, recover | budget, broker, providers, tools, orchestrator | `AgentTask`, `TaskControl`, partly |
| reviewed actions | `auto_review.py`, `agent/action_review.py` | SQLite: one row per action with permit and verdict; rules; a lock per action | authorize, decide, execute, consume and complete external, invalidate, expire | browser, desktop, MCP and native engines propose; a model or a person reviews | `ReviewedAction`, `DecisionBroker` |
| prompt queue | `workspace/prompt_queue.py` | SQLite: follow-ups in order, with revision and consent | enqueue, cancel, renew, tick, reconcile | turn dispatch | `TurnDispatch`, `FollowUps` |
| turn dispatch | `workspace/service.py`, `workspace/store.py` | SQLite: request receipts, turns of a conversation; a lock per request | send | agent task, gateway | `TurnDispatch`, `Composer`, `SessionControls`, partly |
| native engine gateway | `engines/*.py` | engine processes, sessions, correlation of turns | create, attach, relay approvals, recover | Codex, Claude, ACP programs | start of a turn, in `TurnDispatch` |
| scheduled goals | `workspace/automation.py` | SQLite: schedules, grants, goals, claimed runs; dispatch workers | create, pause, resume, edit, archive, run now, tick, claim, dispatch, stop, revoke | turn dispatch, agent task | `ScheduledRuns`, `ScheduleForms`, partly |
| coordinator and children | `workspace/orchestrator.py`, `engine_orchestration.py`, `swarms.py` | relations, control owner, results of children | delegate, hand control over, adopt, assemble | agent task, dispatch | `CoordinatorPanel`, `AdoptionDialog`, `TaskControl`, partly |
| identities and sessions | `identity*.py`, `session_policy.py` | sessions, refresh families, locks, generations | sign in, refresh, lock, unlock, revoke | every request | `SessionRefresh`, `PolicyForm`, partly |
| dedicated runners | `runners/` | runners, jobs with request ids, containers, cloud machines | provision, run, launch, stop, monitor | Docker, providers, agent task | `RunnerJobs`, `CloudLaunch`, partly |
| managed browser | `browser/*.py` | profiles, tabs, leases, grants | act, hand off, take over | broker, agent task | `BrowserView`, partly |
| desktop control | `desktop/*.py` | session, viewers, controller | connect, control, pause, release | broker, operating system | `ComputerCapture`, partly |
| extensions | `workspace/extensions.py`, `skill_sources.py` | packages, skill sources, hooks | install, edit, enable | files | `SkillSources`, `HookPanel`, partly |
| MCP | `mcp/*.py` | clients, definitions, authorizations | connect, call | tools | `ToolCalls`, partly |
| reviewed changes | `workspace/change_review.py` | none: it reads | summary, diff | files, git | `ChangeReview`, partly |
| retries, tool scheduling | `agent/retry.py`, `agent/scheduler.py` | none | classify, delay, group calls | agent task | the grouping, in `AgentTask` |
| conversation (workspace) | `features/Chat.tsx`, `lib/drafts.ts`, `lib/session-writes.ts`, `lib/workspace-data.ts`, `lib/tool-activity.ts`, ... | drafts, images, a queue of writes, cached turns, a fold of events | type, save, send, retry, interrupt, configure, poll | dispatch, queue, tasks | `Composer`, `ChatImages`, `SessionControls`, `ConversationCache`, `RunActivity`, `FollowUps` |
| windows and navigation | `App.tsx`, `lib/native.ts`, `lib/browser-windows.ts`, `lib/layout-presets.ts`, `components/DockWorkspace.tsx` | what is open where, journals, layouts | detach, return, dock, undo, open, sign out | browser storage, the shell | `WindowHandoff`, `DockLayout`, `WorkspaceNavigation` |
| workbench | `features/Workbench.tsx`, `lib/lsp.ts`, `features/ChangeReview.tsx` | buffers, documents of a language server, diffs | open, type, save, format, review | files of the checkout | `EditorBuffers`, `LanguageDocuments`, `ChangeReview` |
| managers | `features/*.tsx` of settings, hooks, tools, skills, schedules, policies, runners, the control plane, coordination | rows as read, drafts, receipts, request ids | read, edit, save, call, launch | the services above | the fourteen modules of section 2.7 |
| update of the application | `src/desktop/src-tauri/src/updater.rs`, `src/desktop/bootstrap/updater.js` | one operation and its window | check, download, verify, install, restart | the release server | `SoftwareUpdate` |
| schedule expressions | `workspace/schedule_spec.py` | none | parse, next occurrence | scheduled goals | no |
| pairing, tokens, authorization | `identity_pairing.py`, `tokens.py`, `authorization.py` | one-time codes, token budgets, roles | pair, redeem, spend | identities | no |
| terminal sessions, runbooks | `sessions.py`, `terminals.py`, `runbooks.py` | PTYs, ring buffers, steps | attach, replay, approve | clients | no |
| HTTP, GraphQL, command line | `app.py`, `workspace/http.py`, `graphql/`, `cli.py` | none of their own | validate and call the services | all | no: adapters |
| tunnels, discovery, host service | `providers/`, `host_service.py`, `config.py` | processes and files | start, stop | operating system | no: little protocol |
| notifications, activity, audit | `notifications.py`, `activity.py`, `audit.py` | projections | append, list | all | no: nothing decides on them |

How they interact. A prompt enters through the *composer*, the *prompt queue* or
a *scheduled goal*; *turn dispatch* leaves a request receipt and asks the
*internal agent task* or a *native engine* for a task. The task reserves its
calls in the *tree budget*, which subagents share, asks the *broker* for actions
on the browser, the desktop or another service, and waits for approvals of the
user. The panels poll what they show, and name in each request what they showed:
a revision, a digest, a request id. All of it is rows that survive and
coroutines, timers and answers that do not.

What is hard. (1) Interleaving at `await`: a coroutine reads a row, awaits a
hook, a model or an engine, and writes what it decided from the old row; some
handlers run in threads and interleave even elsewhere. (2) Crash between
commits: a decision, its effect and the record of the effect are separate
commits. (3) Repetition: a client resends a request whose answer was lost, a
task proposes a call again after recovery, a schedule and a person claim one
run. (4) Shared limits: parallel workers on one allowance. (5) Waiting: a task
that nobody can wake, a button that stays disabled. (6) Late answers: a panel
turns to another conversation, account or form before the answer of the first.
(7) Two windows with one cookie jar, one stored intent, one book of layouts.
Termx's answers are always one of five: a receipt with a unique key, a row with
a revision, a lock or a queue held across an await, a generation that outdates
what was started under it, and a state of *unknown outcome* that only a person
or a later read leaves. The properties ask whether these answers hold together.

What makes each component correct, in a sentence: the budget charges every call
and second once and forgives nothing by itself; a task neither repeats an effect
nor takes one without consent nor waits for nobody; the broker starts an action
once and only as decided; a prompt becomes at most one turn, in order and under
the consent it was given; a schedule spends no more than its grant and stops
when it ends; a draft survives every save, lock, send and move of a window; a
request is made once however often its answer is lost; a confirmation is about
what was on screen; an answer appears only where it belongs and never puts back
something older; and every panel catches up with the host and is never busy for
ever.

## 2. Modules and how they correspond to the code

One SQLite transaction, or one stretch of a coroutine between two awaits, is one
action. Names of actions and states are those of the code. Variables that exist
only for the properties are marked `history`. A definition whose comment begins
"Mutant:" or "A bug:" is a plausible error of the definition after it; no
specification uses it, and it shows that the named property depends on the code
as it is.

### 2.1 TreeBudget

`TreeBudget` is `tree_budget.py`, every method an action, with the decisions of
`manager.py` that feed it: `PauseBudget`, `ApproveRenew` and `ApproveReuse` (the
two ways `approve` answers a request, with the manager's test of the version it
inspected), `Relaunch`, `End`. The sum of `max(0, now - touched)` over the leases
is written as the number of elapsed lease seconds, so no recursion is needed.
`Crash` leaves the leases, `Restart` is `__init__` and the manager's search for
committed grants whose worker was never launched. The wall clock may step back.

### 2.2 AgentTask

One task of the internal engine. `worker.pc` is where its coroutine is;
`AwaitPoints` are the places where other requests can run. A turn returns a
batch of calls of four kinds: `read`, `auto`, `ask` and `managed` (reviewed by
the broker, of which only the row's status is kept). Each commit is a step, so
`Crash` falls between any two. Startup is three commits, then `Recover`. The
private request of an approval lives in memory (`_pending_approval_calls`), as
in the code, which is why recovery has to ask again. `WorkerStep` and `HostStep`
collect what the loop does by itself; the rest are requests of the user.

### 2.3 ReviewedAction and DecisionBroker

`ReviewedAction` is the promise: an action is open, started or closed, it starts
once, and a consequential one only with a person's consent. `DecisionBroker` is
`auto_review.py`: one row per action; the per-action lock is held by the callers
whose `at` says so, across the reviewer's await and across the operation, while
`decide`, `invalidate` and `complete_external` need no lock. Page, target and
policy of an action are one value that may change at any time (`TargetChanges`).
Permits are numbered, so an old permit can be told from a new one. The
refinement maps a row to its phase by what was started and by whether its status
is final.

### 2.4 Prompts and TurnDispatch

One conversation. `line` holds the follow-ups; the worker's tick is `ReadHead`,
`CheckReady` or `CheckFails`, `CheckActive`, `Claim`, `Dispatch`; then the worker,
like each client, is a sender in `send`: `Refuse`, `Prepare`, the two ways to
create the task (internal in one commit, native with a start that may fail after
the prompt was delivered), `Attach`, and every failure after each. `binding`
stands for everything a consent is bound to (session, policy, memory, settings):
it changes at any time, and a row holds the value it was given for.

`Prompts` is the promise, without receipts, locks, revisions or ticks: follow-ups
join a line once, a prompt is given to a model once at most and while no other
prompt is at work, and a follow-up only while it is in the line, its consent is
for what is in force, everything before it is settled and its own row is not.
The mapping takes a row as settled when it was dispatched or cancelled, or when
its outcome is unknown and it waits for the user; as consented when its consent
is for the present `binding`; a prompt as given when its history says that it ran.

### 2.5 ScheduledRuns

`automation.py` with the transactional claim of `store.py`. The tick lists all
schedules once and awaits between them (`tick` is its snapshot, `hold` says
whether it has the event loop). `pause`, `resume`, `edit` and `archive` run in
threads and need no loop. A claimed run has a row, a worker that dispatches it,
and a task; a crash ends worker and tick, `Restart` settles the runs it finds.

### 2.6 The conversation in the workspace

A call to the host is up to three steps: it is issued, the host takes it (or it
is lost), the panel goes on with the answer. Between any two of them everything
else may happen, and that is where these panels can go wrong.

* `Composer` is the unsent draft of one conversation in several windows:
  registry entry, autosave, submission under a request id, changes of settings,
  the chain of writes of `session-writes.ts`, lock and unlock, with the host's
  record and its revision. Text, context and images of a draft are one value,
  because every comparison in the code compares them together.
* `ChatImages` is the part of a draft that takes time: files that are read,
  the limit, the key a message is sent and sent again under.
* `SessionControls` has the controls of the next turn, which write through one
  queue, while copies of the conversation are refreshed now and then. Presets,
  the location of a runner and the lock are left out.
* `ConversationCache` is `SessionCache`: polls, history on request, `clear()`.
* `RunActivity` folds a tail of events of a run into tools, text and agents.
* `FollowUps` is what a window does about the task under way and the prompts
  behind it. `alive` of the code is a panel that is replaced.
* `TaskControl` is the supervision dialog with the assembly of a team on the
  host (`swarms.py`), which may restart in the middle. The limit of 100 nodes
  and changes of permissions are left out.
* `CoordinatorPanel` and `AdoptionDialog` are the main agent's panel, with the
  requests its chats wait on, and the dialog that puts a chat under it.
* `WorkspaceNavigation` is what `App.tsx` shows and who is signed in; an
  identity is its sign-in. The host's lock and the question before leaving are
  left out.
* `EditorBuffers` has the open files against the revision they were read at. A
  revision is the digest of a text, so both are one value; the host checks and
  writes in one step. `LanguageDocuments` is the same editor as a language
  server sees it, with the 200 ms timer. `ChangeReview` has the summary and the
  diff of a checkout. Search and the terminal are left out.
* `WindowHandoff` is the return of a detached window, both ways of doing it
  (browser and shell), with journals and reloads. Every value the user writes is
  a new number, so that it can be found again. Uploads that end after the last
  comparison, artifact drafts and a main process that dies without its
  `beforeunload` are left out.

### 2.7 The panels that manage the workspace

* `HookPanel` and `ToolCalls` keep receipts of requests that have no
  idempotency key on the host; a receipt outlives its panel, and only what the
  host shows later, or the user, settles one in doubt. Assumed: no other client
  creates the same hook, and a request that was given up is settled at once.
* `SettingsForms` has the forms of the settings with their unsaved edits, one
  save of a form at a time. The review of destructive actions is left out.
* `PolicyForm` has the lifetimes of sessions behind the lock of the workspace.
* `ScheduleForms` creates and edits schedules; the buttons of a row and the
  previews are left out.
* `SkillSources` has the editor of a skill with the host's two comparisons of
  the digest; publishing, bundles and registries are left out. A text in conflict
  stays on screen when the folder is renamed (`ExtensionManager.tsx:53-60`), so what
  a write replaces was shown in that project, under that name or another.
* `RunnerJobs` and `CloudLaunch` submit commands and launch machines under
  request ids; a job starts at once, a machine is its status, and the form's
  folding, the lock and a provider's resources are left out.
* `ControlPlane` lists the latest run of every conversation.
* `DockLayout` has the tabs, focus mode, undo, presets and the book of layouts
  that all windows share: three of the seven panels, without sizes.
* `BrowserView` watches and controls tabs. Calls about a tab overlap where the panel
  lets them (`Take over`, `Private login` and the commands of the workspace do not
  wait), a refused call leaves its form open, and the form of a handover stays open
  while another tab is selected and is sent for that one. Whether a page is on a site
  of the form is the host's choice: the model lets it accept or refuse. History,
  reviews, downloads and diagnostics are left out.
* `ComputerCapture` watches and controls a screen, with the host's viewer, its pump of
  frames and its release of keys.
  Assumed: React has run the cleanup of a socket before the host
  accepts one that a renewal opened after a lock.
* `SessionRefresh` has the requests of all windows over one cookie jar: access
  that expires, a proof that is good once, the lock of the browser.
* `SoftwareUpdate` is the one update operation of the shell and its window. The
  application serves a window's calls in order; a restart starts afresh.

### 2.8 Compositions

`TurnDispatch` composes the queue, dispatch and the start of a task;
it implements `Prompts`, as `DecisionBroker` implements `ReviewedAction`; `WindowHandoff` composes two windows
and the host; `ComputerCapture`, `TaskControl` and the other panel modules each
compose a panel with the host's handlers that it calls. `MCDrafts`,
`MCConversation`, `MCManagement` and `MCPanelsLive` put instances of several modules
side by side: `active` says which one is on screen, the others stay in one of
their initial states. The instances share no variable, so a behaviour of such
a run is a behaviour of one module; it makes one run of what would otherwise
be thirty small ones, and a property of it one statement about all the panels
that face the same hazard. `MCConversation` is proved about as well as run, so it
takes the constants of its panels from the configuration, and has each panel's
instance, invariant and lemmas together before it composes them. `MCManagement`
does so too, with its lemmas and theorems in `ManagementProofs`. `RunActivity`,
`ChangeReview` and `LanguageDocuments`, which are only model-checked, are small
instances with their values written out.

## 3. Runs

| run | question | properties | instance |
|---|---|---|---|
| `tree_budget` | Is every call and second charged once, over parking, grants, crashes and clock steps? | `ChargesAreExact`, `StepsWithinCeiling`, `UncertainIsExhausted`, `OnlyADecisionRenews` | parent and child, 2 positions each, ceilings of 1 or 2 calls, 2 s, 3 versions, clock to 2, one step back |
| `decision_broker` | Does the broker keep its promise under concurrent adapters? | `EffectAtMostOnce`, `EndedIsFinal`, `StaleReviewerNeverActs`, `ImplementsReviewedAction` | 2 adapters on one routine action, 1 on a consequential one, 2 reviewers |
| `agent_task` | Can any order of approvals, pauses, cancellation, takeover and crashes repeat an effect, take one unasked, forget a result or a cancellation, or leave the task stuck? | `NothingIsForgotten`, `NoUnconfirmedReplay`, `EveryEffectWasGranted`, `CancelIsAnswered`, `ComesToRest` | 2 calls of any kind in batches up to 2, 3 requests, 1 pause, 2 crashes |
| `turn_dispatch` | Can a prompt run twice, out of order or without consent? | `RunsAtMostOnce`, `TurnsAreExclusive`, `QueueOrder`, `RunsAsConsented`, `ImplementsPrompts` | 2 follow-ups, 1 direct turn sent by 2 clients, revisions to 3, 2 bindings, 1 fault or crash |
| `scheduled_runs` | Do two schedules respect one budget and every stop? | `RunsAreBounded`, `WorkIsAuthorized` | a recurring and a single schedule, 1 grant, 1 run, revisions to 2, clock to 2, 1 crash |
| `drafts` | Can anything the user typed be lost, sent twice or written over, and does every submission and return end? | `NothingIsLost`, `OneAtATime`, `ForeignDraftKept`, `WaitingEnds` | 2 windows in 6 situations; a return in 4 situations |
| `conversation` | Is what is asked once done once and as reviewed, and does an answer appear only where it belongs? | `TypeOK`, `OneRequestPerIntent`, `AnswersStayHome`, `ActsAsReviewed`, `ShownAsReported`, `WorkIsKept` | 12 panels, section 2.6 |
| `management` | Is anything written twice, is a write of what was shown and over nothing newer, and does what is shown belong together? | `TypeOK`, `WrittenOnce`, `ReplacesWhatWasShown`, `ShownBelongsTogether`, `LayoutIsKept` | 14 panels, section 2.7 |
| `panels_live` | Do the panels catch up with the host, does every request end, and do the host's queues advance? | `HostIsShown`, `RequestsEnd`, `QueuesAdvance` | 13 panels; 2 follow-ups with 1 fault; 1 schedule with 1 run and 1 crash |
| `agent_task_replay` | "completed tools are not replayed" | violated | 2 calls |
| `scheduled_runs_pause` | "Pause stops future automatic dispatches" | violated | 2 recurring schedules, 2 runs |
| `capture_after_pause` | "don't deliver a frame after 'paused' was acknowledged" | violated | 1 socket |

Why the bounds are enough. Every hazard listed needs at most two competitors
and one fault between two commits, or two requests and one answer that is late
or lost, and the instances have both: two adapters and two senders of one key; a
parent and a child; two schedules on one goal, with a run between them; two
windows; two conversations, forms, scopes or tabs and a move between them while
a request is under way; three requests where a repetition must meet a newer
one. `agent_task` has a second crash, for one during the work that follows a
recovery. `turn_dispatch` and `scheduled_runs` check safety on the larger of two
instances; `panels_live` has smaller instances of both modules, with a crash or a
fault, for the liveness of the queues. The five runs of the server reach between
0.8 and 2.6 million states, the compositions about half a million, `panels_live`
some sixty thousand. Revisions are bounded one above the least number that lets a stale
request meet a newer row. A composition counts situations instead of crossing
all bounds (`ComposerBounds`, `HandoffBounds`): each element names the few things
that happen in it, and together they have every pair of hazards. In `panels_live`
the instances are smaller, since liveness is about one request and what may
delay it: its cache reads without failure, and the queue does not move between
conversations. Symmetry is used for two adapters of one action and two reviewers
(`decision_broker`), where no liveness property is checked. Deadlock is not
checked where the modelled part really ends: a finished task, a spent schedule,
a closed window, a panel whose user has done what the bound lets him do. It is
checked for the budget and the broker.

Two constants leave a known loss out of `drafts`, which section 4 describes:
`SlowFlush` is false (the flush before a lock ends in its 2.5 s), and the returning
window has one conversation. A handover of a tab is in `management` (two tabs, one form,
one act of the user); `panels_live` has one tab and no such form.

Fairness. `AgentTask`: weak fairness of the worker and of the host's own steps;
the event loop runs every ready coroutine and provider and tool calls time out;
nothing is assumed of the user. `TurnDispatch`: weak fairness of the tick, of
the restart and of each sender in `send`, whose awaits (hooks, engine start,
JSON-RPC) all have timeouts. `ScheduledRuns`: the same for tick and restart, and
strong fairness of each dispatch worker and of a revocation in progress, because
they are enabled only while the tick does not hold the loop; asyncio's ready
queue is first in, first out, so a coroutine that is ready infinitely often
runs. A supervised host that stops is started again, at most the bounded number
of times. In the workspace: weak fairness of timers (`setInterval`, `setTimeout`
and React's effects run), of the host's handlers and of answers, each of which
`fetch` settles, with an error at the latest when the connection or the
controller's timeout ends it; and strong fairness of the browser's lock
(`SessionRefresh`), whose requests are granted first come, first served. Users,
other clients, losses, locks and expiries are never fair.

## 4. Findings

Three disagreements are runs:

* **Completed tools of a parked batch run again** (`agent_task_replay`).
  `_drive` forgets a parked batch only when it ran without a pause
  (`agent/manager.py:1070-1074`). If one of its calls asks for approval, the rest
  is finished by the approval, and the loop then runs the same batch again from
  its first call.
* **A pause can be undone by the tick** (`scheduled_runs_pause`). The tick writes
  the schedule it read before an await, without a revision, when the occurrence
  overlaps or was missed; a pause or archive made meanwhile is lost.
* **A frame after a pause was acknowledged** (`capture_after_pause`). The pump
  looks at the pause, awaits the authorization of the frame in a thread
  (`desktop/session.py:256`), and sends it without looking again.

Others are stated in the modules as named definitions that TLC refutes under the
module's own specification; they are not among the runs, and no property of a run
includes the case:

* `AgentTask!TerminalIsFinal` ("Cancelled tasks stay terminal"): a cancellation
  between `_launch` and the worker's first step finds no cancel event and
  finalizes the task; the first step then sets it running (`agent/manager.py:1051`).
* `AgentTask!CancelIsKept` ("Stop run cancels a current run, including one still
  planning", `src/docs/autonomous-agents.md:81`): the end of planning, and a batch
  that asks next, overwrite `cancelling`.
* `Composer!LocalDraftsRemain` with `SlowFlush` (`lib/lock-preservation.ts:13`,
  "local drafts remain preserved"): the flush that a lock did not wait for puts
  back, after an unlock, the entry it read before (`lib/redock-state.ts:12`). What
  was typed since is gone from it, and so is the request id of a message sent since:
  `Composer!OneAtATime` and `Composer!NothingTypedIsLost` fail with `SlowFlush` too.
* `WindowHandoff!ReceiptBeforeClose` with two conversations
  (`src/plans/desktop-workspace/delivery-plan-v0.3.md:75`): the draft of the
  conversation on screen is handed over, the journal of all of them is deleted
  (`lib/browser-windows.ts:15`).
* `LanguageDocuments!FormatFitsText` (`features/Workbench.tsx:107`, "File changed
  during formatting"): a formatting asked for within 200 ms of typing is made for
  the former text and applied to the new one.
* `BrowserView!HandedAsReviewed` with two tabs ("Let this task use the tab",
  `features/BrowserSurface.tsx:107`): the form of a handover holds the origins of the
  tab it was opened for (`:99`) and is sent for the tab selected when the button is
  pressed (`:70`). The host compares the page's origin with those of the form
  (`browser/service.py:346`), which does not tell two tabs of one site apart.
* `TaskControl!RecoveryIsAgreed`: the box "I understand recovery may repeat an
  unfinished action" stays ticked when a poll brings another interruption of the
  task (`features/TaskSupervisor.tsx:59`).

Met while modelling, in the models as the code has them, without a property:
a task is left `cancelling` without a worker until the next restart when its
worker paused again (`agent/manager.py:1818`, the named exception of `ComesToRest`);
a task whose `on_created` failed after its turn was attached stays active in its
conversation (`workspace/service.py:734`); the second clash of one file in
`mergeBuffers` replaces the copy of the first when both come from the live store
(`lib/window-state.ts:27-29`); undoing into a snapshot of focus mode leaves no
layout to go back to; a save that ends after its file was closed and opened again
gives the old text the new revision, marked unsaved; two reads of one file give two
rows with one key; after a launch without an answer another project keeps the
request id, and the host refuses it as another deployment's; a language server that
ended is not started again by reopening a file, since the client is kept until
the workbench closes (`features/Workbench.tsx:48`); a late answer to a preview may
appear under another section of the settings; a diff slower than the poll of
five seconds is begun again with each summary; a key held when desktop control
is revoked stays down until the viewer ends; the removal of a hook names no revision
(`features/HookSettings.tsx:146`), so that one that has left removes the hook as it
then is; a takeover asks neither whether the tab is open nor whether it has a page
(`browser/service.py:313`), and makes a closed one look open. Met in code that is not modelled: an
escalated approval of a child stops the lease of its parent while the parent
may work (`agent/manager.py:2700`); `ready` is written over `stopped` when a runner
is stopped while it is provisioned (`runners/service.py:144`).

## 5. What is proved

The proofs hold for any number of tasks, actions, adapters, connections,
schedules and crashes and for any values of the bounds. They assume only the
named assumptions on constants. All five modules of the server are proved about:
every invariant their runs check is a theorem, and so is every action property.
In the workspace `Composer` and the compositions `MCConversation` and `MCManagement`
are: of the run `conversation` every safety property but two, of `management` all but
the type invariant and three parts of `WrittenOnce`. TLC checked
the inductive invariants of the server's modules and of `Composer` on a run's
instance before they were proved. Of those of `MCConversation` it checked the parts
it can enumerate; a few speak of all sequences of images or all rows of a queue.

`TreeBudgetProofs` assumes `TreeAssumption` (finitely many tasks; `RootOf` is the
top of each parent chain) and `BoundsAssumption`. `StepsAccounted` is not
inductive: a reservation needs the ceiling test to be about the same row, and
the row of every member to exist. The invariant is `StepsInv`: types,
`RowsCover` (a member's, a lease's and an uncertain tree's root has a row),
`StepsAccounted` and `StepsWithinCeiling`. The heart is that the positions
admitted by `reserve` are disjoint from those reserved before, so cardinalities
add up. From it follow `TypeCorrect`, `StepsAreAccounted` and
`StepsStayWithinCeiling`. `UncertainStaysExhausted` adds that no step but a grant
lowers the charged seconds, and `NoUngrantedWork` (nothing is reserved between
an uncertain restart and its renewal) is an action property from both.
`ChargesExact` needs two more parts. `ClockInv` counts what the leases of a tree
have not settled yet as a set of (lease, second) pairs: what is settled plus what
is open is what was worked, exactly so while the clock never stepped back, except
for a tree that lost a lease; while the host is down it is claimed only of trees
without a lease, because a crash leaves the leases for `Restart` to settle as
uncertain. Each operation moves pairs between the two counts, and one lemma per
way of moving them (settling, starting, stopping, ticking, stepping back) says by
how many. `ReceiptInv` says that a receipt belongs to a bound task of a tree that
was granted something. `OnlyDecisionsRenew` (a charge goes down in a step that
answers an open request and in no other, and the receipt of a restart renews
nothing) follows from the types and the shape of the operations.

`DecisionBrokerProofs` assumes `BrokerAssumption`. The invariant `IInv` has seven
parts: types; `EffectAtMostOnce`; `OneCaller` (at most one caller is past the lock
and the consumed permit of an action); `BusyRow` (what a busy caller may rely on
in the row: no row yet while a reviewer is awaited, one start while it operates);
`StartedIsFinal`; `ConsentFirst`; `DeclinedIsClosed`.
None of the later ones is inductive without the lock: it is what keeps the row
from being written between a verdict and its use. One lemma per operation shows
that it keeps `IInv`. The theorems: `StartsAtMostOnce`, `SensitiveIsApproved`,
`DeclinedIsFinal`, `FinalIsFinal`, `EndedIsStopped`, `StaleReviewerIsRefused`,
`OutcomesStay` (a settled row is written by nobody else, because `Settle` needs a
caller that operates, whose row is `executing`), `EndedStaysFinal`, which joins it
with `EndedIsStopped`, and `BrokerImplementsReviewedAction`: every step is
`Approve`, `Start`, `Close` or a stutter of `ReviewedAction`. Three of the properties
proved there (`SensitiveWasApproved`, `DeclinedNeverRuns`, `FinalStaysFinal`) are
checked by the runs through the refinement.

`TurnDispatchProofs` assumes `DispatchAssumption` (the ids of follow-ups and of
direct turns differ, and the worker is no client). None of its properties is
inductive: that a prompt runs once needs the receipt, the receipt needs the lock,
and what becomes of a row needs to know who may still be sending it. The
invariant `IInv` has five parts: types; `TickKnowsRow` (the worker is inside
`send` exactly while its tick is sending, with a row in hand); `DownIsQuiet`;
`SendInv` (the lock is exclusive; until the task is written the receipt is
`preparing` and no turn is active; a native start has not delivered the prompt; a
prompt that ran has a `dispatched` receipt, which nothing takes back); and
`RowInv` (the row a tick read is as it was read until its revision changes; the
claimed row keeps its consent; a row that is open has not run unless it is
ambiguous; an ambiguous row is blocked or cancelled). One lemma per action shows
that it keeps `IInv`; the ten steps of `send` share two of them, for a step that
leaves `send` and one that stays under the lock. From it follow `TypeCorrect`,
`PromptRunsOnce`, `OneTurnAtATime`, `OpenRowsHaveNotRun`, `ExclusiveTurns` (the three
that `TurnsAreExclusive` joins), `ConsentIsCurrent` and `AmbiguousStays`: only a
sender inside `send` works on its key, and only the worker on a follow-up, whose
row is then `dispatching` with the consent it was read with. `LineInv` on top of it
(no row of the line is unknown, and all rows before the one in hand are dispatched
or cancelled) gives `DispatchFollowsTheLine`: the line only grows at its end and a
row that is done stays done. `LineInv` also says that the line holds exactly the
rows that were made. With it `DispatchImplementsPrompts` goes action by action:
what users do is a `Join`, a `Consent` or an `End`; a tick, a crash, a restart and the
end of a turn give nothing and open no settled row, so they are an `End`, perhaps
of nothing; the two ways to create a task are a `Begin`, and a native start that
reached the engine is a `Give`. That the prompt may be given is the guard of `send`
read with the invariant: the claimed row still has the consent that was checked,
no receipt says that it ran, and all rows before it are done.

`AgentTaskProofs` assumes the assumptions of `AgentTask` on its bounds. What the
run checks is far from inductive, because a task's calls are in five places at
once: the worker's batch, the parked batch, the approval rows, the decision a
request has taken and not yet carried out, and the checkpoint in the database.
The invariant has twelve parts:

* `Types`; `Control` (a stopped host runs nothing; one request waits at a time, and
  none while a worker or a decision is on its way); `Holding` (what the worker
  holds at each of its points); `Asked` (what a request holds); `Waits` (what the
  status says about who is waited for, in particular that whoever waits with no
  worker has a request that can be answered); `Plans` (nothing has run while the
  task plans);
* `Results`: every effect is in the transcript that goes with the calls still to
  run, wherever that pair is kept;
* `Issued` (a batch holds distinct calls that the model issued); `Checkpointed` (the
  checkpoint is that of the call at the head of the batch);
* `Budgeted`: a call that may still run unasked, from wherever, has taken effect no
  more often than the user confirmed its recovery; `Reviewed` (the permit is consumed
  before the effect); `Allowed`: a call that is about to run at the user's word has a
  grant or a confirmation left.

One lemma per action shows one conjunct after the other. From `AgentInvariant`
follow `NothingForgotten`, `NoReplay` and `EffectsAreGranted`, and from `Control`
`CancellationSurvives`, the safety half of `CancelIsAnswered`. The exception of
parked batches is in the invariant as it is in the properties (`everParked`): the
code does run such calls again, which the run `agent_task_replay` shows.

`ScheduledRunsProofs` assumes `ScheduleAssumption`. The invariant has seven parts:
`Types`, with what a tick has read (`Read`: runs that were claimed, rows of
schedules); `BudgetHolds`; `Workers` (a run nobody claimed has no worker and no
task, and a worker that has not reached planning has made none); `RunsAtMostOnce`;
`Receipts` (a task at work is linked, so a cancellation finds it);
`StoppedRunsDoNotWork`; and `QueuedIsKnown` (a tick that has yet to look at a
schedule knows of its queued occurrence). Most steps work on one run and share the
lemma `RunStepKeeps`; only the claim spends. The theorems are `RunsStayBounded`,
`WorkStaysAuthorized` (an action property: a task starts only under the authority
that holds in that very state), and `QueuedStays`, the safety half of the part of
`QueuesAdvance` that is about schedules.

A run states several of these together: `ChargesAreExact` has `StepsAccounted`,
`TimeCharged` and `ReceiptAskedAgain`, `TurnsAreExclusive` has `OneTurn` and
`OpenHasNotRun`, `EndedIsFinal` has `EndedNeverStarts` and `OutcomeIsNotRewritten`,
`NothingIsForgotten` has `NoResultIsLost` and `WaitCanBeAnswered`, `RunsAreBounded` has
`BudgetHolds`, `RunsAtMostOnce` and `StoppedRunsDoNotWork`, and `TypeOK` is part of the
first property of each run.

`MCManagement` has a section per panel with the invariant the panel keeps, and
`ManagementProofs` the lemmas for its steps. One named assumption per panel
(`AccessAssumption`, `ToolsAssumption` and so on) says that its bounds are numbers, that a
set it chooses from is not empty, and that `None` is no window, answer, request or
record (what a model value gives TLC). The panels share no state, so `Inv` is the
conjunction of their invariants and `PanelSteps` gives every step to each of them.
The invariants, and what follows:

* Sign-in (`SessionRefresh`): `AccessShape`, `LockIsHeld` (a refresh that is at the
  host, or on its way, is that of the window with the lock) and `CheckedIsCurrent` (a
  proof the host found unused is still the current one when it comes to rotate it)
  give `ProofsAreUsedOnce`: no refresh of the windows ends their session. `UnrunYet`
  (which writes may still be carried out, and that none of them has been) gives
  `WritesRunOnce`; `RefusedIsEnded` (a refusal on its way to a window is one of an
  ended session) gives `OnlyTheEndSignsOut`.
* `ToolCalls`: `ReceiptsAreTheirs` (a receipt in doubt names the call it is of, and a
  call that may still answer has one) and `InHandIsShown` give `CallsAreNotRepeated` and
  `CallsAreOnScreen`.
* `RunnerJobs`: `IntentIsOfTheLast`, that the stored intent is the request of the
  command last submitted, gives `CommandsKeepTheirRequest`.
* `SoftwareUpdate`: what the main process and the window say to each other keeps
  its order (`CallsInOrder`), one action waits at a time, and a button that can be
  pressed is of the operation as it is (`ButtonIsCurrent`): `StartsWhatWasPressed`.
* The forms. That a write replaces only what was shown needs, in each of them, to
  know of a request on its way, or of a record on screen, where it came from:
  `SavesAreFromSeen` and `SavesAreOfEdits` (settings), `DraftIsOfPolicy` (the policy),
  `ActsAreHere` (an action of a schedule that may still write is of the project on
  screen), `FormWasShown` and `ExpectedWasShown` (skills), `ReviewsAreFaithful`
  (a machine's review is that of the form under its request), `ChangesAreReviewed` (a
  change or removal of a hook keeps the revision that was seen). Together:
  `WritesReplaceWhatWasShown`, which is the run's `ReplacesWhatWasShown`. Of a hook it
  says that a change or removal leaves only for the revision seen, and that the host
  changes it in no other; a removal, once it has left, names none. Handing over a tab
  is no part of it (section 4).
* `AccountsAreOfForms` and `OwnRequestIds` give `OneOfEachForm`.
* `HookPanel`: `CreationsFit` (the receipt is that of the one creation that has not
  ended or may still land), `OneAtWork` (one write at a time, and no reading beside it)
  and `HooksKnown` (a hook with the text of a creation in doubt was known before or is
  the one it made), from `HooksAssumption`: a hook said to be saved is.
* `ControlPlane`: `ReadsInOrder` and `LooksInOrder` (one reading is wanted at a time,
  and it is of a state of the host no earlier than what is shown), from
  `PlaneAssumption`, that the conversations are finitely many.
* `ComputerCapture`: `NothingUnconnected`, `KeysAreKnown` and `SocketFits`, which says what
  the panel may believe, given every message still under way on its socket: control
  is the viewer's once what is on its way was heard, and a pause is acknowledged, or
  asked for, when the panel believes in it.
* These, with `ReadsAreHere` and `EditsAreKnown` (settings), `HeardIsSelected` (the browser:
  what the present stream has sent is of the selected tab) and `LastIsHere` (the cloud)
  give `ShownIsOfThePlace`, which is the run's `ShownBelongsTogether`.

`LayoutStays` is `LayoutIsKept` of that run, for any number of commands, steps of undo
and saved layouts. That the dock is never blank is not inductive: undo, the end of
focus mode, a preset and a saved layout each put back an arrangement that was stored
long before, perhaps by another window. `DockInv` says of every arrangement kept
anywhere (in undo, behind focus mode, in the book, under a name) that some panel of it
is in the center, that a panel in full view is open, and that no name is in the book
twice. `DockBook` is what one step may do to the book: what a window writes goes into
the book as it is now, not as the window read it.

`Composer` has four theorems at its end. `ForeignDraftsAreKept` is the
`ForeignDraftKept` of the run `drafts` for any windows, submissions, locks and faults
and without an assumption. The invariant `RevisionInv` says that a write or a flush
on its way read a revision no later than the host's, and that while the host still
has that revision it has a draft that this write may replace. It holds because
every change of the row, whoever makes it, has a revision of its own. The other
three assume `ComposerAssumption` (`None` is none of the values it stands in for, no
text is the empty one, bounds are numbers). `WritesDoNotOverlap`: in a window, one
save, settings change or submission at a time is past its turn. `WritesInv` says
why: the chain of a window holds, without repetition, exactly the operations that
have joined it and not ended, and only its head is under way. `OneMessageAtATime`
and `TypedTextStays`, both under the hypothesis `~SlowFlush`, rest on `MessageInv` (a submission under way owns its draft; a
request id is that of the first submission of a message the host has not yet
confirmed; the entry remembers that message, and has what was typed) and on
`FlushFits` (a flush is of a covered page that has no submission, and of what the page
shows). `~SlowFlush` says that a flush before a lock ends before the next unlock.
Without it the two are false: the code gives a flush 2.5 s
(`lib/lock-preservation.ts:13`) and does not stop it then, and a late one puts former
text back and forgets the message sent since (section 4). `WritesDoNotOverlap` and
`ForeignDraftsAreKept` hold without it.

`MCConversation` proves what the conversation's panels promise together, from
`ConversationAssumption` (bounds and limits are numbers, the root of the tasks is a
root, some conversation's engine names its efforts, `None` is no message, entry,
flight or request). Each panel has an invariant and one lemma per action or group of
actions; a panel that is not on screen stutters, so the invariant of the whole
is their conjunction:

* `ControlsInv`: a control that is held has exactly one write under way or waiting, in
  the generation that holds it, and a write's revision is no later than the host's;
* `AdoptionInv`: the intents a dialog keeps differ in id, and a request is of the
  intent with its id; `TasksInv`: a team, a form and a request that have one id have
  one content;
* `TeamInv`: every row the panel or a request has seen is one the child once had, so
  that equal revisions mean equal rows;
* `QueueInv`: the list and the call are those of the conversation on screen, and at
  most one stop is under way, in the one guarded state;
* `PlaceInv`: whatever was read was read under the present sign-in; `PlaceWishes`: a
  call that the user left behind carries an older intent;
* `ImagesInv`: a key names one message, which every flight and draft with it has;
* `EditorInv`: lists are of the place shown, a buffer without edits has the text of
  its revision, every text is one already written, and a read that was not stopped
  is of the request still shown; `CacheInv`: the cached turns belong to who is signed in.

The theorems: `AskedUnderOneIdentity`, `NoAnswerElsewhere`, `HostDoesWhatWasReviewed`
and `WorkStays`, which are `OneRequestPerIntent`, `AnswersStayHome`, `ActsAsReviewed`
and `WorkIsKept` of the run. The last two are action properties; for each part one
lemma per step says what a step that continues, transfers, adopts, writes or opens
must have found.

Only model-checked:

* every liveness property (`ComesToRest`, `WorkerAnswersCancel`, `WaitingEnds`,
  `HostIsShown`, `RequestsEnd` and the rest of `QueuesAdvance`): liveness and `ENABLED`
  are outside the reach of the prover;
* `ShownAsReported`: that pages and streams merge into a window of the host's turns,
  and that a fold of events shows what was reported, is an induction over
  sequences, which the prover cannot be given; no module with a theorem uses a
  RECURSIVE operator;
* `NothingIsLost`, whose draft part holds for one returning conversation only
  (section 4), and which follows a value through two windows, a journal and the
  host at once; `TypedTextStays` and `ForeignDraftsAreKept` are the part of it that
  is about a window by itself;
* of the run `management`, what is left of `WrittenOnce`: a schedule made once per form, a
  machine launched under its own request, a removed hook not removed again. The last
  cannot be a theorem: `NoHookRepeat` fails
  when the account has more projects than a fresh panel reads. A panel opened again
  reads the first page of projects; when all of those could be read, a removal in
  doubt is taken to be made as soon as its hook is not among their hooks
  (`HookSettings.tsx:95`), though its project may be on a later page, and may then be
  sent again while the first one can still land. The code means to "Keep uncertain
  writes blocked across a panel remount" (`HookSettings.tsx:22-23`). In the run, two
  projects fit on a page;
* `TypeOK` of the two compositions: the parts of it that
  the proofs need are in the panels' invariants, and the rest are the bounds of
  the instances.

## 6. What the models leave out

* `AgentTask`: escalated approvals of subagents, Ask mode, revocation of an
  execution authority, browser restrictions, steering, compaction of the
  transcript, a change of reviewer between the authorization and the execution
  of a managed call (that is `DecisionBroker`).
* `TurnDispatch`: several conversations (a lock and a queue are per
  conversation), the turn that a repeated request adds when a crash kept it from being
  written (`workspace/service.py:578`; its task has failed at the restart, and the
  model has active turns only), limits of attachments and context, relations of coordinators,
  and how a native engine's later events are matched to turns.
* `ScheduledRuns`: shell commands, browser permissions, several conversations,
  the limit of eight dispatch workers, history rows of skipped occurrences,
  native engines and runners.
* The workspace: what section 2 says of each module; layout, wording and
  rendering; voice, artifacts, the terminal, pairing, accounts, groups,
  notifications and pages that only read; the catalogue of models whose load
  another window's lock may drop (`App.tsx:138`); the phone's client, of which
  the repository has a compiled bundle only.
* Everything whose row in the inventory says so, for the reason given in
  `PROJECT.json`.

## 7. Plan

Done: the five modules of the server, each with the safety properties of its run
proved, and the panels of the workspace with the handlers they call, each with an
invariant of its own that is proved. Left, in this order:

1. Proofs for what is left of `WrittenOnce` in `MCManagement` (schedules, the request of
   a launch); then the return of a window (`NothingIsLost`) from the theorems of
   `Composer`.
2. An abstract specification of a scheduled goal (occurrences claimed, worked,
   ended, within a budget) that `ScheduledRuns` implements.
3. `TaskTree`: `AgentTask` and `TreeBudget` composed, with subagents and
   escalated approvals: leases follow workers, a parent's wait is metered free,
   no child outlives its parent's cancellation.
4. `EngineTurns`: correlation of late events of a native engine with turns,
   relayed approvals, attach and recovery.
5. `Coordination`: delegation and the late results of children.
6. Provisioning of runners, unlocking of identities, the next occurrence of a
   cron expression, terminal replay and runbooks.
