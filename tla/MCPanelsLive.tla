---------------------------- MODULE MCPanelsLive ----------------------------
(***************************************************************************)
(* What must happen in the end, panel by panel, on smaller instances than   *)
(* those of MCConversation and MCManagement, and for the two queues of the  *)
(* host, the follow-ups of a conversation and the runs of a schedule, each  *)
(* with the fairness of its own FairSpec.  The timers of the window, the    *)
(* answers that arrive and the host are fair; users, other clients, lost    *)
(* answers and locks are not.                                               *)
(***************************************************************************)
EXTENDS Integers

CONSTANTS None, c, d

VARIABLES
    active,   \* the panel on screen
    cacheHost, cacheGeneration, record, flights, historyFlights, cacheUsed,
    queueLatest, state, queueRows, settings, session, queueGeneration, observing,
        queueSeen, queueStopping, stops, focus, interrupt, items, queueRead,
        queueReview, queueCall, busy, queueUsed,
    child, teamStatus, snapRead, received, sourceRead, teamAct, events,
    work, teams, sup, tree, tasksRead, order, squad, tasksMishaps,
    chat, completed, pending, dialog, reading, post, upsets,
    hooks, account, creations, operations, panel, load, write, spent,
    definition, receipts, mcp, toolsCall, toolsMishaps,
    operation, job, installed, updateLatest, page, updateWire, answers, updateUsed,
    browserHost, may, browserUi, browserLoads, observes, jobs, browserUsed,
    text, here, selected, client, opened, timer, languageWire, doc, languageCall,
        languageUsed,
    identity, jar, holder, refreshing, signed, accessCall, accessRan, expiries, lapses,
    revision, previews, machines, plan, id, catalog, cloudLoads, loading, cloudReview,
        cleanup, cloudAct, cloudRows, poll, cloudUsed,
    computerUi, link, viewer, mayControl, computerUsed,
    line, dispatchStatus, rev, ambiguous, consent, binding, receipt, turn, engine,
        dispatchUp, wpc, dispatchSeen, pc, faults, dispatchMade, dispatchRan,
    sched, automationUsed, started, live, goal, target, run, task, linked, other,
        worker, tick, hold, automationStopping, now, automationUp, crashes,
        automationMade, wanted

\* A cached conversation of three turns, a fourth of them new; no read fails.
Cache == INSTANCE ConversationCache WITH MaxTurns <- 4, Reports <- {2}, First <- 3,
        refreshCohort <- 1, Page <- 2, MaxChanges <- 2, MaxHistories <- 1, MaxUpsets <- 0,
        host <- cacheHost, generation <- cacheGeneration, used <- cacheUsed
\* Two tasks of one conversation and a queued prompt.
Queue == INSTANCE FollowUps WITH Chats <- {c, d}, Working <- {c}, MaxTasks <- 2,
        MaxRows <- 1, MaxMoves <- 0, MaxCalls <- 1, latest <- queueLatest,
        rows <- queueRows, generation <- queueGeneration, seen <- queueSeen,
        stopping <- queueStopping, read <- queueRead, review <- queueReview,
        call <- queueCall, used <- queueUsed
\* Two children, one of them shown in full.
Team == INSTANCE CoordinatorPanel WITH NumChildren <- 2, Accounts <- {"a", "b"},
        Owner <- "a", MAX_SOURCES <- 1, MaxRequests <- 2, MaxActs <- 1, MaxEvents <- 1,
        status <- teamStatus, act <- teamAct
\* A task and its one worker, an order and a team.
Tasks == INSTANCE TaskControl WITH Roots <- {"r"}, First <- "r", Parallel <- 1, Total <- 2,
        MaxOrders <- 1, MaxTeams <- 1, MaxEdits <- 1, MaxTurns <- 1, MaxMishaps <- 1,
        read <- tasksRead, mishaps <- tasksMishaps
\* One identity and two posts of it.
Adoption == INSTANCE AdoptionDialog WITH Chats <- {c, d}, MaxIds <- 1, MaxPosts <- 2,
        MaxChanges <- 1, MaxUpsets <- 1
\* A project with a hook, one write.
Hooks == INSTANCE HookPanel WITH Users <- {c}, Commands <- {d}, Projects <- 1,
        PageSize <- 1, MaxWrites <- 1, MaxTroubles <- 1
\* One call of a server whose definition changes once.
Tools == INSTANCE ToolCalls WITH Instructions <- {"a", "b"}, ReceiptLimit <- 2,
        Allowed <- {<<0, "a">>, <<0, "b">>, <<1, "a">>}, MaxCalls <- 1, MaxDefinition <- 1,
        MaxMishaps <- 1, call <- toolsCall, mishaps <- toolsMishaps
\* Two releases, one click.
Update == INSTANCE SoftwareUpdate WITH MaxVersion <- 2, Size <- 1, MaxWindows <- 2,
        MaxClicks <- 1, MaxFailures <- 1, latest <- updateLatest, wire <- updateWire,
        used <- updateUsed
\* One tab, one act of the user, no form of a handover.
Browser == INSTANCE BrowserView WITH Tabs <- {c}, Retries <- 1, MaxActs <- 1,
        MaxForms <- 0, MaxUpsets <- 1, host <- browserHost, ui <- browserUi, loads <- browserLoads,
        used <- browserUsed
\* Two files of a project.
Language == INSTANCE LanguageDocuments WITH Files <- {c, d}, MaxTexts <- 1, MaxFormats <- 1,
        MaxMoves <- 2, MaxUpsets <- 1, wire <- languageWire, call <- languageCall,
        used <- languageUsed
\* Two windows with one cookie jar, two requests, one expiry.
Access == INSTANCE SessionRefresh WITH Windows <- {c, d}, MaxCalls <- 2, MaxExpiries <- 1,
        MaxMishaps <- 0, call <- accessCall, ran <- accessRan
\* One launch of a machine and what the host makes of it.
Cloud == INSTANCE CloudLaunch WITH Accounts <- {c}, Places <- {"p"}, Projects <- {"x"},
        MaxTexts <- 0, MaxActs <- 2, MaxLoads <- 1, MaxUpsets <- 1, MaxWorks <- 2,
        MaxPolls <- 1, loads <- cloudLoads, review <- cloudReview, act <- cloudAct,
        rows <- cloudRows, used <- cloudUsed
\* Two sockets, one trouble.
Computer == INSTANCE ComputerCapture WITH MaxSockets <- 2, MaxClicks <- 1, MaxKeys <- 1,
        MaxUpsets <- 1, Backlog <- 1, ui <- computerUi, used <- computerUsed
\* Two follow-ups, one fault.
Dispatch == INSTANCE TurnDispatch WITH Queued <- {"first", "second"}, Direct <- {},
        Clients <- {}, Sends <- <<>>, Worker <- "worker", MaxPending <- 2, MaxBinding <- 1,
        MaxRevision <- 2, MaxFaults <- 1, status <- dispatchStatus, up <- dispatchUp,
        seen <- dispatchSeen, made <- dispatchMade, ran <- dispatchRan
\* One recurring schedule that nobody edits and its one run, a crash.
Automation == INSTANCE ScheduledRuns WITH Schedules <- {"s"}, Grants <- {"g"},
        GrantOf <- [s \in {"s"} |-> "g"], Period <- [s \in {"s"} |-> 2], Missed <- {"s"},
        Overlap <- {"s"}, Grace <- 0, MaxRuns <- 1, GrantRuns <- [g \in {"g"} |-> 2],
        MaxTime <- 1, MaxRevision <- 0, MaxCrashes <- 1, TargetReturns <- TRUE,
        used <- automationUsed, stopping <- automationStopping, up <- automationUp,
        made <- automationMade

cacheVars == <<cacheHost, cacheGeneration, record, flights, historyFlights, cacheUsed>>
queueVars == <<queueLatest, state, queueRows, settings, session, queueGeneration, observing,
        queueSeen, queueStopping, stops, focus, interrupt, items, queueRead, queueReview,
        queueCall, busy, queueUsed>>
teamVars == <<child, teamStatus, snapRead, received, sourceRead, teamAct, events>>
tasksVars == <<work, teams, sup, tree, tasksRead, order, squad, tasksMishaps>>
adoptionVars == <<chat, completed, pending, dialog, reading, post, upsets>>
hooksVars == <<hooks, account, creations, operations, panel, load, write, spent>>
toolsVars == <<definition, receipts, mcp, toolsCall, toolsMishaps>>
updateVars == <<operation, job, installed, updateLatest, page, updateWire, answers,
        updateUsed>>
browserVars == <<browserHost, may, browserUi, browserLoads, observes, jobs, browserUsed>>
languageVars == <<text, here, selected, client, opened, timer, languageWire, doc,
        languageCall, languageUsed>>
accessVars == <<identity, jar, holder, refreshing, signed, accessCall, accessRan, expiries,
        lapses>>
cloudVars == <<revision, previews, machines, plan, id, catalog, cloudLoads, loading,
        cloudReview, cleanup, cloudAct, cloudRows, poll, cloudUsed>>
computerVars == <<computerUi, link, viewer, mayControl, computerUsed>>
dispatchVars == <<line, dispatchStatus, rev, ambiguous, consent, binding, receipt, turn,
        engine, dispatchUp, wpc, dispatchSeen, pc, faults, dispatchMade, dispatchRan>>
automationVars == <<sched, automationUsed, started, live, goal, target, run, task, linked,
        other, worker, tick, hold, automationStopping, now, automationUp, crashes,
        automationMade, wanted>>
vars == <<active, cacheVars, queueVars, teamVars, tasksVars, adoptionVars, hooksVars,
        toolsVars, updateVars, browserVars, languageVars, accessVars, cloudVars,
        computerVars, dispatchVars, automationVars>>

\* A panel that is not on screen is in one of its initial states.
Init ==
    /\ active \in {"cache", "queue", "team", "tasks", "adoption", "hooks", "tools", "update", "browser", "language", "access", "cloud", "computer", "dispatch", "automation"}
    /\ Cache!Init
    /\ Queue!Init
    /\ Team!Init
    /\ Tasks!Init
    /\ Adoption!Init /\ (active = "adoption" \/ dialog.key = CHOOSE e \in {c, d} : TRUE)
    /\ Hooks!Init /\ (active = "hooks" \/ hooks[0].body.project = 1)
    /\ Tools!Init
    /\ Update!Init
    /\ Browser!Init /\ (active = "browser" \/ \A t \in DOMAIN browserHost : browserHost[t].state = "human")
    /\ Language!Init
    /\ Access!Init /\ (active = "access" \/ jar = Access!Issued(1))
    /\ Cloud!Init
    /\ Computer!Init
    /\ Dispatch!Init /\ (active = "dispatch" \/ engine = "internal")
    /\ Automation!Init

\* One panel is on screen; the others stay as they are.
Next ==
    /\ UNCHANGED active
    /\ IF active = "cache" THEN Cache!Next ELSE UNCHANGED cacheVars
    /\ IF active = "queue" THEN Queue!Next ELSE UNCHANGED queueVars
    /\ IF active = "team" THEN Team!Next ELSE UNCHANGED teamVars
    /\ IF active = "tasks" THEN Tasks!Next ELSE UNCHANGED tasksVars
    /\ IF active = "adoption" THEN Adoption!Next ELSE UNCHANGED adoptionVars
    /\ IF active = "hooks" THEN Hooks!Next ELSE UNCHANGED hooksVars
    /\ IF active = "tools" THEN Tools!Next ELSE UNCHANGED toolsVars
    /\ IF active = "update" THEN Update!Next ELSE UNCHANGED updateVars
    /\ IF active = "browser" THEN Browser!Next ELSE UNCHANGED browserVars
    /\ IF active = "language" THEN Language!Next ELSE UNCHANGED languageVars
    /\ IF active = "access" THEN Access!Next ELSE UNCHANGED accessVars
    /\ IF active = "cloud" THEN Cloud!Next ELSE UNCHANGED cloudVars
    /\ IF active = "computer" THEN Computer!Next ELSE UNCHANGED computerVars
    /\ IF active = "dispatch" THEN Dispatch!Next ELSE UNCHANGED dispatchVars
    /\ IF active = "automation" THEN Automation!Next ELSE UNCHANGED automationVars

Spec ==
    /\ Init /\ [][Next]_vars
    /\ WF_cacheVars(active = "cache" /\ Cache!read)
    /\ WF_cacheVars(active = "cache" /\ Cache!FlightStep)
    /\ WF_queueVars(active = "queue" /\ Queue!refresh)
    /\ WF_queueVars(active = "queue" /\ Queue!hostLists)
    /\ WF_queueVars(active = "queue" /\ Queue!listed)
    /\ WF_queueVars(active = "queue" /\ Queue!hostServes)
    /\ WF_queueVars(active = "queue" /\ Queue!callEnds)
    /\ WF_teamVars(active = "team" /\ Team!refresh)
    /\ WF_teamVars(active = "team" /\ Team!hostSnapshot)
    /\ WF_teamVars(active = "team" /\ Team!readSnapshot)
    /\ WF_teamVars(active = "team" /\ Team!hostTask)
    /\ WF_teamVars(active = "team" /\ Team!readSource)
    /\ \A n \in Team!Acts : WF_teamVars(active = "team" /\ Team!Step(n))
    /\ WF_tasksVars(active = "tasks" /\ Tasks!hostReads)
    /\ WF_tasksVars(active = "tasks" /\ Tasks!treeArrives)
    /\ WF_tasksVars(active = "tasks" /\ Tasks!poll)
    /\ \A n \in Tasks!Orders : WF_tasksVars(active = "tasks" /\ Tasks!hostObeys(n))
    /\ \A n \in Tasks!Orders : WF_tasksVars(active = "tasks" /\ Tasks!orderAnswered(n))
    /\ \A n \in Tasks!Teams : WF_tasksVars(active = "tasks" /\ Tasks!hostAssembles(n))
    /\ \A n \in Tasks!Teams : WF_tasksVars(active = "tasks" /\ Tasks!hostSpawns(n))
    /\ \A n \in Tasks!Teams : WF_tasksVars(active = "tasks" /\ Tasks!teamAnswered(n))
    /\ \A n \in Adoption!Posts : WF_adoptionVars(active = "adoption" /\ Adoption!Step(n))
    /\ \A n \in Hooks!Writes : WF_hooksVars(active = "hooks" /\ Hooks!Step(n))
    /\ WF_toolsVars(active = "tools" /\ Tools!administered)
    /\ \A n \in Tools!Calls : WF_toolsVars(active = "tools" /\ Tools!Step(n))
    /\ WF_updateVars(active = "update" /\ Update!Window)
    /\ WF_updateVars(active = "update" /\ (Update!serveState \/ Update!serveAction))
    /\ WF_updateVars(active = "update" /\ (\/ Update!checkEnds \/ Update!chunk \/ Update!verify \/ Update!downloadEnds
                                     \/ Update!installEnds \/ Update!restarts))
    /\ WF_browserVars(active = "browser" /\ Browser!poll)
    /\ WF_browserVars(active = "browser" /\ Browser!LoadStep(TRUE))
    /\ WF_browserVars(active = "browser" /\ Browser!LoadStep(FALSE))
    /\ WF_browserVars(active = "browser" /\ Browser!JobStep)
    /\ WF_browserVars(active = "browser" /\ \E m \in browserUi.inbox : Browser!streamArrives(m))
    /\ WF_languageVars(active = "language" /\ Language!timerFires)
    /\ WF_languageVars(active = "language" /\ Language!initialised)
    /\ WF_languageVars(active = "language" /\ Language!serverTakes)
    /\ WF_languageVars(active = "language" /\ Language!formatted)
    /\ \A n \in Access!Calls : WF_accessVars(active = "access" /\ Access!hostServes(n))
    /\ \A n \in Access!Calls : WF_accessVars(active = "access" /\ Access!answered(n))
    /\ \A w \in {c, d} : WF_accessVars(active = "access" /\ Access!hostChecks(w))
    /\ \A w \in {c, d} : WF_accessVars(active = "access" /\ Access!hostRotates(w))
    /\ \A w \in {c, d} : WF_accessVars(active = "access" /\ Access!hostMe(w))
    /\ \A w \in {c, d} : WF_accessVars(active = "access" /\ Access!meAnswered(w))
    /\ \A w \in {c, d} : WF_accessVars(active = "access" /\ Access!postAnswered(w))
    /\ \A w \in {c, d} : SF_accessVars(active = "access" /\ Access!acquire(w))
    /\ WF_cloudVars(active = "cloud" /\ Cloud!ask)
    /\ WF_cloudVars(active = "cloud" /\ Cloud!hostLists)
    /\ WF_cloudVars(active = "cloud" /\ Cloud!polled)
    /\ WF_cloudVars(active = "cloud" /\ Cloud!listed)
    /\ WF_computerVars(active = "computer" /\ Computer!cleanUp)
    /\ WF_computerVars(active = "computer" /\ Computer!hear)
    /\ WF_computerVars(active = "computer" /\ Computer!closed)
    /\ WF_computerVars(active = "computer" /\ Computer!Host)
    /\ WF_computerVars(active = "computer" /\ Computer!Pump)
    /\ WF_dispatchVars(active = "dispatch" /\ Dispatch!Tick)
    /\ WF_dispatchVars(active = "dispatch" /\ Dispatch!Restart)
    /\ \A s \in Dispatch!Senders : WF_dispatchVars(active = "dispatch" /\ Dispatch!Sending(s))
    /\ WF_automationVars(active = "automation" /\ Automation!Tick)
    /\ WF_automationVars(active = "automation" /\ Automation!Restart)
    /\ \A r \in Automation!Runs : SF_automationVars(active = "automation" /\ Automation!Execute(r))
    /\ \A r \in Automation!Runs : SF_automationVars(active = "automation" /\ Automation!StopNext(r))

-----------------------------------------------------------------------------
\* The panels catch up with the host by themselves: the turns of a conversation
\* (workspace-data.ts), the queue of its prompts (PromptQueue.tsx), requests
\* decided elsewhere (OrchestratorDecisions.tsx), the state of the update
\* (updater.js) and of the browser's tabs (BrowserSurface.tsx), the machines at work
\* (CloudMachines.tsx); and the language server ends with the text of an open
\* editor, whatever was typed and selected meanwhile (Workbench.tsx, lsp.ts).
HostIsShown ==
    /\ (active = "cache" => Cache!TurnsAreShown)
    /\ (active = "queue" => Queue!QueueIsShown)
    /\ (active = "team" => Team!DecidedLeaves)
    /\ (active = "update" => Update!StatusIsShown)
    /\ (active = "browser" => Browser!ControlIsShown)
    /\ (active = "cloud" => Cloud!MachinesAreShown)
    /\ (active = "language" => Language!ServerCatchesUp)

\* A request whose answer is lost does not leave its panel busy for ever, nor
\* does one that meets an expired sign-in: orders to workers, the adoption of a
\* conversation, writes of hooks, calls of tools, requests during a renewal and
\* the formatting of a file; and what the host captures for a viewer of the
\* computer ends with the viewer (ComputerSurface.tsx, session.py).
RequestsEnd ==
    /\ (active = "tasks" => Tasks!OrdersEnd)
    /\ (active = "adoption" => Adoption!SendingEnds)
    /\ (active = "hooks" => Hooks!PendingEnds)
    /\ (active = "tools" => Tools!FlightEnds)
    /\ (active = "access" => Access!RequestsEnd)
    /\ (active = "language" => Language!FormattingEnds)
    /\ (active = "computer" => Computer!CaptureEnds)

\* The queues of the host advance over a crash: a dispatch ends and the first
\* follow-up is taken up when the conversation is free (prompt_queue.py: _loop,
\* _heal); an occurrence that is due is claimed, skipped or queued, its dispatch
\* ends, revoked work is stopped, and what was queued is not dropped for being late
\* (automation.py: tick, _dispatch, cancel_delegation_runs).
QueuesAdvance ==
    /\ (active = "dispatch" => Dispatch!DispatchEnds /\ Dispatch!HeadIsTaken)
    /\ (active = "automation" => /\ Automation!DueIsHandled /\ Automation!DispatchEnds
                                 /\ Automation!RevokedWorkStops)
    /\ Automation!QueuedIsKept
=============================================================================
