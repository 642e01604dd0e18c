---------------------------- MODULE MCManagement ----------------------------
(***************************************************************************)
(* The panels that manage the workspace: hooks, tools of MCP servers, the   *)
(* forms of the settings, the policy, schedules, skills, the jobs of        *)
(* dedicated runners, the list of every conversation, the update of the     *)
(* application, the layout of the dock, the managed browser, cloud machines, *)
(* the picture of the computer and the renewal of the sign-in under all of  *)
(* them.  A behaviour has one of them on screen; they share no state.       *)
(*                                                                         *)
(* Each panel comes first, with the invariant it keeps; then the panels      *)
(* together and what they promise.                                          *)
(***************************************************************************)
EXTENDS Integers, Sequences, FiniteSets

CONSTANTS
    None, this, that,
    Windows,                     \* the windows of a browser
    LayoutNames, MaxNamed,       \* the saved layouts
    Instructions, Approved,      \* calls of tools; those approved of a later definition
    ReceiptLimit,
    Runners, RunnerCommands,     \* dedicated containers and what they run
    JobWatchers,                 \* windows that read the jobs by themselves
    PolicyLimits,                \* lifetimes of the devices' sessions
    ManagedProjects,             \* projects of skills and of schedules
    SkillNames,                  \* folders of skills
    ScheduleTexts,               \* what a schedule may say
    BrowserTabs,                 \* tabs of the managed browser
    CloudAccounts,               \* accounts of a cloud
    CloudPlaces,                 \* its regions and zones
    CloudProjects,               \* projects of machines
    HookCommands,                \* commands of hooks
    PlaneRows,                   \* conversations
    \* Bounds.
    MaxRequests, MaxExpiries, MaxMishaps, MaxUndo, MaxCommands, MaxToolCalls, MaxDefinition,
        MaxSubs, MaxStops, MaxReleases, Chunks, MaxUpdateWindows, MaxUpdateClicks, MaxUpdateFailures,
        MaxPolicyEdits, MaxPolicySaves, MaxPolicyOthers, MaxPolicyUpsets,
        MaxSkillTexts, MaxSkillActs, MaxSkillUpsets,
        MaxScheduleActs, MaxScheduleTyped, MaxScheduleUpsets,
        BrowserRetries, MaxBrowserActs, MaxBrowserForms, MaxBrowserUpsets,
        MaxCloudTexts, MaxCloudActs, MaxCatalogs, MaxCloudUpsets, MaxCloudWorks, MaxCloudPolls,
        MaxFormEdits, MaxFormLoads, MaxFormSaves, MaxFormOthers,
        HookProjects, HookPageSize, MaxHookWrites, MaxHookTroubles,
        MaxPlaneChanges, MaxPlaneReads, MaxPlaneFailures, MaxPlaneLocks,
        MaxComputerSockets, MaxComputerClicks, MaxComputerKeys, MaxComputerUpsets, ComputerBacklog

\* What a window keeps of a request.
AccessRequests == [window : Windows, kind : {"read", "write"}, retry : BOOLEAN, again : BOOLEAN,
                   pc : {"sent", "answered", "waiting", "ended"}, with : Nat \cup {None},
                   answer : {"ok", "401", "403", "lost", "field", None}]

\* What the panel of tools keeps of a call.
ToolCallRecords == [key : (0..MaxDefinition) \X Instructions, pc : {"hash", "sent", "ended"}, fresh : BOOLEAN,
                    inView : BOOLEAN, wire : {"none", "sent", "done", "failed"}, acknowledged : BOOLEAN,
                    reported : BOOLEAN]

\* The intent that the browser stores of a command.
JobIntents == [id : Nat, runner : Runners, cmd : RunnerCommands]

\* The policy as it is read, and what a save of it sends.
PolicyRecords == [revision : Nat, limits : PolicyLimits]
PolicyReads == [answer : PolicyRecords \cup {None}]
PolicySaves == [sent : PolicyRecords, from : Nat, fresh : BOOLEAN, wire : {"sent", "done", "refused", "lost"}]

\* What the editor of skills asks for.
SkillSave == [kind : {"inspect", "save"}, project : ManagedProjects, name : SkillNames, fresh : BOOLEAN,
              markdown : Nat, expected : Nat, got : Nat,
              pc : {"sent", "checked", "saved", "refused", "reread", "read", "ended"}]

\* The form of a machine, and the review that the host keeps of it.
CloudPlans == [account : CloudAccounts \cup {None}, project : CloudProjects, place : CloudPlaces \cup {None},
               text : Nat]
CloudPreviews == [plan : CloudPlans, req : Nat, form : Nat, revision : Nat, live : BOOLEAN]

\* What a form of the settings holds, and what a save of it sends.
FormStates == [seen : Nat \cup {None}, text : Nat, kept : Nat]
FormSaves == [seen : Nat \cup {None}, base : Nat \cup {None}, text : Nat, snapshot : Nat, of : Nat, id : Nat,
              answer : {"ok", "failed", None}]

\* The receipts of hooks, and what a creation that was reviewed sends.
HookReceipts == [state : {"pending", "uncertain", "saved"}, write : Nat]
HookBodies == [project : 1..HookProjects, command : HookCommands]
HookReviews == [kind : {"create"}, body : HookBodies, hook : {None}, rev : {0}]
HookCreations == [user : {this}, kind : {"create"}, body : HookBodies, hook : {None}, rev : {0}, seen : {0},
                  before : SUBSET (0..MaxHookWrites), enabled : {FALSE}, stale : BOOLEAN,
                  pc : {"prepare", "sent", "ended"}, wire : {"none", "sent", "taken", "refused", "lost"}]

\* Bounds and limits are numbers, and None is none of what is remembered.
ASSUME AccessAssumption ==
    /\ {MaxRequests, MaxExpiries, MaxMishaps} \subseteq Nat
    /\ None \notin Nat /\ None \notin Windows /\ None \notin {"ok", "401", "403", "lost"} /\ None \notin AccessRequests
ASSUME ToolsAssumption ==
    /\ {MaxToolCalls, MaxDefinition} \subseteq Nat
    /\ None \notin Nat /\ None \notin [state : {"pending", "uncertain"}, call : Nat] /\ None \notin ToolCallRecords
ASSUME JobsAssumption == {MaxSubs, MaxStops} \subseteq Nat /\ None \notin Nat /\ None \notin JobIntents /\ Runners # {}
ASSUME UpdateAssumption ==
    /\ {MaxReleases, Chunks, MaxUpdateWindows, MaxUpdateClicks, MaxUpdateFailures} \subseteq Nat
    /\ None \notin Nat /\ None \notin {"download", "install"}
ASSUME PolicyAssumption ==
    PolicyLimits # {} /\ None \notin PolicyRecords /\ None \notin PolicyReads /\ None \notin PolicySaves
ASSUME SkillsAssumption == ManagedProjects # {} /\ None \notin Nat /\ None \notin SkillSave
ASSUME CloudAssumption == CloudProjects # {} /\ None \notin CloudPreviews
ASSUME SettingsAssumption == None \notin FormStates /\ None \notin FormSaves
ASSUME PlaneAssumption == IsFiniteSet(PlaneRows)
ASSUME HooksAssumption == MaxHookWrites \in Nat /\ None \notin HookReceipts /\ None \notin HookCreations

VARIABLES
    active,   \* the panel on screen
    hooks, account, creations, operations, panel, load, write, spent,
    definition, receipts, mcp, toolsCall, mishaps,
    category, form, edits, settingsDirty, settingsRows, settingsLoads, saving,
        settingsHost, accounts, creation, generatedId, settingsRevision, settingsCounts,
    policyHost, policy, draft, policyDirty, policyConflict, busy, locked, read, save,
        reviewed, policyUsed,
    sched, scope, data, editing, text, schedulesIntent, schedulesPoll, schedulesActs,
        schedulesUsed,
    disk, versions, project, name, markdown, digest, history, skillsConflict,
        skillsActs, shown, texts, skillsUsed,
    ready, jobsJobs, jobsIntent, subs, jobsView, upsets,
    planeHost, enabled, hidden, list, failed, reads, planePage, filter, inspected,
        session, looks, planeCounts,
    operation, job, installed, latest, updatePage, wire, answers, updateUsed,
    now, undo, focusRestore, dockView, book, named, dockActs,
    browserHost, may, browserUi, browserLoads, observes, browserJobs, browserUsed,
    identity, jar, holder, refreshing, signed, accessCall, ran, expiries, lapses,
    cloudRevision, previews, machines, plan, id, catalog, cloudLoads, loading, review,
        cleanup, act, cloudRows, cloudPoll, cloudUsed,
    computerUi, link, viewer, mayControl, computerUsed

-----------------------------------------------------------------------------
(* Sequences. *)

\* A sequence of its own elements.
SeqOf(q) == q \in Seq({q[i] : i \in 1..Len(q)})

\* One element of a sequence is replaced, one more comes, or the first goes.
Changed(p, q, i, x) == SeqOf(p) /\ Len(p) = Len(q) /\ p[i] = x /\ \A k \in 1..Len(q) : k # i => p[k] = q[k]

-----------------------------------------------------------------------------
(* The renewal of the sign-in, for any number of windows, requests and        *)
(* expiries.                                                                 *)

Access == INSTANCE SessionRefresh WITH MaxCalls <- MaxRequests, call <- accessCall
accessVars == <<identity, jar, holder, refreshing, signed, accessCall, ran, expiries,
        lapses>>

\* None of the properties is inductive: that a proof is used once needs the lock
\* and what the host's first step found; that a write runs once needs to know
\* which requests may still be carried out; that only the end of the session
\* signs out needs what a refusal on its way says of it.
AccessCookies == [access : Nat \cup {None}, proof : Nat \cup {None}]
AccessRefreshes == [pc : {"waiting", "me", "post", "checked"}, with : AccessCookies, answer : Access!Answers \cup {None}]
AccessShape ==
    /\ identity \in [good : SUBSET Nat, proof : Nat, alive : BOOLEAN]
    /\ jar \in AccessCookies
    /\ refreshing \in [Windows -> {None} \cup AccessRefreshes]

\* Only under the lock is a refresh at the host or on its way.
LockIsHeld ==
    \A w \in Windows : (refreshing[w] # None /\ refreshing[w].pc # "waiting") => holder = w

\* A proof that was found unused stays so until it is used.
CheckedIsCurrent ==
    \A w \in Windows : (Access!Asking(w, "checked") /\ identity.alive) => refreshing[w].with.proof = identity.proof

RefreshInv == AccessShape /\ LockIsHeld /\ CheckedIsCurrent

MayRun(q) == q.pc \in {"sent", "waiting"} \/ (q.pc = "answered" /\ q.answer = "401")

\* A write that may still be carried out has not been.
UnrunYet == \A n \in Access!Calls :
    (accessCall[n] = None \/ (accessCall[n].kind = "write" /\ MayRun(accessCall[n]))) => ran[n] = 0

CallInv ==
    /\ accessCall \in [Access!Calls -> {None} \cup AccessRequests]
    /\ ran \in [Access!Calls -> Nat]
    /\ UnrunYet /\ Access!WriteRunsOnce

\* An exchange that was refused found the session ended, or ended it.
RefusedIsEnded ==
    \A w \in Windows :
        (/\ refreshing[w] # None /\ refreshing[w].pc \in {"post", "checked"}
         /\ refreshing[w].answer = "401") => ~identity.alive

AccessInv == RefreshInv /\ CallInv /\ RefusedIsEnded

-----------------------------------------------------------------------------
(* The layout of the dock. *)

Dock == INSTANCE DockLayout WITH Names <- LayoutNames, MaxActs <- MaxCommands,
        view <- dockView, acts <- dockActs
dockVars == <<now, undo, focusRestore, dockView, book, named, dockActs>>

\* An arrangement in which some panel is in the center; what is known of the
\* window and of the book besides.
DockLayouts == Dock!Persistent \cup {"focus"}
GoodSnapshot(s) ==
    /\ s \in [layout : DockLayouts, dock : {s.dock}, right : {s.right}, bottom : {s.bottom}]
    /\ s.dock = [p \in Dock!Panels |-> s.dock[p]] /\ Dock!HasMain(s.dock)
GoodView(v) == v \in [active : {v.active}, expanded : {v.expanded}, floatingChat : {v.floatingChat},
                      chatExpanded : {v.chatExpanded}, narrow : {v.narrow}, closed : {v.closed}]
GoodBook(b) ==
    /\ b \in [arrangements : {b.arrangements}, last : {b.last}, named : {b.named}, ids : {b.ids}]
    /\ b.arrangements = [l \in Dock!Persistent |-> b.arrangements[l]]
    /\ \A l \in Dock!Persistent : b.arrangements[l] # None => GoodSnapshot(b.arrangements[l])
    /\ \A n \in b.named : n \in [id : {n.id}, name : {n.name}, snapshot : {n.snapshot}] /\ GoodSnapshot(n.snapshot)
    /\ \A n, m \in b.named : n.name = m.name => n = m
GoodUndo(u) == SeqOf(u) /\ Len(u) \in Nat /\ \A i \in 1..Len(u) : GoodSnapshot(u[i])

DockInv ==
    /\ GoodSnapshot(now) /\ (focusRestore # None => GoodSnapshot(focusRestore)) /\ GoodUndo(undo)
    /\ GoodView(dockView) /\ dockView.expanded \in Dock!opened(now) \cup {None}
    /\ GoodBook(book)

\* What a step may do to the book.
NamedStay(b, c) == \A n \in b.named : \E m \in c.named : m.id = n.id
OthersStay(b, c, S) == \A l \in Dock!Persistent : c.arrangements[l] # b.arrangements[l] => l \in S
DockBook ==
    /\ Dock!Removes \/ NamedStay(book, book')
    /\ OthersStay(book, book', {now.layout, now'.layout}) \/ Dock!otherWindow

-----------------------------------------------------------------------------
(* Calls of tools. *)

Tools == INSTANCE ToolCalls WITH MaxCalls <- MaxToolCalls, call <- toolsCall,
        Allowed <- {k \in (0..MaxDefinition) \X Instructions : k[1] = 0 \/ k[2] \in Approved}
toolsVars == <<definition, receipts, mcp, toolsCall, mishaps>>

ToolPanels == [connection : Tools!Definitions \cup {None}, inspecting : Tools!Keys \cup {None},
               reviewed : Tools!Keys \cup {None}, unconfirmed : Tools!Unconfirmed \cup {None},
               acknowledged : BOOLEAN, flight : Tools!Calls \cup {Tools!Admin, None}]
ToolReceipts == [state : {"pending", "uncertain"}, call : Tools!Calls]

\* A call that will leave once its key is computed.
InHand(n) == toolsCall[n].pc = "hash" /\ toolsCall[n].fresh /\ toolsCall[n].inView
Known(n) == toolsCall[n].reported \/ toolsCall[n].acknowledged

ToolShape ==
    /\ definition \in Tools!Definitions
    /\ receipts \in [Tools!Keys -> ToolReceipts \cup {None}]
    /\ mcp \in ToolPanels
    /\ toolsCall \in [Tools!Calls -> Tools!Call \cup {None}]

\* A receipt is that of its instruction, and a call that left keeps one until
\* its outcome is known.
ReceiptsAreTheirs ==
    /\ \A k \in Tools!Keys : receipts[k] # None =>
          toolsCall[receipts[k].call] # None /\ toolsCall[receipts[k].call].key = k
    /\ \A n \in Tools!Calls : Tools!Sent(n) /\ ~Known(n) =>
          receipts[toolsCall[n].key] # None /\ receipts[toolsCall[n].key].call = n

\* What will leave is on screen, and it is the last call.
InHandIsShown ==
    \A n \in Tools!Calls : toolsCall[n] # None =>
        /\ InHand(n) => mcp.inspecting = toolsCall[n].key /\ mcp.flight = n
        /\ \A m \in 1..(n - 1) : toolsCall[m] # None /\ ~InHand(m)
        /\ toolsCall[n].pc = "hash" => toolsCall[n].wire = "none"

ToolsInv == ToolShape /\ ReceiptsAreTheirs /\ InHandIsShown /\ Tools!NoCallRepeat

\* Steps that neither send a call nor learn of one.
ToolsQuiet(n) ==
    /\ toolsCall'[n] = None <=> toolsCall[n] = None
    /\ toolsCall[n] # None =>
         /\ toolsCall'[n] \in Tools!Call
         /\ toolsCall'[n].key = toolsCall[n].key
         /\ (toolsCall'[n].wire = "none") <=> (toolsCall[n].wire = "none")
         /\ toolsCall[n].reported => toolsCall'[n].reported
         /\ toolsCall[n].acknowledged => toolsCall'[n].acknowledged
         /\ toolsCall'[n].pc = "hash" => toolsCall[n].pc = "hash"
         /\ (toolsCall'[n].pc = "hash" /\ toolsCall'[n].fresh) => toolsCall[n].fresh
         /\ (toolsCall'[n].pc = "hash" /\ toolsCall'[n].inView) => toolsCall[n].inView

-----------------------------------------------------------------------------
(* Commands on dedicated runners. *)

Jobs == INSTANCE RunnerJobs WITH Active <- JobWatchers, Commands <- RunnerCommands,
        MaxUpsets <- MaxStops, jobs <- jobsJobs, intent <- jobsIntent, view <- jobsView
jobsVars == <<ready, jobsJobs, jobsIntent, subs, jobsView, upsets>>

\* The same request is no invariant by itself: it needs that the stored intent is
\* that of the last command, and that without one the last command was heard.
JobStatus == {"running", "outcome-unknown", "over"}
JobRecords == [id : Nat, runner : Runners, cmd : RunnerCommands, status : JobStatus, worker : BOOLEAN]
JobSubs == [by : Windows, runner : Runners, cmd : RunnerCommands, id : Nat, fresh : BOOLEAN,
            wire : {"sent", "answered", "refused", "lost"}, status : {None} \cup JobStatus,
            pc : {"open", "ended", "heard"}]
JobViews == [runner : Runners, shown : SUBSET Nat, busy : BOOLEAN, loads : BOOLEAN]

JobsShape ==
    /\ jobsJobs \in Seq(JobRecords) /\ subs \in Seq(JobSubs)
    /\ jobsIntent \in JobIntents \cup {None}
    /\ jobsView \in [Windows -> JobViews]

HeardBy(n, i) == \E m \in 1..n : subs[m].id = i /\ subs[m].pc = "heard"

IntentIsOfTheLast ==
    Len(subs) > 0 =>
      LET last == subs[Len(subs)] IN
      IF jobsIntent = None THEN HeardBy(Len(subs), last.id)
      ELSE jobsIntent.id = last.id /\ jobsIntent.runner = last.runner /\ jobsIntent.cmd = last.cmd

JobsInv == JobsShape /\ IntentIsOfTheLast /\ Jobs!SameUntilHeard

-----------------------------------------------------------------------------
(* The update of the application. *)

Update == INSTANCE SoftwareUpdate WITH MaxVersion <- MaxReleases, Size <- Chunks,
        MaxWindows <- MaxUpdateWindows, MaxClicks <- MaxUpdateClicks, MaxFailures <- MaxUpdateFailures,
        page <- updatePage, used <- updateUsed
updateVars == <<operation, job, installed, latest, updatePage, wire, answers, updateUsed>>

\* What the user pressed is what starts because between the state that the window
\* shows and the call that it sends only a call already on its way could change the
\* operation, and there is none: the button is disabled while one is, a window that
\* was closed is answered no more, and calls are served in their order.
UpdateActions == {"check", "download", "install", "restart"}
UpdateOperations == [phase : Update!Phases, version : Nat, downloaded : Nat, total : Nat, error : BOOLEAN,
                     update : Nat, bytes : Nat]
UpdateViews == {Update!View(o) : o \in UpdateOperations} \cup {Update!Lost}
UpdatePages == [window : Nat, view : UpdateViews \cup {None}, action : UpdateActions \cup {"reconnect", None},
                enabled : BOOLEAN, sending : BOOLEAN, error : BOOLEAN, timers : Int, held : BOOLEAN]
UpdateCalls == [kind : UpdateActions \cup {"state"}, window : Nat, seen : Nat]
UpdateAnswers == [kind : {"state"}, view : UpdateViews] \cup [kind : {"done"}, ok : BOOLEAN]

UpdateShape ==
    /\ operation \in UpdateOperations
    /\ job # None => job \in [kind : UpdateActions, of : Nat]
    /\ installed \in Nat /\ latest \in Nat
    /\ updatePage # None => updatePage \in UpdatePages
    /\ wire \in Seq(UpdateCalls) /\ answers \in Seq(UpdateAnswers)
    /\ updateUsed \in [windows : Nat, clicks : Nat, failures : Nat]

\* The operation is at rest, and ready to download or to install the release n.
Ready(kind, n) ==
    /\ kind = "download" => job = None /\ operation.phase = "available" /\ operation.update = n
    /\ kind = "install" => job = None /\ operation.phase = "downloaded" /\ operation.bytes = n
Reflects(v) ==
    /\ v.phase = "available" => Ready("download", v.version)
    /\ v.phase = "downloaded" => Ready("install", v.version)

OperationKnown ==
    /\ operation.phase = "available" => job = None /\ operation.update = operation.version
    /\ operation.phase = "downloaded" => job = None /\ operation.bytes = operation.version
    /\ (job # None /\ job.kind = "download") => job.of = operation.version

\* Calls wait in the order of their windows.
CallsInOrder ==
    /\ \A i \in 1..Len(wire) : wire[i].window <= updateUsed.windows
    /\ \A i, j \in 1..Len(wire) : i < j => wire[i].window <= wire[j].window
    /\ updatePage # None => updatePage.window = updateUsed.windows

Acts(i) == wire[i].kind # "state"
Told(i) == answers[i].kind = "done"
OneActionWaits ==
    \A i \in 1..Len(wire) : Acts(i) =>
        /\ Ready(wire[i].kind, wire[i].seen)
        /\ \A j \in 1..Len(wire) : Acts(j) => i = j
        /\ updatePage # None =>
             IF wire[i].window = updatePage.window
               THEN updatePage.sending /\ \A k \in 1..Len(answers) : ~Told(k)
               ELSE answers = <<>> /\ ~updatePage.enabled

ButtonIsCurrent ==
    updatePage # None =>
        /\ \A i \in 1..Len(answers) : (\A j \in i..Len(answers) : ~Told(j)) => Reflects(answers[i].view)
        /\ \A i, j \in 1..Len(answers) : Told(i) /\ Told(j) => i = j
        /\ \A i \in 1..Len(answers) : Told(i) => updatePage.sending
        /\ updatePage.enabled =>
             /\ ~updatePage.sending /\ updatePage.view \in UpdateViews /\ Reflects(updatePage.view)
             /\ updatePage.action = "download" => updatePage.view.phase = "available"
             /\ updatePage.action = "install" => updatePage.view.phase = "downloaded"

UpdateInv == UpdateShape /\ OperationKnown /\ CallsInOrder /\ OneActionWaits /\ ButtonIsCurrent

-----------------------------------------------------------------------------
(* The policy of the sessions. *)

Policy == INSTANCE PolicyForm WITH Limits <- PolicyLimits, MaxEdits <- MaxPolicyEdits,
        MaxSaves <- MaxPolicySaves, MaxOthers <- MaxPolicyOthers, MaxUpsets <- MaxPolicyUpsets,
        host <- policyHost, dirty <- policyDirty, conflict <- policyConflict, used <- policyUsed
policyVars == <<policyHost, policy, draft, policyDirty, policyConflict, busy, locked, read,
        save, reviewed, policyUsed>>

\* That a save replaces what was seen is no invariant by itself: a draft that is not in
\* conflict was made from the policy read last, or that policy was shown beside it.
PolicyShape ==
    /\ policyHost \in PolicyRecords /\ policy \in PolicyRecords \cup {None} /\ draft \in PolicyRecords \cup {None}
    /\ {policyDirty, policyConflict, busy, locked} \subseteq BOOLEAN
    /\ read \in PolicyReads \cup {None} /\ save \in PolicySaves \cup {None}
    /\ policyUsed \in [edits : Nat, saves : Nat, others : Nat, upsets : Nat]

DraftIsOfPolicy ==
    /\ draft # None => policy # None
    /\ draft # None /\ ~policyConflict => policy.revision \in {draft.revision} \cup reviewed
    /\ save # None => save.sent.revision \in reviewed \cup {save.from}

PolicyInv == PolicyShape /\ DraftIsOfPolicy

-----------------------------------------------------------------------------
(* The sources of skills. *)

Skills == INSTANCE SkillSources WITH Projects <- ManagedProjects, Names <- SkillNames,
        MaxTexts <- MaxSkillTexts, MaxActs <- MaxSkillActs, MaxUpsets <- MaxSkillUpsets,
        conflict <- skillsConflict, acts <- skillsActs, used <- skillsUsed
skillsVars == <<disk, versions, project, name, markdown, digest, history, skillsConflict,
        skillsActs, shown, texts, skillsUsed>>

\* What a save may replace was on screen: the digest in the form, the conflict and what a
\* save expects are all of texts that the form has shown of its project.
SkillKeys == ManagedProjects \X SkillNames

SkillsShape ==
    /\ disk \in [SkillKeys -> Nat] /\ versions \in [SkillKeys -> SUBSET Nat]
    /\ project \in ManagedProjects /\ {markdown, digest, texts} \subseteq Nat /\ history \subseteq Nat
    /\ skillsConflict \in Nat \cup {None}
    /\ skillsActs \in [1..MaxSkillActs -> SkillSave \cup {None}]

WasShown(p, t) == \E f \in SkillNames : <<<<p, f>>, t>> \in shown

FormWasShown ==
    /\ digest # 0 => WasShown(project, digest)
    /\ skillsConflict # None => WasShown(project, skillsConflict)

ExpectedWasShown == \A n \in 1..MaxSkillActs : skillsActs[n] # None =>
    /\ skillsActs[n].fresh => skillsActs[n].project = project
    /\ skillsActs[n].expected # 0 => WasShown(skillsActs[n].project, skillsActs[n].expected)
    /\ skillsActs[n].pc = "checked" /\ skillsActs[n].expected # 0 =>
          skillsActs[n].expected \in versions[<<skillsActs[n].project, skillsActs[n].name>>]

SkillsInv == SkillsShape /\ FormWasShown /\ ExpectedWasShown

-----------------------------------------------------------------------------
(* The forms of schedules. *)

Schedules == INSTANCE ScheduleForms WITH Scopes <- ManagedProjects, Texts <- ScheduleTexts,
        MaxActs <- MaxScheduleActs, MaxTyped <- MaxScheduleTyped, MaxUpsets <- MaxScheduleUpsets,
        intent <- schedulesIntent, poll <- schedulesPoll, acts <- schedulesActs, used <- schedulesUsed
schedulesVars == <<sched, scope, data, editing, text, schedulesIntent, schedulesPoll,
        schedulesActs, schedulesUsed>>

\* What is written is of the project on screen: an action that no change of project has
\* cut off is of that project.
ScheduleActFields == {"of", "text", "scope", "fresh", "pc", "key", "wire", "rows"}

ActsAreHere ==
    /\ DOMAIN schedulesActs = 1..MaxScheduleActs
    /\ \A n \in 1..MaxScheduleActs : schedulesActs[n] # None =>
          /\ DOMAIN schedulesActs[n] = ScheduleActFields
          /\ schedulesActs[n].fresh => schedulesActs[n].scope = scope

-----------------------------------------------------------------------------
(* The managed browser. *)

Browser == INSTANCE BrowserView WITH Tabs <- BrowserTabs, Retries <- BrowserRetries,
        MaxActs <- MaxBrowserActs, MaxForms <- MaxBrowserForms, MaxUpsets <- MaxBrowserUpsets,
        host <- browserHost, ui <- browserUi, loads <- browserLoads, jobs <- browserJobs, used <- browserUsed
browserVars == <<browserHost, may, browserUi, browserLoads, observes, browserJobs,
        browserUsed>>

\* What the panel shows is of the tab selected only because what a stream still delivers
\* is of it, too: a message that counts is of the tab selected.
BrowserFields == {"tabs", "selected", "context", "frame", "ws", "attempts", "inbox", "control", "grant", "busy",
        "active", "paused"}

BrowserShape ==
    /\ DOMAIN browserHost = BrowserTabs /\ \A t \in BrowserTabs : DOMAIN browserHost[t] = {"state", "rev"}
    /\ DOMAIN browserUi = BrowserFields
    /\ \A m \in browserUi.inbox : DOMAIN m = {"tab", "row", "may", "live"}

HeardIsSelected == \A m \in browserUi.inbox : m.live => m.tab = browserUi.selected

BrowserInv == BrowserShape /\ HeardIsSelected /\ Browser!ObservedIsSelected

\* What the panel makes of its own state, when neither the host nor the messages change.
BrowserKeeps(u) ==
    /\ DOMAIN u = BrowserFields
    /\ \A m \in u.inbox : DOMAIN m = {"tab", "row", "may", "live"} /\ (m.live => m.tab = u.selected)
    /\ u.frame # None => u.frame = u.selected /\ u.active /\ ~u.paused
    /\ u.context # None => u.context = u.selected /\ ~u.paused

-----------------------------------------------------------------------------
(* Cloud machines. *)

Cloud == INSTANCE CloudLaunch WITH Accounts <- CloudAccounts, Places <- CloudPlaces,
        Projects <- CloudProjects, MaxTexts <- MaxCloudTexts, MaxActs <- MaxCloudActs,
        MaxLoads <- MaxCatalogs, MaxUpsets <- MaxCloudUpsets, MaxWorks <- MaxCloudWorks,
        MaxPolls <- MaxCloudPolls, revision <- cloudRevision, loads <- cloudLoads, rows <- cloudRows,
        poll <- cloudPoll, used <- cloudUsed
cloudVars == <<cloudRevision, previews, machines, plan, id, catalog, cloudLoads, loading,
        review, cleanup, act, cloudRows, cloudPoll, cloudUsed>>

\* A review on screen, or on its way, says what the host keeps of it unless the host has
\* forgotten it; the catalogue asked for last is that of the form.
CloudWheres == [account : CloudAccounts \cup {None}, place : CloudPlaces \cup {None}]
CloudReviews == [n : Nat, plan : CloudPlans, revision : Nat]
CloudAsked == [kind : {"review"}, pc : {"sent", "checked"}, plan : CloudPlans, req : Nat, form : Nat, revision : Nat \cup {None}]
CloudMachines == [plan : CloudPlans, req : Nat, form : Nat, status : Cloud!Statuses]

CloudShape ==
    /\ cloudRevision \in [CloudAccounts -> Nat]
    /\ previews \in Seq(CloudPreviews \cup {None}) /\ machines \in Seq(CloudMachines)
    /\ plan \in CloudPlans /\ id \in Nat /\ loading \in BOOLEAN
    /\ cloudLoads \in Seq(CloudWheres \cup {None})
    /\ cloudUsed \in [acts : Nat, texts : Nat, upsets : Nat, works : Nat]

\* The review of a request, as the host has it.
Faithful(r) ==
    /\ r \in CloudReviews /\ r.n \in 1..Len(previews)
    /\ previews[r.n] = None \/ (previews[r.n].plan = r.plan /\ previews[r.n].revision = r.revision)

ReviewsAreFaithful ==
    /\ review # None => Faithful(review)
    /\ act # None =>
         /\ {"kind", "pc"} \subseteq DOMAIN act
         /\ act.kind = "review" /\ act.pc \in {"sent", "checked"} =>
              /\ act \in CloudAsked /\ act.req = act.form /\ act.plan.account \in CloudAccounts
              /\ act.pc = "checked" => act.revision \in Nat
         /\ act.kind = "review" /\ act.pc = "done" => Faithful([n |-> act.n, plan |-> act.plan, revision |-> act.revision])
         /\ act.kind = "launch" /\ act.pc = "sent" => act.n = act.seen.n /\ Faithful(act.seen)
         /\ act.pc = "checked" => act.kind = "review"

\* The request id of a review is that of the form it is of.
OwnRequestIds ==
    /\ \A n \in 1..Len(previews) : previews[n] # None => previews[n].req = previews[n].form
    /\ \A n \in 1..Len(machines) : machines[n].req = machines[n].form

LastIsHere == Len(cloudLoads) > 0 => cloudLoads[Len(cloudLoads)] \in {None, Cloud!Where(plan)}

CloudInv == /\ CloudShape /\ ReviewsAreFaithful /\ OwnRequestIds /\ LastIsHere
            /\ Cloud!CatalogIsHere /\ Cloud!OneMachinePerForm

\* Steps that leave the form alone, and neither make nor forget a review or a machine.
CloudFormStays == UNCHANGED <<cloudRevision, previews, plan, id, catalog, cloudLoads, loading>>

-----------------------------------------------------------------------------
(* The forms of the settings. *)

Settings == INSTANCE SettingsForms WITH MaxEdits <- MaxFormEdits, MaxLoads <- MaxFormLoads,
        MaxSaves <- MaxFormSaves, MaxOthers <- MaxFormOthers, dirty <- settingsDirty,
        rows <- settingsRows, loads <- settingsLoads, host <- settingsHost,
        revision <- settingsRevision, counts <- settingsCounts
settingsVars == <<category, form, edits, settingsDirty, settingsRows, settingsLoads, saving,
        settingsHost, accounts, creation, generatedId, settingsRevision, settingsCounts>>

\* A save sends the revision its form was opened at; an edit that no save has kept is
\* remembered, as the text of its form; an account is asked for under the id of its form.
FormReads == [of : Settings!Categories, live : BOOLEAN, at : [Settings!Edited -> Nat] \cup {None}, n : Nat]

SettingsShape ==
    /\ category \in Settings!Categories
    /\ form \in [Settings!Forms -> FormStates \cup {None}] /\ edits \in [Settings!Forms -> Nat]
    /\ saving \in [Settings!Forms -> FormSaves \cup {None}] /\ settingsHost \in [Settings!Edited -> Nat]
    /\ settingsLoads \subseteq FormReads
    /\ settingsRows # None => settingsRows.at \in [Settings!Edited -> Nat]
    /\ settingsRevision \in Nat /\ creation \in Nat /\ generatedId \in Nat
    /\ settingsCounts \in [loads : Nat, saves : Nat, others : Nat]

ReadsAreHere ==
    /\ Settings!RowsAreOfCategory
    /\ \A l \in settingsLoads : l.live => l.of = category

SavesAreFromSeen == \A f \in Settings!Forms : saving[f] # None => saving[f].base = saving[f].seen

EditsAreKnown ==
    /\ \A f \in Settings!Forms : edits[f] > 0 => settingsDirty
    /\ \A f \in Settings!Forms : form[f] # None =>
         /\ edits[f] > 0 => edits[f] = form[f].text
         /\ form[f].text # form[f].kept => edits[f] > 0
         /\ form[f].text <= settingsRevision

SavesAreOfEdits == \A f \in Settings!Forms : saving[f] # None =>
    /\ saving[f].text > 0 /\ saving[f].text <= settingsRevision /\ saving[f].snapshot \in {0, saving[f].text}
    /\ form[f] # None /\ form[f].text >= saving[f].text => form[f].text = saving[f].text \/ edits[f] > saving[f].text

AccountsAreOfForms ==
    /\ \A a \in accounts : a.creation <= creation /\ (a.creation = creation => a.id = generatedId /\ generatedId # 0)
    /\ saving["account"] # None =>
         /\ saving["account"].of <= creation
         /\ saving["account"].of = creation => saving["account"].id = generatedId /\ generatedId # 0
         /\ \A a \in accounts : a.creation = saving["account"].of => a.id = saving["account"].id
    /\ accounts \subseteq [creation : Nat, id : Nat]
    /\ Settings!OneAccountPerForm

SettingsInv == SettingsShape /\ ReadsAreHere /\ SavesAreFromSeen /\ EditsAreKnown /\ SavesAreOfEdits /\ AccountsAreOfForms

-----------------------------------------------------------------------------
(* Lifecycle hooks. *)

Hooks == INSTANCE HookPanel WITH Users <- {this}, Commands <- HookCommands, Projects <- HookProjects,
        PageSize <- HookPageSize, MaxWrites <- MaxHookWrites, MaxTroubles <- MaxHookTroubles
hooksVars == <<hooks, account, creations, operations, panel, load, write, spent>>

\* A change of a hook is sent for the revision that was reviewed.
HookWriteFields == {"user", "kind", "body", "hook", "rev", "seen", "before", "enabled", "stale", "pc", "wire"}

ChangesAreReviewed ==
    /\ DOMAIN write = 1..MaxHookWrites
    /\ \A n \in 1..MaxHookWrites : write[n] # None =>
          /\ DOMAIN write[n] = HookWriteFields
          /\ write[n].kind # "create" => write[n].rev = write[n].seen

HookCreated(m) == write[m] # None /\ write[m].kind = "create"
HookDoubt(m) == creations[this] # None /\ creations[this].write = m /\ creations[this].state # "saved"
HookAtWork(m) == write[m] # None /\ write[m].pc # "ended" /\ ~write[m].stale

HookHostFits ==
    /\ DOMAIN hooks = 0..MaxHookWrites
    /\ \A h \in 0..MaxHookWrites : hooks[h] # None => DOMAIN hooks[h] = {"body", "enabled", "rev"}
    /\ DOMAIN account = {"user", "policy"} /\ account.user = this
    /\ creations \in [{this} -> HookReceipts \cup {None}]
HookPanelFits(p) ==
    /\ DOMAIN p = {"mode", "busy", "shown", "catalog", "review"}
    /\ p.catalog # None => p.catalog.user = this
    /\ p.review # None /\ p.review.kind = "create" => p.review \in HookReviews

\* The receipt is that of the one creation that is not ended, or may still land.
CreationsFit ==
    /\ creations[this] # None =>
         /\ creations[this] \in HookReceipts /\ creations[this].write \in 1..MaxHookWrites
         /\ HookCreated(creations[this].write)
         /\ creations[this].state = "saved" => write[creations[this].write].wire = "taken"
    /\ \A m \in 1..MaxHookWrites : HookCreated(m) =>
         /\ write[m] \in HookCreations
         /\ write[m].pc # "ended" => creations[this] = [state |-> "pending", write |-> m]
         /\ write[m].wire = "sent" => HookDoubt(m)
         /\ write[m].pc = "prepare" => write[m].wire = "none"

\* The panel waits for one write at a time, and reads nothing meanwhile.
OneAtWork ==
    \A m \in 1..MaxHookWrites :
       /\ HookAtWork(m) => /\ load = None /\ panel.busy /\ panel.mode = "open"
                           /\ \A k \in 1..MaxHookWrites : HookAtWork(k) => k = m
       /\ write[m] # None /\ write[m].stale => write[m].pc # "sent"

\* A hook that the creation in doubt did not know is the one it made.
HooksKnown(f) ==
    \A h \in 0..MaxHookWrites : f[h] # None =>
       /\ h # 0 => HookCreated(h) /\ write[h].wire = "taken"
       /\ \A m \in 1..MaxHookWrites :
            HookDoubt(m) /\ write[m].pc # "prepare" /\ m # h /\ f[h].body = write[m].body => h \in write[m].before
HookLoadFits(l) ==
    l # None => /\ DOMAIN l = {"pc", "catalog", "policy"} /\ DOMAIN l.catalog = {"user", "hooks", "read"}
                /\ l.catalog.user = this /\ DOMAIN l.catalog.hooks = 0..MaxHookWrites
                /\ HooksKnown(l.catalog.hooks)

HooksInv == /\ ChangesAreReviewed /\ HookHostFits /\ HookPanelFits(panel) /\ HookLoadFits(load)
            /\ CreationsFit /\ OneAtWork /\ HooksKnown(hooks)

\* A read that has shown nothing yet.
HookNothingRead(l) ==
    /\ DOMAIN l = {"pc", "catalog", "policy"} /\ DOMAIN l.catalog = {"user", "hooks", "read"}
    /\ l.catalog.user = this /\ DOMAIN l.catalog.hooks = 0..MaxHookWrites
    /\ \A h \in 0..MaxHookWrites : l.catalog.hooks[h] = None

\* What the host's hooks become when the host or others take a step.
HooksMove ==
    /\ DOMAIN hooks' = 0..MaxHookWrites
    /\ \A h \in 0..MaxHookWrites : hooks'[h] # None =>
         /\ DOMAIN hooks'[h] = {"body", "enabled", "rev"}
         /\ \/ hooks[h] # None /\ hooks'[h].body = hooks[h].body
            \/ h \in 1..MaxHookWrites /\ HookCreated(h) /\ write[h].wire = "sent" /\ write'[h].wire = "taken"

-----------------------------------------------------------------------------
(* The list of every conversation. *)

Plane == INSTANCE ControlPlane WITH Rows <- PlaneRows, MaxChanges <- MaxPlaneChanges,
        MaxReads <- MaxPlaneReads, MaxFailures <- MaxPlaneFailures, MaxLocks <- MaxPlaneLocks,
        host <- planeHost, page <- planePage, counts <- planeCounts
planeVars == <<planeHost, enabled, hidden, list, failed, reads, planePage, filter,
        inspected, session, looks, planeCounts>>

PlaneSnapshots == [at : Nat, rows : [PlaneRows -> Plane!Statuses]]
PlaneReadings == [n : Nat, stopped : BOOLEAN, answer : PlaneSnapshots \cup {None}]
PlaneLooks == [n : Nat, of : PlaneRows, stopped : BOOLEAN, answer : PlaneSnapshots \cup {None}]
PlaneSessions == [of : PlaneRows, status : Plane!Statuses, at : Nat]

PlaneShape ==
    /\ planeHost \in PlaneSnapshots /\ inspected \in PlaneRows \cup {None}
    /\ planeCounts \in [reads : Nat, failures : Nat, locks : Nat]

\* One reading of the list is wanted at a time, and the host gave it, if at all, when
\* it had what the list shows or something later.
ReadsInOrder ==
    /\ list \in PlaneSnapshots \cup {None} /\ reads \subseteq PlaneReadings
    /\ list # None => list.at <= planeHost.at
    /\ \A r \in reads : ~r.stopped /\ r.answer # None =>
          r.answer.at <= planeHost.at /\ (list # None => list.at <= r.answer.at)
    /\ \A r, q \in reads : ~r.stopped /\ ~q.stopped => r = q

\* So with the inspector, whose readings are of the conversation inspected.
LooksInOrder ==
    /\ session \in PlaneSessions \cup {None} /\ looks \subseteq PlaneLooks
    /\ session # None => session.of = inspected /\ session.at <= planeHost.at
    /\ \A r \in looks : ~r.stopped =>
          /\ r.of = inspected
          /\ r.answer # None => r.answer.at <= planeHost.at /\ (session # None => session.at <= r.answer.at)
    /\ \A r, q \in looks : ~r.stopped /\ ~q.stopped => r = q

PlaneInv == PlaneShape /\ ReadsInOrder /\ LooksInOrder

\* Pages, filters, locks, and changes at the host.
PlaneMoves ==
    \/ Plane!close \/ Plane!lock \/ Plane!hide
    \/ \E p \in Plane!Pages : Plane!setPage(p)
    \/ \E f \in Plane!Filters : Plane!openFilter(f) \/ Plane!setFilter(f)
    \/ \E r \in PlaneRows : Plane!inspect(r) \/ \E s \in Plane!Statuses : Plane!hostChanges(r, s)

-----------------------------------------------------------------------------
(* The picture of the computer. *)

Computer == INSTANCE ComputerCapture WITH MaxSockets <- MaxComputerSockets, MaxClicks <- MaxComputerClicks,
        MaxKeys <- MaxComputerKeys, MaxUpsets <- MaxComputerUpsets, Backlog <- ComputerBacklog,
        ui <- computerUi, used <- computerUsed
computerVars == <<computerUi, link, viewer, mayControl, computerUsed>>

ComputerFields == {"active", "blocked", "started", "effect", "renewing", "socket", "connected", "controlling",
                   "pending", "paused", "frame"}
ViewerFields == {"over", "viewOnly", "resume", "stop", "pump", "applied", "held"}
Ups == {"release", "pause", "resume", "watch", "control", "key"}
Early == {"open", "hello", "frame", "4401", "1000", "lost"}
Ctrl == {"control"}
NoCtrl == {"hello", "watch", "denied"}

LinkShape(l, v) ==
    /\ DOMAIN l = {"state", "up", "down"} /\ l.state \in {"opening", "open", "closed"}
    /\ l.up \in Seq(Ups) /\ SeqOf(l.down)
    /\ l.state = "opening" => v = Computer!Nobody /\ l.up = <<>> /\ l.down = <<>>
    /\ v # Computer!Nobody /\ ~v.over => DOMAIN v = ViewerFields

\* A viewer that holds a key knows that it applied one, and one that is gone holds none.
KeysAreKnown(v) ==
    v # Computer!Nobody => IF v.over THEN ~v.held ELSE (v.held => v.applied)

ComputerShape ==
    /\ DOMAIN computerUi = ComputerFields
    /\ SeqOf(link) /\ SeqOf(viewer) /\ Len(viewer) = Len(link)
    /\ computerUi.socket \in 0..Len(link)
    /\ \A s \in 1..Len(link) : LinkShape(link[s], viewer[s]) /\ KeysAreKnown(viewer[s])

\* What the panel u may rely on of its socket, with the link l and the viewer v.
Unheard(l) ==
    /\ l.up = <<>>
    /\ l.state = "opening" \/ (l.down # <<>> /\ l.down[1] = "open" /\ \A n \in DOMAIN l.down : l.down[n] \in Early)
Serving(l, v) == l.state = "open" /\ v # Computer!Nobody /\ ~v.over /\ ~v.stop
SocketFits(u, l, v) ==
    /\ ~u.started => l.state # "open"
    /\ u.renewing => l.state = "closed"
    /\ u.connected => l.state # "opening"
    /\ ~u.connected /\ l.state # "closed" => Unheard(l)
    /\ Serving(l, v) /\ Computer!Watched(u) =>
         /\ Computer!Says(l.down, Ctrl, NoCtrl, u.controlling) <=> ~v.viewOnly
         /\ u.connected /\ Computer!Says(l.down, {"paused"}, {"resumed"}, u.paused) =>
              ~v.resume \/ \E n \in DOMAIN l.up : l.up[n] = "pause"

\* The panel shows nothing of a socket that is not connected.
NothingUnconnected(u) == /\ ~u.started => ~u.connected
                         /\ ~u.connected => ~u.controlling /\ ~u.frame
                         /\ u.renewing => u.effect /\ ~u.connected

ComputerInv ==
    /\ ComputerShape /\ NothingUnconnected(computerUi)
    /\ computerUi.effect /\ computerUi.socket # 0 =>
         SocketFits(computerUi, link[computerUi.socket], viewer[computerUi.socket])

\* What the host makes of a message, and its answer x, if it gives one.
Answered(m, v, w, x) ==
    /\ x \in Ctrl => ~w.viewOnly
    /\ x \in NoCtrl => w.viewOnly
    /\ x \notin Ctrl \cup NoCtrl => w.viewOnly = v.viewOnly
    /\ x = "paused" => ~w.resume
    /\ x \notin {"paused", "resumed"} => w.resume = v.resume /\ m # "pause"
Unanswered(m, v, w) ==
    /\ w.viewOnly = v.viewOnly
    /\ ~v.resume \/ m = "pause" => ~w.resume

\* A pause that is not the first message waits still.
PauseWaits(up) == \E n \in DOMAIN up : up[n] = "pause"

-----------------------------------------------------------------------------
(* All panels. *)

vars == <<active, hooksVars, toolsVars, settingsVars, policyVars, schedulesVars, skillsVars,
        jobsVars, planeVars, updateVars, dockVars, browserVars, accessVars, cloudVars,
        computerVars>>

\* A panel that is not on screen is in one of its initial states.
Init ==
    /\ active \in {"hooks", "tools", "settings", "policy", "schedules", "skills", "jobs", "plane", "update", "dock", "browser", "access", "cloud", "computer"}
    /\ Hooks!Init /\ (active = "hooks" \/ hooks[0].body.project = 1)
    /\ Tools!Init
    /\ Settings!Init /\ (active = "settings" \/ category = CHOOSE f \in Settings!Categories : TRUE)
    /\ Policy!Init
    /\ Schedules!Init
    /\ Skills!Init
    /\ Jobs!Init
    /\ Plane!Init
    /\ Update!Init
    /\ Dock!Init /\ (active = "dock" \/ ~dockView.narrow)
    /\ Browser!Init /\ (active = "browser" \/ \A t \in DOMAIN browserHost : browserHost[t].state = "human")
    /\ Access!Init /\ (active = "access" \/ jar = Access!Issued(1))
    /\ Cloud!Init
    /\ Computer!Init

\* One panel is on screen; the others stay as they are.
Next ==
    /\ UNCHANGED active
    /\ IF active = "hooks" THEN Hooks!Next ELSE UNCHANGED hooksVars
    /\ IF active = "tools" THEN Tools!Next ELSE UNCHANGED toolsVars
    /\ IF active = "settings" THEN Settings!Next ELSE UNCHANGED settingsVars
    /\ IF active = "policy" THEN Policy!Next ELSE UNCHANGED policyVars
    /\ IF active = "schedules" THEN Schedules!Next ELSE UNCHANGED schedulesVars
    /\ IF active = "skills" THEN Skills!Next ELSE UNCHANGED skillsVars
    /\ IF active = "jobs" THEN Jobs!Next ELSE UNCHANGED jobsVars
    /\ IF active = "plane" THEN Plane!Next ELSE UNCHANGED planeVars
    /\ IF active = "update" THEN Update!Next ELSE UNCHANGED updateVars
    /\ IF active = "dock" THEN Dock!Next ELSE UNCHANGED dockVars
    /\ IF active = "browser" THEN Browser!Next ELSE UNCHANGED browserVars
    /\ IF active = "access" THEN Access!Next ELSE UNCHANGED accessVars
    /\ IF active = "cloud" THEN Cloud!Next ELSE UNCHANGED cloudVars
    /\ IF active = "computer" THEN Computer!Next ELSE UNCHANGED computerVars

Spec == Init /\ [][Next]_vars

-----------------------------------------------------------------------------
\* Every panel keeps its state within its type.
TypeOK ==
    /\ Hooks!TypeOK /\ Tools!TypeOK /\ Settings!TypeOK /\ Policy!TypeOK
    /\ Schedules!TypeOK /\ Skills!TypeOK /\ Jobs!TypeOK /\ Plane!TypeOK
    /\ Update!TypeOK /\ Dock!TypeOK /\ Browser!TypeOK /\ Access!TypeOK
    /\ Cloud!TypeOK /\ Computer!TypeOK

\* A write whose answer is lost is not done twice when it is tried again: one
\* account per form (ProviderAccountForm.tsx), one schedule per form (ScheduleManager.tsx),
\* one job per command until its outcome is heard (Runners.tsx), one machine
\* per form and under its own request id (CloudMachines.tsx), no hook created
\* again (HookSettings.tsx) and no second call of a tool (McpManager.tsx) while
\* the first is in doubt, no write twice because the sign-in was renewed in
\* between, and no proof of the sign-in used for two renewals (api.ts).
WrittenOnce ==
    /\ []Settings!OneAccountPerForm /\ []Schedules!OneSchedulePerForm
    /\ []Jobs!SameUntilHeard /\ []Tools!NoCallRepeat /\ []Access!WriteRunsOnce
    /\ []Cloud!OneMachinePerForm /\ Cloud!OwnRequest
    /\ Hooks!NoHookRepeat /\ Access!ProofUsedOnce /\ Access!SignedOutIfEnded

\* A write replaces what the user had on screen and nothing newer: settings,
\* the policy, schedules, skills and the enabling of hooks are refused when
\* another client wrote first, a tool is called and a machine launched as it was
\* reviewed, and an update starts the release that was shown.  The removal of a
\* hook is sent for what was shown, but names no revision to the host; and of a
\* handover nothing is said (BrowserView!HandedAsReviewed).
ReplacesWhatWasShown ==
    /\ Hooks!ReviewedRevision /\ Settings!OthersKept /\ Policy!ReplacesSeen
    /\ Schedules!WritesAsReviewed /\ Skills!ReplacesWhatWasShown
    /\ Tools!CallIsOnScreen /\ Update!StartsWhatWasShown
    /\ Cloud!LaunchedAsReviewed

\* What is on screen belongs together and never goes back: the rows are of the
\* category shown, a form is dirty while it holds an edit, a hook said to be saved
\* is, a list is called empty only after it was read and no row of it is replaced
\* by an older one, the frame is of the selected tab, the catalogue is that of
\* the chosen account, and of the computer nothing is shown once it is stopped,
\* locked or revoked, control is what was granted, and keys are released.
ShownBelongsTogether ==
    /\ []Settings!RowsAreOfCategory /\ []Settings!DirtyCoversEdits /\ []Hooks!SavedIsSaved
    /\ []Plane!EmptyOnlyIfRead /\ Plane!NeverBack /\ []Browser!ObservedIsSelected
    /\ []Cloud!CatalogIsHere /\ []Computer!StoppedIsDark /\ []Computer!ControlIsGranted
    /\ []Computer!PausedIsPaused /\ []Computer!InputIsReleased

\* Whatever is closed, moved, undone or restored, the dock shows something and
\* the layouts kept for the presets are those the user left (DockWorkspace.tsx).
LayoutIsKept == []Dock!NeverBlank /\ Dock!BookKept

\* The invariants of the panels.
Inv == /\ AccessInv /\ DockInv /\ ToolsInv /\ JobsInv /\ UpdateInv
       /\ PolicyInv /\ SkillsInv /\ ActsAreHere /\ BrowserInv /\ CloudInv
       /\ SettingsInv /\ HooksInv /\ PlaneInv /\ ComputerInv
=============================================================================
