--------------------------- MODULE SoftwareUpdate ---------------------------
(***************************************************************************)
(* The update window (bootstrap/updater.js) and the one update operation   *)
(* of the desktop application (src-tauri/src/updater.rs).  The window asks  *)
(* for the operation's state twice a second and after each action; it may   *)
(* be closed and reopened while the operation goes on.                      *)
(*                                                                         *)
(* The application serves the window's calls in their order, and the window *)
(* hears the answers in their order.  A release is its number, the          *)
(* installed one is 1 at first, and a download is a few chunks.             *)
(***************************************************************************)
EXTENDS Naturals, Sequences

CONSTANTS None,
          MaxVersion, Size,                             \* releases, chunks of one
          MaxWindows, MaxClicks, MaxFailures            \* bounds

VARIABLES
    operation,  \* Operation: its snapshot, the checked update, the verified bytes
    job,        \* the task it spawned, or None
    installed, latest,
    page,       \* the window's script, or None
    wire,       \* calls of windows to the application, in order
    answers,    \* what comes back to the open window, in order
    used        \* what the bounds count

vars == <<operation, job, installed, latest, page, wire, answers, used>>

Phases == {"idle", "checking", "current", "available", "downloading", "verifying",
           "downloaded", "installing", "ready", "restarting", "error"}
Versions == 0..MaxVersion       \* 0: none
Fresh == [phase |-> "idle", version |-> 0, downloaded |-> 0, total |-> 0, error |-> FALSE,
          update |-> 0, bytes |-> 0]

\* states: the action that the button offers.
Offers == [idle |-> "check", current |-> "check", error |-> "check",
           available |-> "download", downloaded |-> "install", ready |-> "restart"]
Offered(phase) == IF phase \in DOMAIN Offers THEN Offers[phase] ELSE None

Busy == {"checking", "downloading", "verifying", "installing", "restarting"}
\* What render shows of a snapshot.
View(s) == [phase |-> s.phase, version |-> s.version, error |-> s.error, busy |-> s.phase \in Busy,
            bar |-> IF s.phase = "downloading" /\ s.total > 0
                      THEN IF s.downloaded < s.total THEN s.downloaded ELSE s.total
                      ELSE None]
Lost == [phase |-> "unknown", version |-> 0, error |-> TRUE, busy |-> FALSE, bar |-> None]

TypeOK ==
    /\ operation \in [phase : Phases, version : Versions, downloaded : 0..Size, total : {0, Size},
                      error : BOOLEAN, update : Versions, bytes : Versions]
    /\ job = None \/ job \in [kind : {"check", "download", "install", "restart"}, of : Versions]
    /\ installed \in Versions /\ latest \in Versions
    /\ page # None =>
         /\ page.action \in {None, "check", "download", "install", "restart", "reconnect"}
         /\ page.timers \in 0..(MaxClicks + 1)
         /\ page.held => page.timers > 0
    /\ \A i \in DOMAIN wire : wire[i].window \in 1..used.windows

Init ==
    /\ operation = Fresh /\ job = None /\ page = None /\ wire = <<>> /\ answers = <<>>
    /\ installed = 1 /\ latest = 1
    /\ used = [windows |-> 0, clicks |-> 0, failures |-> 0]

-----------------------------------------------------------------------------
(* The application. *)

Allowed(o, action) ==
    CASE action = "check" -> o.phase \in {"idle", "current", "available", "error"}
      [] action = "download" -> o.phase = "available" /\ o.update # 0
      [] action = "install" -> o.phase = "downloaded" /\ o.bytes # 0
      [] action = "restart" -> o.phase = "ready"

\* Operation::begin.
begin(o, action) ==
    CASE action = "check" -> [Fresh EXCEPT !.phase = "checking"]
      [] action = "download" -> [o EXCEPT !.error = FALSE, !.phase = "downloading"]
      [] action = "install" -> [o EXCEPT !.error = FALSE, !.phase = "installing", !.bytes = 0]
      [] action = "restart" -> [o EXCEPT !.error = FALSE, !.phase = "restarting"]

\* start: the task takes the update, or the bytes, with it.
start(action) ==
    /\ operation' = begin(operation, action)
    /\ job' = [kind |-> action,
               of |-> CASE action = "download" -> operation.update
                        [] action = "install" -> operation.bytes
                        [] OTHER -> 0]

\* fail.
failed == [operation EXCEPT !.phase = "error", !.error = TRUE, !.bytes = 0]
jobFails ==
    /\ job # None /\ job.kind # "restart" /\ used.failures < MaxFailures
    /\ operation' = failed /\ job' = None
    /\ used' = [used EXCEPT !.failures = @ + 1]
    /\ UNCHANGED <<installed, latest, page, wire, answers>>

checkEnds ==
    /\ job # None /\ job.kind = "check" /\ job' = None
    /\ operation' = IF latest > installed
                      THEN [operation EXCEPT !.phase = "available", !.version = latest, !.update = latest]
                      ELSE [operation EXCEPT !.phase = "current"]
    /\ UNCHANGED <<installed, latest, page, wire, answers, used>>

chunk ==
    /\ job # None /\ job.kind = "download" /\ operation.phase = "downloading" /\ operation.downloaded < Size
    /\ \E known \in {0, Size} : operation' = [operation EXCEPT !.downloaded = @ + 1, !.total = known]
    /\ UNCHANGED <<job, installed, latest, page, wire, answers, used>>

verify ==
    /\ job # None /\ job.kind = "download" /\ operation.phase = "downloading" /\ operation.downloaded = Size
    /\ operation' = [operation EXCEPT !.phase = "verifying"]
    /\ UNCHANGED <<job, installed, latest, page, wire, answers, used>>

downloadEnds ==
    /\ job # None /\ job.kind = "download" /\ operation.phase = "verifying"
    /\ operation' = [operation EXCEPT !.phase = "downloaded", !.bytes = job.of] /\ job' = None
    /\ UNCHANGED <<installed, latest, page, wire, answers, used>>

installEnds ==
    /\ job # None /\ job.kind = "install" /\ job' = None
    /\ operation' = [operation EXCEPT !.phase = "ready"]
    /\ installed' = job.of
    /\ UNCHANGED <<latest, page, wire, answers, used>>

\* The application starts afresh, its windows closed.
restarts ==
    /\ job # None /\ job.kind = "restart" /\ job' = None
    /\ operation' = Fresh /\ page' = None /\ wire' = <<>> /\ answers' = <<>>
    /\ UNCHANGED <<installed, latest, used>>

\* A release is published.
publish ==
    /\ latest < MaxVersion /\ latest' = latest + 1
    /\ UNCHANGED <<operation, job, installed, page, wire, answers, used>>

\* desktop_update_state and desktop_update_action.
Answer(m, value) == IF page # None /\ m.window = page.window THEN Append(answers, value) ELSE answers
serveState ==
    /\ wire # <<>> /\ Head(wire).kind = "state" /\ wire' = Tail(wire)
    /\ \/ /\ answers' = Answer(Head(wire), [kind |-> "state", view |-> View(operation)])
          /\ UNCHANGED used
       \/ /\ used.failures < MaxFailures /\ used' = [used EXCEPT !.failures = @ + 1]
          /\ answers' = Answer(Head(wire), [kind |-> "state", view |-> Lost])
    /\ UNCHANGED <<operation, job, installed, latest, page>>

serveAction ==
    /\ wire # <<>> /\ Head(wire).kind # "state" /\ wire' = Tail(wire)
    /\ LET m == Head(wire)
       IN  IF Allowed(operation, m.kind)
             THEN start(m.kind) /\ answers' = Answer(m, [kind |-> "done", ok |-> TRUE])
             ELSE answers' = Answer(m, [kind |-> "done", ok |-> FALSE]) /\ UNCHANGED <<operation, job>>
    /\ UNCHANGED <<installed, latest, page, used>>

-----------------------------------------------------------------------------
(* The window.  A timer that refreshTimer no longer names still fires. *)

Ask(w) == [kind |-> "state", window |-> w, seen |-> 0]
\* refresh, up to its call: clearTimeout(refreshTimer).
Cleared(p) == IF p.held THEN [p EXCEPT !.timers = @ - 1, !.held = FALSE] ELSE p
\* ... and its end.
Armed(p) == [p EXCEPT !.timers = @ + 1, !.held = TRUE]

\* Mutant: render enables the button while an action is on its way.
EnabledAnyway(p, action) == action # None
Enabled(p, action) == ~p.sending /\ action # None

\* Reopening starts nothing once a check was begun.
Unstarted(o) == o.phase = "idle"

\* show: the window opens or comes to the front.  With nothing done yet, it checks.
open ==
    /\ \/ page # None /\ Unstarted(operation) /\ UNCHANGED <<page, wire, answers, used>>
       \/ /\ page = None /\ used.windows < MaxWindows
          /\ used' = [used EXCEPT !.windows = @ + 1]
          /\ page' = [window |-> used.windows + 1, view |-> None, action |-> None, enabled |-> FALSE,
                      sending |-> FALSE, error |-> FALSE, timers |-> 0, held |-> FALSE]
          /\ wire' = Append(wire, Ask(used.windows + 1)) /\ answers' = <<>>
    /\ IF Unstarted(operation) THEN start("check") ELSE UNCHANGED <<operation, job>>
    /\ UNCHANGED <<installed, latest>>

close ==
    /\ page # None /\ page' = None /\ answers' = <<>>
    /\ UNCHANGED <<operation, job, installed, latest, wire, used>>

tick ==
    /\ page # None /\ page.timers > 0
    /\ \E held \in (IF page.held THEN {TRUE} ELSE {}) \cup (IF page.timers > 1 \/ ~page.held THEN {FALSE} ELSE {}) :
         page' = IF held THEN [page EXCEPT !.timers = @ - 1, !.held = FALSE]
                         ELSE Cleared([page EXCEPT !.timers = @ - 1])
    /\ wire' = Append(wire, Ask(page.window))
    /\ UNCHANGED <<operation, job, installed, latest, answers, used>>

\* Mutant: a state that could not be read ends the polling.
RenderedOnce(p, view) ==
    LET action == IF view = Lost THEN "reconnect" ELSE Offered(view.phase)
        p1 == [p EXCEPT !.view = view, !.action = action, !.enabled = Enabled(p, action)]
    IN  IF view = Lost THEN p1 ELSE Armed(p1)

\* The rest of refresh: render, or that the state could not be read.
Rendered(p, view) ==
    LET action == IF view = Lost THEN "reconnect" ELSE Offered(view.phase)
    IN  Armed([p EXCEPT !.view = view, !.action = action, !.enabled = Enabled(p, action)])

render ==
    /\ page # None /\ answers # <<>> /\ Head(answers).kind = "state"
    /\ page' = Rendered(page, Head(answers).view) /\ answers' = Tail(answers)
    /\ UNCHANGED <<operation, job, installed, latest, wire, used>>

click ==
    /\ page # None /\ page.enabled /\ ~page.sending /\ page.action # None
    /\ used.clicks < MaxClicks /\ used' = [used EXCEPT !.clicks = @ + 1]
    /\ IF page.action = "reconnect"
         THEN /\ page' = Cleared([page EXCEPT !.enabled = FALSE, !.error = FALSE])
              /\ wire' = Append(wire, Ask(page.window))
         ELSE /\ page' = [page EXCEPT !.sending = TRUE, !.enabled = FALSE, !.error = FALSE]
              /\ wire' = Append(wire, [kind |-> page.action, window |-> page.window, seen |-> page.view.version])
    /\ UNCHANGED <<operation, job, installed, latest, answers>>

settled ==
    /\ page # None /\ answers # <<>> /\ Head(answers).kind = "done"
    /\ page' = Cleared([page EXCEPT !.sending = FALSE, !.error = ~Head(answers).ok])
    /\ wire' = Append(wire, Ask(page.window)) /\ answers' = Tail(answers)
    /\ UNCHANGED <<operation, job, installed, latest, used>>

-----------------------------------------------------------------------------
Window == tick \/ render \/ settled
Application == serveState \/ serveAction \/ checkEnds \/ chunk \/ verify \/ downloadEnds \/ installEnds \/ restarts
Next == Window \/ Application \/ open \/ close \/ click \/ jobFails \/ publish

\* A window that is open keeps running and the application serves it; the user
\* may leave both alone.
Fairness == WF_vars(Window) /\ WF_vars(serveState \/ serveAction) /\ WF_vars(checkEnds \/ chunk \/ verify \/ downloadEnds \/ installEnds \/ restarts)
Spec == Init /\ [][Next]_vars /\ Fairness

-----------------------------------------------------------------------------
(* Properties. *)

\* "Checking never installs automatically", "Installation is explicit"
\* (desktop/README.md:112-119): what is downloaded and what is installed is the
\* release that the window showed when the user pressed the button, though the
\* application may have found a newer one since (updater.js:73-85).
StartsWhatWasShown ==
    [][job' # job /\ job' # None /\ job'.kind \in {"download", "install"} =>
         Head(wire).kind = job'.kind /\ Head(wire).seen = job'.of]_vars

\* "reopening restores their status": once the operation is at rest, an open
\* window comes to show its phase and release, whatever calls failed before
\* (updater.js:59-72).
StatusIsShown ==
    <>[](page # None => /\ page.view # None /\ page.view.phase = operation.phase
                        /\ page.view.version = operation.version)

=============================================================================
