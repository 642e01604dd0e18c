------------------------------ MODULE FollowUps ------------------------------
(***************************************************************************)
(* What a conversation window does about the task under way and the prompts  *)
(* queued behind it: stopping, interrupting and reviewing the task           *)
(* (features/Chat.tsx), and the queued follow-ups with their cancel and       *)
(* their renewed consent (features/PromptQueue.tsx).  The draft and the       *)
(* sending of prompts are Composer's; when the host starts a queued prompt    *)
(* is TurnDispatch's.                                                         *)
(***************************************************************************)
EXTENDS Naturals, FiniteSets

CONSTANTS None, Chats,
          Working,  \* the conversations whose agents run; the others are only opened
          MaxTasks, MaxRows, MaxMoves, MaxCalls  \* bounds

VARIABLES
    latest, state,     \* the host: each conversation's latest task; the tasks' states
    rows, settings,    \* queued follow-ups; the settings a prompt of a chat would run with
    session, generation, observing,   \* the window
    seen,              \* the latest task as the window shows it, with its state
    stopping, stops,   \* stoppingTasks, kept across panels; cancel calls under way
    focus,             \* approvalFocus, the task whose approval is to be focused
    interrupt,         \* the task that the interrupt dialog was opened for
    items, read,       \* the follow-ups listed; the list call under way
    review, call, busy,\* the review shown; the review, cancel or renewal under way
    used

host == <<latest, state, rows, settings>>
tasks == <<seen, stopping, stops, focus, interrupt>>
queue == <<items, read, review, call, busy>>
vars == <<host, session, generation, observing, tasks, queue, used>>

Ids == 1..MaxTasks
RowOf == [id : 1..MaxRows, of : Chats, revision : 0..(MaxCalls + MaxRows + MaxMoves), status : {"queued", "blocked", "dispatched", "cancelled"},
          digest : 0..MaxMoves, interrupts : 0..MaxTasks]

TypeOK ==
    /\ latest \in [Chats -> 0..MaxTasks] /\ state \in [Ids -> {"none", "running", "approval", "cancelling", "over"}]
    /\ rows \subseteq RowOf /\ settings \in [Chats -> 0..MaxMoves]
    /\ session \in Chats /\ generation \in 0..MaxMoves /\ observing \in BOOLEAN /\ busy \in BOOLEAN
    /\ seen.id \in 0..MaxTasks /\ stopping \subseteq Ids /\ \A s \in stops : s.task \in stopping
    /\ {interrupt, focus} \subseteq 0..MaxTasks
    /\ items \subseteq RowOf

NoTask == [id |-> 0, state |-> "none"]
Shows(c) == IF latest[c] = 0 THEN NoTask ELSE [id |-> latest[c], state |-> state[latest[c]]]
active(task) == task.state \in {"running", "approval", "cancelling"}

Init ==
    /\ latest = [c \in Chats |-> 0] /\ state = [i \in Ids |-> "none"]
    /\ rows = {} /\ settings = [c \in Chats |-> 0]
    /\ session = CHOOSE c \in Working : TRUE
    /\ generation = 0 /\ observing = TRUE
    /\ seen = NoTask /\ stopping = {} /\ stops = {} /\ focus = 0 /\ interrupt = 0
    /\ items = {} /\ read = None /\ review = None /\ call = None /\ busy = FALSE
    /\ used = [tasks |-> 0, rows |-> 0, moves |-> 0, calls |-> 0]

Bound == [tasks |-> MaxTasks, rows |-> MaxRows, moves |-> MaxMoves, calls |-> MaxCalls]
Spend(what) == used[what] < Bound[what] /\ used' = [used EXCEPT ![what] = @ + 1]
Replace(r, new) == rows' = (rows \ {r}) \cup {[new EXCEPT !.revision = @ + 1]}

-----------------------------------------------------------------------------
(* The host. *)

\* A turn is sent, or a queued prompt starts because the task before is over.
taskStarts ==
    \E c \in Working :
      /\ Shows(c).state \in {"none", "over"} /\ Spend("tasks")
      /\ latest' = [latest EXCEPT ![c] = used'.tasks] /\ state' = [state EXCEPT ![used'.tasks] = "running"]
      /\ \/ UNCHANGED rows
         \/ \E r \in rows : r.of = c /\ r.status = "queued" /\ Replace(r, [r EXCEPT !.status = "dispatched"])
      /\ UNCHANGED <<settings, session, generation, observing, tasks, queue>>

\* A task asks for an approval, gets it, or ends.
taskMoves ==
    \E i \in Ids :
      /\ \/ state[i] = "running" /\ state' = [state EXCEPT ![i] = "approval"] /\ Spend("moves")
         \/ state[i] = "approval" /\ state' = [state EXCEPT ![i] = "running"] /\ UNCHANGED used
         \/ state[i] \in {"running", "cancelling"} /\ state' = [state EXCEPT ![i] = "over"] /\ UNCHANGED used
      /\ UNCHANGED <<latest, rows, settings, session, generation, observing, tasks, queue>>

\* The settings change; a prompt queued with others is blocked for a review.
settingsChange ==
    /\ Spend("moves")
    /\ \E c \in Working : settings' = [settings EXCEPT ![c] = @ + 1]
    /\ UNCHANGED <<latest, state, rows, session, generation, observing, tasks, queue>>
hostBlocks ==
    \E r \in rows :
      /\ r.status = "queued" /\ r.digest # settings[r.of] /\ Replace(r, [r EXCEPT !.status = "blocked"])
      /\ UNCHANGED <<latest, state, settings, session, generation, observing, tasks, queue, used>>

-----------------------------------------------------------------------------
(* The window shows another conversation, is hidden or shown, or replaces    *)
(* its chat panel. *)

\* A bug: what a panel shows depends on its conversation only.
FreshHere(of, ticket) == TRUE
Fresh(of, ticket) == session = of /\ generation = ticket

Reset ==
    /\ items' = {} /\ review' = None /\ busy' = FALSE /\ read' = None
    /\ focus' = 0 /\ generation' = generation + 1

\* A dialog is modal: it is answered first.
openChat ==
    /\ Spend("moves") /\ Reset /\ interrupt = 0 /\ UNCHANGED interrupt
    /\ \E c \in Chats \ {session} : session' = c /\ seen' = Shows(c)
    /\ UNCHANGED <<host, observing, stopping, stops, call>>

\* The new panel has no dialogs; answers to the old one find it gone.
replacePanel ==
    /\ Spend("moves") /\ Reset /\ interrupt' = 0
    /\ seen' = Shows(session)
    /\ UNCHANGED <<host, session, observing, stopping, stops, call>>

observe ==
    /\ Spend("moves") /\ observing' = ~observing /\ read' = None /\ generation' = generation
    /\ UNCHANGED <<host, session, tasks, items, review, call, busy>>

refreshed ==
    /\ seen # Shows(session) /\ seen' = Shows(session)
    /\ focus' = IF seen'.state = "approval" /\ seen'.id = focus THEN focus ELSE 0
    /\ UNCHANGED <<host, session, generation, observing, stopping, stops, interrupt, queue, used>>

-----------------------------------------------------------------------------
(* The task under way. *)

\* A bug: only the panel's own sight of the task guards the button.
StoppingSeen(task) == task.state = "cancelling"
Stopping(task) == task.state = "cancelling" \/ task.id \in stopping

stopTask ==
    /\ active(seen) /\ ~Stopping(seen) /\ Spend("calls")
    /\ stopping' = stopping \cup {seen.id} /\ stops' = stops \cup {[call |-> used'.calls, task |-> seen.id, done |-> FALSE]}
    /\ UNCHANGED <<host, session, generation, observing, seen, focus, interrupt, queue>>
hostStops ==
    \E s \in stops :
      /\ ~s.done /\ stops' = (stops \ {s}) \cup {[s EXCEPT !.done = TRUE]}
      /\ state' = IF state[s.task] = "over" THEN state ELSE [state EXCEPT ![s.task] = "cancelling"]
      /\ UNCHANGED <<latest, rows, settings, session, generation, observing, seen, stopping, focus, interrupt, queue, used>>
stopEnds ==
    \E s \in stops :
      /\ \/ s.done /\ UNCHANGED used
         \/ ~s.done /\ Spend("moves")     \* the call is lost
      /\ stops' = stops \ {s} /\ stopping' = stopping \ {s.task}
      /\ UNCHANGED <<host, session, generation, observing, seen, focus, interrupt, queue>>

reviewCurrentTask ==
    /\ seen.state = "approval" /\ focus' = seen.id     \* otherwise the supervisor opens
    /\ UNCHANGED <<host, session, generation, observing, seen, stopping, stops, interrupt, queue, used>>
\* A frame finds the review button of the row and focuses it, or the tries end.
focusApproval ==
    /\ focus # 0 /\ focus' = 0
    /\ UNCHANGED <<host, session, generation, observing, seen, stopping, stops, interrupt, queue, used>>

\* "Interrupt current task", its dialog, and its confirmation: the prompt is
\* queued with the task that is the latest then.
openInterrupt ==
    /\ active(seen) /\ interrupt = 0 /\ interrupt' = seen.id
    /\ UNCHANGED <<host, session, generation, observing, seen, stopping, stops, focus, queue, used>>
cancelInterrupt ==
    /\ interrupt # 0 /\ interrupt' = 0
    /\ UNCHANGED <<host, session, generation, observing, seen, stopping, stops, focus, queue, used>>
Queued(interrupted) ==
    rows' = rows \cup {[id |-> used.rows + 1, of |-> session, revision |-> 0, status |-> "queued",
                        digest |-> settings[session], interrupts |-> interrupted]}
confirmInterrupt ==
    /\ interrupt # 0 /\ active(seen) /\ Spend("rows") /\ interrupt' = 0
    /\ state[seen.id] # "over"       \* or the host refuses
    /\ Queued(seen.id)
    /\ UNCHANGED <<latest, state, settings, session, generation, observing, seen, stopping, stops, focus, queue>>
queueFollowUp ==
    /\ active(seen) /\ Spend("rows") /\ Queued(0)
    /\ UNCHANGED <<latest, state, settings, session, generation, observing, tasks, queue>>
\* The dispatcher stops the task that a queued prompt interrupts.
hostInterrupts ==
    \E r \in rows :
      /\ r.status = "queued" /\ r.interrupts # 0 /\ state[r.interrupts] \in {"running", "approval"}
      /\ state' = [state EXCEPT ![r.interrupts] = "cancelling"]
      /\ UNCHANGED <<latest, rows, settings, session, generation, observing, tasks, queue, used>>

-----------------------------------------------------------------------------
(* The list of follow-ups. *)

\* A bug: the list is read again only while there is something in it.
PollsListed == items # {}
Polls == observing

refresh ==
    /\ Polls /\ read = None
    /\ items # {r \in rows : r.of = session}         \* reading the same again changes nothing
    /\ read' = [of |-> session, ticket |-> generation, rows |-> None]
    /\ UNCHANGED <<host, session, generation, observing, tasks, items, review, call, busy, used>>
hostLists ==
    /\ read # None /\ read.rows = None
    /\ read' = [read EXCEPT !.rows = {r \in rows : r.of = read.of}]
    /\ UNCHANGED <<host, session, generation, observing, tasks, items, review, call, busy, used>>
listed ==
    /\ read # None /\ read' = None
    /\ \/ /\ read.rows # None /\ UNCHANGED used
          /\ items' = IF observing /\ Fresh(read.of, read.ticket) THEN read.rows ELSE items
       \/ read.rows = None /\ Spend("moves") /\ UNCHANGED items
    /\ UNCHANGED <<host, session, generation, observing, tasks, review, call, busy>>

\* A review is asked for, a follow-up cancelled, a reviewed one continued.
Ask(kind, item, digest) ==
    /\ ~busy /\ Spend("calls") /\ busy' = TRUE /\ call = None
    /\ call' = [kind |-> kind, item |-> item, digest |-> digest, of |-> session, ticket |-> generation, answer |-> "none"]
    /\ UNCHANGED <<host, session, generation, observing, tasks, items, read, review>>
askReview == \E r \in items : r.status = "blocked" /\ review = None /\ Ask("review", r, None)
askCancel == \E r \in items : r.status \in {"queued", "blocked"} /\ review = None /\ Ask("cancel", r, None)
askRenew == review # None /\ Ask("renew", review.item, review.digest)
closeReview ==
    /\ review # None /\ review' = None
    /\ UNCHANGED <<host, session, generation, observing, tasks, items, read, call, busy, used>>

\* A bug: consent is renewed for whatever the settings are by now.
AgreesAlways(c, r) == TRUE
Agrees(c, r) == c.digest = settings[r.of]
hostServes ==
    /\ call # None /\ call.answer = "none"
    /\ \E r \in rows :
         LET ok == CASE call.kind = "review" -> TRUE
                     [] call.kind = "cancel" -> r.status \in {"queued", "blocked"} /\ r.revision = call.item.revision
                     [] call.kind = "renew" -> r.status = "blocked" /\ Agrees(call, r) /\ r.revision = call.item.revision
         IN  /\ r.id = call.item.id
             /\ call' = [call EXCEPT !.answer = IF ok THEN "done" ELSE "failed",
                                     !.digest = IF call.kind = "review" THEN settings[r.of] ELSE @]
             /\ IF ok /\ call.kind = "cancel" THEN Replace(r, [r EXCEPT !.status = "cancelled"])
                ELSE IF ok /\ call.kind = "renew" THEN Replace(r, [r EXCEPT !.status = "queued", !.digest = settings[r.of]])
                ELSE UNCHANGED rows
    /\ UNCHANGED <<latest, state, settings, session, generation, observing, tasks, items, read, review, busy, used>>
callEnds ==
    /\ call # None /\ call' = None
    /\ \/ call.answer # "none" /\ UNCHANGED used
       \/ call.answer # "failed" /\ Spend("moves")          \* the answer is lost
    /\ LET heard == call.answer = "done" /\ used' = used
           fresh == Fresh(call.of, call.ticket)
       IN  /\ busy' = IF fresh THEN FALSE ELSE busy
           /\ review' = CASE fresh /\ heard /\ call.kind = "review" -> [item |-> call.item, digest |-> call.digest]
                          [] fresh /\ heard /\ call.kind # "review" -> None
                          [] OTHER -> review
    /\ UNCHANGED <<host, session, generation, observing, tasks, items, read>>

-----------------------------------------------------------------------------
Window == refreshed \/ refresh \/ listed \/ callEnds \/ stopEnds
Host == hostLists \/ hostServes \/ hostStops
Next ==
    \/ taskStarts \/ taskMoves \/ settingsChange \/ hostBlocks \/ hostInterrupts
    \/ openChat \/ replacePanel \/ observe
    \/ stopTask \/ reviewCurrentTask \/ focusApproval
    \/ openInterrupt \/ cancelInterrupt \/ confirmInterrupt \/ queueFollowUp
    \/ askReview \/ askCancel \/ askRenew \/ closeReview
    \/ Window \/ Host

\* The list is read every 1.5 seconds while it is observed; the host answers.
Fairness == /\ WF_vars(refresh) /\ WF_vars(hostLists) /\ WF_vars(listed)
            /\ WF_vars(hostServes) /\ WF_vars(callEnds)
Spec == Init /\ [][Next]_vars /\ Fairness

-----------------------------------------------------------------------------
(* Properties. *)

\* "retains an in-flight stop guard when the chat panel is replaced"
\* (chat-journeys.test.tsx:93): a task has at most one cancel call under way.
OneStop == \A s, t \in stops : s.task = t.task => s = t

\* "late queue responses from a prior conversation do not replace the current
\* list" (prompt-queue.test.tsx:31), nor open a review of another one's prompt.
ItemsAreHere ==
    /\ \A r \in items : r.of = session
    /\ review # None => review.item.of = session

\* A prompt continues with the settings that its review showed, as the prompt
\* it was then (PromptQueue.tsx:34, "binds the exact snapshot").
ContinuesAsReviewed ==
    [][\A r \in rows' : \A old \in rows : old.id = r.id /\ old.status = "blocked" /\ r.status = "queued" =>
          call.kind = "renew" /\ call.item = old /\ r.digest = call.digest]_vars

\* While it is observed and nothing else happens, the list becomes the host's.
QueueIsShown == <>[](observing => items = {r \in rows : r.of = session})

\* "interrupt requires an explicit consequence confirmation and names the
\* original active task" (prompt-queue.test.tsx:20): the task interrupted is the
\* one that the confirmed dialog was opened for.
InterruptsOriginal == [][rows' # rows /\ interrupt # 0 /\ interrupt' = 0 => \A r \in rows' \ rows : r.interrupts = interrupt]_vars

=============================================================================
