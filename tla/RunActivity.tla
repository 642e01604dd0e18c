----------------------------- MODULE RunActivity -----------------------------
(***************************************************************************)
(* What a conversation shows of a run (desktop/workspace/src/lib/            *)
(* tool-activity.ts and features/ConversationMessage.tsx).  A run emits      *)
(* events: text of its turns, tools that start, print and end, helpers       *)
(* inside a tool of a native engine, and what its worker task does.  The     *)
(* page sees a tail of them while the run works, nothing once it is over     *)
(* (it then reads the history when the user opens it), and folds what it     *)
(* has into tools, text and agents.                                          *)
(*                                                                         *)
(* An event is its kind, the turn or tool it is about, and a status.  Names, *)
(* inputs and outputs of tools are left out.                                 *)
(***************************************************************************)
EXTENDS Naturals, SequencesExt

CONSTANTS Tools, None,
          Window,      \* events the host returns
          MaxLog,      \* bounds: events in all, turns asked for (a lost stream
          MaxTurns,    \* is asked for again), failed reads
          MaxFailures

Ends == {"completed", "failed", "cancelled"}
Phases == Ends \cup {"running", "interrupted"}
Event == [kind : {"delta", "message", "started", "output", "ended", "inner", "worker", "workerEnded"},
          id : Tools \cup 0..MaxTurns, status : {"running"} \cup Ends]
Log == Seq(Event)

VARIABLES
    log,       \* the run's events
    task,      \* the run on the host: status, how often it was started, its turn
    tool,      \* tool -> what became of it
    worker,    \* the delegated task, or None
    seen,      \* the run as the conversation shows it
    saved,     \* the history read for it, or None
    fetch,     \* the reading in flight, or None
    failures

runVars == <<log, task, tool, worker>>
vars == <<log, task, tool, worker, seen, saved, fetch, failures>>

History == [events : Log, worker : Phases \cup {None}]

TypeOK ==
    /\ log \in Log
    /\ task \in [status : {"running"} \cup Ends, turn : 1..MaxTurns, said : BOOLEAN]
    /\ tool \in [Tools -> {None, "running"} \cup Ends]
    /\ worker \in {None, "running"} \cup Ends
    /\ seen \in [status : {"running"} \cup Ends, events : Log \cup {None}, open : BOOLEAN]
    /\ saved \in History \cup {None}
    /\ fetch \in [answer : History \cup {None}] \cup {None}
    /\ failures \in 0..MaxFailures

Init ==
    /\ log = <<>>
    /\ task = [status |-> "running", turn |-> 1, said |-> FALSE]
    /\ tool = [c \in Tools |-> None]
    /\ worker = None
    /\ seen = [status |-> "running", events |-> <<>>, open |-> FALSE]
    /\ saved = None
    /\ fetch = None
    /\ failures = 0

-----------------------------------------------------------------------------
(* The run. *)

Emit(kind, id, status) == /\ Len(log) < MaxLog
                          /\ log' = Append(log, [kind |-> kind, id |-> id, status |-> status])
Working == task.status = "running"
Page == UNCHANGED <<seen, saved, fetch, failures>>

\* A turn's text is streamed, then complete; a broken stream is asked for again
\* under the same name.
streams ==
    /\ Working /\ ~task.said
    /\ \/ Emit("delta", task.turn, "running") /\ UNCHANGED task
       \/ Emit("message", task.turn, "running") /\ task' = [task EXCEPT !.said = TRUE]
    /\ UNCHANGED <<tool, worker>> /\ Page

nextTurn ==
    /\ Working /\ task.said /\ task.turn < MaxTurns
    /\ \A c \in Tools : tool[c] # "running"
    /\ task' = [task EXCEPT !.turn = @ + 1, !.said = FALSE]
    /\ UNCHANGED <<log, tool, worker>> /\ Page

toolStarts(c) ==
    /\ Working /\ task.said /\ tool[c] = None
    /\ Emit("started", c, "running")
    /\ tool' = [tool EXCEPT ![c] = "running"]
    /\ UNCHANGED <<task, worker>> /\ Page

\* Output of a command may be reported after its end; a helper's events name
\* the tool it works inside.
toolPrints(c) ==
    /\ Working /\ tool[c] # None
    /\ \/ Emit("output", c, "running")
       \/ tool[c] = "running" /\ Emit("inner", c, "running")
    /\ UNCHANGED <<task, tool, worker>> /\ Page

toolEnds(c) ==
    /\ Working /\ tool[c] = "running"
    /\ \E s \in Ends : Emit("ended", c, s) /\ tool' = [tool EXCEPT ![c] = s]
    /\ UNCHANGED <<task, worker>> /\ Page

\* The worker's own events are forwarded while the run works.
workerActs ==
    /\ Working
    /\ \/ worker = None /\ worker' = "running" /\ Emit("worker", 0, "running")
       \/ worker = "running" /\ \E s \in Ends : worker' = s /\ Emit("workerEnded", 0, s)
       \/ worker = "running" /\ \E s \in Ends : worker' = s /\ UNCHANGED log
    /\ UNCHANGED <<task, tool>> /\ Page

runEnds ==
    /\ Working
    /\ \E s \in Ends : task' = [task EXCEPT !.status = s]
    /\ UNCHANGED <<log, tool, worker>> /\ Page

\* After a restart the host goes on with a run it can resume; the turn is asked again.
runResumes ==
    /\ Working /\ ~task.said /\ task.turn < MaxTurns
    /\ task' = [task EXCEPT !.turn = @ + 1]
    /\ UNCHANGED <<log, tool, worker>> /\ Page

-----------------------------------------------------------------------------
(* The page. *)

TailOf(es) == SubSeq(es, IF Len(es) > Window THEN Len(es) - Window + 1 ELSE 1, Len(es))

\* A conversation is polled: the events come with a run that works, and what
\* was read of an earlier one is then forgotten.
poll ==
    /\ seen' = [seen EXCEPT !.status = task.status,
                            !.events = IF Working THEN TailOf(log) ELSE None]
    /\ saved' = IF Working THEN None ELSE saved
    /\ fetch' = IF Working THEN None ELSE fetch
    /\ UNCHANGED <<log, task, tool, worker, failures>>

toggle ==
    /\ seen' = [seen EXCEPT !.open = ~@]
    /\ fetch' = None
    /\ UNCHANGED <<log, task, tool, worker, saved, failures>>

readHistory ==
    /\ seen.open /\ seen.events = None /\ saved = None /\ fetch = None
    /\ fetch' = [answer |-> None]
    /\ UNCHANGED <<log, task, tool, worker, seen, saved, failures>>

hostHistory ==
    /\ fetch # None /\ fetch.answer = None
    /\ fetch' = [answer |-> [events |-> TailOf(log), worker |-> worker]]
    /\ UNCHANGED <<log, task, tool, worker, seen, saved, failures>>

historyArrives ==
    /\ fetch # None
    /\ \/ fetch.answer # None /\ saved' = fetch.answer /\ UNCHANGED failures
       \/ failures < MaxFailures /\ failures' = failures + 1 /\ UNCHANGED saved
    /\ fetch' = None
    /\ UNCHANGED <<log, task, tool, worker, seen>>

-----------------------------------------------------------------------------
(* What the page makes of the events. *)

details == IF seen.events # None THEN seen.events ELSE IF saved # None THEN saved.events ELSE <<>>
snapshot == IF seen.events = None /\ saved # None THEN saved.worker ELSE None

\* Mutant: output makes a tool that ended run again.
phaseAgain(phase, e) == IF e.kind = "ended" THEN e.status ELSE "running"
\* The phase of a tool after one more event about it; "stream output does not
\* change a known terminal state".
phaseAfter(phase, e) ==
    IF e.kind = "ended" THEN e.status
    ELSE IF e.kind = "output" /\ phase # None THEN phase ELSE "running"

toolActivities(es, status) ==
    LET phases == FoldLeft(LAMBDA acc, e : IF e.kind \in {"started", "output", "ended"}
                                           THEN [acc EXCEPT ![e.id] = phaseAfter(@, e)] ELSE acc,
                           [c \in Tools |-> None], es)
    IN  [c \in Tools |-> IF phases[c] = "running" /\ status \in Ends THEN "interrupted" ELSE phases[c]]

Says(segments, current) == [segments |-> segments, current |-> current]
NoText == Says(<<>>, FALSE)
\* Mutant: the complete text is shown beside what was streamed.
completeBeside(acc, e) == Says(Append(acc.segments, e.id), FALSE)
\* The complete text takes the place of what was streamed of it.
complete(acc, e) == IF acc.current THEN Says(acc.segments, FALSE)
                    ELSE Says(Append(acc.segments, e.id), FALSE)

\* The turns whose text is shown, in order; current: the last one goes on.
taskResponseText(es) ==
    FoldLeft(LAMBDA acc, e :
                 CASE e.kind = "delta" -> IF acc.current /\ Last(acc.segments) = e.id THEN acc
                                          ELSE Says(Append(acc.segments, e.id), TRUE)
                   [] e.kind = "message" -> complete(acc, e)
                   [] e.kind = "started" -> Says(acc.segments, FALSE)
                   [] OTHER -> acc,
             NoText, es).segments

\* Mutant: what was forwarded earlier decides.
workerRevived(forwarded) == IF forwarded # None THEN forwarded ELSE snapshot
\* "Historical forwarding must not revive a completed worker".
authoritative(forwarded) == IF snapshot # None THEN snapshot ELSE forwarded
workerShown(es) ==
    authoritative(FoldLeft(LAMBDA acc, e : IF e.kind \in {"worker", "workerEnded"} THEN e.status ELSE acc,
                           None, es))

\* A helper inside a native tool ends with the tool, or is given up with the run.
helperShown(es, status, c) ==
    LET ends == SelectSeq(es, LAMBDA e : e.kind = "ended" /\ e.id = c) IN
        IF \A i \in 1..Len(es) : es[i].kind = "inner" => es[i].id # c THEN None
        ELSE IF ends # <<>> THEN Last(ends).status
        ELSE IF status \in Ends THEN "interrupted" ELSE "running"

\* The badge of a tool or an agent.
ActivityStatus(phase) == CASE phase = "running" -> "spinner" [] phase = "interrupted" -> "no result" [] OTHER -> phase
ToolRow(es, c) == LET phase == toolActivities(es, seen.status)[c] IN IF phase = None THEN None ELSE ActivityStatus(phase)
AgentRows(es) == {ActivityStatus(a) : a \in ({helperShown(es, seen.status, c) : c \in Tools} \cup {workerShown(es)}) \ {None}}
ToolRows(es) == {ToolRow(es, c) : c \in Tools} \ {None}

\* The line over a run: agents at work, the run at work, or its activity to open.
summary == IF "spinner" \in AgentRows(details) THEN "agents" ELSE IF seen.status = "running" THEN "working" ELSE "view"

\* The answer, or in its place what the run is doing.
answer == IF taskResponseText(details) # <<>> THEN "text" ELSE IF seen.status = "running" THEN "loader" ELSE "stopped"

Next ==
    \/ streams \/ nextTurn \/ workerActs \/ runEnds \/ runResumes
    \/ \E c \in Tools : toolStarts(c) \/ toolPrints(c) \/ toolEnds(c)
    \/ poll \/ toggle \/ readHistory \/ hostHistory \/ historyArrives

Spec == Init /\ [][Next]_vars

-----------------------------------------------------------------------------
(* What is shown of a tool, a helper or the worker was reported: an end only *)
(* if that was its end, no spinner after an end the page was told of or once *)
(* the run is over, and a worker read with the history is as it was then.    *)
Told(es, c) == \E i \in 1..Len(es) : es[i].kind = "ended" /\ es[i].id = c
ShownAsReported ==
    LET es == details
        phases == toolActivities(es, seen.status)
    IN  /\ \A c \in Tools : \A shown \in {phases[c], helperShown(es, seen.status, c)} :
               /\ shown \in Ends => tool[c] = shown
               /\ shown = "running" => ~Told(es, c) /\ seen.status = "running"
        /\ workerShown(es) \in Ends => worker = workerShown(es)
        /\ snapshot \in Ends => workerShown(es) = snapshot
        /\ seen.status # "running" => /\ "spinner" \notin ToolRows(es)
                                      /\ summary = "agents" => snapshot = "running"
                                      /\ answer # "loader"

(* A turn's text is shown once, in the order of the turns, however it was    *)
(* streamed and completed (tool-activity.ts:94).                             *)
TextOnce == LET text == taskResponseText(details) IN
    \A j \in 1..Len(text) : \A i \in 1..(j - 1) : text[i] < text[j]

=============================================================================
