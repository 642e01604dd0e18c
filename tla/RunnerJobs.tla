------------------------------ MODULE RunnerJobs ------------------------------
(***************************************************************************)
(* Commands run on dedicated containers (features/Runners.tsx), each under   *)
(* an intent that the browser stores until the outcome of its request is     *)
(* known (lib/media-intent.ts), so that a command whose answer was lost, or  *)
(* that another window submits as well, is the same request to the host      *)
(* (runners/service.py).  All runners are of one project: the windows share  *)
(* one stored intent.                                                        *)
(***************************************************************************)
EXTENDS Naturals, Sequences

CONSTANTS None, Windows, Active, Runners, Commands,  \* Active windows are looked at
          MaxSubs, MaxUpsets  \* bounds: commands submitted; stops, restarts and lost answers

VARIABLES
    ready, jobs,  \* the host: runners that take commands; every job
    intent,       \* the stored intent: a request id and the digest of what it is for
    subs,         \* the commands submitted, in the order their intents were obtained
    view,         \* each window: its selected runner, that runner's jobs as shown
    upsets

vars == <<ready, jobs, intent, subs, view, upsets>>

JobsOf(r) == {i \in DOMAIN jobs : jobs[i].runner = r}

TypeOK ==
    /\ ready \subseteq Runners /\ upsets \in 0..MaxUpsets
    /\ intent = None \/ (intent.id \in DOMAIN subs /\ intent.runner \in Runners /\ intent.cmd \in Commands)
    /\ \A n \in DOMAIN subs : /\ subs[n].wire \in {"sent", "answered", "refused", "lost"}
                              /\ subs[n].id \in 1..n /\ subs[n].pc \in {"open", "ended", "heard"}
    /\ \A i \in DOMAIN jobs : jobs[i].status \in {"running", "outcome-unknown", "over"}
    /\ \A w \in Windows : view[w].runner \in Runners /\ view[w].busy \in BOOLEAN

Opened(r) == [runner |-> r, shown |-> {}, busy |-> FALSE, loads |-> FALSE]

Init ==
    /\ ready = Runners /\ jobs = <<>>
    /\ intent = None /\ subs = <<>>
    /\ view = [w \in Windows |-> Opened(CHOOSE r \in Runners : TRUE)]
    /\ upsets = 0

Upset == upsets < MaxUpsets /\ upsets' = upsets + 1

-----------------------------------------------------------------------------
(* A window. *)

\* Another runner: what the window had begun for the last one no longer counts.
setSelected(w, r) ==
    /\ r # view[w].runner
    /\ view' = [view EXCEPT ![w] = Opened(r)]
    /\ subs' = [n \in DOMAIN subs |-> IF subs[n].by = w THEN [subs[n] EXCEPT !.fresh = FALSE] ELSE subs[n]]
    /\ UNCHANGED <<ready, jobs, intent, upsets>>

\* A list of jobs that the host gave earlier only lacks the latest: the two
\* ends of a read are one step.
poll(w) ==
    /\ w \in Active
    /\ view' = [view EXCEPT ![w].shown = JobsOf(view[w].runner)]
    /\ UNCHANGED <<ready, jobs, intent, subs, upsets>>

load(w) ==
    /\ view[w].loads
    /\ view' = [view EXCEPT ![w] = [@ EXCEPT !.shown = JobsOf(view[w].runner), !.loads = FALSE, !.busy = FALSE]]
    /\ UNCHANGED <<ready, jobs, intent, subs, upsets>>

Same(r, c) == intent # None /\ intent.runner = r /\ intent.cmd = c
obtain(r, c) == IF Same(r, c) THEN intent.id ELSE Len(subs) + 1

runJob(w, c) ==
    /\ ~view[w].busy /\ Len(subs) < MaxSubs
    /\ LET r == view[w].runner
           id == obtain(r, c)
       IN  /\ intent' = [id |-> id, runner |-> r, cmd |-> c]
           /\ subs' = Append(subs, [by |-> w, runner |-> r, cmd |-> c, id |-> id, fresh |-> TRUE,
                                    wire |-> "sent", status |-> None, pc |-> "open"])
    /\ view' = [view EXCEPT ![w].busy = TRUE]
    /\ UNCHANGED <<ready, jobs, upsets>>

\* A bug: an answer that the job is under way ends the intent too.
FinishedAtOnce(s) == s.wire = "answered" /\ s.status # "outcome-unknown"
Finished(s) == s.wire = "answered" /\ s.status = "over"
clearMediaIntent(s) == intent # None /\ intent.id = s.id

\* A job under way, or of unknown outcome, keeps its intent; an error ends the
\* action, otherwise the jobs are read again before the form is free.
answered(n) ==
    /\ subs[n].pc = "open" /\ subs[n].wire # "sent"
    /\ LET s == subs[n]
           fails == s.wire # "answered" \/ s.status = "outcome-unknown"
       IN  /\ subs' = [subs EXCEPT ![n].pc = IF Finished(s) /\ s.status = "over" THEN "heard" ELSE "ended"]
           /\ intent' = IF Finished(s) /\ clearMediaIntent(s) THEN None ELSE intent
           /\ view' = IF ~s.fresh THEN view
                      ELSE IF fails THEN [view EXCEPT ![s.by].busy = FALSE]
                      ELSE [view EXCEPT ![s.by].loads = TRUE]
    /\ UNCHANGED <<ready, jobs, upsets>>

-----------------------------------------------------------------------------
(* The host. *)

Prior(s) == {i \in DOMAIN jobs : jobs[i].id = s.id}
Running(r) == \E i \in DOMAIN jobs : jobs[i].runner = r /\ jobs[i].status = "running"

hostRuns(n) ==
    /\ subs[n].wire = "sent"
    /\ LET s == subs[n] IN
         IF s.runner \notin ready \/ (Prior(s) = {} /\ Running(s.runner))
         THEN subs' = [subs EXCEPT ![n].wire = "refused"] /\ UNCHANGED jobs
         ELSE IF Prior(s) # {}
         THEN /\ \E i \in Prior(s) :
                   subs' = [subs EXCEPT ![n].wire = "answered", ![n].status = jobs[i].status]
              /\ UNCHANGED jobs
         ELSE /\ jobs' = Append(jobs, [id |-> s.id, runner |-> s.runner, cmd |-> s.cmd,
                                       status |-> "running", worker |-> TRUE])
              /\ subs' = [subs EXCEPT ![n].wire = "answered", ![n].status = "running"]
    /\ UNCHANGED <<ready, intent, view, upsets>>

answerLost(n) ==
    /\ subs[n].pc = "open" /\ subs[n].wire \in {"sent", "answered"} /\ Upset
    /\ subs' = [subs EXCEPT ![n].wire = "lost"]
    /\ UNCHANGED <<ready, jobs, intent, view>>

\* The worker writes its outcome even over a stop's.
jobEnds(i) ==
    /\ jobs[i].worker
    /\ jobs' = [jobs EXCEPT ![i].status = "over", ![i].worker = FALSE]
    /\ UNCHANGED <<ready, intent, subs, view, upsets>>

Stopped(j) == IF j.status = "running" THEN [j EXCEPT !.status = "outcome-unknown"] ELSE j

stop(r) ==
    /\ r \in ready /\ Upset
    /\ ready' = ready \ {r}
    /\ jobs' = [i \in DOMAIN jobs |-> IF jobs[i].runner = r THEN Stopped(jobs[i]) ELSE jobs[i]]
    /\ UNCHANGED <<intent, subs, view>>

\* After a restart no job is run again; the runners they ran on are stopped.
restart ==
    /\ Upset
    /\ ready' = {r \in ready : ~Running(r)}
    /\ jobs' = [i \in DOMAIN jobs |-> [Stopped(jobs[i]) EXCEPT !.worker = FALSE]]
    /\ subs' = [n \in DOMAIN subs |-> IF subs[n].wire = "sent" THEN [subs[n] EXCEPT !.wire = "lost"] ELSE subs[n]]
    /\ UNCHANGED <<intent, view>>

Step(n) == answered(n) \/ hostRuns(n)
Next ==
    \/ \E w \in Windows :
         \/ poll(w) \/ load(w)
         \/ \E r \in Runners : setSelected(w, r)
         \/ \E c \in Commands : runJob(w, c)
    \/ \E n \in DOMAIN subs : Step(n) \/ answerLost(n)
    \/ \E i \in DOMAIN jobs : jobEnds(i)
    \/ \E r \in Runners : stop(r)
    \/ restart

Spec == Init /\ [][Next]_vars

-----------------------------------------------------------------------------
(* The same command submitted again, by any window, is the same request      *)
(* until the outcome of that request was heard.                              *)
SameUntilHeard == \A n \in 2..Len(subs) :
    LET before == subs[n - 1] IN
      /\ subs[n].runner = before.runner /\ subs[n].cmd = before.cmd
      /\ subs[n].id # before.id
      => \E m \in 1..(n - 1) : subs[m].id = before.id /\ subs[m].pc = "heard"

(* The jobs a window shows are jobs of the runner it has selected.           *)
JobsAreHere == \A w \in Windows : \A i \in view[w].shown : jobs[i].runner = view[w].runner
=============================================================================
