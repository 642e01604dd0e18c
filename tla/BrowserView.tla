---------------------------- MODULE BrowserView ----------------------------
(***************************************************************************)
(* The panel of the built-in browser (features/BrowserSurface.tsx): the     *)
(* tabs as it last read them, the stream of the selected one, the page      *)
(* context the user asked for, and who controls a tab.  The host's tabs     *)
(* (src/termx/browser/service.py) change on their own; calls are answered   *)
(* late and in any order; the window loses the foreground, is locked, and   *)
(* its stream breaks.                                                       *)
(*                                                                         *)
(* One profile and one project; history, downloads, reviews, diagnostics    *)
(* and annotations are left out.  Whether a page is on a site that the form *)
(* of a handover names, the host alone knows: it may be or not.             *)
(***************************************************************************)
EXTENDS Naturals, FiniteSets

CONSTANTS None, Tabs,
          Retries,                                      \* reconnections of one stream
          MaxActs, MaxForms, MaxUpsets                  \* bounds

VARIABLES
    host,   \* tab -> its row on the host
    may,    \* the user may control tabs
    ui,     \* the panel
    loads, observes, jobs,      \* calls on their way
    used

vars == <<host, may, ui, loads, observes, jobs, used>>

\* A row is the state of the tab and its document's revision.
\* A tab taken over when its page was gone is an orphan: open, without a page.
States == {"none", "human", "agent", "private", "orphan", "closed", "crashed"}
Row == [state : States, rev : 0..MaxUpsets]
HasPage(row) == row.state \in {"human", "agent", "private"}
Open(row) == HasPage(row) \/ row.state = "orphan"
OpenTabs(rows) == {t \in Tabs : Open(rows[t])}

TypeOK ==
    /\ host \in [Tabs -> Row] /\ may \in BOOLEAN
    /\ ui.tabs \in [Tabs -> Row] /\ ui.selected \in Tabs \cup {None}
    /\ ui.ws \in {"none", "connecting", "open", "waiting", "signing in", "down"}
    /\ ui.attempts \in 0..Retries
    /\ ui.ws = "open" => ui.active /\ ~ui.paused
    /\ \A j \in jobs : j.tab \in Tabs /\ j.got \in {"nothing", "done", "refused"}

NoTab == [state |-> "none", rev |-> 0]
Init ==
    /\ host \in [Tabs -> {NoTab, [state |-> "human", rev |-> 0]}] /\ (CHOOSE t \in Tabs : TRUE) \in OpenTabs(host)
    /\ may = TRUE
    /\ ui = [tabs |-> [t \in Tabs |-> NoTab], selected |-> None, context |-> None, frame |-> None,
             ws |-> "none", attempts |-> 0, inbox |-> {}, control |-> TRUE, grant |-> None,
             busy |-> FALSE, active |-> TRUE, paused |-> FALSE]
    /\ loads = {} /\ observes = {} /\ jobs = {}
    /\ used = [acts |-> 0, forms |-> 0, upsets |-> 0]

-----------------------------------------------------------------------------
(* The effects of a render: another tab or document clears the context, and *)
(* another tab, foreground or pause ends the stream and starts a new one. *)

Shown(u) == IF u.selected = None THEN NoTab ELSE u.tabs[u.selected]
Cleared(u) == IF u.selected = ui.selected /\ Shown(u) = Shown(ui) THEN u ELSE [u EXCEPT !.context = None]

\* Mutant: what the stream that ended still delivers counts.
RestartedOnly(u) ==
    [u EXCEPT !.frame = None, !.attempts = 0,
              !.ws = IF u.selected # None /\ u.active /\ ~u.paused THEN "connecting" ELSE "none"]

Restarted(u) ==
    [u EXCEPT !.frame = None, !.attempts = 0, !.inbox = {[m EXCEPT !.live = FALSE] : m \in @},
              !.ws = IF u.selected # None /\ u.active /\ ~u.paused THEN "connecting" ELSE "none"]
Render(u) ==
    ui' = LET same == u.selected = ui.selected /\ u.active = ui.active /\ u.paused = ui.paused
          IN  Cleared(IF same THEN u ELSE Restarted(u))

Act == used.acts < MaxActs /\ used' = [used EXCEPT !.acts = @ + 1]
Upset == used.upsets < MaxUpsets /\ used' = [used EXCEPT !.upsets = @ + 1]

-----------------------------------------------------------------------------
(* load, and the poll that repeats it.  Nothing tells when a poll was sent, so *)
(* it starts when the host reads the tabs for it. *)

\* Every other reading ends what run() began; run() counts nothing: the first
\* that ends leaves the panel idle.
Ask(then) == [rows |-> None, poll |-> FALSE, then |-> then]
Rested(u, run) == IF run THEN [u EXCEPT !.busy = FALSE] ELSE u
poll ==
    /\ ui.active /\ ~\E l \in loads : l.poll
    /\ loads' = loads \cup {[Ask(None) EXCEPT !.poll = TRUE, !.rows = host]}
    /\ UNCHANGED <<host, may, ui, observes, jobs, used>>

hostLists(l) ==
    /\ l.rows = None
    /\ loads' = (loads \ {l}) \cup {[l EXCEPT !.rows = host]}
    /\ UNCHANGED <<host, may, ui, observes, jobs, used>>

\* Mutant: a tab already known keeps its row.
ListedNew(u, rows) ==
    [u EXCEPT !.tabs = [t \in Tabs |-> IF u.tabs[t].state = "none" THEN rows[t] ELSE u.tabs[t]],
              !.selected = CASE @ # None /\ @ \in OpenTabs(rows) -> @
                             [] OpenTabs(rows) = {} -> None
                             [] OTHER -> CHOOSE t \in OpenTabs(rows) : TRUE]

\* The selection stays if it can; the tab just opened is selected.
Listed(u, rows) ==
    [u EXCEPT !.tabs = rows,
              !.selected = CASE @ # None /\ @ \in OpenTabs(rows) -> @
                             [] OpenTabs(rows) = {} -> None
                             [] OTHER -> CHOOSE t \in OpenTabs(rows) : TRUE]
loadArrives(l) ==
    /\ l.rows # None /\ loads' = loads \ {l}
    /\ LET u == IF ui.active THEN Listed(ui, l.rows) ELSE ui
       IN  Render(Rested(IF l.then = None THEN u ELSE [u EXCEPT !.selected = l.then], ~l.poll))
    /\ UNCHANGED <<host, may, observes, jobs, used>>

loadFails(l) ==
    /\ Upset
    /\ loads' = loads \ {l} /\ ui' = Rested(ui, ~l.poll)
    /\ UNCHANGED <<host, may, observes, jobs>>

-----------------------------------------------------------------------------
(* The stream of the selected tab. *)

connect ==
    /\ ui.ws = "connecting"
    /\ ui' = [ui EXCEPT !.ws = "open"] /\ HasPage(host[ui.selected])
    /\ UNCHANGED <<host, may, loads, observes, jobs, used>>

\* The host sends a frame and the state of the tab.
streams ==
    /\ ui.ws = "open" /\ HasPage(host[ui.selected]) /\ ~\E m \in ui.inbox : m.live
    /\ ui' = [ui EXCEPT !.inbox = @ \cup {[tab |-> ui.selected, row |-> host[ui.selected], may |-> may, live |-> TRUE]}]
    /\ UNCHANGED <<host, may, loads, observes, jobs, used>>

streamArrives(m) ==
    /\ LET u == [ui EXCEPT !.inbox = @ \ {m}]
       IN  Render(IF m.live /\ ui.active /\ ~ui.paused
                    THEN [u EXCEPT !.frame = m.tab, !.tabs[m.tab] = m.row, !.control = m.may]
                    ELSE u)
    /\ UNCHANGED <<host, may, loads, observes, jobs, used>>

\* It closes: on its own, when the tab is gone, or because the session ended or
\* the permission was revoked.
streamCloses ==
    /\ ui.ws \in {"connecting", "open"}
    /\ LET gone == ~HasPage(host[ui.selected])
       IN  /\ IF gone THEN UNCHANGED used
                      ELSE Upset
           /\ \E code \in (IF gone THEN {"gone"} ELSE {"lost", "signed out", "denied"}) :
                ui' = [ui EXCEPT !.frame = None, !.inbox = {m \in @ : ~m.live},
                                 !.ws = IF code \in {"lost", "signed out"} /\ ui.attempts < Retries
                                          THEN (IF code = "lost" THEN "waiting" ELSE "signing in") ELSE "down",
                                 !.attempts = IF code \in {"lost", "signed out"} /\ @ < Retries THEN @ + 1 ELSE @]
    /\ UNCHANGED <<host, may, loads, observes, jobs>>

\* The timer runs out; after a sign-out the session is asked for first.
reconnect ==
    /\ \/ ui.ws = "waiting" /\ ui' = [ui EXCEPT !.ws = "connecting"]
       \/ ui.ws = "signing in" /\ \E s \in {"connecting", "down"} : ui' = [ui EXCEPT !.ws = s]
    /\ UNCHANGED <<host, may, loads, observes, jobs, used>>

\* "Reconnect view", "Retry".
retry ==
    /\ Act /\ ui.ws = "down" /\ ui' = [Restarted(ui) EXCEPT !.busy = TRUE] /\ loads' = loads \cup {Ask(None)}
    /\ UNCHANGED <<host, may, observes, jobs>>

-----------------------------------------------------------------------------
(* Foreground and lock. *)

foreground ==
    /\ \/ Act /\ ui.active /\ Render([ui EXCEPT !.active = FALSE])
       \/ ~ui.active /\ ~ui.paused /\ Render([ui EXCEPT !.active = TRUE]) /\ UNCHANGED used
    /\ UNCHANGED <<host, may, loads, observes, jobs>>
lock ==
    /\ Act /\ Render([ui EXCEPT !.active = FALSE, !.paused = TRUE, !.control = FALSE, !.context = None, !.grant = None])
    /\ UNCHANGED <<host, may, loads, observes, jobs>>
unlock ==
    /\ ui.paused /\ ~ui.active /\ Render([ui EXCEPT !.active = TRUE])
    /\ UNCHANGED <<host, may, loads, observes, jobs, used>>
resume ==
    /\ ui.paused /\ ui.active /\ Render([ui EXCEPT !.paused = FALSE])
    /\ UNCHANGED <<host, may, loads, observes, jobs, used>>

-----------------------------------------------------------------------------
(* What the user does with a tab. *)

select(t) ==
    /\ Act /\ ui.active /\ t \in OpenTabs(ui.tabs) /\ Render([ui EXCEPT !.selected = t])
    /\ UNCHANGED <<host, may, loads, observes, jobs>>

\* "Ask about page".
observe ==
    /\ Act /\ ui.active /\ ~ui.busy /\ ui.selected # None /\ Shown(ui).state # "private"
    /\ observes' = observes \cup {[tab |-> ui.selected, rev |-> None]} /\ ui' = [ui EXCEPT !.busy = TRUE]
    /\ UNCHANGED <<host, may, loads, jobs>>
\* A refusal is told at once.
hostReads(o) ==
    /\ o.rev = None
    /\ \/ /\ host[o.tab].state \in {"human", "agent"}
          /\ observes' = (observes \ {o}) \cup {[o EXCEPT !.rev = host[o.tab].rev]} /\ UNCHANGED ui
       \/ /\ host[o.tab].state \notin {"human", "agent"}
          /\ observes' = observes \ {o} /\ ui' = Rested(ui, TRUE)
    /\ UNCHANGED <<host, may, loads, jobs, used>>

\* Mutant: the answer is taken whatever was selected or locked meanwhile.
WantedAlways(o) == TRUE
Wanted(o) == ~ui.paused /\ ui.selected = o.tab
contextArrives(o) ==
    /\ o.rev # None /\ observes' = observes \ {o}
    /\ ui' = Rested(IF Wanted(o) THEN [ui EXCEPT !.context = o.tab] ELSE ui, TRUE)
    /\ UNCHANGED <<host, may, loads, jobs, used>>
\* The form of a handover is filled with the site of the tab then selected, and
\* stays open, whatever is selected next, until it is cancelled.
openGrant ==
    /\ \/ /\ used.forms < MaxForms /\ used' = [used EXCEPT !.forms = @ + 1]
          /\ ui.active /\ ui.selected # None /\ ui.control /\ Shown(ui).state # "agent"
          /\ ui' = [ui EXCEPT !.grant = ui.selected]
       \/ ui.grant # None /\ ui' = [ui EXCEPT !.grant = None] /\ UNCHANGED used
    /\ UNCHANGED <<host, may, loads, observes, jobs>>

\* Calls about a tab: handover, takeover, private login and its end, an action of the user,
\* a new, a closed or a recovered tab.  Few of them wait for one another: a
\* takeover, a private login and the commands of the workspace do not.
Begun == used'.acts
Job(kind, t) == [id |-> Begun, kind |-> kind, tab |-> t, form |-> ui.grant,
                 run |-> kind # "human" \/ ui.ws # "open", got |-> "nothing"]
Begins(kind, t) == jobs' = jobs \cup {Job(kind, t)} /\ ui' = [ui EXCEPT !.busy = @ \/ Job(kind, t).run]
begin(kind) ==
    /\ Act /\ ui.active
    /\ \/ /\ kind = "takeover" /\ ui.selected # None /\ ui.control /\ Shown(ui).state # "private"
          /\ Begins(kind, ui.selected)
       \/ /\ kind = "finish" /\ ui.selected # None /\ ui.control /\ Shown(ui).state = "private" /\ ~ui.busy
          /\ Begins(kind, ui.selected)
       \/ /\ kind = "private" /\ ui.selected # None /\ ui.control /\ Shown(ui).state # "private"
          /\ Begins(kind, ui.selected)
       \/ /\ kind = "close" /\ ui.selected # None
          /\ Begins(kind, ui.selected)
       \/ /\ kind = "human" /\ ui.selected # None /\ ui.control /\ ~ui.paused
          /\ Begins(kind, ui.selected)
       \/ /\ kind = "handoff" /\ ui.grant # None /\ ui.selected # None /\ ~ui.busy
          /\ Begins(kind, ui.selected)
       \/ /\ kind = "create" /\ \E t \in Tabs : /\ host[t].state = "none" /\ ~\E j \in jobs : j.tab = t
                                               /\ Begins(kind, t)
       \/ /\ kind = "recover" /\ \E t \in Tabs : ui.tabs[t].state \in {"closed", "crashed"} /\ Begins(kind, t)
    /\ UNCHANGED <<host, may, loads, observes>>

\* What the host makes of the tab; a takeover does not ask whether it has a page.
Does(j) ==
    LET now == host[j.tab]
    IN  CASE j.kind \in {"takeover", "finish"} -> IF HasPage(now) THEN "human" ELSE "orphan"
          [] j.kind = "private" -> IF HasPage(now) THEN "private" ELSE "orphan"
          [] j.kind = "close" -> "closed"
          [] j.kind = "human" -> IF now.state = "agent" THEN "human" ELSE now.state
          [] j.kind = "handoff" -> "agent"
          [] j.kind = "create" -> "human"
          [] j.kind = "recover" -> IF Open(now) THEN now.state ELSE "human"
Permitted(j) == may \/ j.kind \in {"create", "recover"}
Answered(j, got) == jobs' = (jobs \ {j}) \cup {[j EXCEPT !.got = got]}
hostDoes(j) ==
    /\ j.got = "nothing" /\ Permitted(j)
    /\ j.kind \in {"handoff", "human"} => HasPage(host[j.tab])
    /\ host' = [host EXCEPT ![j.tab].state = Does(j)] /\ Answered(j, "done")
    /\ UNCHANGED <<may, ui, loads, observes, used>>

\* It refuses; a handover also when the page is on no site of the form, when the
\* task is over, or when the page changed meanwhile: then the tab was already
\* taken from whoever had it.
hostRefuses(j) ==
    /\ j.got = "nothing" /\ Answered(j, "refused")
    /\ \/ ~Permitted(j) /\ UNCHANGED host
       \/ j.kind = "human" /\ ~HasPage(host[j.tab]) /\ UNCHANGED host
       \/ j.kind = "handoff" /\ Permitted(j) /\ UNCHANGED host
       \/ j.kind = "handoff" /\ Permitted(j) /\ HasPage(host[j.tab]) /\ host' = [host EXCEPT ![j.tab].state = "human"]
    /\ UNCHANGED <<may, ui, loads, observes, used>>

\* The panel reads the tabs again.  A private login drops the context when it begins and
\* ends, a handover closes its form, a new tab is selected.  A refusal is shown, and that is all;
\* what went over the stream has no answer.
jobEnds(j) ==
    /\ j.got # "nothing" /\ jobs' = jobs \ {j}
    /\ IF j.run /\ j.got = "done"
         THEN /\ ui' = CASE j.kind \in {"private", "finish"} -> [ui EXCEPT !.context = None]
                         [] j.kind = "handoff" -> [ui EXCEPT !.grant = None]
                         [] OTHER -> ui
              /\ loads' = loads \cup {Ask(IF j.kind \in {"create", "recover"} THEN j.tab ELSE None)}
         ELSE ui' = Rested(ui, j.run) /\ UNCHANGED loads
    /\ UNCHANGED <<host, may, observes, used>>

\* The page navigates or crashes, a grant expires, a permission is revoked.
hostChanges ==
    /\ Upset
    /\ \/ /\ \E t \in OpenTabs(host) :
               host' \in {[host EXCEPT ![t].rev = @ + 1], [host EXCEPT ![t].state = "crashed"],
                          [host EXCEPT ![t].state = IF @ = "agent" THEN "human" ELSE @]}
          /\ UNCHANGED may
       \/ may' = ~may /\ UNCHANGED host
    /\ UNCHANGED <<ui, loads, observes, jobs>>

-----------------------------------------------------------------------------
Kinds == {"takeover", "private", "finish", "close", "human", "handoff", "create", "recover"}
LoadStep(polled) == \E l \in loads : l.poll = polled /\ (hostLists(l) \/ loadArrives(l))
JobStep == \E j \in jobs : hostDoes(j) \/ hostRefuses(j) \/ jobEnds(j)
Next ==
    \/ poll \/ LoadStep(TRUE) \/ LoadStep(FALSE) \/ JobStep \/ connect \/ streams \/ streamCloses \/ reconnect \/ retry
    \/ foreground \/ lock \/ unlock \/ resume \/ observe \/ openGrant \/ hostChanges
    \/ \E l \in loads : loadFails(l)
    \/ \E m \in ui.inbox : streamArrives(m)
    \/ \E o \in observes : hostReads(o) \/ contextArrives(o)
    \/ \E t \in Tabs : select(t)
    \/ \E kind \in Kinds : begin(kind)

\* The interval of the poll goes on and every call is answered.
Fairness ==
    /\ WF_vars(poll) /\ WF_vars(LoadStep(TRUE)) /\ WF_vars(LoadStep(FALSE)) /\ WF_vars(JobStep)
    /\ WF_vars(\E m \in ui.inbox : streamArrives(m))
Spec == Init /\ [][Next]_vars /\ Fairness

-----------------------------------------------------------------------------
(* Properties. *)

\* "disconnects hidden panels and foreground loss, ignoring old frames", "clears
\* stream observation on lock", "discards a late context response after the user
\* selects another tab" (browser.test.tsx:34-44): a frame or a context is the
\* selected tab's, and none is there after a lock until the user resumes.
ObservedIsSelected ==
    /\ ui.frame # None => ui.frame = ui.selected /\ ui.active /\ ~ui.paused
    /\ ui.context # None => ui.context = ui.selected /\ ~ui.paused

\* "Let this task use the tab" (BrowserSurface.tsx:107): the tab that the task gets
\* is the one the form was opened for.  The code does not see to it: the form stays
\* open while another tab is selected, its origins are those of the tab it was
\* opened for, it is sent for the tab selected now (:70, :99), and of the page the
\* host checks the origin only: two tabs of one site are not told apart.
HandedAsReviewed ==
    [][\A t \in Tabs : host[t].state # "agent" /\ host'[t].state = "agent" =>
         \E j \in jobs : j.kind = "handoff" /\ j.tab = t /\ j.form = t]_vars

\* "You are in control": once nobody acts, an active panel shows who controls
\* each tab, whatever order the answers came in (BrowserSurface.tsx:41-49, 58, 98).
ControlIsShown ==
    <>[](ui.active => /\ \A t \in Tabs : ui.tabs[t].state = host[t].state
                      /\ ui.selected = None <=> OpenTabs(host) = {})

=============================================================================
