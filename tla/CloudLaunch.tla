----------------------------- MODULE CloudLaunch -----------------------------
(***************************************************************************)
(* The panel that launches cloud machines (features/CloudMachines.tsx): the *)
(* form of a machine, the catalogue of what the account offers, the review   *)
(* the host makes of the form (runners/cloud/service.py), the launch of what *)
(* was reviewed, the list of machines, polled, and their cleanup.            *)
(*                                                                         *)
(* A form is its account, its place (region and zone) and what else it says, *)
(* a number; that the form is folded is left out, as is what the host does   *)
(* at the provider: a machine is its status.                                 *)
(***************************************************************************)
EXTENDS Naturals, Sequences

CONSTANTS None, Accounts, Places, Projects,
          MaxTexts, MaxActs, MaxLoads, MaxUpsets,  \* bounds: edits, requests of the
                               \* user, catalogues read, mishaps and others' changes
          MaxWorks, MaxPolls   \* machines' changes of status, polls at once

VARIABLES
    revision,   \* of each account's credentials
    previews,   \* the reviews the host made, those forgotten None
    machines,   \* the host's deployments
    plan, id,   \* the form, and the number of its request id
    catalog,    \* what the selectors offer: the account and the place it is of
    loads,      \* the catalogues asked for, the last one last
    loading,
    review,     \* the preview on screen
    cleanup,    \* the machine whose cleanup is on screen
    act,        \* the user's request, None while busy is false
    rows,       \* the status of the machines listed
    poll,       \* the poll under way
    used

form == <<plan, id, catalog, loads, loading>>
host == <<revision, previews, machines>>
vars == <<host, form, review, cleanup, act, rows, poll, used>>

Initial(account, project) == [account |-> account, project |-> project, place |-> None, text |-> 0]
Statuses == {"queued", "provisioning", "ready", "cleaning", "deleted", "cleanup-failed"}
Asked == [rows |-> None]        \* a list without its answer

TypeOK ==
    /\ revision \in [Accounts -> Nat]
    /\ \A n \in DOMAIN previews : previews[n] = None \/ previews[n].revision <= revision[previews[n].plan.account]
    /\ \A n \in DOMAIN machines : machines[n].status \in Statuses
    /\ plan.account \in Accounts \cup {None} /\ plan.place \in Places \cup {None} /\ plan.project \in Projects
    /\ review = None \/ review.n \in DOMAIN previews
    /\ cleanup = None \/ cleanup \in DOMAIN machines
    /\ act = None \/ act.pc \in {"sent", "checked", "done", "list", "listed"}
    /\ Len(rows) <= Len(machines) /\ \A n \in DOMAIN rows : rows[n] \in Statuses

Init ==
    /\ revision = [a \in Accounts |-> 0] /\ previews = <<>> /\ machines = <<>>
    /\ plan = Initial(None, CHOOSE p \in Projects : TRUE) /\ id = 1
    /\ catalog = None /\ loads = <<>> /\ loading = FALSE
    /\ review = None /\ cleanup = None /\ act = None /\ rows = <<>> /\ poll = None
    /\ used = [acts |-> 0, texts |-> 0, upsets |-> 0, works |-> 0]

Bound == [acts |-> MaxActs, texts |-> MaxTexts, upsets |-> MaxUpsets, works |-> MaxWorks]
Spend(what) == used[what] < Bound[what] /\ used' = [used EXCEPT ![what] = @ + 1]

-----------------------------------------------------------------------------
(* The form.  Its account or its place changed, the catalogue is read. *)

Where(p) == [account |-> p.account, place |-> p.place]

\* Mutant: another text for the form, under the request id that it had.
EditedOnly == review' = None /\ id' = id
\* A form that says something else is another request, and no longer reviewed.
Edited == review' = None /\ id' = id + 1

\* The effect of [plan.account_id, plan.region, plan.zone].
Reload(p) ==
    IF Where(p) = Where(plan) THEN UNCHANGED <<catalog, loads, loading>>
    ELSE IF p.account = None
      THEN catalog' = None /\ loads' = Append(loads, None) /\ UNCHANGED loading
      ELSE loads' = Append(loads, Where(p)) /\ loading' = TRUE /\ UNCHANGED catalog
Become(p) == plan' = p /\ Reload(p) /\ Len(loads') <= MaxLoads

change ==
    /\ Spend("texts") /\ plan.account # None
    /\ Become([plan EXCEPT !.text = used.texts + 1]) /\ Edited
    /\ UNCHANGED <<host, cleanup, act, rows, poll>>

chooseAccount(a) ==
    /\ a # plan.account /\ Become(Initial(a, plan.project)) /\ Edited
    /\ UNCHANGED <<host, cleanup, act, rows, poll, used>>

\* choose: the selector is disabled while a catalogue loads or a request runs.
choosePlace(p) ==
    /\ catalog # None /\ ~loading /\ act = None /\ p # plan.place
    /\ Become([plan EXCEPT !.place = p]) /\ Edited
    /\ UNCHANGED <<host, cleanup, act, rows, poll, used>>

\* The workspace selects another project.  The request id stays.
projectChanges(p) ==
    /\ Spend("upsets") /\ p # plan.project
    /\ plan' = [plan EXCEPT !.project = p] /\ review' = None
    /\ UNCHANGED <<host, id, catalog, loads, loading, cleanup, act, rows, poll>>

\* Mutant: whichever catalogue comes last is offered.
LastAlways(n) == TRUE
\* epoch === generation.current
Last(n) == n = Len(loads)

catalogArrives(n) ==
    /\ n \in DOMAIN loads /\ loads[n] # None /\ loads' = [loads EXCEPT ![n] = None]
    /\ IF Last(n) THEN catalog' \in {loads[n], None} /\ loading' = FALSE
                  ELSE UNCHANGED <<catalog, loading>>
    /\ UNCHANGED <<host, plan, id, review, cleanup, act, rows, poll, used>>

-----------------------------------------------------------------------------
(* What the user asks for: act, one request at a time. *)

Begin(request) == act = None /\ Spend("acts") /\ act' = request

\* Mutant: every review is asked for under an id of its own.
RequestIdEach == MaxTexts + MaxLoads + MaxActs + used.acts
RequestId == id
askReview ==
    /\ ~loading /\ plan.account # None
    /\ Begin([kind |-> "review", pc |-> "sent", plan |-> plan, req |-> RequestId, form |-> id, revision |-> None])
    /\ UNCHANGED <<host, form, review, cleanup, rows, poll>>

\* "Create reviewed machine"; what was on screen goes with the request.
launch ==
    /\ review # None /\ Begin([kind |-> "launch", pc |-> "sent", n |-> review.n, seen |-> review])
    /\ UNCHANGED <<host, form, review, cleanup, rows, poll>>
backToForm ==
    /\ review # None /\ act = None /\ review' = None
    /\ UNCHANGED <<host, form, cleanup, act, rows, poll, used>>

openCleanup(n) ==
    /\ n \in DOMAIN rows /\ rows[n] \notin {"deleted", "cleaning"} /\ act = None /\ n # cleanup
    /\ cleanup' = n /\ UNCHANGED <<host, form, review, act, rows, poll, used>>
cancelCleanup ==
    /\ cleanup # None /\ cleanup \in DOMAIN rows /\ act = None /\ cleanup' = None
    /\ UNCHANGED <<host, form, review, act, rows, poll, used>>
confirmCleanup ==
    /\ cleanup # None /\ cleanup \in DOMAIN rows /\ Begin([kind |-> "cleanup", pc |-> "sent", n |-> cleanup])
    /\ UNCHANGED <<host, form, review, cleanup, rows, poll>>

\* The answer: what the request does then, and the list is read.
settled ==
    /\ act # None /\ act.pc = "done" /\ act' = [kind |-> act.kind, pc |-> "list"]
    /\ review' = CASE act.kind = "review" -> [n |-> act.n, plan |-> act.plan, revision |-> act.revision]
                   [] act.kind = "launch" -> None
                   [] OTHER -> review
    /\ id' = IF act.kind = "launch" THEN id + 1 ELSE id
    /\ cleanup' = IF act.kind = "cleanup" THEN None ELSE cleanup
    /\ UNCHANGED <<host, plan, catalog, loads, loading, rows, poll, used>>

\* An answer that is lost, or a host that refuses for the user's rights: the
\* error is shown.
lost ==
    /\ act # None /\ act.pc # "checked" /\ Spend("upsets") /\ act' = None
    /\ UNCHANGED <<host, form, review, cleanup, rows, poll>>

-----------------------------------------------------------------------------
(* The host. *)

\* A review is forgotten when another is made after its five minutes.
Kept(p) == IF p = None \/ ~p.live THEN None ELSE p

\* preview: the account is read, the provider asked, and the review kept.
checkAccount ==
    /\ act # None /\ act.kind = "review" /\ act.pc = "sent"
    /\ act' = [act EXCEPT !.pc = "checked", !.revision = revision[act.plan.account]]
    /\ UNCHANGED <<host, form, review, cleanup, rows, poll, used>>
keepReview ==
    /\ act # None /\ act.pc = "checked"
    /\ previews' = Append([n \in DOMAIN previews |-> Kept(previews[n])],
                          [plan |-> act.plan, req |-> act.req, form |-> act.form,
                           revision |-> act.revision, live |-> TRUE])
    /\ act' = [kind |-> "review", pc |-> "done", n |-> Len(previews'), plan |-> act.plan, revision |-> act.revision]
    /\ UNCHANGED <<revision, machines, form, review, cleanup, rows, poll, used>>
\* ... or the provider does not offer what the form says.
refuseReview ==
    /\ act # None /\ act.pc = "checked" /\ act' = None
    /\ UNCHANGED <<host, form, review, cleanup, rows, poll, used>>

\* Mutant: the account is not looked at again.
ValidAnyway(p) == p # None /\ p.live
Valid(p) == p # None /\ p.live /\ p.revision = revision[p.plan.account]

\* launch: a request id that has its machine answers with it.
hostLaunches ==
    /\ act # None /\ act.kind = "launch" /\ act.pc = "sent"
    /\ LET p == previews[act.n]
           same == {n \in DOMAIN machines : p # None /\ machines[n].req = p.req}
       IN  CASE same # {} /\ \A n \in same : machines[n].plan = p.plan ->
                  act' = [act EXCEPT !.pc = "done"] /\ UNCHANGED machines
             [] same = {} /\ Valid(p) ->
                  /\ machines' = Append(machines, [plan |-> p.plan, req |-> p.req, form |-> p.form, status |-> "queued"])
                  /\ act' = [act EXCEPT !.pc = "done"]
             [] OTHER -> act' = None /\ UNCHANGED machines
    /\ UNCHANGED <<revision, previews, form, review, cleanup, rows, poll, used>>

\* request_cleanup.
hostCleans ==
    /\ act # None /\ act.kind = "cleanup" /\ act.pc = "sent" /\ act' = [act EXCEPT !.pc = "done"]
    /\ machines' = [machines EXCEPT ![act.n].status = IF @ = "deleted" THEN @ ELSE "cleaning"]
    /\ UNCHANGED <<revision, previews, form, review, cleanup, rows, poll, used>>

hostLists ==
    /\ \/ /\ act # None /\ act.pc = "list"
          /\ act' = [kind |-> act.kind, pc |-> "listed", rows |-> [n \in DOMAIN machines |-> machines[n].status]]
          /\ UNCHANGED poll
       \/ /\ poll = Asked /\ poll' = [rows |-> [n \in DOMAIN machines |-> machines[n].status]]
          /\ UNCHANGED act
    /\ UNCHANGED <<host, form, review, cleanup, rows, used>>

\* provision, cleanup and watch.
Moves == [s \in Statuses |->
            CASE s = "queued" -> {"provisioning"}
              [] s = "provisioning" -> {"ready", "cleaning"}
              [] s = "ready" -> {"cleaning"}
              [] s = "cleaning" -> {"deleted", "cleanup-failed"}
              [] OTHER -> {}]
hostWorks(n) ==
    /\ n \in DOMAIN machines /\ Spend("works")
    /\ \E s \in Moves[machines[n].status] : machines' = [machines EXCEPT ![n].status = s]
    /\ UNCHANGED <<revision, previews, form, review, cleanup, act, rows, poll>>

\* A review is kept for five minutes.
expire ==
    /\ Spend("upsets")
    /\ \E n \in DOMAIN previews : Kept(previews[n]) # None /\ previews' = [previews EXCEPT ![n].live = FALSE]
    /\ UNCHANGED <<revision, machines, form, review, cleanup, act, rows, poll>>

\* save_account: other credentials for the account.
otherCredentials(a) ==
    /\ Spend("upsets") /\ revision' = [revision EXCEPT ![a] = @ + 1]
    /\ UNCHANGED <<previews, machines, form, review, cleanup, act, rows, poll>>

-----------------------------------------------------------------------------
(* The list: read after each request and polled. *)

listed ==
    /\ act # None /\ act.pc = "listed" /\ rows' = act.rows /\ act' = None
    /\ UNCHANGED <<host, form, review, cleanup, poll, used>>

ask ==
    /\ MaxPolls > 0 /\ poll = None /\ poll' = Asked /\ UNCHANGED <<host, form, review, cleanup, act, rows, used>>

\* Mutant: pending is not reset when the list could not be read.
PendingForEver == poll' = [rows |-> <<>>, stuck |-> TRUE]
PollOver == poll' = None
polled ==
    /\ poll # None /\ poll # Asked /\ "stuck" \notin DOMAIN poll /\ rows' = poll.rows /\ poll' = None
    /\ UNCHANGED <<host, form, review, cleanup, act, used>>
pollFails ==
    /\ poll = Asked /\ Spend("upsets") /\ PollOver
    /\ UNCHANGED <<host, form, review, cleanup, act, rows>>

-----------------------------------------------------------------------------
User ==
    \/ change \/ askReview \/ launch \/ backToForm \/ cancelCleanup \/ confirmCleanup
    \/ \E a \in Accounts \cup {None} : chooseAccount(a)
    \/ \E p \in Places : choosePlace(p)
    \/ \E n \in DOMAIN rows : openCleanup(n)
Others ==
    \/ lost \/ refuseReview \/ expire \/ pollFails
    \/ \E p \in Projects : projectChanges(p)
    \/ \E a \in Accounts : otherCredentials(a)
Host ==
    \/ checkAccount \/ keepReview \/ hostLaunches \/ hostCleans \/ hostLists
    \/ \E n \in DOMAIN machines : hostWorks(n)
Next == User \/ Others \/ Host \/ settled \/ listed \/ ask \/ polled \/ \E n \in DOMAIN loads : catalogArrives(n)

Spec == Init /\ [][Next]_vars
\* The timer of the poll, and the host's lists.
FairSpec == Spec /\ WF_vars(ask) /\ WF_vars(hostLists) /\ WF_vars(polled) /\ WF_vars(listed)

-----------------------------------------------------------------------------
(* Properties. *)

\* A machine costs money until it is deleted: what a form asked for under one
\* request id is launched once, though the review was made again or the answer
\* was lost and the launch repeated (CloudMachines.tsx:33, :52).
OneMachinePerForm ==
    \A m, n \in DOMAIN machines : machines[m].form = machines[n].form => m = n

\* "Create reviewed machine" (CloudMachines.tsx:52) creates the machine that
\* the review on screen described, with the credentials it was made for.
LaunchedAsReviewed ==
    [][\A n \in DOMAIN machines' \ DOMAIN machines :
         /\ act.seen.plan = machines'[n].plan
         /\ act.seen.revision = revision[machines'[n].plan.account]]_vars

\* An edited form is never taken for the one that was launched before: with the
\* project unchanged, a launch refused was refused for its review
\* (CloudMachines.tsx:23, :29, :36; service.py:109-112).
OwnRequest ==
    [][\A n \in DOMAIN machines : act # None /\ act' = None /\ act.pc = "sent" /\ act.kind = "launch"
         /\ UNCHANGED used /\ previews[act.n] # None /\ previews[act.n].req = machines[n].req
         => machines[n].plan.project # previews[act.n].plan.project]_vars

\* What the selectors offer is of the account and the region chosen, however
\* the catalogues overtake one another (CloudMachines.tsx:27).
CatalogIsHere == loading \/ catalog \in {None, Where(plan)}

\* The list ends with the machines and their states at the host, whatever reads
\* failed or came late (CloudMachines.tsx:25, :28).
MachinesAreShown == <>[](rows = [n \in DOMAIN machines |-> machines[n].status])
=============================================================================
