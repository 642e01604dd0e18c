--------------------------- MODULE DecisionBroker ---------------------------
(***************************************************************************)
(* The broker that reviews the actions of every tool adapter                *)
(* (auto_review.py, DecisionBroker).  An action has one durable row; an     *)
(* adapter first calls `authorize', which may await a reviewing model or    *)
(* end in a request to a person, and then consumes the permit with          *)
(* `execute' or `consume_external'.                                         *)
(*                                                                          *)
(* Adapters are concurrent coroutines; the broker holds one lock per        *)
(* action, across the reviewer's await and across the operation.  `decide', *)
(* `invalidate' and `complete_external' do not take the lock.  Between      *)
(* awaits a coroutine runs alone, so each action below is one such stretch. *)
(***************************************************************************)
EXTENDS Naturals, FiniteSets

CONSTANTS
  Actions,       \* action ids
  Callers,       \* adapter coroutines
  Proposes,      \* the action each caller proposes and executes
  Sensitive,     \* actions whose effect is consequential or unknown
  Safe,          \* actions whose effect only observes
  NoReviewer,    \* no reviewer is configured, or it lost its qualification
  Reviewers      \* qualified states of the reviewer: model and account revision

ASSUME BrokerAssumption ==
  /\ Proposes \in [Callers -> Actions]
  /\ Sensitive \subseteq Actions /\ Safe \subseteq Actions
  /\ Sensitive \cap Safe = {}
  /\ NoReviewer \notin Reviewers

VARIABLES
  status,     \* status of each action's row, "none" without a row
  permit,     \* serial number of the row's permit, 0 when it has none
  model,      \* whether the row's decision_source is the model
  verdictOf,  \* the reviewer state that a model's verdict is bound to
  expired,    \* whether the row's expires_at has passed
  rule,       \* the owner's remembered rule on each action's scope
  ended,      \* actions whose grant, session or task has ended
  inPlace,    \* whether the action's page, target and policy are as proposed
  reviewer,   \* the configured reviewer
  up,         \* whether the host runs
  at,         \* where each caller is
  held,       \* the permit a caller holds
  asked,      \* the reviewer a caller awaits
  serial,     \* history: permits issued for each action
  effects,    \* history: how often each action's operation was started
  approved,   \* history: actions that a person approved
  declined    \* history: actions that a person declined

row == <<status, permit, model, verdictOf, expired>>
callers == <<at, held, asked>>
env == <<rule, ended, inPlace, reviewer>>
people == <<approved, declined>>
vars == <<status, permit, model, verdictOf, expired, rule, ended, inPlace,
          reviewer, up, at, held, asked, serial, effects, approved, declined>>

Final == {"blocked", "invalidated", "executing", "completed", "unknown", "failed"}
Statuses == {"none", "needs_user", "approved_once", "permitted"} \cup Final

Init ==
  /\ status = [a \in Actions |-> "none"]
  /\ permit = [a \in Actions |-> 0]
  /\ model = [a \in Actions |-> FALSE]
  /\ verdictOf = [a \in Actions |-> NoReviewer]
  /\ expired = [a \in Actions |-> FALSE]
  /\ rule = [a \in Actions |-> "none"]
  /\ ended = {}
  /\ inPlace = [a \in Actions |-> TRUE]
  /\ reviewer \in Reviewers \cup {NoReviewer}
  /\ up = TRUE
  /\ at = [c \in Callers |-> "idle"]
  /\ held = [c \in Callers |-> 0]
  /\ asked = [c \in Callers |-> NoReviewer]
  /\ serial = [a \in Actions |-> 0]
  /\ effects = [a \in Actions |-> 0]
  /\ approved = {} /\ declined = {}

-----------------------------------------------------------------------------
(* Reading and writing a row. *)

\* A bug: only the page and the policy are validated, not the grant.
validateTarget(a) == inPlace[a]

\* What each adapter's validate() finds out.
validate(a) == a \notin ended /\ inPlace[a]

\* A bug: the lock is not held across the reviewer's await.
LockFreeUnheld(a) ==
  \A c \in Callers : Proposes[c] = a => at[c] # "operating"

\* The lock of an action is held across the reviewer and the operation.
LockFree(a) ==
  \A c \in Callers : Proposes[c] = a => at[c] \notin {"reviewing", "operating"}

SetStatus(a, s) == status' = [status EXCEPT ![a] = s]

\* _record: the whole row is written; a permitted one gets a new permit.
_record(a, s, byModel) ==
  /\ SetStatus(a, s)
  /\ model' = [model EXCEPT ![a] = byModel]
  /\ verdictOf' = [verdictOf EXCEPT ![a] = IF byModel THEN reviewer ELSE NoReviewer]
  /\ expired' = [expired EXCEPT ![a] = FALSE]
  /\ serial' = [serial EXCEPT ![a] = IF s = "permitted" THEN @ + 1 ELSE @]
  /\ permit' = [permit EXCEPT ![a] = IF s = "permitted" THEN serial[a] + 1 ELSE 0]

\* A caller leaves the broker without a permit.
Leave(c) ==
  /\ at' = [at EXCEPT ![c] = "idle"]
  /\ held' = [held EXCEPT ![c] = 0]
  /\ asked' = [asked EXCEPT ![c] = NoReviewer]

\* A caller leaves with permit p.
LeaveWith(c, p) ==
  /\ at' = [at EXCEPT ![c] = "permitted"]
  /\ held' = [held EXCEPT ![c] = p]
  /\ asked' = [asked EXCEPT ![c] = NoReviewer]

\* The caller gets the row it recorded: its permit, or a refusal.
Answer(c, s) ==
  IF s = "permitted" THEN LeaveWith(c, serial[Proposes[c]] + 1) ELSE Leave(c)

\* A bug: a permit is checked for its reviewer only when it is issued.
_reviewer_permit_validOnce(a) == TRUE

_reviewer_permit_valid(a) ==
  model[a] => reviewer # NoReviewer /\ reviewer = verdictOf[a]

\* An unconsumed permit of a model that is no longer qualified is revoked; a
\* person may still approve the action.
Regrade(a) ==
  /\ SetStatus(a, "needs_user")
  /\ model' = [model EXCEPT ![a] = FALSE]
  /\ permit' = [permit EXCEPT ![a] = 0]
  /\ expired' = [expired EXCEPT ![a] = FALSE]
  /\ UNCHANGED <<verdictOf, serial>>

-----------------------------------------------------------------------------
(* authorize *)

Enter(c, a) == up /\ at[c] = "idle" /\ Proposes[c] = a /\ LockFree(a)

\* The authority does not hold: the row becomes a refusal, whatever it was.
AuthorizeOutside(c) ==
  LET a == Proposes[c] IN
  /\ Enter(c, a) /\ ~validate(a)
  /\ _record(a, "blocked", FALSE)
  /\ Leave(c)
  /\ UNCHANGED <<env, up, effects, people>>

\* A person approved this action: it is permitted once.  The row keeps the
\* expiry it had when the person was asked.
AuthorizeApproved(c) ==
  LET a == Proposes[c] IN
  /\ Enter(c, a) /\ validate(a) /\ status[a] = "approved_once"
  /\ SetStatus(a, "permitted")
  /\ serial' = [serial EXCEPT ![a] = @ + 1]
  /\ permit' = [permit EXCEPT ![a] = serial[a] + 1]
  /\ LeaveWith(c, serial[a] + 1)
  /\ UNCHANGED <<model, verdictOf, expired, env, up, effects, people>>

\* An unexpired permit is handed out again, unless its reviewer changed.
AuthorizeAgain(c) ==
  LET a == Proposes[c] IN
  /\ Enter(c, a) /\ validate(a) /\ status[a] = "permitted" /\ ~expired[a]
  /\ IF _reviewer_permit_valid(a)
     THEN LeaveWith(c, permit[a]) /\ UNCHANGED <<row, serial>>
     ELSE Leave(c) /\ Regrade(a)
  /\ UNCHANGED <<env, up, effects, people>>

\* A new action that needs no model: a remembered block, a consequential
\* effect, a consent of the coding policy, a remembered allowance, an effect
\* that only observes, or no reviewer to ask.
HostVerdicts(a) ==
  IF rule[a] = "BLOCK" THEN {"blocked"}
  ELSE IF a \in Sensitive THEN {"needs_user"}
  ELSE IF rule[a] = "ALLOW" \/ a \in Safe \/ reviewer # NoReviewer
       THEN {"permitted"}
  ELSE {"permitted", "needs_user"}

AuthorizeByHost(c) ==
  LET a == Proposes[c] IN
  /\ Enter(c, a) /\ validate(a) /\ status[a] = "none"
  /\ \E s \in HostVerdicts(a) : _record(a, s, FALSE) /\ Answer(c, s)
  /\ UNCHANGED <<env, up, effects, people>>

\* Otherwise the reviewing model is awaited, with the lock held.
AskReviewer(c) ==
  LET a == Proposes[c] IN
  /\ Enter(c, a) /\ validate(a) /\ status[a] = "none"
  /\ rule[a] = "none" /\ a \notin Sensitive \cup Safe /\ reviewer # NoReviewer
  /\ at' = [at EXCEPT ![c] = "reviewing"]
  /\ asked' = [asked EXCEPT ![c] = reviewer]
  /\ UNCHANGED <<row, env, up, held, serial, effects, people>>

\* The model's verdict counts if the reviewer is still the one that was
\* asked; a timeout, an error or a stale verdict asks a person instead.  The
\* authority is validated again after the await.
ReviewerAnswers(c) ==
  LET a == Proposes[c] IN
  /\ up /\ at[c] = "reviewing"
  /\ \/ /\ ~validate(a)
        /\ _record(a, "invalidated", FALSE) /\ Leave(c)
     \/ /\ validate(a) /\ asked[c] = reviewer /\ reviewer # NoReviewer
        /\ \E s \in {"permitted", "needs_user", "blocked"} :
             _record(a, s, TRUE) /\ Answer(c, s)
     \/ /\ validate(a)
        /\ _record(a, "needs_user", FALSE) /\ Leave(c)
  /\ UNCHANGED <<env, up, effects, people>>

-----------------------------------------------------------------------------
(* execute, consume_external, complete_external *)

PermitHolds(c, a) ==
  status[a] = "permitted" /\ ~expired[a] /\ permit[a] = held[c] /\ validate(a)

\* The permit is consumed, durably, before the operation starts: by the broker
\* for its own adapters, or for a native engine that acts by itself.
Consume(c) ==
  LET a == Proposes[c] IN
  /\ up /\ at[c] = "permitted" /\ LockFree(a)
  /\ PermitHolds(c, a) /\ _reviewer_permit_valid(a)
  /\ SetStatus(a, "executing")
  /\ permit' = [permit EXCEPT ![a] = 0]
  /\ effects' = [effects EXCEPT ![a] = @ + 1]
  /\ \E where \in {"operating", "external"} : at' = [at EXCEPT ![c] = where]
  /\ held' = [held EXCEPT ![c] = 0]
  /\ UNCHANGED <<model, verdictOf, expired, env, up, asked, serial, people>>

\* The permit does not hold any more: the caller is refused; if only the
\* reviewer changed, a person may be asked.
ConsumeRefused(c) ==
  LET a == Proposes[c] IN
  /\ up /\ at[c] = "permitted" /\ LockFree(a)
  /\ \/ ~PermitHolds(c, a) /\ UNCHANGED <<row, serial>>
     \/ PermitHolds(c, a) /\ ~_reviewer_permit_valid(a) /\ Regrade(a)
  /\ Leave(c)
  /\ UNCHANGED <<env, up, effects, people>>

\* The operation returned or raised; the row read before it is written back.
Settle(c) ==
  LET a == Proposes[c] IN
  /\ up /\ at[c] = "operating"
  /\ \E s \in {"completed", "unknown"} : SetStatus(a, s)
  /\ permit' = [permit EXCEPT ![a] = 0]
  /\ Leave(c)
  /\ UNCHANGED <<model, verdictOf, expired, env, up, serial, effects, people>>

\* The native engine's hook reports; a row that changed meanwhile is left.
complete_external(c) ==
  LET a == Proposes[c] IN
  /\ up /\ at[c] = "external"
  /\ IF status[a] = "executing"
     THEN \E s \in {"completed", "unknown"} : SetStatus(a, s)
     ELSE UNCHANGED status
  /\ Leave(c)
  /\ UNCHANGED <<permit, model, verdictOf, expired, env, up, serial, effects,
                 people>>

\* The adapter is cancelled while it awaits the reviewer, before it uses its
\* permit, or before the native engine reports.
Abandon(c) ==
  /\ up /\ at[c] \in {"reviewing", "permitted", "external"}
  /\ Leave(c)
  /\ UNCHANGED <<row, env, up, serial, effects, people>>

-----------------------------------------------------------------------------
(* People and the environment. *)

\* A bug: the decision is stored as the status.
decideDecision(a, approve) ==
  /\ up /\ status[a] = "needs_user" /\ ~expired[a]
  /\ SetStatus(a, IF approve THEN "ALLOW" ELSE "BLOCK")
  /\ model' = [model EXCEPT ![a] = FALSE]
  /\ approved' = IF approve THEN approved \cup {a} ELSE approved
  /\ declined' = IF approve THEN declined ELSE declined \cup {a}
  /\ UNCHANGED <<permit, verdictOf, expired, env, up, callers, serial, effects>>

decide(a, approve) ==
  /\ up /\ status[a] = "needs_user" /\ ~expired[a]
  /\ SetStatus(a, IF approve THEN "approved_once" ELSE "blocked")
  /\ model' = [model EXCEPT ![a] = FALSE]
  /\ approved' = IF approve THEN approved \cup {a} ELSE approved
  /\ declined' = IF approve THEN declined ELSE declined \cup {a}
  /\ UNCHANGED <<permit, verdictOf, expired, env, up, callers, serial, effects>>

\* A bug: all rows of the grant are invalidated, also those that ended.
InvalidatedAll(A) ==
  [a \in Actions |->
     IF a \in A /\ status[a] # "none" THEN "invalidated" ELSE status[a]]

\* invalidate: the rows of a grant or a session, unless their action ended.
Invalidated(A) ==
  [a \in Actions |->
     IF a \in A /\ status[a] \notin {"none", "completed", "failed", "unknown"}
     THEN "invalidated" ELSE status[a]]

\* A grant or a session ends: validate() fails from now on, and the rows of
\* its actions are invalidated.
invalidate(A) ==
  /\ up
  /\ ended' = ended \cup A
  /\ status' = Invalidated(A)
  /\ UNCHANGED <<permit, model, verdictOf, expired, rule, inPlace, reviewer, up,
                 callers, serial, effects, people>>

\* The page or the policy under an action changes, or is as proposed again.
TargetChanges(a) ==
  /\ inPlace' = [inPlace EXCEPT ![a] = ~inPlace[a]]
  /\ UNCHANGED <<row, rule, ended, reviewer, up, callers, serial, effects, people>>

\* rule, edit_rule, revoke_rule: consequential effects cannot be allowed.
SetRule(a, d) ==
  /\ up
  /\ d = "ALLOW" => a \notin Sensitive
  /\ rule' = [rule EXCEPT ![a] = d]
  /\ UNCHANGED <<row, ended, inPlace, reviewer, up, callers, serial, effects, people>>

ReviewerChanges ==
  /\ up /\ reviewer' \in Reviewers \cup {NoReviewer}
  /\ UNCHANGED <<row, rule, ended, inPlace, up, callers, serial, effects, people>>

Expire(a) ==
  /\ status[a] \in {"needs_user", "approved_once", "permitted"}
  /\ expired' = [expired EXCEPT ![a] = TRUE]
  /\ UNCHANGED <<status, permit, model, verdictOf, env, up, callers, serial,
                 effects, people>>

Crash ==
  /\ up /\ up' = FALSE
  /\ at' = [c \in Callers |-> "idle"]
  /\ held' = [c \in Callers |-> 0] /\ asked' = [c \in Callers |-> NoReviewer]
  /\ UNCHANGED <<row, env, serial, effects, people>>

\* A bug: after a restart an action in flight is put to the person again.
RestartAsks ==
  /\ ~up /\ up' = TRUE
  /\ status' = [a \in Actions |->
                  IF status[a] \in {"permitted", "executing"}
                  THEN "needs_user" ELSE status[a]]
  /\ UNCHANGED <<permit, model, verdictOf, expired, env, callers, serial,
                 effects, people>>

\* DecisionBroker.__init__: permits and results in flight are void.
Restart ==
  /\ ~up /\ up' = TRUE
  /\ status' = [a \in Actions |->
                  IF status[a] \in {"permitted", "executing"}
                  THEN "invalidated" ELSE status[a]]
  /\ UNCHANGED <<permit, model, verdictOf, expired, env, callers, serial,
                 effects, people>>

-----------------------------------------------------------------------------
Adapter(c) ==
  \/ AuthorizeOutside(c) \/ AuthorizeApproved(c) \/ AuthorizeAgain(c)
  \/ AuthorizeByHost(c) \/ AskReviewer(c) \/ ReviewerAnswers(c)
  \/ Consume(c) \/ ConsumeRefused(c) \/ Settle(c) \/ complete_external(c)
  \/ Abandon(c)

Next ==
  \/ \E c \in Callers : Adapter(c)
  \/ \E a \in Actions : \/ decide(a, TRUE) \/ decide(a, FALSE)
                        \/ TargetChanges(a) \/ Expire(a)
                        \/ \E d \in {"none", "ALLOW", "BLOCK"} : SetRule(a, d)
  \/ \E A \in SUBSET Actions : invalidate(A)
  \/ ReviewerChanges \/ Crash \/ Restart

Spec == Init /\ [][Next]_vars

-----------------------------------------------------------------------------
(* Properties. *)

\* Types of the rows, the callers and the histories.
TypeOK ==
  /\ status \in [Actions -> Statuses]
  /\ permit \in [Actions -> Nat] /\ serial \in [Actions -> Nat]
  /\ model \in [Actions -> BOOLEAN] /\ expired \in [Actions -> BOOLEAN]
  /\ verdictOf \in [Actions -> Reviewers \cup {NoReviewer}]
  /\ rule \in [Actions -> {"none", "ALLOW", "BLOCK"}]
  /\ ended \subseteq Actions /\ inPlace \in [Actions -> BOOLEAN]
  /\ reviewer \in Reviewers \cup {NoReviewer} /\ up \in BOOLEAN
  /\ at \in [Callers -> {"idle", "reviewing", "permitted", "operating", "external"}]
  /\ held \in [Callers -> Nat]
  /\ asked \in [Callers -> Reviewers \cup {NoReviewer}]
  /\ effects \in [Actions -> Nat]
  /\ approved \subseteq Actions /\ declined \subseteq Actions

\* However callers, people, restarts and endings of grants interleave, the
\* operation of an action starts at most once (execute, consume_external:
\* "Crash is unknown, never replay").
EffectAtMostOnce == \A a \in Actions : effects[a] <= 1

\* No rule, consent or model lets a consequential action start: a person
\* approved exactly this action before (authorize, edit_rule).
SensitiveWasApproved ==
  \A a \in Sensitive : effects[a] > 0 => a \in approved

\* What a person declined never starts, whatever permits, verdicts or
\* restarts come before or after the answer (decide).
DeclinedNeverRuns == \A a \in declined : effects[a] = 0

\* A refusal, an invalidation or a start is for good: the row never offers the
\* action to a person or to an adapter again (authorize, __init__, execute).
FinalStaysFinal ==
  [][\A a \in Actions : status[a] \in Final => status'[a] \in Final]_vars

\* Once its grant or session has ended, an action does not start: neither one
\* that was permitted or under review at that time, nor one proposed later
\* (invalidate, and validate() in authorize and execute).
EndedNeverStarts ==
  [][\A a \in ended : effects'[a] = effects[a]]_vars

\* A model's verdict starts nothing once the reviewer that gave it was
\* replaced, re-billed or disqualified: also not a permit that was handed out
\* before (_reviewer_permit_valid).
StaleReviewerNeverActs ==
  [][\A a \in Actions :
       effects'[a] # effects[a] /\ model[a] => verdictOf[a] = reviewer]_vars

\* What is known of the end of an action is not replaced by a later report,
\* restart or ending of its grant; only a new proposal outside its authority
\* turns the row into a refusal (authorize, invalidate, complete_external).
OutcomeIsNotRewritten ==
  [][\A a \in Actions : status[a] \in {"completed", "unknown"} =>
       status'[a] \in {status[a], "blocked"}]_vars

\* An ended grant or session ends its actions for good: none of them starts
\* later, and what became of one is not reported differently afterwards
\* (invalidate, validate, complete_external).
EndedIsFinal == []TypeOK /\ EndedNeverStarts /\ OutcomeIsNotRewritten

-----------------------------------------------------------------------------
(* The promise of ReviewedAction. *)

phase ==
  [a \in Actions |-> IF effects[a] > 0 THEN "started"
                     ELSE IF status[a] \in Final THEN "closed" ELSE "open"]

Reviewed == INSTANCE ReviewedAction WITH phase <- phase, consent <- approved

\* Every step of the broker starts, approves or closes actions as promised, or
\* changes nothing of the promise.
ImplementsReviewedAction == Reviewed!Spec
=============================================================================
