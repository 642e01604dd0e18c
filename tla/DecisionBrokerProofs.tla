------------------------- MODULE DecisionBrokerProofs -------------------------
(***************************************************************************)
(* The broker keeps its promise for every set of actions and adapters, any  *)
(* reviewers and any interleaving.                                          *)
(***************************************************************************)
EXTENDS DecisionBroker, TLAPS

\* A caller is between taking up an action and settling it.
Busy == {"reviewing", "operating", "external"}

\* The lock, and the consumed permit, leave an action to one caller.
OneCaller ==
  \A c, d \in Callers :
    Proposes[c] = Proposes[d] /\ at[c] \in Busy /\ at[d] \in Busy => c = d

\* What a busy caller knows of the row of its action.
BusyRow ==
  \A c \in Callers :
    /\ at[c] = "reviewing" =>
         status[Proposes[c]] = "none" /\ Proposes[c] \notin Sensitive
    /\ at[c] = "operating" => status[Proposes[c]] \in {"executing", "invalidated"}
    /\ at[c] \in {"operating", "external"} => effects[Proposes[c]] = 1

\* An action whose row is not final has not started.
StartedIsFinal ==
  \A a \in Actions : status[a] \notin Final => effects[a] = 0

\* A consequential action gets past the person only by an approval.
ConsentFirst ==
  \A a \in Sensitive :
    status[a] \in {"approved_once", "permitted"} \/ effects[a] > 0 => a \in approved

\* The row of a declined action is final and the action has not started.
DeclinedIsClosed ==
  \A a \in declined : status[a] \in {"blocked", "invalidated"} /\ effects[a] = 0

IInv ==
  /\ TypeOK /\ EffectAtMostOnce
  /\ OneCaller /\ BusyRow /\ StartedIsFinal /\ ConsentFirst /\ DeclinedIsClosed

-----------------------------------------------------------------------------
(* The types that writing a row and leaving the broker keep. *)

RowTyped ==
  /\ status \in [Actions -> Statuses]
  /\ permit \in [Actions -> Nat] /\ serial \in [Actions -> Nat]
  /\ model \in [Actions -> BOOLEAN] /\ expired \in [Actions -> BOOLEAN]
  /\ verdictOf \in [Actions -> Reviewers \cup {NoReviewer}]

CallersTyped ==
  /\ at \in [Callers -> {"idle", "reviewing", "permitted", "operating", "external"}]
  /\ held \in [Callers -> Nat]
  /\ asked \in [Callers -> Reviewers \cup {NoReviewer}]

LEMMA RecordTyped ==
    ASSUME TypeOK, NEW a \in Actions, NEW s \in Statuses, NEW m \in BOOLEAN,
           _record(a, s, m)
    PROVE  RowTyped'
BY DEF TypeOK, RowTyped, _record, SetStatus

LEMMA RegradeTyped ==
    ASSUME TypeOK, NEW a \in Actions, Regrade(a)
    PROVE  RowTyped'
BY DEF TypeOK, RowTyped, Regrade, SetStatus, Statuses

LEMMA LeaveTyped ==
    ASSUME TypeOK, NEW c \in Callers, Leave(c)
    PROVE  CallersTyped'
BY DEF TypeOK, CallersTyped, Leave

LEMMA LeaveWithTyped ==
    ASSUME TypeOK, NEW c \in Callers, NEW p \in Nat, LeaveWith(c, p)
    PROVE  CallersTyped'
BY DEF TypeOK, CallersTyped, LeaveWith

LEMMA AnswerTyped ==
    ASSUME TypeOK, NEW c \in Callers, NEW s, Answer(c, s)
    PROVE  CallersTyped'
<1>1. serial[Proposes[c]] + 1 \in Nat
  BY BrokerAssumption DEF TypeOK
<1> QED
  BY <1>1, LeaveTyped, LeaveWithTyped DEF Answer

-----------------------------------------------------------------------------
(* One lemma per operation: it preserves the invariant. *)

LEMMA AuthorizeOutsideStep ==
    ASSUME IInv, NEW c \in Callers, AuthorizeOutside(c)
    PROVE  IInv'
<1>1. Proposes[c] \in Actions /\ Sensitive \subseteq Actions
  BY BrokerAssumption
<1> USE BrokerAssumption
<1>2. TypeOK'
  BY <1>1 DEF IInv, TypeOK, Statuses, Final, AuthorizeOutside, Enter, LockFree, _record, SetStatus, Leave, env, people
<1>3. EffectAtMostOnce'
  BY <1>1 DEF IInv, TypeOK, EffectAtMostOnce, StartedIsFinal, Final, AuthorizeOutside, Enter, LockFree, _record, SetStatus, Leave, env, people
<1>4. OneCaller'
  BY <1>1 DEF IInv, TypeOK, OneCaller, BusyRow, StartedIsFinal, Busy, Final, AuthorizeOutside, Enter, LockFree, _record, SetStatus, Leave, env, people
<1>5. BusyRow'
  BY <1>1 DEF IInv, TypeOK, BusyRow, OneCaller, StartedIsFinal, EffectAtMostOnce, Busy, Final, AuthorizeOutside, Enter, LockFree, _record, SetStatus, Leave, env, people
<1>6. StartedIsFinal'
  BY <1>1 DEF IInv, TypeOK, StartedIsFinal, BusyRow, Final, AuthorizeOutside, Enter, LockFree, _record, SetStatus, Leave, env, people
<1>7. ConsentFirst'
  BY <1>1 DEF IInv, TypeOK, ConsentFirst, BusyRow, Final, AuthorizeOutside, Enter, LockFree, _record, SetStatus, Leave, env, people
<1>8. DeclinedIsClosed'
  BY <1>1 DEF IInv, TypeOK, DeclinedIsClosed, BusyRow, StartedIsFinal, Final, AuthorizeOutside, Enter, LockFree, _record, SetStatus, Leave, env, people
<1> QED
  BY <1>2, <1>3, <1>4, <1>5, <1>6, <1>7, <1>8 DEF IInv

LEMMA AuthorizeApprovedStep ==
    ASSUME IInv, NEW c \in Callers, AuthorizeApproved(c)
    PROVE  IInv'
<1>1. Proposes[c] \in Actions /\ Sensitive \subseteq Actions
  BY BrokerAssumption
<1> USE BrokerAssumption
<1>2. TypeOK'
  BY <1>1 DEF IInv, TypeOK, Statuses, Final, AuthorizeApproved, Enter, LockFree, SetStatus, LeaveWith, env, people
<1>3. EffectAtMostOnce'
  BY <1>1 DEF IInv, TypeOK, EffectAtMostOnce, StartedIsFinal, Final, AuthorizeApproved, Enter, LockFree, SetStatus, LeaveWith, env, people
<1>4. OneCaller'
  BY <1>1 DEF IInv, TypeOK, OneCaller, BusyRow, StartedIsFinal, Busy, Final, AuthorizeApproved, Enter, LockFree, SetStatus, LeaveWith, env, people
<1>5. BusyRow'
  BY <1>1 DEF IInv, TypeOK, BusyRow, OneCaller, StartedIsFinal, EffectAtMostOnce, Busy, Final, AuthorizeApproved, Enter, LockFree, SetStatus, LeaveWith, env, people
<1>6. StartedIsFinal'
  BY <1>1 DEF IInv, TypeOK, StartedIsFinal, BusyRow, Final, AuthorizeApproved, Enter, LockFree, SetStatus, LeaveWith, env, people
<1>7. ConsentFirst'
  BY <1>1 DEF IInv, TypeOK, ConsentFirst, BusyRow, Final, AuthorizeApproved, Enter, LockFree, SetStatus, LeaveWith, env, people
<1>8. DeclinedIsClosed'
  BY <1>1 DEF IInv, TypeOK, DeclinedIsClosed, BusyRow, StartedIsFinal, Final, AuthorizeApproved, Enter, LockFree, SetStatus, LeaveWith, env, people
<1> QED
  BY <1>2, <1>3, <1>4, <1>5, <1>6, <1>7, <1>8 DEF IInv

LEMMA AuthorizeAgainStep ==
    ASSUME IInv, NEW c \in Callers, AuthorizeAgain(c)
    PROVE  IInv'
<1>1. Proposes[c] \in Actions /\ Sensitive \subseteq Actions
  BY BrokerAssumption
<1> USE BrokerAssumption
<1>2. TypeOK'
  <2>1. CASE LeaveWith(c, permit[Proposes[c]]) /\ UNCHANGED <<row, serial>>
    <3>1. permit[Proposes[c]] \in Nat
      BY <1>1 DEF IInv, TypeOK
    <3>2. CallersTyped'
      BY <2>1, <3>1, LeaveWithTyped DEF IInv
    <3> QED
      BY <2>1, <3>2 DEF IInv, TypeOK, CallersTyped, AuthorizeAgain, row, env, people
  <2>2. CASE Leave(c) /\ Regrade(Proposes[c])
    <3>1. RowTyped' /\ CallersTyped'
      BY <1>1, <2>2, RegradeTyped, LeaveTyped DEF IInv
    <3> QED
      BY <2>2, <3>1 DEF IInv, TypeOK, RowTyped, CallersTyped, AuthorizeAgain, env, people
  <2> QED
    BY <2>1, <2>2 DEF AuthorizeAgain
<1>3. EffectAtMostOnce'
  BY <1>1 DEF IInv, TypeOK, EffectAtMostOnce, StartedIsFinal, Final, AuthorizeAgain, Enter, LockFree, SetStatus, Leave, LeaveWith, Regrade, row, env, people
<1>4. OneCaller'
  BY <1>1 DEF IInv, TypeOK, OneCaller, BusyRow, StartedIsFinal, Busy, Final, AuthorizeAgain, Enter, LockFree, SetStatus, Leave, LeaveWith, Regrade, row, env, people
<1>5. BusyRow'
  BY <1>1 DEF IInv, TypeOK, BusyRow, OneCaller, StartedIsFinal, EffectAtMostOnce, Busy, Final, AuthorizeAgain, Enter, LockFree, SetStatus, Leave, LeaveWith, Regrade, row, env, people
<1>6. StartedIsFinal'
  BY <1>1 DEF IInv, TypeOK, StartedIsFinal, BusyRow, Final, AuthorizeAgain, Enter, LockFree, SetStatus, Leave, LeaveWith, Regrade, row, env, people
<1>7. ConsentFirst'
  BY <1>1 DEF IInv, TypeOK, ConsentFirst, BusyRow, Final, AuthorizeAgain, Enter, LockFree, SetStatus, Leave, LeaveWith, Regrade, row, env, people
<1>8. DeclinedIsClosed'
  BY <1>1 DEF IInv, TypeOK, DeclinedIsClosed, BusyRow, StartedIsFinal, Final, AuthorizeAgain, Enter, LockFree, SetStatus, Leave, LeaveWith, Regrade, row, env, people
<1> QED
  BY <1>2, <1>3, <1>4, <1>5, <1>6, <1>7, <1>8 DEF IInv

LEMMA AuthorizeByHostStep ==
    ASSUME IInv, NEW c \in Callers, AuthorizeByHost(c)
    PROVE  IInv'
<1>1. Proposes[c] \in Actions /\ Sensitive \subseteq Actions
  BY BrokerAssumption
<1> USE BrokerAssumption
<1>2. TypeOK'
  <2>1. PICK s \in HostVerdicts(Proposes[c]) :
          _record(Proposes[c], s, FALSE) /\ Answer(c, s)
    BY DEF AuthorizeByHost
  <2>2. s \in Statuses
    BY DEF HostVerdicts, Statuses, Final
  <2>3. RowTyped' /\ CallersTyped'
    BY <1>1, <2>1, <2>2, RecordTyped, AnswerTyped DEF IInv
  <2> QED
    BY <2>3 DEF IInv, TypeOK, RowTyped, CallersTyped, AuthorizeByHost, env, people
<1>3. EffectAtMostOnce'
  BY <1>1 DEF IInv, TypeOK, EffectAtMostOnce, StartedIsFinal, Final, AuthorizeByHost, Enter, LockFree, HostVerdicts, _record, SetStatus, Answer, Leave, LeaveWith, env, people
<1>4. OneCaller'
  BY <1>1 DEF IInv, TypeOK, OneCaller, BusyRow, StartedIsFinal, Busy, Final, AuthorizeByHost, Enter, LockFree, HostVerdicts, _record, SetStatus, Answer, Leave, LeaveWith, env, people
<1>5. BusyRow'
  BY <1>1 DEF IInv, TypeOK, BusyRow, OneCaller, StartedIsFinal, EffectAtMostOnce, Busy, Final, AuthorizeByHost, Enter, LockFree, HostVerdicts, _record, SetStatus, Answer, Leave, LeaveWith, env, people
<1>6. StartedIsFinal'
  BY <1>1 DEF IInv, TypeOK, StartedIsFinal, BusyRow, Final, AuthorizeByHost, Enter, LockFree, HostVerdicts, _record, SetStatus, Answer, Leave, LeaveWith, env, people
<1>7. ConsentFirst'
  BY <1>1 DEF IInv, TypeOK, ConsentFirst, BusyRow, Final, AuthorizeByHost, Enter, LockFree, HostVerdicts, _record, SetStatus, Answer, Leave, LeaveWith, env, people
<1>8. DeclinedIsClosed'
  BY <1>1 DEF IInv, TypeOK, DeclinedIsClosed, BusyRow, StartedIsFinal, Final, AuthorizeByHost, Enter, LockFree, HostVerdicts, _record, SetStatus, Answer, Leave, LeaveWith, env, people
<1> QED
  BY <1>2, <1>3, <1>4, <1>5, <1>6, <1>7, <1>8 DEF IInv

LEMMA AskReviewerStep ==
    ASSUME IInv, NEW c \in Callers, AskReviewer(c)
    PROVE  IInv'
<1>1. Proposes[c] \in Actions /\ Sensitive \subseteq Actions
  BY BrokerAssumption
<1> USE BrokerAssumption
<1>2. TypeOK'
  BY <1>1 DEF IInv, TypeOK, Statuses, Final, AskReviewer, Enter, LockFree, row, env, people
<1>3. EffectAtMostOnce'
  BY <1>1 DEF IInv, TypeOK, EffectAtMostOnce, StartedIsFinal, Final, AskReviewer, Enter, LockFree, row, env, people
<1>4. OneCaller'
  BY <1>1 DEF IInv, TypeOK, OneCaller, BusyRow, StartedIsFinal, Busy, Final, AskReviewer, Enter, LockFree, row, env, people
<1>5. BusyRow'
  BY <1>1 DEF IInv, TypeOK, BusyRow, OneCaller, StartedIsFinal, EffectAtMostOnce, Busy, Final, AskReviewer, Enter, LockFree, row, env, people
<1>6. StartedIsFinal'
  BY <1>1 DEF IInv, TypeOK, StartedIsFinal, BusyRow, Final, AskReviewer, Enter, LockFree, row, env, people
<1>7. ConsentFirst'
  BY <1>1 DEF IInv, TypeOK, ConsentFirst, BusyRow, Final, AskReviewer, Enter, LockFree, row, env, people
<1>8. DeclinedIsClosed'
  BY <1>1 DEF IInv, TypeOK, DeclinedIsClosed, BusyRow, StartedIsFinal, Final, AskReviewer, Enter, LockFree, row, env, people
<1> QED
  BY <1>2, <1>3, <1>4, <1>5, <1>6, <1>7, <1>8 DEF IInv

LEMMA ReviewerAnswersStep ==
    ASSUME IInv, NEW c \in Callers, ReviewerAnswers(c)
    PROVE  IInv'
<1>1. Proposes[c] \in Actions /\ Sensitive \subseteq Actions
  BY BrokerAssumption
<1> USE BrokerAssumption
<1>2. TypeOK'
  <2>1. PICK s \in {"permitted", "needs_user", "blocked", "invalidated"}, m \in BOOLEAN :
          _record(Proposes[c], s, m) /\ (Answer(c, s) \/ Leave(c))
    BY DEF ReviewerAnswers
  <2>2. s \in Statuses
    BY DEF Statuses, Final
  <2>3. RowTyped' /\ CallersTyped'
    BY <1>1, <2>1, <2>2, RecordTyped, AnswerTyped, LeaveTyped DEF IInv
  <2> QED
    BY <2>3 DEF IInv, TypeOK, RowTyped, CallersTyped, ReviewerAnswers, env, people
<1>3. EffectAtMostOnce'
  BY <1>1 DEF IInv, TypeOK, EffectAtMostOnce, StartedIsFinal, Final, ReviewerAnswers, _record, SetStatus, Answer, Leave, LeaveWith, env, people
<1>4. OneCaller'
  BY <1>1 DEF IInv, TypeOK, OneCaller, BusyRow, StartedIsFinal, Busy, Final, ReviewerAnswers, _record, SetStatus, Answer, Leave, LeaveWith, env, people
<1>5. BusyRow'
  BY <1>1 DEF IInv, TypeOK, BusyRow, OneCaller, StartedIsFinal, EffectAtMostOnce, Busy, Final, ReviewerAnswers, _record, SetStatus, Answer, Leave, LeaveWith, env, people
<1>6. StartedIsFinal'
  BY <1>1 DEF IInv, TypeOK, StartedIsFinal, BusyRow, Final, ReviewerAnswers, _record, SetStatus, Answer, Leave, LeaveWith, env, people
<1>7. ConsentFirst'
  BY <1>1 DEF IInv, TypeOK, ConsentFirst, BusyRow, Final, ReviewerAnswers, _record, SetStatus, Answer, Leave, LeaveWith, env, people
<1>8. DeclinedIsClosed'
  BY <1>1 DEF IInv, TypeOK, DeclinedIsClosed, BusyRow, StartedIsFinal, Final, ReviewerAnswers, _record, SetStatus, Answer, Leave, LeaveWith, env, people
<1> QED
  BY <1>2, <1>3, <1>4, <1>5, <1>6, <1>7, <1>8 DEF IInv

LEMMA ConsumeStep ==
    ASSUME IInv, NEW c \in Callers, Consume(c)
    PROVE  IInv'
<1>1. Proposes[c] \in Actions /\ Sensitive \subseteq Actions
  BY BrokerAssumption
<1> USE BrokerAssumption
<1>2. TypeOK'
  BY <1>1 DEF IInv, TypeOK, Statuses, Final, Consume, LockFree, PermitHolds, SetStatus, env, people
<1>3. EffectAtMostOnce'
  BY <1>1 DEF IInv, TypeOK, EffectAtMostOnce, StartedIsFinal, Final, Consume, LockFree, PermitHolds, SetStatus, env, people
<1>4. OneCaller'
  BY <1>1 DEF IInv, TypeOK, OneCaller, BusyRow, StartedIsFinal, Busy, Final, Consume, LockFree, PermitHolds, SetStatus, env, people
<1>5. BusyRow'
  BY <1>1 DEF IInv, TypeOK, BusyRow, OneCaller, StartedIsFinal, EffectAtMostOnce, Busy, Final, Consume, LockFree, PermitHolds, SetStatus, env, people
<1>6. StartedIsFinal'
  BY <1>1 DEF IInv, TypeOK, StartedIsFinal, BusyRow, Final, Consume, LockFree, PermitHolds, SetStatus, env, people
<1>7. ConsentFirst'
  BY <1>1 DEF IInv, TypeOK, ConsentFirst, BusyRow, Final, Consume, LockFree, PermitHolds, SetStatus, env, people
<1>8. DeclinedIsClosed'
  BY <1>1 DEF IInv, TypeOK, DeclinedIsClosed, BusyRow, StartedIsFinal, Final, Consume, LockFree, PermitHolds, SetStatus, env, people
<1> QED
  BY <1>2, <1>3, <1>4, <1>5, <1>6, <1>7, <1>8 DEF IInv

LEMMA ConsumeRefusedStep ==
    ASSUME IInv, NEW c \in Callers, ConsumeRefused(c)
    PROVE  IInv'
<1>1. Proposes[c] \in Actions /\ Sensitive \subseteq Actions
  BY BrokerAssumption
<1> USE BrokerAssumption
<1>2. TypeOK'
  <2>1. RowTyped'
    <3>1. CASE Regrade(Proposes[c])
      BY <1>1, <3>1, RegradeTyped DEF IInv
    <3>2. CASE UNCHANGED <<row, serial>>
      BY <3>2 DEF IInv, TypeOK, RowTyped, row
    <3> QED
      BY <3>1, <3>2 DEF ConsumeRefused
  <2>2. CallersTyped'
    BY LeaveTyped DEF IInv, ConsumeRefused
  <2> QED
    BY <2>1, <2>2 DEF IInv, TypeOK, RowTyped, CallersTyped, ConsumeRefused, env, people
<1>3. EffectAtMostOnce'
  BY <1>1 DEF IInv, TypeOK, EffectAtMostOnce, StartedIsFinal, Final, ConsumeRefused, Regrade, PermitHolds, SetStatus, Leave, row, env, people
<1>4. OneCaller'
  BY <1>1 DEF IInv, TypeOK, OneCaller, BusyRow, StartedIsFinal, Busy, Final, ConsumeRefused, Regrade, PermitHolds, SetStatus, Leave, row, env, people
<1>5. BusyRow'
  <2> SUFFICES ASSUME NEW d \in Callers
               PROVE  /\ at'[d] = "reviewing" =>
                           status'[Proposes[d]] = "none" /\ Proposes[d] \notin Sensitive
                      /\ at'[d] = "operating" =>
                           status'[Proposes[d]] \in {"executing", "invalidated"}
                      /\ at'[d] \in {"operating", "external"} => effects'[Proposes[d]] = 1
    BY DEF BusyRow
  <2>1. effects' = effects /\ (at'[d] \in Busy => d # c /\ at'[d] = at[d])
    BY DEF IInv, TypeOK, ConsumeRefused, Leave, Busy
  <2>2. CASE UNCHANGED <<row, serial>>
    BY <2>1, <2>2 DEF IInv, BusyRow, Busy, row
  <2>3. CASE PermitHolds(c, Proposes[c]) /\ Regrade(Proposes[c])
    <3>1. CASE Proposes[d] = Proposes[c]
      BY <1>1, <2>1, <2>3, <3>1
      DEF IInv, BusyRow, Busy, StartedIsFinal, Final, PermitHolds
    <3>2. CASE Proposes[d] # Proposes[c]
      <4>1. status'[Proposes[d]] = status[Proposes[d]]
        BY <1>1, <2>3, <3>2 DEF IInv, TypeOK, Regrade, SetStatus
      <4> QED
        BY <2>1, <4>1 DEF IInv, BusyRow, Busy
    <3> QED
      BY <3>1, <3>2
  <2> QED
    BY <2>2, <2>3 DEF ConsumeRefused
<1>6. StartedIsFinal'
  BY <1>1 DEF IInv, TypeOK, StartedIsFinal, BusyRow, Final, ConsumeRefused, Regrade, PermitHolds, SetStatus, Leave, row, env, people
<1>7. ConsentFirst'
  BY <1>1 DEF IInv, TypeOK, ConsentFirst, BusyRow, Final, ConsumeRefused, Regrade, PermitHolds, SetStatus, Leave, row, env, people
<1>8. DeclinedIsClosed'
  BY <1>1 DEF IInv, TypeOK, DeclinedIsClosed, BusyRow, StartedIsFinal, Final, ConsumeRefused, Regrade, PermitHolds, SetStatus, Leave, row, env, people
<1> QED
  BY <1>2, <1>3, <1>4, <1>5, <1>6, <1>7, <1>8 DEF IInv

LEMMA SettleStep ==
    ASSUME IInv, NEW c \in Callers, Settle(c)
    PROVE  IInv'
<1>1. Proposes[c] \in Actions /\ Sensitive \subseteq Actions
  BY BrokerAssumption
<1> USE BrokerAssumption
<1>2. TypeOK'
  BY <1>1 DEF IInv, TypeOK, Statuses, Final, Settle, SetStatus, Leave, env, people
<1>3. EffectAtMostOnce'
  BY <1>1 DEF IInv, TypeOK, EffectAtMostOnce, StartedIsFinal, Final, Settle, SetStatus, Leave, env, people
<1>4. OneCaller'
  BY <1>1 DEF IInv, TypeOK, OneCaller, BusyRow, StartedIsFinal, Busy, Final, Settle, SetStatus, Leave, env, people
<1>5. BusyRow'
  BY <1>1 DEF IInv, TypeOK, BusyRow, OneCaller, StartedIsFinal, EffectAtMostOnce, Busy, Final, Settle, SetStatus, Leave, env, people
<1>6. StartedIsFinal'
  BY <1>1 DEF IInv, TypeOK, StartedIsFinal, BusyRow, Final, Settle, SetStatus, Leave, env, people
<1>7. ConsentFirst'
  BY <1>1 DEF IInv, TypeOK, ConsentFirst, BusyRow, Final, Settle, SetStatus, Leave, env, people
<1>8. DeclinedIsClosed'
  BY <1>1 DEF IInv, TypeOK, DeclinedIsClosed, BusyRow, StartedIsFinal, Final, Settle, SetStatus, Leave, env, people
<1> QED
  BY <1>2, <1>3, <1>4, <1>5, <1>6, <1>7, <1>8 DEF IInv

LEMMA complete_externalStep ==
    ASSUME IInv, NEW c \in Callers, complete_external(c)
    PROVE  IInv'
<1>1. Proposes[c] \in Actions /\ Sensitive \subseteq Actions
  BY BrokerAssumption
<1> USE BrokerAssumption
<1>2. TypeOK'
  BY <1>1 DEF IInv, TypeOK, Statuses, Final, complete_external, SetStatus, Leave, env, people
<1>3. EffectAtMostOnce'
  BY <1>1 DEF IInv, TypeOK, EffectAtMostOnce, StartedIsFinal, Final, complete_external, SetStatus, Leave, env, people
<1>4. OneCaller'
  BY <1>1 DEF IInv, TypeOK, OneCaller, BusyRow, StartedIsFinal, Busy, Final, complete_external, SetStatus, Leave, env, people
<1>5. BusyRow'
  <2> SUFFICES ASSUME NEW d \in Callers
               PROVE  /\ at'[d] = "reviewing" =>
                           status'[Proposes[d]] = "none" /\ Proposes[d] \notin Sensitive
                      /\ at'[d] = "operating" =>
                           status'[Proposes[d]] \in {"executing", "invalidated"}
                      /\ at'[d] \in {"operating", "external"} => effects'[Proposes[d]] = 1
    BY DEF BusyRow
  <2>1. effects' = effects /\ (at'[d] \in Busy => d # c /\ at'[d] = at[d])
    BY DEF IInv, TypeOK, complete_external, Leave, Busy
  <2>2. CASE Proposes[d] = Proposes[c]
    BY <2>1, <2>2 DEF IInv, OneCaller, Busy, complete_external
  <2>3. CASE Proposes[d] # Proposes[c]
    <3>1. status'[Proposes[d]] = status[Proposes[d]]
      BY <1>1, <2>3 DEF IInv, TypeOK, complete_external, SetStatus
    <3> QED
      BY <2>1, <3>1 DEF IInv, BusyRow, Busy
  <2> QED
    BY <2>2, <2>3
<1>6. StartedIsFinal'
  BY <1>1 DEF IInv, TypeOK, StartedIsFinal, BusyRow, Final, complete_external, SetStatus, Leave, env, people
<1>7. ConsentFirst'
  BY <1>1 DEF IInv, TypeOK, ConsentFirst, BusyRow, Final, complete_external, SetStatus, Leave, env, people
<1>8. DeclinedIsClosed'
  BY <1>1 DEF IInv, TypeOK, DeclinedIsClosed, BusyRow, StartedIsFinal, Final, complete_external, SetStatus, Leave, env, people
<1> QED
  BY <1>2, <1>3, <1>4, <1>5, <1>6, <1>7, <1>8 DEF IInv

LEMMA AbandonStep ==
    ASSUME IInv, NEW c \in Callers, Abandon(c)
    PROVE  IInv'
<1>1. Proposes[c] \in Actions /\ Sensitive \subseteq Actions
  BY BrokerAssumption
<1> USE BrokerAssumption
<1>2. TypeOK'
  BY <1>1 DEF IInv, TypeOK, Statuses, Final, Abandon, Leave, row, env, people
<1>3. EffectAtMostOnce'
  BY <1>1 DEF IInv, TypeOK, EffectAtMostOnce, StartedIsFinal, Final, Abandon, Leave, row, env, people
<1>4. OneCaller'
  BY <1>1 DEF IInv, TypeOK, OneCaller, BusyRow, StartedIsFinal, Busy, Final, Abandon, Leave, row, env, people
<1>5. BusyRow'
  BY <1>1 DEF IInv, TypeOK, BusyRow, OneCaller, StartedIsFinal, EffectAtMostOnce, Busy, Final, Abandon, Leave, row, env, people
<1>6. StartedIsFinal'
  BY <1>1 DEF IInv, TypeOK, StartedIsFinal, BusyRow, Final, Abandon, Leave, row, env, people
<1>7. ConsentFirst'
  BY <1>1 DEF IInv, TypeOK, ConsentFirst, BusyRow, Final, Abandon, Leave, row, env, people
<1>8. DeclinedIsClosed'
  BY <1>1 DEF IInv, TypeOK, DeclinedIsClosed, BusyRow, StartedIsFinal, Final, Abandon, Leave, row, env, people
<1> QED
  BY <1>2, <1>3, <1>4, <1>5, <1>6, <1>7, <1>8 DEF IInv

LEMMA decideStep ==
    ASSUME IInv, NEW a \in Actions, NEW b \in BOOLEAN, decide(a, b)
    PROVE  IInv'
<1> USE BrokerAssumption
<1>1. TypeOK'
  BY DEF IInv, TypeOK, Statuses, Final, decide, SetStatus, callers, env
<1>2. EffectAtMostOnce'
  BY DEF IInv, TypeOK, EffectAtMostOnce, StartedIsFinal, Final, decide, SetStatus, callers, env
<1>3. OneCaller'
  BY DEF IInv, TypeOK, OneCaller, BusyRow, StartedIsFinal, Busy, Final, decide, SetStatus, callers, env
<1>4. BusyRow'
  BY DEF IInv, TypeOK, BusyRow, OneCaller, StartedIsFinal, EffectAtMostOnce, Busy, Final, decide, SetStatus, callers, env
<1>5. StartedIsFinal'
  BY DEF IInv, TypeOK, StartedIsFinal, BusyRow, Final, decide, SetStatus, callers, env
<1>6. ConsentFirst'
  BY DEF IInv, TypeOK, ConsentFirst, BusyRow, Final, decide, SetStatus, callers, env
<1>7. DeclinedIsClosed'
  BY DEF IInv, TypeOK, DeclinedIsClosed, BusyRow, StartedIsFinal, Final, decide, SetStatus, callers, env
<1> QED
  BY <1>1, <1>2, <1>3, <1>4, <1>5, <1>6, <1>7 DEF IInv

LEMMA invalidateStep ==
    ASSUME IInv, NEW A \in SUBSET Actions, invalidate(A)
    PROVE  IInv'
<1> USE BrokerAssumption
<1>1. TypeOK'
  BY DEF IInv, TypeOK, Statuses, Final, invalidate, Invalidated, callers, people
<1>2. EffectAtMostOnce'
  BY DEF IInv, TypeOK, EffectAtMostOnce, StartedIsFinal, Final, invalidate, Invalidated, callers, people
<1>3. OneCaller'
  BY DEF IInv, TypeOK, OneCaller, BusyRow, StartedIsFinal, Busy, Final, invalidate, Invalidated, callers, people
<1>4. BusyRow'
  BY DEF IInv, TypeOK, BusyRow, OneCaller, StartedIsFinal, EffectAtMostOnce, Busy, Final, invalidate, Invalidated, callers, people
<1>5. StartedIsFinal'
  BY DEF IInv, TypeOK, StartedIsFinal, BusyRow, Final, invalidate, Invalidated, callers, people
<1>6. ConsentFirst'
  BY DEF IInv, TypeOK, ConsentFirst, BusyRow, Final, invalidate, Invalidated, callers, people
<1>7. DeclinedIsClosed'
  BY DEF IInv, TypeOK, DeclinedIsClosed, BusyRow, StartedIsFinal, Final, invalidate, Invalidated, callers, people
<1> QED
  BY <1>1, <1>2, <1>3, <1>4, <1>5, <1>6, <1>7 DEF IInv

LEMMA RestartStep ==
    ASSUME IInv, Restart
    PROVE  IInv'
<1> USE BrokerAssumption
<1>1. TypeOK'
  BY DEF IInv, TypeOK, Statuses, Final, Restart, callers, env, people
<1>2. EffectAtMostOnce'
  BY DEF IInv, TypeOK, EffectAtMostOnce, StartedIsFinal, Final, Restart, callers, env, people
<1>3. OneCaller'
  BY DEF IInv, TypeOK, OneCaller, BusyRow, StartedIsFinal, Busy, Final, Restart, callers, env, people
<1>4. BusyRow'
  BY DEF IInv, TypeOK, BusyRow, OneCaller, StartedIsFinal, EffectAtMostOnce, Busy, Final, Restart, callers, env, people
<1>5. StartedIsFinal'
  BY DEF IInv, TypeOK, StartedIsFinal, BusyRow, Final, Restart, callers, env, people
<1>6. ConsentFirst'
  BY DEF IInv, TypeOK, ConsentFirst, BusyRow, Final, Restart, callers, env, people
<1>7. DeclinedIsClosed'
  BY DEF IInv, TypeOK, DeclinedIsClosed, BusyRow, StartedIsFinal, Final, Restart, callers, env, people
<1> QED
  BY <1>1, <1>2, <1>3, <1>4, <1>5, <1>6, <1>7 DEF IInv

LEMMA CrashStep ==
    ASSUME IInv, Crash
    PROVE  IInv'
<1> USE BrokerAssumption
<1>1. TypeOK'
  BY DEF IInv, TypeOK, Statuses, Final, Crash, row, env, people
<1>2. EffectAtMostOnce'
  BY DEF IInv, TypeOK, EffectAtMostOnce, StartedIsFinal, Final, Crash, row, env, people
<1>3. OneCaller'
  BY DEF IInv, TypeOK, OneCaller, BusyRow, StartedIsFinal, Busy, Final, Crash, row, env, people
<1>4. BusyRow'
  BY DEF IInv, TypeOK, BusyRow, OneCaller, StartedIsFinal, EffectAtMostOnce, Busy, Final, Crash, row, env, people
<1>5. StartedIsFinal'
  BY DEF IInv, TypeOK, StartedIsFinal, BusyRow, Final, Crash, row, env, people
<1>6. ConsentFirst'
  BY DEF IInv, TypeOK, ConsentFirst, BusyRow, Final, Crash, row, env, people
<1>7. DeclinedIsClosed'
  BY DEF IInv, TypeOK, DeclinedIsClosed, BusyRow, StartedIsFinal, Final, Crash, row, env, people
<1> QED
  BY <1>1, <1>2, <1>3, <1>4, <1>5, <1>6, <1>7 DEF IInv

\* Rules, reviewers, targets and the expiry of rows are no part of the invariant.
LEMMA QuietStep ==
    ASSUME IInv,
           UNCHANGED <<status, permit, model, verdictOf, up, at, held, asked, serial,
                       effects, approved, declined, ended>>,
           TypeOK'
    PROVE  IInv'
BY DEF IInv, EffectAtMostOnce, OneCaller, BusyRow, StartedIsFinal, ConsentFirst,
       DeclinedIsClosed

LEMMA EnvironmentStep ==
    ASSUME IInv,
           \/ \E a \in Actions : TargetChanges(a) \/ Expire(a)
           \/ \E a \in Actions, d \in {"none", "ALLOW", "BLOCK"} : SetRule(a, d)
           \/ ReviewerChanges
           \/ UNCHANGED vars
    PROVE  IInv'
<1>1. CASE \E a \in Actions : TargetChanges(a)
  BY <1>1, QuietStep DEF IInv, TypeOK, TargetChanges, row, callers, people
<1>2. CASE \E a \in Actions : Expire(a)
  BY <1>2, QuietStep DEF IInv, TypeOK, Expire, env, callers, people
<1>3. CASE \E a \in Actions, d \in {"none", "ALLOW", "BLOCK"} : SetRule(a, d)
  BY <1>3, QuietStep DEF IInv, TypeOK, SetRule, row, callers, people
<1>4. CASE ReviewerChanges
  BY <1>4, QuietStep DEF IInv, TypeOK, ReviewerChanges, row, callers, people
<1>5. CASE UNCHANGED vars
  BY <1>5, QuietStep DEF IInv, TypeOK, vars
<1> QED
  BY <1>1, <1>2, <1>3, <1>4, <1>5

-----------------------------------------------------------------------------
(* The invariant. *)

LEMMA InitInv == Init => IInv
BY BrokerAssumption
DEF Init, IInv, TypeOK, Statuses, EffectAtMostOnce, OneCaller, BusyRow, StartedIsFinal,
    ConsentFirst, DeclinedIsClosed, Busy

LEMMA NextInv == IInv /\ [Next]_vars => IInv'
<1> SUFFICES ASSUME IInv, [Next]_vars PROVE IInv'
  OBVIOUS
<1>1. ASSUME NEW c \in Callers, Adapter(c) PROVE IInv'
  BY <1>1, AuthorizeOutsideStep, AuthorizeApprovedStep, AuthorizeAgainStep,
     AuthorizeByHostStep, AskReviewerStep, ReviewerAnswersStep, ConsumeStep,
     ConsumeRefusedStep, SettleStep, complete_externalStep, AbandonStep DEF Adapter
<1>2. ASSUME NEW a \in Actions, decide(a, TRUE) \/ decide(a, FALSE) PROVE IInv'
  BY <1>2, decideStep
<1>3. CASE (\E A \in SUBSET Actions : invalidate(A)) \/ Crash \/ Restart
  BY <1>3, invalidateStep, CrashStep, RestartStep
<1> QED
  BY <1>1, <1>2, <1>3, EnvironmentStep DEF Next

LEMMA Invariant == Spec => []IInv
BY InitInv, NextInv, PTL DEF Spec

\* The rows, the callers and the histories are well typed.
THEOREM TypeCorrect == Spec => []TypeOK
BY Invariant, PTL DEF IInv

\* execute and consume_external start an operation at most once, across
\* concurrent callers, crashes and restarts.
THEOREM StartsAtMostOnce == Spec => []EffectAtMostOnce
BY Invariant, PTL DEF IInv

\* A consequential action starts only after a person approved it.
THEOREM SensitiveIsApproved == Spec => []SensitiveWasApproved
<1>1. IInv => SensitiveWasApproved
  BY DEF IInv, ConsentFirst, SensitiveWasApproved
<1> QED
  BY <1>1, Invariant, PTL

\* A declined action never starts.
THEOREM DeclinedIsFinal == Spec => []DeclinedNeverRuns
<1>1. IInv => DeclinedNeverRuns
  BY DEF IInv, DeclinedIsClosed, DeclinedNeverRuns
<1> QED
  BY <1>1, Invariant, PTL

-----------------------------------------------------------------------------
(* Rows and starts from one state to the next. *)

FinalKept == \A a \in Actions : status[a] \in Final => status'[a] \in Final

LEMMA AdapterKeepsFinal ==
    ASSUME IInv, NEW c \in Callers, Adapter(c)
    PROVE  FinalKept
<1>1. Proposes[c] \in Actions
  BY BrokerAssumption
<1>2. CASE AuthorizeOutside(c)
  BY <1>1, <1>2 DEF IInv, TypeOK, FinalKept, AuthorizeOutside, _record, SetStatus, Final
<1>3. CASE AuthorizeApproved(c) \/ AuthorizeAgain(c) \/ AuthorizeByHost(c)
  BY <1>1, <1>3
  DEF IInv, TypeOK, FinalKept, AuthorizeApproved, AuthorizeAgain, AuthorizeByHost,
      _record, Regrade, SetStatus, row, Final
<1>4. CASE ReviewerAnswers(c)
  BY <1>1, <1>4
  DEF IInv, TypeOK, BusyRow, FinalKept, ReviewerAnswers, _record, SetStatus, Final
<1>5. CASE Consume(c) \/ ConsumeRefused(c)
  BY <1>1, <1>5
  DEF IInv, TypeOK, FinalKept, Consume, ConsumeRefused, PermitHolds, Regrade,
      SetStatus, row, Final
<1>6. CASE Settle(c) \/ complete_external(c)
  BY <1>1, <1>6
  DEF IInv, TypeOK, FinalKept, Settle, complete_external, SetStatus, Final
<1>7. CASE AskReviewer(c) \/ Abandon(c)
  BY <1>7 DEF FinalKept, AskReviewer, Abandon, row
<1> QED
  BY <1>2, <1>3, <1>4, <1>5, <1>6, <1>7 DEF Adapter

LEMMA NextKeepsFinal ==
    ASSUME IInv, [Next]_vars
    PROVE  FinalKept
<1>1. CASE \E c \in Callers : Adapter(c)
  BY <1>1, AdapterKeepsFinal
<1>2. ASSUME NEW a \in Actions, NEW b \in BOOLEAN, decide(a, b) PROVE FinalKept
  BY <1>2 DEF IInv, TypeOK, FinalKept, decide, SetStatus, Final
<1>3. CASE \E A \in SUBSET Actions : invalidate(A)
  BY <1>3 DEF IInv, TypeOK, FinalKept, invalidate, Invalidated, Final
<1>4. CASE Restart
  BY <1>4 DEF IInv, TypeOK, FinalKept, Restart, Final
<1>5. CASE \/ \E a \in Actions : TargetChanges(a) \/ Expire(a)
           \/ \E a \in Actions, d \in {"none", "ALLOW", "BLOCK"} : SetRule(a, d)
           \/ ReviewerChanges \/ Crash \/ UNCHANGED vars
  BY <1>5 DEF FinalKept, TargetChanges, Expire, SetRule, ReviewerChanges, Crash, row, vars
<1> QED
  BY <1>1, <1>2, <1>3, <1>4, <1>5 DEF Next

\* Only a consumed permit starts an action.
LEMMA OnlyConsumeStarts ==
    ASSUME IInv, [Next]_vars
    PROVE  effects' = effects \/ \E c \in Callers : Consume(c)
BY DEF Next, Adapter, AuthorizeOutside, AuthorizeApproved, AuthorizeAgain, AuthorizeByHost,
       AskReviewer, ReviewerAnswers, ConsumeRefused, Settle, complete_external, Abandon,
       decide, invalidate, TargetChanges, Expire, SetRule, ReviewerChanges, Crash, Restart,
       vars

\* A refusal, an invalidation or a start is never undone.
THEOREM FinalIsFinal == Spec => FinalStaysFinal
<1>1. IInv /\ [Next]_vars =>
        [\A a \in Actions : status[a] \in Final => status'[a] \in Final]_vars
  BY NextKeepsFinal DEF FinalKept
<1> QED
  BY <1>1, Invariant, PTL DEF Spec, FinalStaysFinal

LEMMA ConsumeIsCurrent ==
    ASSUME IInv, NEW c \in Callers, Consume(c), NEW a \in Actions,
           effects'[a] # effects[a]
    PROVE  a \notin ended /\ (model[a] => verdictOf[a] = reviewer)
<1>1. a = Proposes[c]
  BY BrokerAssumption DEF IInv, TypeOK, Consume
<1> QED
  BY <1>1 DEF Consume, PermitHolds, validate, _reviewer_permit_valid

\* An action whose grant or session has ended does not start.
THEOREM EndedIsStopped == Spec => EndedNeverStarts
<1>1. IInv /\ [Next]_vars => [\A a \in ended : effects'[a] = effects[a]]_vars
  <2> SUFFICES ASSUME IInv, [Next]_vars, NEW a \in ended, effects'[a] # effects[a]
               PROVE  FALSE
    OBVIOUS
  <2> QED
    BY OnlyConsumeStarts, ConsumeIsCurrent DEF IInv, TypeOK
<1> QED
  BY <1>1, Invariant, PTL DEF Spec, EndedNeverStarts

\* A model's verdict starts nothing under another reviewer.
THEOREM StaleReviewerIsRefused == Spec => StaleReviewerNeverActs
<1>1. IInv /\ [Next]_vars =>
        [\A a \in Actions :
           effects'[a] # effects[a] /\ model[a] => verdictOf[a] = reviewer]_vars
  BY OnlyConsumeStarts, ConsumeIsCurrent
<1> QED
  BY <1>1, Invariant, PTL DEF Spec, StaleReviewerNeverActs

\* What is known of the end of an action is replaced by a refusal at most.
OutcomeKept ==
  \A a \in Actions : status[a] \in {"completed", "unknown"} =>
    status'[a] \in {status[a], "blocked"}

\* No adapter replaces a known outcome.
LEMMA AdapterKeepsOutcome ==
    ASSUME IInv, NEW c \in Callers, Adapter(c)
    PROVE  OutcomeKept
<1>1. Proposes[c] \in Actions
  BY BrokerAssumption
<1>2. CASE AuthorizeOutside(c)
  BY <1>1, <1>2 DEF IInv, TypeOK, OutcomeKept, AuthorizeOutside, _record, SetStatus
<1>3. CASE AuthorizeApproved(c) \/ AuthorizeAgain(c) \/ AuthorizeByHost(c)
  BY <1>1, <1>3
  DEF IInv, TypeOK, OutcomeKept, AuthorizeApproved, AuthorizeAgain, AuthorizeByHost,
      _record, Regrade, SetStatus, row
<1>4. CASE ReviewerAnswers(c)
  BY <1>1, <1>4
  DEF IInv, TypeOK, BusyRow, OutcomeKept, ReviewerAnswers, _record, SetStatus
<1>5. CASE Consume(c) \/ ConsumeRefused(c)
  BY <1>1, <1>5
  DEF IInv, TypeOK, OutcomeKept, Consume, ConsumeRefused, PermitHolds, Regrade,
      SetStatus, row
<1>6. CASE Settle(c) \/ complete_external(c)
  BY <1>1, <1>6
  DEF IInv, TypeOK, BusyRow, OutcomeKept, Settle, complete_external, SetStatus
<1>7. CASE AskReviewer(c) \/ Abandon(c)
  BY <1>7 DEF OutcomeKept, AskReviewer, Abandon, row
<1> QED
  BY <1>2, <1>3, <1>4, <1>5, <1>6, <1>7 DEF Adapter

\* Nor does a person, an ending grant or a restart.
LEMMA NextKeepsOutcome ==
    ASSUME IInv, [Next]_vars
    PROVE  OutcomeKept
<1>1. CASE \E c \in Callers : Adapter(c)
  BY <1>1, AdapterKeepsOutcome
<1>2. ASSUME NEW a \in Actions, NEW b \in BOOLEAN, decide(a, b) PROVE OutcomeKept
  BY <1>2 DEF IInv, TypeOK, OutcomeKept, decide, SetStatus
<1>3. CASE \E A \in SUBSET Actions : invalidate(A)
  BY <1>3 DEF IInv, TypeOK, OutcomeKept, invalidate, Invalidated
<1>4. CASE Restart
  BY <1>4 DEF IInv, TypeOK, OutcomeKept, Restart
<1>5. CASE \/ \E a \in Actions : TargetChanges(a) \/ Expire(a)
           \/ \E a \in Actions, d \in {"none", "ALLOW", "BLOCK"} : SetRule(a, d)
           \/ ReviewerChanges \/ Crash \/ UNCHANGED vars
  BY <1>5 DEF OutcomeKept, TargetChanges, Expire, SetRule, ReviewerChanges, Crash, row,
              vars
<1> QED
  BY <1>1, <1>2, <1>3, <1>4, <1>5 DEF Next

\* A known outcome is not rewritten by a late report, a restart or the ending
\* of a grant (complete_external, __init__, invalidate).
THEOREM OutcomesStay == Spec => OutcomeIsNotRewritten
<1>1. IInv /\ [Next]_vars =>
        [\A a \in Actions : status[a] \in {"completed", "unknown"} =>
           status'[a] \in {status[a], "blocked"}]_vars
  BY NextKeepsOutcome DEF OutcomeKept
<1> QED
  BY <1>1, Invariant, PTL DEF Spec, OutcomeIsNotRewritten

\* A grant or a session that ended has ended for good: none of its actions
\* starts later, and what became of one stays known.
THEOREM EndedStaysFinal == Spec => EndedIsFinal
BY TypeCorrect, EndedIsStopped, OutcomesStay, PTL DEF EndedIsFinal

-----------------------------------------------------------------------------
(* The broker implements ReviewedAction. *)

\* A step that starts and approves nothing closes the actions whose rows
\* become final, perhaps none.
LEMMA ClosesSome ==
    ASSUME IInv, FinalKept, effects' = effects, approved' = approved
    PROVE  Reviewed!Next
<1> DEFINE A == {a \in Actions : phase[a] = "open" /\ status'[a] \in Final}
<1>1. phase' = [a \in Actions |-> IF a \in A THEN "closed" ELSE phase[a]]
  BY DEF phase, FinalKept, IInv, TypeOK
<1>2. Reviewed!Close(A)
  BY <1>1 DEF Reviewed!Close
<1> QED
  BY <1>2 DEF Reviewed!Next

LEMMA ConsumeStartsIt ==
    ASSUME IInv, NEW c \in Callers, Consume(c)
    PROVE  Reviewed!Next
<1> DEFINE a == Proposes[c]
<1>1. a \in Actions
  BY BrokerAssumption
<1>2. status[a] = "permitted" /\ effects[a] = 0
  BY <1>1 DEF IInv, StartedIsFinal, Final, Consume, PermitHolds
<1>3. a \in Sensitive => a \in approved
  BY <1>2 DEF IInv, ConsentFirst
<1>4. effects' = [effects EXCEPT ![a] = 1]
  BY <1>1, <1>2 DEF Consume, IInv, TypeOK
<1>5. status' = [status EXCEPT ![a] = "executing"] /\ approved' = approved
  BY DEF Consume, SetStatus, people
<1>6. phase[a] = "open"
  BY <1>1, <1>2 DEF phase, Final
<1>7. phase' = [phase EXCEPT ![a] = "started"]
  <2> HIDE DEF a
  <2>1. effects'[a] = 1
    BY <1>1, <1>4 DEF IInv, TypeOK
  <2>2. \A b \in Actions : b # a => effects'[b] = effects[b] /\ status'[b] = status[b]
    BY <1>4, <1>5 DEF IInv, TypeOK
  <2>3. \A b \in Actions : phase'[b] = IF b = a THEN "started" ELSE phase[b]
    BY <2>1, <2>2 DEF phase
  <2>4. /\ phase' = [b \in Actions |-> phase'[b]]
        /\ phase = [b \in Actions |-> phase[b]]
    BY DEF phase
  <2> QED
    BY <2>3, <2>4, Zenon
<1>8. Reviewed!Start(a)
  BY <1>3, <1>5, <1>6, <1>7 DEF Reviewed!Start
<1> QED
  BY <1>1, <1>8 DEF Reviewed!Next

LEMMA decideApprovesIt ==
    ASSUME IInv, NEW a \in Actions, decide(a, TRUE)
    PROVE  Reviewed!Next
<1>1. phase[a] = "open"
  BY DEF phase, decide, IInv, StartedIsFinal, Final
<1>2. phase' = phase
  BY DEF phase, decide, SetStatus, IInv, TypeOK, Final
<1>3. Reviewed!Approve(a)
  BY <1>1, <1>2 DEF Reviewed!Approve, decide
<1> QED
  BY <1>3 DEF Reviewed!Next

\* The rest neither starts nor approves.
LEMMA OtherSteps ==
    ASSUME IInv, [Next]_vars
    PROVE  \/ \E c \in Callers : Consume(c)
           \/ \E a \in Actions : decide(a, TRUE)
           \/ effects' = effects /\ approved' = approved
BY DEF Next, Adapter, AuthorizeOutside, AuthorizeApproved, AuthorizeAgain, AuthorizeByHost,
       AskReviewer, ReviewerAnswers, ConsumeRefused, Settle, complete_external, Abandon,
       decide, invalidate, TargetChanges, Expire, SetRule, ReviewerChanges, Crash, Restart,
       people, vars

\* The broker, with its rows, locks, permits and restarts, does nothing that
\* ReviewedAction does not promise.
THEOREM BrokerImplementsReviewedAction == Spec => ImplementsReviewedAction
<1>1. Init => Reviewed!Init
  BY DEF Init, Reviewed!Init, phase, Final
<1>2. IInv /\ [Next]_vars => [Reviewed!Next]_<<phase, approved>>
  BY OtherSteps, ConsumeStartsIt, decideApprovesIt, ClosesSome, NextKeepsFinal
<1> QED
  BY <1>1, <1>2, Invariant, PTL DEF Spec, ImplementsReviewedAction, Reviewed!Spec
==============================================================================
