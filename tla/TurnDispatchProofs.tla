-------------------------- MODULE TurnDispatchProofs --------------------------
(***************************************************************************)
(* A prompt runs at most once, alone in its conversation and only as its     *)
(* user consented, for any follow-ups, request ids and connections.         *)
(***************************************************************************)
EXTENDS TurnDispatch, TLAPS

\* A sender is inside send().
Inside(s) == pc[s] # "idle"

\* The worker's tick knows its row, and is sending while it is inside send().
TickKnowsRow ==
  /\ wpc # "idle" => seen.row \in Queued
  /\ (wpc = "sending") <=> Inside(Worker)

\* A stopped host runs nothing.
DownIsQuiet == ~up => wpc = "idle" /\ \A s \in Senders : ~Inside(s)

\* The lock of the conversation is exclusive.
OneSender == \A s, t \in Senders : pc[s] \in Locked /\ pc[t] \in Locked => s = t

\* Before the task is written, the receipt is in preparation and no turn runs.
Preparing ==
  \A s \in Senders : pc[s] \in {"preparing", "attaching"} =>
    receipt[KeyOf(s)] = "preparing" /\ turn = {}

\* A native engine that is being started has not been given the prompt.
Starting ==
  \A s \in Senders : pc[s] = "starting" =>
    /\ receipt[KeyOf(s)] = "dispatched"
    /\ engine = "native" => ran[KeyOf(s)] = 0

\* A prompt that ran has its receipt, which nothing takes back.
RanIsDispatched == \A k \in Keys : ran[k] > 0 => receipt[k] = "dispatched"

SendInv == OneSender /\ Preparing /\ Starting /\ RanIsDispatched /\ RunsAtMostOnce /\ OneTurn

\* The row the tick read is as it was read until its revision changes.
SeenIsCurrent ==
  wpc \in {"check", "admit", "claim"} =>
    /\ seen.rev <= rev[seen.row]
    /\ rev[seen.row] = seen.rev =>
         status[seen.row] = "queued" /\ consent[seen.row] = seen.consent

\* The row that is dispatched stays so, with the consent that was read.
ClaimedRow ==
  wpc \in {"dispatch", "sending"} =>
    status[seen.row] = "dispatching" /\ consent[seen.row] = seen.consent

\* A row that is not under dispatch, nor dispatched, has not run.
OpenRows ==
  \A q \in Queued :
    status[q] \in {"none", "queued", "blocked", "cancelled"} /\ ran[q] > 0 => q \in ambiguous

AmbiguousRows == \A q \in ambiguous : status[q] \in {"blocked", "cancelled"}

RowInv == SeenIsCurrent /\ ClaimedRow /\ OpenRows /\ AmbiguousRows

IInv == TypeOK /\ TickKnowsRow /\ DownIsQuiet /\ SendInv /\ RowInv

-----------------------------------------------------------------------------
(* Facts about keys and the steps of send(). *)

LEMMA KeyInKeys ==
    ASSUME TypeOK, TickKnowsRow, NEW s \in Senders, Inside(s)
    PROVE  /\ KeyOf(s) \in Keys
           /\ s = Worker => KeyOf(s) = seen.row /\ seen.row \in Queued /\ wpc = "sending"
           /\ s # Worker => KeyOf(s) \in Direct
BY DispatchAssumption DEF TickKnowsRow, KeyOf, Keys, Senders

\* Which key another sender is sending does not change under a step of s that
\* leaves the tick alone or leaves send().
Apart(s) ==
  /\ \A t \in Senders \ {s} : pc'[t] = pc[t]
  /\ s # Worker => UNCHANGED <<wpc, seen>>
  /\ s = Worker => UNCHANGED <<wpc, seen>> \/ pc'[s] = "idle"

LEMMA KeyStays ==
    ASSUME NEW s \in Senders, Apart(s), NEW t \in Senders, t # s \/ pc'[s] # "idle"
    PROVE  KeyOf(t)' = KeyOf(t)
BY DispatchAssumption DEF Apart, KeyOf, Senders

LEMMA LeaveFacts ==
    ASSUME TypeOK, NEW s \in Senders, NEW ok, NEW r, Leave(s, ok, r)
    PROVE  /\ pc'[s] = "idle" /\ Apart(s)
           /\ pc' = [pc EXCEPT ![s] = "idle"]
           /\ line' = line
BY DEF Leave, Apart, TypeOK, GiveUp, Settle, tick, queue

LEMMA NotRun ==
    ASSUME TypeOK, RanIsDispatched, NEW k \in Keys, receipt[k] # "dispatched"
    PROVE  ran[k] = 0
<1>1. ran[k] \in Nat /\ ~(ran[k] > 0)
  BY DEF TypeOK, RanIsDispatched
<1> QED
  BY <1>1

LEMMA WriteTyped ==
    ASSUME TypeOK, NEW q \in Queued, NEW s \in PENDING \cup {"none", "dispatched", "cancelled"},
           NEW c \in Nat, Write(q, s, c)
    PROVE  /\ status' \in [Queued -> PENDING \cup {"none", "dispatched", "cancelled"}]
           /\ rev' \in [Queued -> Nat] /\ consent' \in [Queued -> Nat]
BY DEF TypeOK, Write

-----------------------------------------------------------------------------
(* One lemma per group of operations: it preserves the invariant. *)

\* What users do to rows while nothing of the dispatch moves.
RowOperation ==
  \E q \in Queued : enqueue(q) \/ cancel(q) \/ renew(q) \/ ConsentExpires(q)

LEMMA RowFrame ==
    ASSUME TypeOK, RowOperation
    PROVE  /\ UNCHANGED <<binding, receipt, turn, made, ran, engine, up, wpc, pc, faults>>
           /\ seen' \in [row : {seen.row}, rev : {seen.rev}, consent : {seen.consent, 0}]
BY DEF RowOperation, enqueue, cancel, renew, ConsentExpires, ledger, tick, TypeOK

LEMMA RowTypes ==
    ASSUME TypeOK, RowOperation
    PROVE  TypeOK'
<1>1. PICK q \in Queued : enqueue(q) \/ cancel(q) \/ renew(q) \/ ConsentExpires(q)
  BY DEF RowOperation
<1>2. seen' \in [row : Queued \cup {"none"}, rev : Nat, consent : Nat]
  BY RowFrame DEF TypeOK
<1>3. CASE enqueue(q)
  <2>1. line' \in Seq(Queued)
    BY <1>3 DEF enqueue, TypeOK
  <2> QED
    BY <1>2, <1>3, <2>1, RowFrame, SMTT(30) DEF enqueue, Write, TypeOK, PENDING
<1>4. CASE cancel(q) \/ renew(q)
  <2>1. PICK s \in {"cancelled", "queued"}, c \in Nat :
          Write(q, s, c) /\ UNCHANGED <<line, ambiguous>>
    BY <1>4 DEF cancel, renew, TypeOK
  <2>2. s \in PENDING \cup {"none", "dispatched", "cancelled"}
    BY DEF PENDING
  <2>3. /\ status' \in [Queued -> PENDING \cup {"none", "dispatched", "cancelled"}]
        /\ rev' \in [Queued -> Nat] /\ consent' \in [Queued -> Nat]
    BY <2>1, <2>2, WriteTyped
  <2> QED
    BY <1>2, <2>1, <2>3, RowFrame DEF TypeOK
<1>5. CASE ConsentExpires(q)
  BY <1>2, <1>5, RowFrame DEF ConsentExpires, TypeOK
<1> QED
  BY <1>1, <1>3, <1>4, <1>5

LEMMA RowRows ==
    ASSUME TypeOK, TickKnowsRow, RowInv, RowOperation
    PROVE  RowInv'
<1>1. PICK q \in Queued : enqueue(q) \/ cancel(q) \/ renew(q) \/ ConsentExpires(q)
  BY DEF RowOperation
<1>2. CASE enqueue(q)
  BY <1>2 DEF enqueue, Write, TypeOK, TickKnowsRow, RowInv, SeenIsCurrent, ClaimedRow,
     OpenRows, AmbiguousRows, ledger, tick
<1>3. CASE cancel(q)
  BY <1>3 DEF cancel, Write, TypeOK, TickKnowsRow, RowInv, SeenIsCurrent, ClaimedRow,
     OpenRows, AmbiguousRows, ledger, tick
<1>4. CASE renew(q)
  BY <1>4 DEF renew, Write, TypeOK, TickKnowsRow, RowInv, SeenIsCurrent, ClaimedRow,
     OpenRows, AmbiguousRows, ledger, tick
<1>5. CASE ConsentExpires(q)
  BY <1>5 DEF ConsentExpires, TypeOK, TickKnowsRow, RowInv, SeenIsCurrent, ClaimedRow,
     OpenRows, AmbiguousRows, ledger
<1> QED
  BY <1>1, <1>2, <1>3, <1>4, <1>5

\* The facts of send() are about receipts, turns and senders, and the key the
\* worker sends.
LEMMA SendFrame ==
    ASSUME SendInv, UNCHANGED <<receipt, turn, ran, engine, pc>>, seen'.row = seen.row
    PROVE  SendInv'
<1>1. \A s : KeyOf(s)' = KeyOf(s)
  BY DEF KeyOf
<1> QED
  BY <1>1 DEF SendInv, OneSender, Preparing, Starting, RanIsDispatched, RunsAtMostOnce,
     OneTurn, Locked

LEMMA RowStep ==
    ASSUME IInv, RowOperation
    PROVE  IInv'
<1>1. seen'.row = seen.row
  BY RowFrame DEF IInv
<1>2. TypeOK' /\ RowInv' /\ SendInv'
  BY <1>1, RowFrame, RowTypes, RowRows, SendFrame DEF IInv
<1>3. TickKnowsRow' /\ DownIsQuiet'
  BY <1>1, RowFrame DEF IInv, TickKnowsRow, DownIsQuiet, Inside
<1> QED
  BY <1>2, <1>3 DEF IInv

LEMMA BindingStep ==
    ASSUME IInv, BindingChanges
    PROVE  IInv'
<1>1. UNCHANGED <<line, status, rev, ambiguous, consent, receipt, turn, made, ran, engine,
                  up, wpc, seen, pc, faults>>
  BY DEF BindingChanges, queue, ledger, tick
<1>2. SendInv'
  BY <1>1, SendFrame DEF IInv
<1>3. TypeOK'
  BY <1>1 DEF IInv, BindingChanges, TypeOK
<1> QED
  BY <1>1, <1>2, <1>3 DEF IInv, TickKnowsRow, DownIsQuiet, Inside, RowInv, SeenIsCurrent,
     ClaimedRow, OpenRows, AmbiguousRows

\* The tick: it gives its row up, or goes on to the next check with it.
LEMMA ReadHeadStep ==
    ASSUME IInv, ReadHead
    PROVE  IInv'
<1>1. PICK q \in Queued :
        /\ status[q] = "queued"
        /\ seen' = [row |-> q, rev |-> rev[q], consent |-> consent[q]]
  BY DEF ReadHead
<1>2. /\ UNCHANGED <<line, status, rev, ambiguous, consent, binding, receipt, turn, made, ran,
                     engine, up, pc, faults>>
      /\ up /\ wpc = "idle" /\ wpc' = "check"
  BY DEF ReadHead, queue, ledger
<1>3. TypeOK'
  BY <1>1, <1>2 DEF IInv, TypeOK
<1>4. ~Inside(Worker)
  BY <1>2 DEF IInv, TickKnowsRow
<1>5. \A s \in Senders : Inside(s) => KeyOf(s)' = KeyOf(s)
  BY <1>4 DEF KeyOf
<1>6. SendInv'
  BY <1>2, <1>5 DEF IInv, SendInv, OneSender, Preparing, Starting, RanIsDispatched,
     RunsAtMostOnce, OneTurn, Locked, Inside
<1>7. TickKnowsRow' /\ DownIsQuiet'
  BY <1>1, <1>2, <1>4 DEF IInv, TickKnowsRow, DownIsQuiet, Inside
<1>8. RowInv'
  BY <1>1, <1>2 DEF IInv, TypeOK, RowInv, SeenIsCurrent, ClaimedRow, OpenRows, AmbiguousRows
<1> QED
  BY <1>3, <1>6, <1>7, <1>8 DEF IInv

\* While no sender is at its key, the tick may forget or keep its row.
LEMMA TickSends ==
    ASSUME IInv, ~Inside(Worker), UNCHANGED <<receipt, turn, ran, engine>>,
           pc' = pc \/ (pc' = [pc EXCEPT ![Worker] = "calling"] /\ seen' = seen)
    PROVE  SendInv'
<1>1. \A s \in Senders : pc[s] \in Locked => s # Worker /\ KeyOf(s)' = KeyOf(s)
  BY DEF KeyOf, Inside, Locked
<1>2. \A s \in Senders : pc'[s] \in Locked => pc[s] \in Locked /\ pc'[s] = pc[s]
  BY DEF IInv, TypeOK, Locked
<1> QED
  BY <1>1, <1>2 DEF IInv, SendInv, OneSender, Preparing, Starting, RanIsDispatched,
     RunsAtMostOnce, OneTurn, Locked

LEMMA CheckReadyStep ==
    ASSUME IInv, CheckReady
    PROVE  IInv'
<1>1. /\ UNCHANGED <<line, ambiguous, binding, receipt, turn, made, ran, engine, up, pc, faults>>
      /\ up /\ wpc = "check" /\ seen.row \in Queued /\ ~Inside(Worker)
  BY DEF IInv, TickKnowsRow, CheckReady, queue, ledger
<1>2. SendInv'
  BY <1>1, TickSends
<1>3. TypeOK'
  <2>1. wpc' \in {"idle", "admit"} /\ seen' \in [row : Queued \cup {"none"}, rev : Nat, consent : Nat]
    BY DEF IInv, TypeOK, CheckReady, GiveUp, NoRow
  <2>2. UNCHANGED <<status, rev, consent>> \/ Write(seen.row, "blocked", seen.consent)
    BY DEF CheckReady, queue
  <2>3. seen.consent \in Nat /\ "blocked" \in PENDING \cup {"none", "dispatched", "cancelled"}
    BY DEF IInv, TypeOK, PENDING
  <2>4. /\ status' \in [Queued -> PENDING \cup {"none", "dispatched", "cancelled"}]
        /\ rev' \in [Queued -> Nat] /\ consent' \in [Queued -> Nat]
    BY <1>1, <2>2, <2>3, WriteTyped DEF IInv, TypeOK
  <2> QED
    BY <1>1, <2>1, <2>4 DEF IInv, TypeOK
<1>4. TickKnowsRow' /\ DownIsQuiet'
  BY <1>1 DEF IInv, TickKnowsRow, DownIsQuiet, Inside, CheckReady, GiveUp, NoRow
<1>5. RowInv'
  BY <1>1 DEF IInv, TypeOK, RowInv, SeenIsCurrent, ClaimedRow, OpenRows, AmbiguousRows,
     CheckReady, GiveUp, Write, queue
<1> QED
  BY <1>2, <1>3, <1>4, <1>5 DEF IInv

LEMMA CheckStep ==
    ASSUME IInv, CheckFails \/ CheckActive
    PROVE  IInv'
<1>1. /\ UNCHANGED <<line, status, rev, ambiguous, consent, binding, receipt, turn, made, ran,
                     engine, up, pc>>
      /\ up /\ wpc \in {"check", "admit"} /\ seen.row \in Queued /\ ~Inside(Worker)
      /\ faults' \in Nat
      /\ \/ wpc' = "idle" /\ seen' = NoRow
         \/ wpc' = "claim" /\ seen' = seen
  BY DEF IInv, TypeOK, TickKnowsRow, CheckFails, CheckActive, GiveUp, queue, ledger
<1>2. SendInv'
  BY <1>1, TickSends
<1>3. TypeOK'
  BY <1>1 DEF IInv, TypeOK, NoRow
<1>4. TickKnowsRow' /\ DownIsQuiet'
  BY <1>1 DEF IInv, TickKnowsRow, DownIsQuiet, Inside, NoRow
<1>5. RowInv'
  BY <1>1 DEF IInv, RowInv, SeenIsCurrent, ClaimedRow, OpenRows, AmbiguousRows
<1> QED
  BY <1>2, <1>3, <1>4, <1>5 DEF IInv

LEMMA ClaimStep ==
    ASSUME IInv, Claim
    PROVE  IInv'
<1>1. /\ UNCHANGED <<line, ambiguous, binding, receipt, turn, made, ran, engine, up, pc, faults>>
      /\ up /\ wpc = "claim" /\ seen.row \in Queued /\ ~Inside(Worker)
  BY DEF IInv, TickKnowsRow, Claim, queue, ledger
<1>2. SendInv'
  BY <1>1, TickSends
<1>3. TypeOK'
  <2>1. wpc' \in {"idle", "dispatch"} /\ seen' \in [row : Queued \cup {"none"}, rev : Nat, consent : Nat]
    BY DEF IInv, TypeOK, Claim, GiveUp, NoRow
  <2>2. UNCHANGED <<status, rev, consent>> \/ Write(seen.row, "dispatching", consent[seen.row])
    BY DEF Claim, queue
  <2>3. consent[seen.row] \in Nat
        /\ "dispatching" \in PENDING \cup {"none", "dispatched", "cancelled"}
    BY <1>1 DEF IInv, TypeOK, PENDING
  <2>4. /\ status' \in [Queued -> PENDING \cup {"none", "dispatched", "cancelled"}]
        /\ rev' \in [Queued -> Nat] /\ consent' \in [Queued -> Nat]
    BY <1>1, <2>2, <2>3, WriteTyped DEF IInv, TypeOK
  <2> QED
    BY <1>1, <2>1, <2>4 DEF IInv, TypeOK
<1>4. TickKnowsRow' /\ DownIsQuiet'
  BY <1>1 DEF IInv, TickKnowsRow, DownIsQuiet, Inside, Claim, GiveUp, NoRow
<1>5. RowInv'
  <2>1. CASE rev[seen.row] = seen.rev /\ status[seen.row] = "queued"
    <3>1. /\ wpc' = "dispatch" /\ seen' = seen
          /\ status' = [status EXCEPT ![seen.row] = "dispatching"]
          /\ consent' = [consent EXCEPT ![seen.row] = consent[seen.row]]
      BY <2>1 DEF Claim, Write
    <3>2. consent' = consent /\ consent[seen.row] = seen.consent
      BY <1>1, <2>1, <3>1 DEF IInv, TypeOK, RowInv, SeenIsCurrent
    <3>3. seen.row \notin ambiguous
      BY <2>1 DEF IInv, RowInv, AmbiguousRows
    <3> QED
      BY <1>1, <3>1, <3>2, <3>3 DEF IInv, TypeOK, RowInv, SeenIsCurrent, ClaimedRow, OpenRows,
         AmbiguousRows
  <2>2. CASE ~(rev[seen.row] = seen.rev /\ status[seen.row] = "queued")
    BY <1>1, <2>2 DEF IInv, RowInv, SeenIsCurrent, ClaimedRow, OpenRows, AmbiguousRows, Claim,
       GiveUp, queue
  <2> QED
    BY <2>1, <2>2
<1> QED
  BY <1>2, <1>3, <1>4, <1>5 DEF IInv

\* A settled row is dispatched, or it has not run, or nobody knows.
LEMMA SettleRows ==
    ASSUME TypeOK, RowInv, NEW q \in Queued, NEW ok \in BOOLEAN,
           NEW r \in {"none", "preparing", "dispatched"}, Settle(q, ok, r),
           status[q] = "dispatching", wpc' = "idle",
           r = "none" => ran'[q] = 0,
           \A p \in Queued \ {q} : ran'[p] = ran[p]
    PROVE  RowInv'
<1>1. AmbiguousRows'
  BY DEF TypeOK, RowInv, AmbiguousRows, Settle, Write
<1>2. OpenRows'
  <2> SUFFICES ASSUME NEW p \in Queued,
                      status'[p] \in {"none", "queued", "blocked", "cancelled"}, ran'[p] > 0
               PROVE  p \in ambiguous'
    BY DEF OpenRows
  <2>1. CASE p # q
    BY <2>1 DEF TypeOK, RowInv, OpenRows, Settle, Write
  <2>2. CASE p = q
    <3>1. status' = [status EXCEPT ![q] = IF ok \/ r = "dispatched" THEN "dispatched"
                                          ELSE "blocked"]
      BY DEF Settle, Write
    <3>2. ~ok /\ r # "dispatched"
      BY <2>2, <3>1 DEF TypeOK
    <3>3. r = "preparing"
      BY <2>2, <3>2
    <3> QED
      BY <2>2, <3>2, <3>3 DEF Settle
  <2> QED
    BY <2>1, <2>2
<1> QED
  BY <1>1, <1>2 DEF RowInv, SeenIsCurrent, ClaimedRow

LEMMA DispatchStep ==
    ASSUME IInv, Dispatch
    PROVE  IInv'
<1>1. /\ UNCHANGED <<binding, receipt, turn, made, ran, engine, up, faults>>
      /\ up /\ wpc = "dispatch" /\ seen.row \in Queued /\ seen.row \in Keys
      /\ ~Inside(Worker) /\ Worker \in Senders /\ status[seen.row] = "dispatching"
  BY DEF IInv, TickKnowsRow, RowInv, ClaimedRow, Dispatch, ledger, Senders, Keys
<1>2. CASE _ready
  <2>1. /\ wpc' = "sending" /\ pc' = [pc EXCEPT ![Worker] = "calling"]
        /\ UNCHANGED <<line, status, rev, ambiguous, consent, seen>>
    BY <1>2 DEF Dispatch, queue
  <2>2. SendInv'
    BY <1>1, <2>1, TickSends
  <2>3. TypeOK' /\ TickKnowsRow' /\ DownIsQuiet'
    BY <1>1, <2>1 DEF IInv, TypeOK, TickKnowsRow, DownIsQuiet, Inside, Locked
  <2>4. RowInv'
    BY <1>1, <2>1 DEF IInv, RowInv, SeenIsCurrent, ClaimedRow, OpenRows, AmbiguousRows
  <2> QED
    BY <2>2, <2>3, <2>4 DEF IInv
<1>3. CASE ~_ready
  <2>1. wpc' = "idle" /\ seen' = NoRow /\ pc' = pc
        /\ Settle(seen.row, FALSE, receipt[seen.row])
    BY <1>3 DEF Dispatch, GiveUp
  <2>2. SendInv'
    BY <1>1, <2>1, TickSends
  <2>3. TypeOK'
    BY <1>1, <2>1 DEF IInv, TypeOK, Settle, Write, NoRow, PENDING
  <2>4. TickKnowsRow' /\ DownIsQuiet'
    BY <1>1, <2>1 DEF IInv, TickKnowsRow, DownIsQuiet, Inside, NoRow
  <2>5. receipt[seen.row] = "none" => ran'[seen.row] = 0
    BY <1>1, NotRun DEF IInv, SendInv
  <2>6. receipt[seen.row] \in {"none", "preparing", "dispatched"}
    BY <1>1 DEF IInv, TypeOK
  <2>7. RowInv'
    BY <1>1, <2>1, <2>5, <2>6, SettleRows DEF IInv
  <2> QED
    BY <2>2, <2>3, <2>4, <2>7 DEF IInv
<1> QED
  BY <1>2, <1>3

-----------------------------------------------------------------------------
(* The steps of send() leave it, or stay inside. *)

RowsTyped ==
  /\ line \in Seq(Queued)
  /\ status \in [Queued -> PENDING \cup {"none", "dispatched", "cancelled"}]
  /\ rev \in [Queued -> Nat] /\ consent \in [Queued -> Nat]
  /\ ambiguous \subseteq Queued
  /\ wpc \in {"idle", "check", "admit", "claim", "dispatch", "sending"}
  /\ seen \in [row : Queued \cup {"none"}, rev : Nat, consent : Nat]
  /\ pc \in [Senders -> {"idle", "calling"} \cup Locked]

LEMMA LeaveTyped ==
    ASSUME TypeOK, TickKnowsRow, DownIsQuiet, NEW s \in Senders, Inside(s),
           NEW ok, NEW r, Leave(s, ok, r), up' = up
    PROVE  RowsTyped' /\ TickKnowsRow' /\ DownIsQuiet'
<1>1. Worker \in Senders /\ pc' = [pc EXCEPT ![s] = "idle"]
  BY DEF Senders, Leave
<1>2. CASE s = Worker
  <2>1. wpc' = "idle" /\ seen' = NoRow /\ Settle(seen.row, ok, r) /\ seen.row \in Queued
    BY <1>2, KeyInKeys DEF Leave, GiveUp
  <2> QED
    BY <1>1, <1>2, <2>1 DEF TypeOK, RowsTyped, TickKnowsRow, DownIsQuiet, Inside, Settle, Write,
       NoRow, PENDING
<1>3. CASE s # Worker
  BY <1>1, <1>3 DEF TypeOK, RowsTyped, TickKnowsRow, DownIsQuiet, Inside, Leave, queue, tick
<1> QED
  BY <1>2, <1>3

LEMMA LeaveRows ==
    ASSUME TypeOK, TickKnowsRow, RowInv, NEW s \in Senders, Inside(s), NEW ok \in BOOLEAN,
           NEW r \in {"none", "preparing", "dispatched"}, Leave(s, ok, r),
           r = "none" => ran'[KeyOf(s)] = 0,
           \A k \in Keys \ {KeyOf(s)} : ran'[k] = ran[k]
    PROVE  RowInv'
<1>1. CASE s = Worker
  <2>1. wpc' = "idle" /\ Settle(seen.row, ok, r) /\ seen.row \in Queued
        /\ KeyOf(s) = seen.row /\ status[seen.row] = "dispatching"
    BY <1>1, KeyInKeys DEF Leave, GiveUp, RowInv, ClaimedRow
  <2>2. \A p \in Queued \ {seen.row} : ran'[p] = ran[p]
    BY <2>1 DEF Keys
  <2> QED
    BY <2>1, <2>2, SettleRows
<1>2. CASE s # Worker
  <2>1. UNCHANGED <<status, rev, ambiguous, consent, wpc, seen>>
    BY <1>2 DEF Leave, queue, tick
  <2>2. \A p \in Queued : ran'[p] = ran[p]
    BY <1>2, KeyInKeys, DispatchAssumption DEF Keys
  <2> QED
    BY <2>1, <2>2 DEF RowInv, SeenIsCurrent, ClaimedRow, OpenRows, AmbiguousRows
<1> QED
  BY <1>1, <1>2

LEMMA StayKeeps ==
    ASSUME TypeOK, TickKnowsRow, DownIsQuiet, RowInv, NEW s \in Senders, Inside(s),
           NEW p \in {"calling"} \cup Locked, pc' = [pc EXCEPT ![s] = p],
           UNCHANGED <<queue, tick>>, up' = up,
           \A k \in Keys \ {KeyOf(s)} : ran'[k] = ran[k]
    PROVE  RowsTyped' /\ TickKnowsRow' /\ DownIsQuiet' /\ RowInv' /\ Apart(s)
<1>1. Worker \in Senders /\ UNCHANGED <<line, status, rev, ambiguous, consent, wpc, seen>>
  BY DEF Senders, queue, tick
<1>2. RowsTyped' /\ TickKnowsRow' /\ DownIsQuiet' /\ Apart(s)
  BY <1>1 DEF TypeOK, RowsTyped, TickKnowsRow, DownIsQuiet, Inside, Apart, Locked
<1>3. \A q \in Queued : status[q] # "dispatching" => ran'[q] = ran[q]
  BY KeyInKeys, DispatchAssumption DEF Keys, RowInv, ClaimedRow
<1>4. RowInv'
  BY <1>1, <1>3 DEF RowInv, SeenIsCurrent, ClaimedRow, OpenRows, AmbiguousRows
<1> QED
  BY <1>2, <1>4

\* Whoever leaves with the lock leaves nobody inside it.
LEMMA LockedLeaves ==
    ASSUME IInv, NEW s \in Senders, pc[s] \in Locked, Apart(s), pc'[s] = "idle",
           RanIsDispatched', RunsAtMostOnce', OneTurn'
    PROVE  SendInv'
<1>1. \A t \in Senders : pc'[t] \notin Locked
  BY DEF IInv, SendInv, OneSender, Apart, Locked
<1> QED
  BY <1>1 DEF SendInv, OneSender, Preparing, Starting, Locked

\* Whoever takes or keeps the lock has it alone.
LEMMA LockedStays ==
    ASSUME IInv, NEW s \in Senders, pc[s] \in Locked \/ LockFree, Apart(s), pc'[s] \in Locked,
           pc'[s] \in {"preparing", "attaching"} => receipt'[KeyOf(s)] = "preparing" /\ turn' = {},
           pc'[s] = "starting" =>
             receipt'[KeyOf(s)] = "dispatched" /\ (engine' = "native" => ran'[KeyOf(s)] = 0),
           RanIsDispatched', RunsAtMostOnce', OneTurn'
    PROVE  SendInv'
<1>1. \A t \in Senders : t # s => pc'[t] \notin Locked
  BY DEF IInv, SendInv, OneSender, Apart, LockFree
<1>2. KeyOf(s)' = KeyOf(s)
  BY KeyStays DEF Locked
<1> QED
  BY <1>1, <1>2 DEF SendInv, OneSender, Preparing, Starting, Locked

LEMMA RefuseStep ==
    ASSUME IInv, NEW s \in Senders, Refuse(s)
    PROVE  IInv'
<1>1. PICK ok \in BOOLEAN : Leave(s, ok, receipt[KeyOf(s)])
  BY DEF Refuse
<1>2. /\ UNCHANGED <<binding, receipt, turn, made, ran, engine, up, faults>>
      /\ pc[s] = "calling" /\ Inside(s)
  BY DEF Refuse, ledger, At, Inside
<1>3. RowsTyped' /\ TickKnowsRow' /\ DownIsQuiet'
  BY <1>1, <1>2, LeaveTyped DEF IInv
<1>4. TypeOK'
  BY <1>2, <1>3 DEF IInv, TypeOK, RowsTyped
<1>5. receipt[KeyOf(s)] = "none" => ran'[KeyOf(s)] = 0
  BY <1>2, KeyInKeys, NotRun DEF IInv, SendInv
<1>6. RowInv'
  <2>1. receipt[KeyOf(s)] \in {"none", "preparing", "dispatched"}
    BY <1>2, KeyInKeys DEF IInv, TypeOK
  <2> QED
    BY <1>1, <1>2, <1>5, <2>1, LeaveRows DEF IInv
<1>7. Apart(s) /\ pc'[s] = "idle"
  BY <1>1, LeaveFacts DEF IInv
<1>8. \A t \in Senders : pc'[t] \in Locked => t # s /\ pc[t] = pc'[t] /\ KeyOf(t)' = KeyOf(t)
  BY <1>7, KeyStays DEF Apart, Locked
<1>9. SendInv'
  BY <1>2, <1>8 DEF IInv, SendInv, OneSender, Preparing, Starting, RanIsDispatched,
     RunsAtMostOnce, OneTurn, Locked
<1> QED
  BY <1>3, <1>4, <1>6, <1>9 DEF IInv

LEMMA SendStep ==
    ASSUME IInv, NEW c \in Clients, Send(c)
    PROVE  IInv'
<1>1. /\ UNCHANGED <<line, status, rev, ambiguous, consent, binding, receipt, turn, made, ran,
                     engine, up, wpc, seen, faults>>
      /\ up /\ c \in Senders /\ c # Worker /\ pc' = [pc EXCEPT ![c] = "calling"]
  BY DispatchAssumption DEF Send, At, queue, ledger, tick, Senders
<1>2. TypeOK'
  BY <1>1 DEF IInv, TypeOK
<1>3. TickKnowsRow' /\ DownIsQuiet'
  BY <1>1 DEF IInv, TypeOK, TickKnowsRow, DownIsQuiet, Inside, Senders
<1>4. RowInv'
  BY <1>1 DEF IInv, RowInv, SeenIsCurrent, ClaimedRow, OpenRows, AmbiguousRows
<1>5. \A t \in Senders : KeyOf(t)' = KeyOf(t) /\ (pc'[t] \in Locked => pc'[t] = pc[t])
  BY <1>1 DEF IInv, TypeOK, KeyOf, Locked
<1>6. SendInv'
  BY <1>1, <1>5 DEF IInv, SendInv, OneSender, Preparing, Starting, RanIsDispatched,
     RunsAtMostOnce, OneTurn, Locked
<1> QED
  BY <1>2, <1>3, <1>4, <1>6 DEF IInv

-----------------------------------------------------------------------------
(* The steps of send() under the lock. *)

\* What a step under the lock may write of the ledger.
LedgerTyped ==
  /\ receipt \in [Keys -> {"none", "preparing", "dispatched"}] /\ turn \subseteq Keys
  /\ faults \in Nat /\ made \in [Keys -> Nat] /\ ran \in [Keys -> Nat]

LedgerInv == LedgerTyped /\ RanIsDispatched /\ RunsAtMostOnce /\ OneTurn

LEMMA LeaveStep ==
    ASSUME IInv, NEW s \in Senders, pc[s] \in Locked, NEW ok \in BOOLEAN,
           NEW r \in {"none", "preparing", "dispatched"}, Leave(s, ok, r),
           UNCHANGED <<binding, engine, up>>,
           r = "none" => ran'[KeyOf(s)] = 0,
           \A k \in Keys \ {KeyOf(s)} : ran'[k] = ran[k],
           LedgerInv'
    PROVE  IInv'
<1>1. Inside(s) /\ Apart(s) /\ pc'[s] = "idle"
  BY LeaveFacts DEF IInv, Inside, Locked
<1>2. RowsTyped' /\ TickKnowsRow' /\ DownIsQuiet'
  BY <1>1, LeaveTyped DEF IInv
<1>3. RowInv'
  BY <1>1, LeaveRows DEF IInv
<1>4. SendInv'
  BY <1>1, LockedLeaves DEF LedgerInv
<1>5. TypeOK'
  BY <1>2 DEF IInv, TypeOK, RowsTyped, LedgerInv, LedgerTyped
<1> QED
  BY <1>2, <1>3, <1>4, <1>5 DEF IInv

LEMMA StayStep ==
    ASSUME IInv, NEW s \in Senders, Inside(s), pc[s] \in Locked \/ LockFree,
           NEW p \in Locked, pc' = [pc EXCEPT ![s] = p], UNCHANGED <<queue, tick>>,
           UNCHANGED <<binding, engine, up>>,
           \A k \in Keys \ {KeyOf(s)} : ran'[k] = ran[k],
           p \in {"preparing", "attaching"} => receipt'[KeyOf(s)] = "preparing" /\ turn' = {},
           p = "starting" =>
             receipt'[KeyOf(s)] = "dispatched" /\ (engine = "native" => ran'[KeyOf(s)] = 0),
           LedgerInv'
    PROVE  IInv'
<1>1. RowsTyped' /\ TickKnowsRow' /\ DownIsQuiet' /\ RowInv' /\ Apart(s)
  BY StayKeeps DEF IInv
<1>2. pc'[s] = p
  BY DEF IInv, TypeOK
<1>3. SendInv'
  BY <1>1, <1>2, LockedStays DEF LedgerInv
<1>4. TypeOK'
  BY <1>1 DEF IInv, TypeOK, RowsTyped, LedgerInv, LedgerTyped
<1> QED
  BY <1>1, <1>3, <1>4 DEF IInv

\* Under the lock, before a task is known to exist, nothing of the key ran.
LEMMA UnderLock ==
    ASSUME IInv, NEW s \in Senders, pc[s] \in {"preparing", "attaching"}
    PROVE  /\ pc[s] \in Locked /\ Inside(s) /\ KeyOf(s) \in Keys
           /\ receipt[KeyOf(s)] = "preparing" /\ turn = {} /\ ran[KeyOf(s)] = 0
<1>1. pc[s] \in Locked /\ Inside(s)
  BY DEF Locked, Inside
<1>2. KeyOf(s) \in Keys
  BY <1>1, KeyInKeys DEF IInv
<1>3. receipt[KeyOf(s)] = "preparing" /\ turn = {}
  BY DEF IInv, SendInv, Preparing
<1>4. ran[KeyOf(s)] = 0
  BY <1>2, <1>3, NotRun DEF IInv, SendInv
<1> QED
  BY <1>1, <1>2, <1>3, <1>4

LEMMA PrepareStep ==
    ASSUME IInv, NEW s \in Senders, Prepare(s)
    PROVE  IInv'
<1>1. /\ UNCHANGED <<binding, turn, made, ran, engine, up, faults>> /\ UNCHANGED <<queue, tick>>
      /\ Inside(s) /\ LockFree /\ turn = {} /\ receipt[KeyOf(s)] = "none"
      /\ receipt' = [receipt EXCEPT ![KeyOf(s)] = "preparing"]
      /\ pc' = [pc EXCEPT ![s] = "preparing"] /\ "preparing" \in Locked
  BY DEF Prepare, At, Inside, Locked
<1>2. KeyOf(s) \in Keys
  BY <1>1, KeyInKeys DEF IInv
<1>3. ran[KeyOf(s)] = 0
  BY <1>1, <1>2, NotRun DEF IInv, SendInv
<1>4. LedgerInv'
  BY <1>1, <1>2, <1>3 DEF IInv, TypeOK, SendInv, LedgerInv, LedgerTyped, RanIsDispatched,
     RunsAtMostOnce, OneTurn
<1>5. receipt'[KeyOf(s)] = "preparing"
  BY <1>1, <1>2 DEF IInv, TypeOK
<1> QED
  BY <1>1, <1>4, <1>5, StayStep

LEMMA PrepareFailsStep ==
    ASSUME IInv, NEW s \in Senders, PrepareFails(s)
    PROVE  IInv'
<1>1. /\ UNCHANGED <<binding, turn, made, ran, engine, up, faults>>
      /\ receipt' = [receipt EXCEPT ![KeyOf(s)] = "none"]
      /\ pc[s] = "preparing" /\ Leave(s, FALSE, "none")
  BY DEF PrepareFails, At
<1>2. pc[s] \in Locked /\ KeyOf(s) \in Keys /\ ran[KeyOf(s)] = 0
  BY <1>1, UnderLock
<1>3. LedgerInv'
  BY <1>1, <1>2 DEF IInv, TypeOK, SendInv, LedgerInv, LedgerTyped, RanIsDispatched,
     RunsAtMostOnce, OneTurn
<1> QED
  BY <1>1, <1>2, <1>3, LeaveStep

\* A prompt that has not run may run now under its receipt.
LEMMA RunsNow ==
    ASSUME TypeOK, RanIsDispatched, RunsAtMostOnce, NEW k \in Keys, ran[k] = 0,
           receipt'[k] = "dispatched", \A j \in Keys \ {k} : receipt'[j] = receipt[j],
           ran' = ran \/ ran' = [ran EXCEPT ![k] = @ + 1]
    PROVE  ran' \in [Keys -> Nat] /\ RanIsDispatched' /\ RunsAtMostOnce'
<1>1. ran \in [Keys -> Nat]
  BY DEF TypeOK
<1>2. ran' \in [Keys -> Nat]
  BY <1>1
<1>3. \A j \in Keys : (j = k /\ ran'[j] \in {0, 1}) \/ (j # k /\ ran'[j] = ran[j])
  BY <1>1
<1> QED
  BY <1>1, <1>2, <1>3 DEF RanIsDispatched, RunsAtMostOnce

\* A task is created with its receipt and its turn.
LEMMA Created ==
    ASSUME IInv, NEW k \in Keys, turn = {}, ran[k] = 0, UNCHANGED faults,
           made' = [made EXCEPT ![k] = @ + 1],
           receipt' = [receipt EXCEPT ![k] = "dispatched"], turn' = turn \cup {k},
           ran' = ran \/ ran' = [ran EXCEPT ![k] = @ + 1]
    PROVE  LedgerInv' /\ receipt'[k] = "dispatched"
<1>1. /\ receipt' \in [Keys -> {"none", "preparing", "dispatched"}]
      /\ made' \in [Keys -> Nat] /\ faults' \in Nat /\ turn' \subseteq Keys
      /\ receipt'[k] = "dispatched" /\ \A j \in Keys \ {k} : receipt'[j] = receipt[j]
  BY DEF IInv, TypeOK
<1>2. turn' = {k}
  OBVIOUS
<1>3. OneTurn'
  BY <1>2 DEF OneTurn
<1>4. ran' \in [Keys -> Nat] /\ RanIsDispatched' /\ RunsAtMostOnce'
  BY <1>1, RunsNow DEF IInv, SendInv
<1> QED
  BY <1>1, <1>3, <1>4 DEF LedgerInv, LedgerTyped

LEMMA CreateInternalStep ==
    ASSUME IInv, NEW s \in Senders, CreateInternal(s)
    PROVE  IInv'
<1> DEFINE k == KeyOf(s)
<1>1. /\ UNCHANGED <<binding, engine, up, faults>>
      /\ pc[s] = "preparing" /\ engine = "internal"
      /\ made' = [made EXCEPT ![k] = @ + 1]
      /\ receipt' = [receipt EXCEPT ![k] = "dispatched"]
      /\ turn' = turn \cup {k}
  BY DEF CreateInternal, At
<1>2. pc[s] \in Locked /\ Inside(s) /\ k \in Keys /\ ran[k] = 0 /\ turn = {}
  BY <1>1, UnderLock
<1> HIDE DEF k
<1>3. CASE /\ ran' = [ran EXCEPT ![k] = @ + 1]
           /\ pc' = [pc EXCEPT ![s] = "starting"] /\ UNCHANGED <<queue, tick>>
  <2>1. LedgerInv' /\ receipt'[k] = "dispatched"
    BY <1>1, <1>2, <1>3, Created
  <2>2. \A j \in Keys \ {k} : ran'[j] = ran[j]
    BY <1>3 DEF IInv, TypeOK
  <2>3. "starting" \in Locked /\ engine # "native"
    BY <1>1 DEF Locked
  <2> QED
    BY <1>1, <1>2, <1>3, <2>1, <2>2, <2>3, StayStep DEF k
<1>4. CASE UNCHANGED ran /\ Leave(s, FALSE, "dispatched")
  <2>1. LedgerInv'
    BY <1>1, <1>2, <1>4, Created
  <2> QED
    BY <1>1, <1>2, <1>4, <2>1, LeaveStep DEF k
<1> QED
  BY <1>3, <1>4 DEF CreateInternal, k

LEMMA CreateFailsStep ==
    ASSUME IInv, NEW s \in Senders, CreateFails(s)
    PROVE  IInv'
<1> DEFINE k == KeyOf(s)
           r == IF engine = "internal" THEN "none" ELSE "preparing"
<1>1. /\ UNCHANGED <<binding, turn, ran, engine, up>> /\ faults' = faults + 1
      /\ pc[s] \in {"preparing", "attaching"}
      /\ made' = [made EXCEPT ![k] = @ + 1]
      /\ receipt' = [receipt EXCEPT ![k] = r]
      /\ Leave(s, FALSE, r) /\ r \in {"none", "preparing", "dispatched"}
  BY DEF CreateFails, At
<1>2. pc[s] \in Locked /\ k \in Keys /\ ran[k] = 0
  BY <1>1, UnderLock
<1> HIDE DEF k, r
<1>3. LedgerInv'
  BY <1>1, <1>2 DEF IInv, TypeOK, SendInv, LedgerInv, LedgerTyped, RanIsDispatched,
     RunsAtMostOnce, OneTurn
<1> QED
  BY <1>1, <1>2, <1>3, LeaveStep DEF k

\* What holds of the ledger holds on while nobody writes it.
LEMMA LedgerStays ==
    ASSUME IInv, UNCHANGED <<receipt, made, ran, faults>>, turn' \in SUBSET turn
    PROVE  LedgerInv'
BY DEF IInv, TypeOK, SendInv, LedgerInv, LedgerTyped, RanIsDispatched, RunsAtMostOnce, OneTurn

LEMMA PlannedStep ==
    ASSUME IInv, NEW s \in Senders, Planned(s)
    PROVE  IInv'
<1>1. /\ UNCHANGED <<binding, receipt, turn, made, ran, engine, up, faults>>
      /\ pc[s] \in Locked /\ Leave(s, TRUE, "dispatched")
  BY DEF Planned, At, ledger, Locked
<1> QED
  BY <1>1, LedgerStays, LeaveStep

LEMMA AttachStep ==
    ASSUME IInv, NEW s \in Senders, Attach(s)
    PROVE  IInv'
<1>1. /\ UNCHANGED <<binding, receipt, turn, made, ran, engine, up, faults>>
      /\ UNCHANGED <<queue, tick>>
      /\ pc[s] = "preparing" /\ pc' = [pc EXCEPT ![s] = "attaching"] /\ "attaching" \in Locked
  BY DEF Attach, At, ledger, Locked
<1>2. pc[s] \in Locked /\ Inside(s) /\ receipt[KeyOf(s)] = "preparing" /\ turn = {}
  BY <1>1, UnderLock
<1> QED
  BY <1>1, <1>2, LedgerStays, StayStep

LEMMA AttachFailsStep ==
    ASSUME IInv, NEW s \in Senders, AttachFails(s)
    PROVE  IInv'
<1>1. /\ UNCHANGED <<binding, receipt, turn, made, ran, engine, up, faults>>
      /\ pc[s] \in Locked /\ Leave(s, FALSE, "preparing")
  BY DEF AttachFails, At, ledger, Locked
<1> QED
  BY <1>1, LedgerStays, LeaveStep

LEMMA CreateNativeStep ==
    ASSUME IInv, NEW s \in Senders, CreateNative(s)
    PROVE  IInv'
<1> DEFINE k == KeyOf(s)
<1>1. /\ UNCHANGED <<binding, ran, engine, up, faults>>
      /\ pc[s] = "attaching"
      /\ made' = [made EXCEPT ![k] = @ + 1]
      /\ receipt' = [receipt EXCEPT ![k] = "dispatched"]
      /\ turn' = turn \cup {k}
  BY DEF CreateNative, At
<1>2. pc[s] \in Locked /\ Inside(s) /\ k \in Keys /\ ran[k] = 0 /\ turn = {}
  BY <1>1, UnderLock
<1> HIDE DEF k
<1>3. LedgerInv' /\ receipt'[k] = "dispatched"
  BY <1>1, <1>2, Created
<1>4. CASE pc' = [pc EXCEPT ![s] = "starting"] /\ UNCHANGED <<queue, tick>>
  <2>1. "starting" \in Locked
    BY DEF Locked
  <2> QED
    BY <1>1, <1>2, <1>3, <1>4, <2>1, StayStep DEF k
<1>5. CASE Leave(s, FALSE, "dispatched")
  BY <1>1, <1>2, <1>3, <1>5, LeaveStep
<1> QED
  BY <1>4, <1>5 DEF CreateNative

LEMMA StartNativeStep ==
    ASSUME IInv, NEW s \in Senders, StartNative(s)
    PROVE  IInv'
<1> DEFINE k == KeyOf(s)
<1>1. /\ UNCHANGED <<binding, receipt, made, engine, up, faults>>
      /\ pc[s] = "starting" /\ pc[s] \in Locked /\ Inside(s) /\ engine = "native"
  BY DEF StartNative, At, Locked, Inside
<1>2. k \in Keys /\ receipt[k] = "dispatched" /\ ran[k] = 0
  BY <1>1, KeyInKeys DEF IInv, SendInv, Starting
<1>3. PICK ok \in BOOLEAN :
        /\ Leave(s, ok, "dispatched")
        /\ turn' \in SUBSET turn
        /\ ran' = ran \/ ran' = [ran EXCEPT ![k] = @ + 1]
  BY DEF StartNative
<1> HIDE DEF k
<1>4. LedgerInv'
  <2>1. ran' \in [Keys -> Nat] /\ RanIsDispatched' /\ RunsAtMostOnce'
    BY <1>1, <1>2, <1>3, RunsNow DEF IInv, SendInv
  <2>2. OneTurn'
    BY <1>3 DEF IInv, SendInv, OneTurn
  <2> QED
    BY <1>1, <1>3, <2>1, <2>2 DEF IInv, TypeOK, LedgerInv, LedgerTyped
<1>5. \A j \in Keys \ {k} : ran'[j] = ran[j]
  BY <1>3 DEF IInv, TypeOK
<1> QED
  BY <1>1, <1>3, <1>4, <1>5, LeaveStep DEF k

-----------------------------------------------------------------------------
(* The end of a turn, a crash and a restart. *)

LEMMA TurnEndsStep ==
    ASSUME IInv, NEW k \in Keys, TurnEnds(k)
    PROVE  IInv'
<1>1. /\ UNCHANGED <<line, status, rev, ambiguous, consent, binding, receipt, made, ran,
                     engine, up, wpc, seen, pc, faults>>
      /\ turn' = turn \ {k}
  BY DEF TurnEnds, queue, tick
<1>2. \A s \in Senders : KeyOf(s)' = KeyOf(s)
  BY <1>1 DEF KeyOf
<1>3. SendInv'
  BY <1>1, <1>2 DEF IInv, SendInv, OneSender, Preparing, Starting, RanIsDispatched,
     RunsAtMostOnce, OneTurn, Locked
<1>4. TypeOK'
  BY <1>1 DEF IInv, TypeOK
<1> QED
  BY <1>1, <1>3, <1>4 DEF IInv, TickKnowsRow, DownIsQuiet, Inside, RowInv, SeenIsCurrent,
     ClaimedRow, OpenRows, AmbiguousRows

LEMMA CrashStep ==
    ASSUME IInv, Crash
    PROVE  IInv'
<1>1. /\ UNCHANGED <<line, status, rev, ambiguous, consent, binding, turn, ran, engine>>
      /\ up' = FALSE /\ wpc' = "idle" /\ seen' = NoRow
      /\ pc' = [s \in Senders |-> "idle"] /\ Worker \in Senders
      /\ faults' = faults + 1
  BY DEF Crash, GiveUp, queue, Senders
<1>2. /\ made' \in [Keys -> Nat] /\ receipt' \in [Keys -> {"none", "preparing", "dispatched"}]
      /\ \A k \in Keys : receipt[k] = "dispatched" => receipt'[k] = "dispatched"
  <2>1. CASE UNCHANGED <<made, receipt>>
    BY <2>1 DEF IInv, TypeOK
  <2>2. ASSUME NEW s \in Senders,
               pc[s] = IF engine = "internal" THEN "preparing" ELSE "attaching",
               made' = [made EXCEPT ![KeyOf(s)] = @ + 1],
               receipt' \in {receipt, [receipt EXCEPT ![KeyOf(s)] = "dispatched"]}
        PROVE  /\ made' \in [Keys -> Nat]
               /\ receipt' \in [Keys -> {"none", "preparing", "dispatched"}]
               /\ \A k \in Keys : receipt[k] = "dispatched" => receipt'[k] = "dispatched"
    <3>1. pc[s] \in {"preparing", "attaching"}
      BY <2>2
    <3>2. KeyOf(s) \in Keys
      BY <3>1, UnderLock
    <3>3. /\ made \in [Keys -> Nat]
          /\ receipt \in [Keys -> {"none", "preparing", "dispatched"}]
      BY DEF IInv, TypeOK
    <3>4. made' \in [Keys -> Nat]
      BY <2>2, <3>2, <3>3
    <3>5. CASE receipt' = receipt
      BY <3>3, <3>4, <3>5
    <3>6. CASE receipt' = [receipt EXCEPT ![KeyOf(s)] = "dispatched"]
      BY <3>2, <3>3, <3>4, <3>6
    <3> QED
      BY <2>2, <3>5, <3>6
  <2> QED
    BY <2>1, <2>2 DEF Crash
<1>3. TypeOK'
  <2>1. /\ pc' \in [Senders -> {"idle", "calling"} \cup Locked]
        /\ seen' \in [row : Queued \cup {"none"}, rev : Nat, consent : Nat]
    BY <1>1 DEF NoRow
  <2>2. faults' \in Nat
    BY <1>1 DEF IInv, TypeOK
  <2>3. UNCHANGED <<line, status, rev, ambiguous, consent, binding, turn, engine, ran>>
        /\ wpc' = "idle" /\ up' \in BOOLEAN
    BY <1>1, Zenon
  <2> QED
    BY <1>2, <2>1, <2>2, <2>3 DEF IInv, TypeOK
<1>4. TickKnowsRow' /\ DownIsQuiet'
  BY <1>1 DEF TickKnowsRow, DownIsQuiet, Inside
<1>5. SendInv'
  BY <1>1, <1>2 DEF IInv, SendInv, OneSender, Preparing, Starting, RanIsDispatched,
     RunsAtMostOnce, OneTurn, Locked
<1>6. RowInv'
  BY <1>1 DEF IInv, RowInv, SeenIsCurrent, ClaimedRow, OpenRows, AmbiguousRows
<1> QED
  BY <1>3, <1>4, <1>5, <1>6 DEF IInv

LEMMA RestartStep ==
    ASSUME IInv, Restart
    PROVE  IInv'
<1> DEFINE lost == {q \in Queued : status[q] = "dispatching"}
           known == {q \in lost : receipt[q] = "dispatched"}
<1>1. /\ ~up /\ up' = TRUE
      /\ UNCHANGED <<line, consent, binding, receipt, engine, wpc, seen, pc, faults, made, ran>>
  BY DEF Restart, tick
<1>2. /\ status' = [q \in Queued |-> IF q \in known THEN "dispatched"
                                    ELSE IF q \in lost THEN "blocked" ELSE status[q]]
      /\ rev' = [q \in Queued |-> IF q \in lost THEN rev[q] + 1 ELSE rev[q]]
      /\ ambiguous' = ambiguous \cup (lost \ known)
  BY DEF Restart
<1>3. turn' \subseteq turn
  BY DEF Restart
<1>4. wpc = "idle" /\ \A s \in Senders : pc[s] = "idle"
  BY <1>1 DEF IInv, DownIsQuiet, Inside
<1>5. TypeOK'
  BY <1>1, <1>2, <1>3 DEF IInv, TypeOK, PENDING
<1>6. TickKnowsRow' /\ DownIsQuiet'
  BY <1>1, <1>4 DEF IInv, TickKnowsRow, DownIsQuiet, Inside
<1>7. SendInv'
  BY <1>1, <1>3, <1>4 DEF IInv, SendInv, OneSender, Preparing, Starting, RanIsDispatched,
     RunsAtMostOnce, OneTurn, Locked
<1>8. AmbiguousRows'
  BY <1>2 DEF IInv, TypeOK, RowInv, AmbiguousRows
<1>9. OpenRows'
  BY <1>1, <1>2 DEF IInv, RowInv, OpenRows
<1>10. RowInv'
  BY <1>1, <1>4, <1>8, <1>9 DEF RowInv, SeenIsCurrent, ClaimedRow
<1> QED
  BY <1>5, <1>6, <1>7, <1>10 DEF IInv

-----------------------------------------------------------------------------
(* The invariant of the specification. *)

LEMMA InitHolds == Init => IInv
<1> SUFFICES ASSUME Init PROVE IInv
  OBVIOUS
<1>1. Worker \in Senders
  BY DEF Senders
<1>2. line \in Seq(Queued) /\ seen \in [row : Queued \cup {"none"}, rev : Nat, consent : Nat]
  BY DEF Init, NoRow
<1>3. TypeOK
  BY <1>2 DEF Init, TypeOK, PENDING, Locked
<1>4. TickKnowsRow /\ DownIsQuiet
  BY <1>1 DEF Init, TickKnowsRow, DownIsQuiet, Inside
<1>5. SendInv
  BY DEF Init, SendInv, OneSender, Preparing, Starting, RanIsDispatched, RunsAtMostOnce, OneTurn,
     Locked
<1>6. RowInv
  BY DEF Init, RowInv, SeenIsCurrent, ClaimedRow, OpenRows, AmbiguousRows, Keys
<1> QED
  BY <1>3, <1>4, <1>5, <1>6 DEF IInv

LEMMA SendingStep ==
    ASSUME IInv, NEW s \in Senders, Sending(s)
    PROVE  IInv'
BY RefuseStep, PrepareStep, PrepareFailsStep, CreateInternalStep, CreateFailsStep, PlannedStep,
   AttachStep, AttachFailsStep, CreateNativeStep, StartNativeStep DEF Sending

LEMMA TickStep ==
    ASSUME IInv, Tick
    PROVE  IInv'
BY ReadHeadStep, CheckReadyStep, CheckStep, ClaimStep, DispatchStep DEF Tick

LEMMA StutterStep ==
    ASSUME IInv, UNCHANGED vars
    PROVE  IInv'
<1>1. UNCHANGED <<line, status, rev, ambiguous, consent, binding, receipt, turn, made, ran,
                  engine, up, wpc, seen, pc, faults>>
  BY DEF vars
<1>2. SendInv'
  BY <1>1, SendFrame DEF IInv
<1> QED
  BY <1>1, <1>2 DEF IInv, TypeOK, TickKnowsRow, DownIsQuiet, Inside, RowInv, SeenIsCurrent,
     ClaimedRow, OpenRows, AmbiguousRows

LEMMA NextKeeps == IInv /\ [Next]_vars => IInv'
<1> SUFFICES ASSUME IInv, [Next]_vars PROVE IInv'
  OBVIOUS
<1>1. CASE RowOperation
  BY <1>1, RowStep
<1>2. CASE BindingChanges \/ Tick
  BY <1>2, BindingStep, TickStep
<1>3. CASE \E s \in Senders : Sending(s)
  BY <1>3, SendingStep
<1>4. CASE (\E c \in Clients : Send(c)) \/ (\E k \in Keys : TurnEnds(k))
  BY <1>4, SendStep, TurnEndsStep
<1>5. CASE Crash \/ Restart
  BY <1>5, CrashStep, RestartStep
<1>6. CASE UNCHANGED vars
  BY <1>6, StutterStep
<1> QED
  BY <1>1, <1>2, <1>3, <1>4, <1>5, <1>6 DEF Next, RowOperation

LEMMA Invariant == Spec => []IInv
BY InitHolds, NextKeeps, PTL DEF Spec

\* Only a sender inside send() creates a task or hands over a prompt, each for
\* its own key, and a prompt only while its guard holds.
LEMMA OnlySendersRun ==
    ASSUME IInv, Next
    PROVE  \/ UNCHANGED <<made, ran>>
           \/ \E s \in Senders :
                /\ Inside(s) /\ (ran' = ran \/ Guard(s))
                /\ \A k \in Keys \ {KeyOf(s)} : made'[k] = made[k] /\ ran'[k] = ran[k]
<1>1. CASE RowOperation \/ BindingChanges \/ Restart
  BY <1>1, RowFrame DEF IInv, BindingChanges, Restart, ledger
<1>2. CASE Tick
  BY <1>2 DEF Tick, ReadHead, CheckReady, CheckFails, CheckActive, Claim, Dispatch, ledger
<1>3. CASE (\E c \in Clients : Send(c)) \/ (\E k \in Keys : TurnEnds(k))
  BY <1>3 DEF Send, TurnEnds, ledger
<1>4. CASE Crash
  BY <1>4 DEF Crash, IInv, TypeOK, Inside
<1>5. CASE \E s \in Senders : Sending(s)
  <2>1. PICK s \in Senders : Sending(s)
    BY <1>5
  <2>2. CASE Refuse(s) \/ Prepare(s) \/ PrepareFails(s) \/ Planned(s) \/ Attach(s)
             \/ AttachFails(s)
    BY <2>2 DEF Refuse, Prepare, PrepareFails, Planned, Attach, AttachFails, ledger
  <2>3. CASE CreateInternal(s)
    BY <2>3 DEF CreateInternal, IInv, TypeOK, At, Inside
  <2>4. CASE CreateFails(s) \/ CreateNative(s)
    BY <2>4 DEF CreateFails, CreateNative, IInv, TypeOK, At, Inside
  <2>5. CASE StartNative(s)
    BY <2>5 DEF StartNative, IInv, TypeOK, At, Inside
  <2> QED
    BY <2>1, <2>2, <2>3, <2>4, <2>5 DEF Sending
<1> QED
  BY <1>1, <1>2, <1>3, <1>4, <1>5 DEF Next, RowOperation

\* A follow-up is only ever worked on by the worker, after its row was claimed
\* and with the consent its claim was read with.
LEMMA FollowUpIsClaimed ==
    ASSUME IInv, NEW q \in Queued, NEW s \in Senders, Inside(s), KeyOf(s) = q
    PROVE  s = Worker /\ seen.row = q /\ status[q] = "dispatching" /\ consent[q] = seen.consent
<1>1. s = Worker /\ seen.row = q /\ wpc = "sending"
  BY KeyInKeys, DispatchAssumption DEF IInv
<1> QED
  BY <1>1 DEF IInv, RowInv, ClaimedRow

-----------------------------------------------------------------------------
(* The order of the queue: an invariant on top of IInv. *)

\* The rows of the line were enqueued, and the row in hand is the first of
\* those that are still pending; every row that was made is in the line.
LineKnown == \A i \in DOMAIN line : line[i] \in Queued /\ status[line[i]] # "none"

Done(p) == status[p] \in {"dispatched", "cancelled"}

EarlierAreDone ==
  wpc # "idle" =>
    status[seen.row] # "none" /\ \A p \in Before(seen.row) : p \in Queued /\ Done(p)

InLine == \A q \in Queued : status[q] # "none" => \E i \in DOMAIN line : line[i] = q

LineInv == LineKnown /\ EarlierAreDone /\ InLine

\* A step of send() settles the row of the worker, or writes none.
Settled ==
  \/ status' = status
  \/ /\ status[seen.row] = "dispatching"
     /\ status' = [status EXCEPT ![seen.row] = "dispatched"]
        \/ status' = [status EXCEPT ![seen.row] = "blocked"]

LEMMA RowIsSettled ==
    ASSUME IInv, NEW s \in Senders, Sending(s)
    PROVE  Settled
<1>1. Inside(s)
  BY DEF Sending, Refuse, Prepare, PrepareFails, CreateInternal, CreateFails, Planned,
     Attach, AttachFails, CreateNative, StartNative, At, Inside
<1>2. s = Worker => status[seen.row] = "dispatching"
  BY <1>1, KeyInKeys DEF IInv, RowInv, ClaimedRow
<1>3. ASSUME NEW ok, NEW r, Leave(s, ok, r)
      PROVE  Settled
  BY <1>2, <1>3 DEF Leave, Settle, Write, queue, Settled
<1>4. CASE Refuse(s)
  BY <1>3, <1>4 DEF Refuse
<1>5. CASE PrepareFails(s) \/ CreateFails(s)
  BY <1>3, <1>5 DEF PrepareFails, CreateFails
<1>6. CASE Planned(s) \/ AttachFails(s)
  BY <1>3, <1>6 DEF Planned, AttachFails
<1>7. CASE Prepare(s) \/ Attach(s)
  BY <1>7 DEF Prepare, Attach, queue, Settled
<1>8. CASE CreateInternal(s) \/ CreateNative(s)
  BY <1>3, <1>8 DEF CreateInternal, CreateNative, queue, Settled
<1>9. CASE StartNative(s)
  BY <1>3, <1>9 DEF StartNative
<1> QED
  BY <1>4, <1>5, <1>6, <1>7, <1>8, <1>9 DEF Sending

\* A row that was dispatched or cancelled stays so, and none is forgotten.
LEMMA DoneStays ==
    ASSUME IInv, Next, NEW p \in Queued
    PROVE  /\ Done(p) => status'[p] = status[p]
           /\ status[p] # "none" => status'[p] # "none"
<1>1. CASE RowOperation
  BY <1>1 DEF RowOperation, enqueue, cancel, renew, ConsentExpires, Write, IInv, TypeOK, Done
<1>2. CASE BindingChanges \/ ReadHead \/ CheckFails \/ CheckActive \/ Crash
           \/ (\E c \in Clients : Send(c)) \/ (\E k \in Keys : TurnEnds(k))
  BY <1>2 DEF BindingChanges, ReadHead, CheckFails, CheckActive, Crash, Send, TurnEnds, queue
<1>3. CASE CheckReady
  <2>1. status' = status \/ (/\ rev[seen.row] = seen.rev
                             /\ status' = [status EXCEPT ![seen.row] = "blocked"])
    BY <1>3 DEF CheckReady, Write, queue
  <2>2. rev[seen.row] = seen.rev => status[seen.row] = "queued"
    BY <1>3 DEF IInv, RowInv, SeenIsCurrent, CheckReady
  <2> QED
    BY <2>1, <2>2 DEF IInv, TypeOK, Done
<1>4. CASE Claim
  BY <1>4 DEF Claim, Write, queue, IInv, TypeOK, Done
<1>5. CASE Dispatch
  BY <1>5 DEF Dispatch, Settle, Write, queue, IInv, TypeOK, RowInv, ClaimedRow, Done
<1>6. CASE \E s \in Senders : Sending(s)
  BY <1>6, RowIsSettled DEF Settled, IInv, TypeOK, Done
<1>7. CASE Restart
  BY <1>7 DEF Restart, IInv, TypeOK, Done
<1> QED
  BY <1>1, <1>2, <1>3, <1>4, <1>5, <1>6, <1>7 DEF Next, RowOperation, Tick

\* A row is made by enqueue, which puts it at the end of the line.
LEMMA RowsAreEnqueued ==
    ASSUME IInv, Next, NEW p \in Queued, status[p] = "none", status'[p] # "none"
    PROVE  line' = Append(line, p)
<1>1. CASE RowOperation
  BY <1>1 DEF RowOperation, enqueue, cancel, renew, ConsentExpires, Write, IInv, TypeOK
<1>2. CASE BindingChanges \/ ReadHead \/ CheckFails \/ CheckActive \/ Crash
           \/ (\E c \in Clients : Send(c)) \/ (\E k \in Keys : TurnEnds(k))
  BY <1>2 DEF BindingChanges, ReadHead, CheckFails, CheckActive, Crash, Send, TurnEnds, queue
<1>3. CASE CheckReady
  <2>1. status' = status \/ (/\ rev[seen.row] = seen.rev
                             /\ status' = [status EXCEPT ![seen.row] = "blocked"])
    BY <1>3 DEF CheckReady, Write, queue
  <2>2. rev[seen.row] = seen.rev => status[seen.row] = "queued"
    BY <1>3 DEF IInv, RowInv, SeenIsCurrent, CheckReady
  <2> QED
    BY <2>1, <2>2 DEF IInv, TypeOK
<1>4. CASE Claim
  BY <1>4 DEF Claim, Write, queue, IInv, TypeOK
<1>5. CASE Dispatch
  BY <1>5 DEF Dispatch, Settle, Write, queue, IInv, TypeOK, RowInv, ClaimedRow
<1>6. CASE \E s \in Senders : Sending(s)
  BY <1>6, RowIsSettled DEF Settled, IInv, TypeOK
<1>7. CASE Restart
  BY <1>7 DEF Restart, IInv, TypeOK
<1> QED
  BY <1>1, <1>2, <1>3, <1>4, <1>5, <1>6, <1>7 DEF Next, RowOperation, Tick

\* The line only grows, by a row that was not in it.
LEMMA LineGrows ==
    ASSUME IInv, Next
    PROVE  \/ line' = line
           \/ \E q \in Queued : /\ status[q] = "none" /\ line' = Append(line, q)
                                /\ status'[q] = "queued" /\ UNCHANGED <<wpc, seen>>
<1>1. CASE RowOperation
  BY <1>1 DEF RowOperation, enqueue, cancel, renew, ConsentExpires, Write, tick, IInv, TypeOK
<1>2. CASE BindingChanges \/ Tick \/ Crash \/ Restart
           \/ (\E c \in Clients : Send(c)) \/ (\E k \in Keys : TurnEnds(k))
  BY <1>2 DEF BindingChanges, Tick, ReadHead, CheckReady, CheckFails, CheckActive, Claim, Dispatch,
     Settle, Crash, Restart, Send, TurnEnds, queue
<1>3. ASSUME NEW s \in Senders, Sending(s)
      PROVE  line' = line
  BY <1>3 DEF Sending, Refuse, Prepare, PrepareFails, CreateInternal, CreateFails, Planned, Attach,
     AttachFails, CreateNative, StartNative, Leave, Settle, queue
<1> QED
  BY <1>1, <1>2, <1>3 DEF Next, RowOperation

\* The row in hand is kept, given up, or newly read.
LEMMA RowInHand ==
    ASSUME IInv, Next
    PROVE  \/ wpc # "idle" /\ seen'.row = seen.row
           \/ wpc' = "idle"
           \/ ReadHead
<1>1. CASE RowOperation
  BY <1>1, RowFrame DEF IInv
<1>2. CASE BindingChanges \/ CheckReady \/ CheckFails \/ CheckActive \/ Claim \/ Dispatch
           \/ Crash \/ Restart \/ (\E c \in Clients : Send(c)) \/ (\E k \in Keys : TurnEnds(k))
  BY <1>2 DEF BindingChanges, CheckReady, CheckFails, CheckActive, Claim, Dispatch, GiveUp, Crash,
     Restart, Send, TurnEnds, tick, IInv, DownIsQuiet
<1>3. ASSUME NEW s \in Senders, Sending(s)
      PROVE  (wpc' = wpc /\ seen' = seen) \/ wpc' = "idle"
  BY <1>3 DEF Sending, Refuse, Prepare, PrepareFails, CreateInternal, CreateFails, Planned, Attach,
     AttachFails, CreateNative, StartNative, Leave, GiveUp, tick
<1> QED
  BY <1>1, <1>2, <1>3 DEF Next, RowOperation, Tick

LEMMA LineStep ==
    ASSUME IInv, LineInv, Next
    PROVE  LineInv'
<1>1. LineKnown'
  <2>1. CASE line' = line
    BY <2>1, DoneStays DEF LineInv, LineKnown
  <2>2. ASSUME NEW q \in Queued, line' = Append(line, q), status'[q] = "queued"
        PROVE  LineKnown'
    <3>1. /\ DOMAIN line' = 1..(Len(line) + 1) /\ Len(line) \in Nat /\ DOMAIN line = 1..Len(line)
          /\ \A i \in 1..Len(line) : line'[i] = line[i]
          /\ line'[Len(line) + 1] = q
      BY <2>2 DEF IInv, TypeOK
    <3>2. \A i \in DOMAIN line : line[i] \in Queued /\ status'[line[i]] # "none"
      BY DoneStays DEF LineInv, LineKnown
    <3>3. ASSUME NEW i \in DOMAIN line'
          PROVE  line'[i] \in Queued /\ status'[line'[i]] # "none"
      <4>1. i \in DOMAIN line \/ i = Len(line) + 1
        BY <3>1, <3>3
      <4> QED
        BY <2>2, <3>1, <3>2, <4>1
    <3> QED
      BY <3>3 DEF LineKnown
  <2> QED
    BY <2>1, <2>2, LineGrows
<1>2. \A p \in Queued : status[p] # "none" => Before(p)' = Before(p)
  <2>1. CASE line' = line
    BY <2>1 DEF Before
  <2>2. ASSUME NEW q \in Queued, status[q] = "none", line' = Append(line, q),
               NEW p \in Queued, status[p] # "none"
        PROVE  Before(p)' = Before(p)
    <3>1. /\ DOMAIN line = 1..Len(line) /\ DOMAIN line' = 1..(Len(line) + 1) /\ Len(line) \in Nat
          /\ \A i \in 1..Len(line) : line'[i] = line[i]
          /\ line'[Len(line) + 1] = q
      BY <2>2 DEF IInv, TypeOK
    <3>2. p # q
      BY <2>2
    <3> QED
      BY <3>1, <3>2 DEF Before
  <2> QED
    BY <2>1, <2>2, LineGrows
<1>3. EarlierAreDone'
  <2> SUFFICES ASSUME wpc' # "idle"
               PROVE  /\ status'[seen'.row] # "none"
                      /\ \A p \in Before(seen.row)' : p \in Queued /\ Done(p)'
    BY DEF EarlierAreDone
  <2>1. CASE wpc # "idle" /\ seen'.row = seen.row
    <3>1. seen.row \in Queued /\ status[seen.row] # "none"
      BY <2>1 DEF IInv, TickKnowsRow, LineInv, EarlierAreDone
    <3>2. Before(seen.row)' = Before(seen.row)
      BY <1>2, <2>1, <3>1 DEF Before
    <3>3. \A p \in Before(seen.row) : p \in Queued /\ Done(p)'
      BY <2>1, DoneStays DEF LineInv, EarlierAreDone, Done
    <3> QED
      BY <2>1, <3>1, <3>2, <3>3, DoneStays
  <2>2. CASE ReadHead
    <3>1. PICK q \in Queued : IsHead(q) /\ status[q] = "queued" /\ seen'.row = q
      BY <2>2 DEF ReadHead
    <3>2. line' = line /\ status' = status
      BY <2>2 DEF ReadHead, queue
    <3>3. \A p \in Before(q) : p \in Queued /\ status[p] # "none" /\ p \notin Pending
      BY <3>1 DEF IsHead, Before, LineInv, LineKnown
    <3>4. \A p \in Before(q) : Done(p)
      BY <3>3 DEF Pending, Done, PENDING, IInv, TypeOK
    <3>5. Before(seen.row)' = Before(q)
      BY <3>1, <3>2 DEF Before
    <3> QED
      BY <3>1, <3>2, <3>3, <3>4, <3>5 DEF Done
  <2> QED
    BY <2>1, <2>2, RowInHand
<1>4. InLine'
  <2> SUFFICES ASSUME NEW p \in Queued, status'[p] # "none"
               PROVE  \E i \in DOMAIN line' : line'[i] = p
    BY DEF InLine
  <2>1. CASE status[p] = "none"
    <3>1. line' = Append(line, p) /\ line \in Seq(Queued)
      BY <2>1, RowsAreEnqueued DEF IInv, TypeOK
    <3>2. Len(line) + 1 \in DOMAIN line' /\ line'[Len(line) + 1] = p
      BY <3>1
    <3> QED
      BY <3>2
  <2>2. CASE status[p] # "none"
    <3>1. PICK i \in DOMAIN line : line[i] = p
      BY <2>2 DEF LineInv, InLine
    <3>2. CASE line' = line
      BY <3>1, <3>2
    <3>3. ASSUME NEW q \in Queued, line' = Append(line, q)
          PROVE  i \in DOMAIN line' /\ line'[i] = line[i]
      BY <3>3 DEF IInv, TypeOK
    <3> QED
      BY <3>1, <3>2, <3>3, LineGrows
  <2> QED
    BY <2>1, <2>2
<1> QED
  BY <1>1, <1>3, <1>4 DEF LineInv

LEMMA OrderInvariant == Spec => [](IInv /\ LineInv)
<1>1. Init => LineInv
  BY DEF Init, LineInv, LineKnown, EarlierAreDone, InLine
<1>2. IInv /\ LineInv /\ [Next]_vars => LineInv'
  <2>1. ASSUME IInv, LineInv, UNCHANGED vars PROVE LineInv'
    BY <2>1 DEF vars, LineInv, LineKnown, EarlierAreDone, InLine, Done, Before
  <2> QED
    BY <2>1, LineStep
<1> QED
  BY <1>1, <1>2, Invariant, InitHolds, NextKeeps, PTL DEF Spec

-----------------------------------------------------------------------------
(* Theorems. *)

\* The rows, the receipts, the senders and the histories keep their types,
\* whatever users, the worker, connections and crashes do (workspace/service.py
\* and prompt_queue.py).
THEOREM TypeCorrect == Spec => []TypeOK
<1>1. IInv => TypeOK
  BY DEF IInv
<1> QED
  BY <1>1, Invariant, PTL

\* No request id, repeated, queued, renewed, failed or interrupted by a crash,
\* has its prompt given twice to a model or an engine (send and _heal).
THEOREM PromptRunsOnce == Spec => []RunsAtMostOnce
<1>1. IInv => RunsAtMostOnce
  BY DEF IInv, SendInv
<1> QED
  BY <1>1, Invariant, PTL

\* The conversation never has two active turns, however many connections and the
\* worker call send() at once.
THEOREM OneTurnAtATime == Spec => []OneTurn
<1>1. IInv => OneTurn
  BY DEF IInv, SendInv
<1> QED
  BY <1>1, Invariant, PTL

\* A row that a user may cancel or renew has not run, unless it is marked as
\* ambiguous (cancel, renew and the settlement of a failed dispatch).
THEOREM OpenRowsHaveNotRun == Spec => []OpenHasNotRun
<1>1. IInv => OpenHasNotRun
  BY DEF IInv, RowInv, OpenRows, OpenHasNotRun
<1> QED
  BY <1>1, Invariant, PTL

\* However many connections send, and whatever fails or crashes meanwhile, the
\* conversation has one turn at a time and an open row has not run (send, cancel,
\* renew, _heal).
THEOREM ExclusiveTurns == Spec => []TurnsAreExclusive
BY TypeCorrect, OneTurnAtATime, OpenRowsHaveNotRun, PTL DEF TurnsAreExclusive

\* A queued prompt is handed over only under the session, the policy and the
\* settings its user consented to (_dispatch_guard).
THEOREM ConsentIsCurrent == Spec => RunsAsConsented
<1> DEFINE Step == \A q \in Queued : ran'[q] # ran[q] => consent[q] = binding
<1>1. IInv /\ [Next]_vars => [Step]_vars
  <2> SUFFICES ASSUME IInv, Next, NEW q \in Queued, ran'[q] # ran[q]
               PROVE  consent[q] = binding
    OBVIOUS
  <2>1. PICK s \in Senders :
          /\ Inside(s) /\ Guard(s)
          /\ \A k \in Keys \ {KeyOf(s)} : ran'[k] = ran[k]
    BY OnlySendersRun
  <2>2. KeyOf(s) = q
    BY <2>1 DEF Keys
  <2>3. s = Worker /\ consent[q] = seen.consent
    BY <2>1, <2>2, FollowUpIsClaimed
  <2> QED
    BY <2>1, <2>3 DEF Guard, _ready
<1> QED
  BY <1>1, Invariant, PTL DEF Spec, RunsAsConsented

\* A dispatch whose outcome is unknown is never tried again: its task is not
\* created once more and its prompt is not handed over (_heal, renew).
THEOREM AmbiguousStays == Spec => AmbiguousIsNotRetried
<1> DEFINE Step == \A q \in ambiguous : made'[q] = made[q] /\ ran'[q] = ran[q]
<1>1. IInv /\ [Next]_vars => [Step]_vars
  <2> SUFFICES ASSUME IInv, Next, NEW q \in ambiguous
               PROVE  made'[q] = made[q] /\ ran'[q] = ran[q]
    OBVIOUS
  <2>1. q \in Queued /\ q \in Keys /\ status[q] # "dispatching"
    BY DEF IInv, TypeOK, RowInv, AmbiguousRows, Keys
  <2>2. CASE UNCHANGED <<made, ran>>
    BY <2>2
  <2>3. ASSUME NEW s \in Senders, Inside(s),
               \A k \in Keys \ {KeyOf(s)} : made'[k] = made[k] /\ ran'[k] = ran[k]
        PROVE  made'[q] = made[q] /\ ran'[q] = ran[q]
    BY <2>1, <2>3, FollowUpIsClaimed
  <2> QED
    BY <2>2, <2>3, OnlySendersRun
<1> QED
  BY <1>1, Invariant, PTL DEF Spec, AmbiguousIsNotRetried

\* The task of a follow-up is created only when every earlier follow-up of the
\* conversation was dispatched or cancelled (the heads in tick).
THEOREM DispatchFollowsTheLine == Spec => QueueOrder
<1> DEFINE Step == \A q \in Queued : made'[q] # made[q] =>
                     \A p \in Before(q) : status[p] \in {"dispatched", "cancelled"}
<1>1. IInv /\ LineInv /\ [Next]_vars => [Step]_vars
  <2> SUFFICES ASSUME IInv, LineInv, Next, NEW q \in Queued, made'[q] # made[q]
               PROVE  \A p \in Before(q) : status[p] \in {"dispatched", "cancelled"}
    OBVIOUS
  <2>1. PICK s \in Senders :
          Inside(s) /\ \A k \in Keys \ {KeyOf(s)} : made'[k] = made[k]
    BY OnlySendersRun
  <2>2. KeyOf(s) = q
    BY <2>1 DEF Keys
  <2>3. s = Worker /\ seen.row = q
    BY <2>1, <2>2, FollowUpIsClaimed
  <2>4. wpc # "idle"
    BY <2>1, <2>3, KeyInKeys DEF IInv
  <2> QED
    BY <2>3, <2>4 DEF LineInv, EarlierAreDone, Done
<1> QED
  BY <1>1, OrderInvariant, PTL DEF Spec, QueueOrder

-----------------------------------------------------------------------------
(* TurnDispatch implements Prompts. *)

Consented == {q \in Queued : consent[q] = binding}
Given == {k \in Keys : ran[k] > 0}

\* A step that gives nothing and changes no consent is an End, perhaps of
\* nothing.
LEMMA EndsSome ==
    ASSUME Closed' \in SUBSET Queued, Closed \subseteq Closed', turn' \subseteq turn,
           UNCHANGED <<line, Consented, Given>>
    PROVE  Promised!Next
<1>1. Promised!End
  BY DEF Promised!End, Consented, Given
<1> QED
  BY <1>1 DEF Promised!Next

\* No step opens a settled row again.
LEMMA AmbiguousGrows ==
    ASSUME Next
    PROVE  ambiguous \subseteq ambiguous'
<1>1. CASE RowOperation \/ BindingChanges \/ Crash \/ Restart
           \/ (\E c \in Clients : Send(c)) \/ (\E k \in Keys : TurnEnds(k))
  BY <1>1 DEF RowOperation, enqueue, cancel, renew, ConsentExpires, BindingChanges, Crash, Restart,
     Send, TurnEnds, queue
<1>2. CASE Tick
  BY <1>2 DEF Tick, ReadHead, CheckReady, CheckFails, CheckActive, Claim, Dispatch, Settle, queue
<1>3. ASSUME NEW s \in Senders, Sending(s)
      PROVE  ambiguous \subseteq ambiguous'
  BY <1>3 DEF Sending, Refuse, Prepare, PrepareFails, CreateInternal, CreateFails, Planned, Attach,
     AttachFails, CreateNative, StartNative, Leave, Settle, queue
<1> QED
  BY <1>1, <1>2, <1>3 DEF Next, RowOperation

LEMMA ClosedGrows ==
    ASSUME IInv, TypeOK', Next
    PROVE  Closed \subseteq Closed' /\ Closed' \in SUBSET Queued
<1>1. ambiguous \subseteq ambiguous' /\ ambiguous' \subseteq Queued
  BY AmbiguousGrows DEF TypeOK
<1>2. \A p \in Queued : status[p] \in {"dispatched", "cancelled"} => status'[p] = status[p]
  BY DoneStays DEF Done
<1> QED
  BY <1>1, <1>2 DEF Closed

\* What users do joins, consents or withdraws.
LEMMA RowPromise ==
    ASSUME IInv, LineInv, TypeOK', Next, RowOperation
    PROVE  Promised!Next
<1>1. PICK q \in Queued : enqueue(q) \/ cancel(q) \/ renew(q) \/ ConsentExpires(q)
  BY DEF RowOperation
<1>2. UNCHANGED <<turn, Given, binding>>
  BY RowFrame DEF IInv, Given
<1>3. CASE enqueue(q)
  <2>1. /\ line' = Append(line, q) /\ ambiguous' = ambiguous
        /\ status[q] = "none" /\ status' = [status EXCEPT ![q] = "queued"]
        /\ consent' = [consent EXCEPT ![q] = binding]
    BY <1>3 DEF enqueue, Write
  <2>2. Closed' = Closed
    BY <2>1 DEF Closed, IInv, TypeOK
  <2>3. Consented' = Consented \cup {q}
    BY <1>2, <2>1 DEF Consented, IInv, TypeOK
  <2>4. q \notin Promised!Joined
    BY <2>1 DEF Promised!Joined, LineInv, LineKnown
  <2>5. Promised!Join(q)
    BY <1>2, <2>1, <2>2, <2>3, <2>4 DEF Promised!Join, Consented, Given
  <2> QED
    BY <2>5 DEF Promised!Next
<1>4. CASE cancel(q)
  <2>1. line' = line /\ consent' = consent
    BY <1>4 DEF cancel, Write, IInv, TypeOK
  <2> QED
    BY <1>2, <2>1, ClosedGrows, EndsSome DEF Consented
<1>5. CASE renew(q) \/ ConsentExpires(q)
  <2>1. line' = line /\ ambiguous' = ambiguous
    BY <1>5 DEF renew, ConsentExpires
  <2>2. \A p \in Queued : status'[p] \in {"dispatched", "cancelled"} => status[p] = status'[p]
    BY <1>5 DEF renew, ConsentExpires, Write, IInv, TypeOK
  <2>3. Closed' = Closed
    BY <2>1, <2>2, DoneStays DEF Closed, Done
  <2>4. Promised!Consent
    BY <1>2, <2>1, <2>3 DEF Promised!Consent, Consented, Given
  <2> QED
    BY <2>4 DEF Promised!Next
<1> QED
  BY <1>1, <1>3, <1>4, <1>5

\* The tick settles a row or nothing; crashes, restarts and the ends of turns
\* give nothing.
LEMMA QuietPromise ==
    ASSUME IInv, TypeOK', Next,
           Tick \/ Crash \/ Restart \/ (\E c \in Clients : Send(c)) \/ (\E k \in Keys : TurnEnds(k))
    PROVE  Promised!Next
<1>1. line' = line /\ ran' = ran /\ turn' \subseteq turn /\ binding' = binding
  BY DEF Tick, ReadHead, CheckReady, CheckFails, CheckActive, Claim, Dispatch, Settle, Crash, Restart,
     Send, TurnEnds, queue, ledger
<1>2. consent' = consent
  <2>1. CASE CheckReady
    <3>1. CASE rev[seen.row] = seen.rev /\ Write(seen.row, "blocked", seen.consent)
      BY <2>1, <3>1 DEF CheckReady, Write, IInv, TypeOK, RowInv, SeenIsCurrent
    <3> QED
      BY <2>1, <3>1 DEF CheckReady, queue
  <2>2. CASE Claim \/ Dispatch
    BY <2>2 DEF Claim, Dispatch, Settle, Write, queue, IInv, TypeOK
  <2>3. CASE ~CheckReady /\ ~Claim /\ ~Dispatch
    BY <2>3 DEF Tick, ReadHead, CheckFails, CheckActive, Crash, Restart, Send, TurnEnds, queue
  <2> QED
    BY <2>1, <2>2, <2>3
<1> QED
  BY <1>1, <1>2, ClosedGrows, EndsSome DEF Consented, Given

\* Whoever may give the prompt of a key is allowed to.
LEMMA SenderMayGive ==
    ASSUME IInv, LineInv, NEW s \in Senders, Inside(s), Guard(s), ran[KeyOf(s)] = 0
    PROVE  Promised!MayBeGiven(KeyOf(s))
<1>1. KeyOf(s) \notin Given
  BY DEF Given
<1>2. ASSUME KeyOf(s) \in Queued
      PROVE  /\ KeyOf(s) \notin Closed /\ KeyOf(s) \in Consented
             /\ KeyOf(s) \in Promised!Joined
             /\ Before(KeyOf(s)) \subseteq Closed
  <2>1. PICK q \in Queued : q = KeyOf(s)
    BY <1>2
  <2>2. s = Worker /\ seen.row = q /\ status[q] = "dispatching" /\ consent[q] = seen.consent
    BY <2>1, FollowUpIsClaimed
  <2>3. q \notin Closed
    BY <2>2 DEF Closed, IInv, RowInv, AmbiguousRows
  <2>4. q \in Consented
    BY <2>2 DEF Consented, Guard, _ready
  <2>5. wpc # "idle"
    BY <2>2 DEF IInv, TickKnowsRow
  <2>6. Before(q) \subseteq Closed
    BY <2>2, <2>5 DEF LineInv, EarlierAreDone, Done, Closed
  <2>7. q \in Promised!Joined
    BY <2>2 DEF LineInv, InLine, Promised!Joined
  <2> QED
    BY <2>1, <2>3, <2>4, <2>6, <2>7
<1>3. KeyOf(s) \notin Queued => KeyOf(s) \notin Closed
  BY DEF Closed, IInv, TypeOK
<1> QED
  BY <1>1, <1>2, <1>3 DEF Promised!MayBeGiven, Promised!Earlier, Before, Given, Consented

\* Leaving with a known outcome settles the row of the key at most.
LEMMA LeaveSettles ==
    ASSUME IInv, NEW s \in Senders, Inside(s), NEW ok \in BOOLEAN, Leave(s, ok, "dispatched")
    PROVE  Closed' \in {Closed, Closed \cup {KeyOf(s)}} /\ line' = line /\ consent' = consent
<1>1. CASE s = Worker
  <2>1. PICK q \in Queued : q = seen.row /\ q = KeyOf(s)
    BY <1>1, KeyInKeys DEF IInv
  <2>2. /\ status' = [status EXCEPT ![q] = "dispatched"] /\ ambiguous' = ambiguous
        /\ line' = line /\ consent' = consent
    BY <1>1, <2>1 DEF Leave, Settle, Write, IInv, TypeOK
  <2>3. Closed' = Closed \cup {q}
    BY <2>2 DEF Closed, IInv, TypeOK
  <2> QED
    BY <2>1, <2>2, <2>3
<1>2. CASE s # Worker
  BY <1>2 DEF Leave, queue, Closed
<1> QED
  BY <1>1, <1>2

\* One more run of a prompt that has not run is the first.
LEMMA RanIsGiven ==
    ASSUME TypeOK, NEW k \in Keys, ran' = [ran EXCEPT ![k] = @ + 1]
    PROVE  Given' = Given \cup {k}
BY DEF Given, TypeOK

\* send() begins a turn, gives its prompt, or settles what it leaves.
LEMMA SendPromise ==
    ASSUME IInv, LineInv, TypeOK', Next, NEW s \in Senders, Sending(s)
    PROVE  Promised!Next
<1>0. Inside(s) /\ KeyOf(s) \in Keys
  BY KeyInKeys DEF IInv, Sending, Refuse, Prepare, PrepareFails, CreateInternal, CreateFails, Planned,
     Attach, AttachFails, CreateNative, StartNative, At, Inside
<1>1. PICK k \in Keys : k = KeyOf(s) /\ Inside(s)
  BY <1>0
<1>2. CASE ran' = ran /\ turn' \subseteq turn /\ UNCHANGED <<line, consent, binding>>
  BY <1>2, ClosedGrows, EndsSome DEF Consented, Given
<1>3. CASE Refuse(s) \/ PrepareFails(s) \/ CreateFails(s)
  <2>1. PICK ok \in BOOLEAN, r \in {"none", "preparing", "dispatched"} : Leave(s, ok, r)
    BY <1>1, <1>3 DEF Refuse, PrepareFails, CreateFails, IInv, TypeOK
  <2>2. line' = line /\ consent' = consent
    BY <2>1 DEF Leave, Settle, Write, queue, IInv, TypeOK
  <2>3. ran' = ran /\ turn' = turn /\ binding' = binding
    BY <1>3 DEF Refuse, PrepareFails, CreateFails, ledger
  <2> QED
    BY <1>2, <2>2, <2>3
<1>4. CASE Planned(s) \/ AttachFails(s)
  <2>1. PICK ok \in BOOLEAN, r \in {"preparing", "dispatched"} : Leave(s, ok, r)
    BY <1>4 DEF Planned, AttachFails
  <2>2. line' = line /\ consent' = consent
    BY <2>1 DEF Leave, Settle, Write, queue, IInv, TypeOK
  <2>3. ran' = ran /\ turn' = turn /\ binding' = binding
    BY <1>4 DEF Planned, AttachFails, ledger
  <2> QED
    BY <1>2, <2>2, <2>3
<1>5. CASE Prepare(s) \/ Attach(s)
  BY <1>2, <1>5 DEF Prepare, Attach, queue, ledger
<1>6. CASE CreateInternal(s) \/ CreateNative(s)
  <2>1. /\ Guard(s) /\ pc[s] \in {"preparing", "attaching"} /\ binding' = binding
        /\ turn' = turn \cup {k}
    BY <1>1, <1>6 DEF CreateInternal, CreateNative, At
  <2>2. ran[k] = 0 /\ turn = {}
    BY <1>1, <2>1, NotRun DEF IInv, SendInv, Preparing
  <2>3. Promised!MayBeGiven(k)
    BY <1>1, <2>1, <2>2, SenderMayGive
  <2>4. /\ \/ ran' = ran
           \/ ran' = [ran EXCEPT ![k] = @ + 1]
        /\ UNCHANGED queue \/ Leave(s, FALSE, "dispatched")
    BY <1>1, <1>6 DEF CreateInternal, CreateNative
  <2>5. Closed' \in {Closed, Closed \cup {k}} /\ line' = line /\ consent' = consent
    BY <1>1, <2>4, LeaveSettles DEF queue, Closed
  <2>6. Given' \in {Given, Given \cup {k}}
    BY <1>1, <2>4, RanIsGiven DEF IInv, Given
  <2>7. Consented' = Consented
    BY <2>1, <2>5 DEF Consented
  <2>8. Promised!Begin(k)
    BY <2>1, <2>2, <2>3, <2>5, <2>6, <2>7 DEF Promised!Begin, Given, Consented
  <2> QED
    BY <1>1, <2>8 DEF Promised!Next, Keys
<1>7. CASE StartNative(s)
  <2>1. CASE ran' = ran
    <3>1. turn' \subseteq turn /\ binding' = binding /\ \E ok \in BOOLEAN : Leave(s, ok, "dispatched")
      BY <1>7, <2>1 DEF StartNative
    <3> QED
      BY <1>1, <1>2, <2>1, <3>1, LeaveSettles
  <2>2. CASE ran' # ran
    <3>1. PICK ok \in BOOLEAN :
            /\ k \in turn /\ Guard(s) /\ ran' = [ran EXCEPT ![k] = @ + 1]
            /\ Leave(s, ok, "dispatched") /\ turn' = IF ok THEN turn ELSE turn \ {k}
      BY <1>1, <1>7, <2>2 DEF StartNative
    <3>2. pc[s] = "starting" /\ engine = "native" /\ binding' = binding
      BY <1>7 DEF StartNative, At
    <3>3. ran[k] = 0 /\ turn = {k}
      BY <1>1, <3>1, <3>2 DEF IInv, SendInv, Starting, OneTurn
    <3>4. Promised!MayBeGiven(k)
      BY <1>1, <3>1, <3>3, SenderMayGive
    <3>5. Closed' \in {Closed, Closed \cup {k}} /\ line' = line /\ consent' = consent
      BY <1>1, <3>1, LeaveSettles
    <3>6. Given' = Given \cup {k}
      BY <1>1, <3>1, RanIsGiven DEF IInv
    <3>7. Consented' = Consented
      BY <3>2, <3>5 DEF Consented
    <3>8. Promised!Give(k)
      BY <3>1, <3>3, <3>4, <3>5, <3>6, <3>7 DEF Promised!Give, Given, Consented
    <3> QED
      BY <1>1, <3>8 DEF Promised!Next, Keys
  <2> QED
    BY <2>1, <2>2
<1> QED
  BY <1>3, <1>4, <1>5, <1>6, <1>7 DEF Sending

LEMMA BindingPromise ==
    ASSUME IInv, TypeOK', BindingChanges
    PROVE  Promised!Next
<1>1. UNCHANGED <<line, Closed, turn, Given>>
  BY DEF BindingChanges, queue, ledger, Closed, Given
<1>2. Promised!Consent
  BY <1>1 DEF Promised!Consent, Given
<1> QED
  BY <1>2 DEF Promised!Next

\* However prompts are sent, repeated, queued, renewed or interrupted, the
\* conversation does with them what Prompts promises (send, tick, _heal).
THEOREM DispatchImplementsPrompts == Spec => ImplementsPrompts
<1>1. Init => Promised!Init
  <2> SUFFICES ASSUME Init PROVE Promised!Init
    OBVIOUS
  <2>1. Closed = {} /\ Consented = {} /\ Given = {}
    BY DEF Init, Closed, Consented, Given
  <2> QED
    BY <2>1 DEF Init, Promised!Init, Consented, Given
<1>2. IInv /\ LineInv /\ TypeOK' /\ [Next]_vars => [Promised!Next]_(Promised!vars)
  <2>1. ASSUME IInv, LineInv, TypeOK', Next PROVE Promised!Next
    BY <2>1, RowPromise, BindingPromise, QuietPromise, SendPromise DEF Next, RowOperation
  <2>2. UNCHANGED vars => UNCHANGED Promised!vars
    BY DEF vars, Promised!vars, Closed
  <2> QED
    BY <2>1, <2>2
<1>3. IInv => TypeOK
  BY DEF IInv
<1> QED
  BY <1>1, <1>2, <1>3, OrderInvariant, PTL DEF Spec, ImplementsPrompts, Promised!Spec
=============================================================================
