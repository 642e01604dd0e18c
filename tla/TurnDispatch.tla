---------------------------- MODULE TurnDispatch ----------------------------
(***************************************************************************)
(* How the prompts of one conversation become turns: the durable queue of   *)
(* follow-ups (workspace/prompt_queue.py), the send service that guards     *)
(* every turn with a request receipt (workspace/service.py, send), and the  *)
(* creation of its task by the internal or a native engine                  *)
(* (agent/manager.py, engines/gateway.py).                                  *)
(*                                                                          *)
(* Rows, receipts and tasks are durable, each in a commit of its own.  The  *)
(* queue's worker and the clients are coroutines and interleave at every    *)
(* await; a host crash ends all of them.                                    *)
(***************************************************************************)
EXTENDS Naturals, Sequences, FiniteSets

CONSTANTS
  Queued,        \* follow-ups a user may queue; also the keys of their turns
  Direct,        \* request ids of turns sent without the queue
  Clients,       \* connections that send direct turns
  Sends,         \* the request id each client sends, and sends again
  Worker,        \* the queue's worker
  MaxPending,    \* MAX_PENDING
  MaxBinding,    \* bound: changes of what a follow-up's consent is bound to
  MaxRevision,   \* bound: revisions of a row up to which it is renewed
  MaxFaults      \* bound: crashes and failed writes

ASSUME DispatchAssumption ==
  /\ Queued \cap Direct = {} /\ Worker \notin Clients
  /\ Sends \in [Clients -> Direct]
  /\ {MaxPending, MaxBinding, MaxRevision, MaxFaults} \subseteq Nat

\* A value of Sends: all the connections send the same turn.
SameTurn == [c \in Clients |-> CHOOSE k \in Direct : TRUE]

Keys == Queued \cup Direct
Senders == Clients \cup {Worker}

VARIABLES
  line,       \* rows of the queue in the order of their creation
  status,     \* status of each row
  rev,        \* revision of each row
  ambiguous,  \* rows whose dispatch has an unknown outcome
  consent,    \* the binding each row was consented for, 0 when it has expired
  binding,    \* the session, policy, memory and settings in force
  receipt,    \* the row of `requests` of each key
  turn,       \* keys whose task is attached to the conversation and active
  engine,     \* the engine of the conversation
  up,         \* whether the host runs
  wpc,        \* where the worker's tick is
  seen,       \* the row the tick read: its key, revision and consent
  pc,         \* where each sender is in send()
  faults,     \* crashes and failed writes so far
  made,       \* history: tasks created for each key
  ran         \* history: prompts of each key given to a model or an engine

queue == <<line, status, rev, ambiguous, consent>>
ledger == <<receipt, turn, made, ran>>
tick == <<wpc, seen>>
vars == <<line, status, rev, ambiguous, consent, binding, receipt, turn, engine,
          up, wpc, seen, pc, faults, made, ran>>

PENDING == {"queued", "blocked", "dispatching"}
NoRow == [row |-> "none", rev |-> 0, consent |-> 0]

Init ==
  /\ line = <<>>
  /\ status = [q \in Queued |-> "none"]
  /\ rev = [q \in Queued |-> 0]
  /\ ambiguous = {}
  /\ consent = [q \in Queued |-> 0]
  /\ binding = 1
  /\ receipt = [k \in Keys |-> "none"]
  /\ turn = {}
  /\ engine \in {"internal", "native"}
  /\ up = TRUE
  /\ wpc = "idle" /\ seen = NoRow
  /\ pc = [s \in Senders |-> "idle"]
  /\ faults = 0
  /\ made = [k \in Keys |-> 0]
  /\ ran = [k \in Keys |-> 0]

-----------------------------------------------------------------------------
(* What users and the surroundings do to the queue. *)

Pending == {q \in Queued : status[q] \in PENDING}

\* A row is written with a new revision.
Write(q, s, c) ==
  /\ status' = [status EXCEPT ![q] = s]
  /\ rev' = [rev EXCEPT ![q] = @ + 1]
  /\ consent' = [consent EXCEPT ![q] = c]

\* A repeated request id returns the row it made before.
enqueue(q) ==
  /\ up /\ status[q] = "none"
  /\ Cardinality(Pending) < MaxPending
  /\ line' = Append(line, q)
  /\ Write(q, "queued", binding)
  /\ UNCHANGED <<ambiguous, binding, ledger, engine, up, tick, pc, faults>>

cancel(q) ==
  /\ up /\ status[q] \in {"queued", "blocked"}
  /\ Write(q, "cancelled", consent[q])
  /\ UNCHANGED <<line, ambiguous, binding, ledger, engine, up, tick, pc, faults>>

\* Consent is given again, for what is in force now.
renew(q) ==
  /\ up /\ status[q] = "blocked" /\ q \notin ambiguous
  /\ rev[q] < MaxRevision
  /\ Write(q, "queued", binding)
  /\ UNCHANGED <<line, ambiguous, binding, ledger, engine, up, tick, pc, faults>>

\* The session ends, a policy, a memory or a setting changes.
BindingChanges ==
  /\ binding < MaxBinding /\ binding' = binding + 1
  /\ UNCHANGED <<queue, ledger, engine, up, tick, pc, faults>>

\* The time limit of a consent passes, for the row and for a copy of it.
ConsentExpires(q) ==
  /\ consent[q] # 0
  /\ consent' = [consent EXCEPT ![q] = 0]
  /\ seen' = IF seen.row = q THEN [seen EXCEPT !.consent = 0] ELSE seen
  /\ UNCHANGED <<line, status, rev, ambiguous, binding, ledger, engine, up, wpc, pc,
                 faults>>

-----------------------------------------------------------------------------
(* tick: the worker takes the first pending row of the conversation. *)

Before(q) == {line[i] : i \in {j \in DOMAIN line :
                \E n \in DOMAIN line : line[n] = q /\ j < n}}

\* A bug: the first queued row is taken, a blocked one does not hold it up.
IsHeadQueued(q) ==
  /\ status[q] = "queued"
  /\ \A p \in Before(q) : status[p] # "queued"

IsHead(q) == status[q] \in PENDING /\ Before(q) \cap Pending = {}

ReadHead ==
  /\ up /\ wpc = "idle"
  /\ \E q \in Queued :
       /\ IsHead(q) /\ status[q] = "queued"
       /\ seen' = [row |-> q, rev |-> rev[q], consent |-> consent[q]]
  /\ wpc' = "check"
  /\ UNCHANGED <<queue, binding, ledger, engine, up, pc, faults>>

_ready == seen.consent = binding

GiveUp == wpc' = "idle" /\ seen' = NoRow

\* A row that is not ready is blocked, unless it was changed meanwhile.
CheckReady ==
  /\ up /\ wpc = "check"
  /\ IF _ready
     THEN wpc' = "admit" /\ UNCHANGED <<seen, queue>>
     ELSE /\ GiveUp
          /\ IF rev[seen.row] = seen.rev
             THEN Write(seen.row, "blocked", seen.consent) /\ UNCHANGED <<line, ambiguous>>
             ELSE UNCHANGED queue
  /\ UNCHANGED <<binding, ledger, engine, up, pc, faults>>

\* A bug: the error ends the worker.
CheckFailsStops ==
  /\ up /\ wpc = "check" /\ faults < MaxFaults
  /\ faults' = faults + 1 /\ wpc' = "stopped"
  /\ UNCHANGED <<queue, binding, ledger, engine, up, seen, pc>>

\* An unavailable store is no denial: the whole tick ends.
CheckFails ==
  /\ up /\ wpc = "check" /\ faults < MaxFaults
  /\ faults' = faults + 1
  /\ GiveUp
  /\ UNCHANGED <<queue, binding, ledger, engine, up, pc>>

CheckActive ==
  /\ up /\ wpc = "admit"
  /\ IF turn = {} THEN wpc' = "claim" /\ UNCHANGED seen ELSE GiveUp
  /\ UNCHANGED <<queue, binding, ledger, engine, up, pc, faults>>

Claim ==
  /\ up /\ wpc = "claim"
  /\ IF rev[seen.row] = seen.rev /\ status[seen.row] = "queued"
     THEN /\ Write(seen.row, "dispatching", consent[seen.row])
          /\ wpc' = "dispatch"
          /\ UNCHANGED <<line, ambiguous, seen>>
     ELSE GiveUp /\ UNCHANGED queue
  /\ UNCHANGED <<binding, ledger, engine, up, pc, faults>>

\* A bug: the row takes the state of its receipt.
SettleAsReceipt(q, ok, r) ==
  /\ Write(q, IF ok THEN "dispatched" ELSE r, consent[q])
  /\ UNCHANGED <<line, ambiguous>>

\* A bug: every send() that raised blocks the row.
SettleBlocks(q, ok, r) ==
  /\ Write(q, IF ok THEN "dispatched" ELSE "blocked", consent[q])
  /\ ambiguous' = IF r = "preparing" THEN ambiguous \cup {q} ELSE ambiguous
  /\ UNCHANGED line

\* The receipt r of the key decides what becomes of the row when send() raised.
Settle(q, ok, r) ==
  /\ Write(q, IF ok \/ r = "dispatched" THEN "dispatched" ELSE "blocked", consent[q])
  /\ ambiguous' = IF ~ok /\ r = "preparing" THEN ambiguous \cup {q} ELSE ambiguous
  /\ UNCHANGED line

Dispatch ==
  /\ up /\ wpc = "dispatch"
  /\ IF _ready
     THEN /\ wpc' = "sending" /\ pc' = [pc EXCEPT ![Worker] = "calling"]
          /\ UNCHANGED <<seen, queue>>
     ELSE GiveUp /\ Settle(seen.row, FALSE, receipt[seen.row]) /\ UNCHANGED pc
  /\ UNCHANGED <<binding, ledger, engine, up, faults>>

-----------------------------------------------------------------------------
(* send: one turn of the conversation at a time, each under its receipt. *)

KeyOf(s) == IF s = Worker THEN seen.row ELSE Sends[s]

\* The lock of the conversation is held from the receipt to the return.
Locked == {"preparing", "attaching", "starting"}
LockFree == \A s \in Senders : pc[s] \notin Locked

\* A bug: no dispatch_guard is given to send().
GuardNone(s) == TRUE

\* dispatch_guard: what a follow-up was consented for is still in force.
Guard(s) == s = Worker => _ready

\* send() returns or raises; the worker settles its row at once.
Leave(s, ok, r) ==
  /\ pc' = [pc EXCEPT ![s] = "idle"]
  /\ IF s = Worker THEN GiveUp /\ Settle(seen.row, ok, r)
     ELSE UNCHANGED <<tick, queue>>

At(s, p) == up /\ pc[s] = p

Send(c) ==
  /\ At(c, "idle")
  /\ pc' = [pc EXCEPT ![c] = "calling"]
  /\ UNCHANGED <<queue, binding, ledger, engine, up, tick, faults>>

\* A sent request gets its task back; one in preparation, or in an occupied
\* conversation, is refused, and so is one that does not pass the checks.  The turn
\* that a crash kept from being written is written then; its task had not begun and
\* has failed at the restart, so that no active turn is added.
Refuse(s) ==
  LET k == KeyOf(s) IN
  /\ At(s, "calling")
  /\ \E ok \in BOOLEAN :
       /\ ok => LockFree /\ receipt[k] = "dispatched"
       /\ Leave(s, ok, receipt[k])
  /\ UNCHANGED <<binding, ledger, engine, up, faults>>

\* A bug: an active turn is not looked for.
PrepareBusy(s) ==
  LET k == KeyOf(s) IN
  /\ At(s, "calling") /\ LockFree /\ receipt[k] = "none"
  /\ receipt' = [receipt EXCEPT ![k] = "preparing"]
  /\ pc' = [pc EXCEPT ![s] = "preparing"]
  /\ UNCHANGED <<queue, binding, turn, made, ran, engine, up, tick, faults>>

\* A bug: the outcome in the receipt is not returned, the turn is sent again.
PrepareAgain(s) ==
  LET k == KeyOf(s) IN
  /\ At(s, "calling") /\ LockFree /\ receipt[k] # "preparing" /\ turn = {}
  /\ receipt' = [receipt EXCEPT ![k] = "preparing"]
  /\ pc' = [pc EXCEPT ![s] = "preparing"]
  /\ UNCHANGED <<queue, binding, turn, made, ran, engine, up, tick, faults>>

Prepare(s) ==
  LET k == KeyOf(s) IN
  /\ At(s, "calling") /\ LockFree
  /\ receipt[k] = "none" /\ turn = {}
  /\ receipt' = [receipt EXCEPT ![k] = "preparing"]
  /\ pc' = [pc EXCEPT ![s] = "preparing"]
  /\ UNCHANGED <<queue, binding, turn, made, ran, engine, up, tick, faults>>

\* A hook fails or the guard does not hold: no task yet, the receipt is removed.
PrepareFails(s) ==
  LET k == KeyOf(s) IN
  /\ At(s, "preparing")
  /\ receipt' = [receipt EXCEPT ![k] = "none"]
  /\ Leave(s, FALSE, "none")
  /\ UNCHANGED <<binding, turn, made, ran, engine, up, faults>>

\* The task, its receipt and its turn are written before the worker of the
\* task starts planning.
CreateInternal(s) ==
  LET k == KeyOf(s) IN
  /\ At(s, "preparing") /\ engine = "internal" /\ Guard(s)
  /\ made' = [made EXCEPT ![k] = @ + 1]
  /\ receipt' = [receipt EXCEPT ![k] = "dispatched"]
  /\ turn' = turn \cup {k}
  /\ \/ /\ ran' = [ran EXCEPT ![k] = @ + 1]
        /\ pc' = [pc EXCEPT ![s] = "starting"]
        /\ UNCHANGED <<queue, tick>>
     \/ \* the session was revoked before its authority is recorded
        UNCHANGED ran /\ Leave(s, FALSE, "dispatched")
  /\ UNCHANGED <<binding, engine, up, faults>>

\* The task is written but not its receipt: the worker never starts, and the
\* receipt goes unless a native engine was asked.
CreateFails(s) ==
  LET k == KeyOf(s)
      r == IF engine = "internal" THEN "none" ELSE "preparing"
  IN
  /\ At(s, IF engine = "internal" THEN "preparing" ELSE "attaching")
  /\ faults < MaxFaults /\ faults' = faults + 1
  /\ made' = [made EXCEPT ![k] = @ + 1]
  /\ receipt' = [receipt EXCEPT ![k] = r]
  /\ Leave(s, FALSE, r)
  /\ UNCHANGED <<binding, turn, ran, engine, up>>

\* Planning returned.
Planned(s) ==
  /\ At(s, "starting") /\ engine = "internal"
  /\ Leave(s, TRUE, "dispatched")
  /\ UNCHANGED <<binding, ledger, engine, up, faults>>

\* From here on the receipt stays, whatever happens to the native engine.
Attach(s) ==
  /\ At(s, "preparing") /\ engine = "native" /\ Guard(s)
  /\ pc' = [pc EXCEPT ![s] = "attaching"]
  /\ UNCHANGED <<queue, binding, ledger, engine, up, tick, faults>>

AttachFails(s) ==
  /\ At(s, "attaching")
  /\ Leave(s, FALSE, "preparing")
  /\ UNCHANGED <<binding, ledger, engine, up, faults>>

CreateNative(s) ==
  LET k == KeyOf(s) IN
  /\ At(s, "attaching") /\ Guard(s)
  /\ made' = [made EXCEPT ![k] = @ + 1]
  /\ receipt' = [receipt EXCEPT ![k] = "dispatched"]
  /\ turn' = turn \cup {k}
  /\ \/ pc' = [pc EXCEPT ![s] = "starting"] /\ UNCHANGED <<queue, tick>>
     \/ Leave(s, FALSE, "dispatched")
  /\ UNCHANGED <<binding, ran, engine, up, faults>>

\* The session, its configuration and the prompt follow, each after a check of
\* the guard and of a stop by the user.  Every failure ends the task.
StartNative(s) ==
  LET k == KeyOf(s) IN
  /\ At(s, "starting") /\ engine = "native"
  /\ \/ k \in turn /\ Guard(s) /\ ran' = [ran EXCEPT ![k] = @ + 1]
        /\ \E ok \in BOOLEAN : /\ Leave(s, ok, "dispatched")
                               /\ turn' = IF ok THEN turn ELSE turn \ {k}
     \/ UNCHANGED ran /\ turn' = turn \ {k} /\ Leave(s, FALSE, "dispatched")
     \/ k \notin turn /\ UNCHANGED <<ran, turn>> /\ Leave(s, TRUE, "dispatched")
  /\ UNCHANGED <<binding, receipt, made, engine, up, faults>>

\* The task of a turn finishes, fails or is stopped by the user.
TurnEnds(k) ==
  /\ up /\ k \in turn /\ turn' = turn \ {k}
  /\ UNCHANGED <<queue, binding, receipt, made, ran, engine, up, tick, pc, faults>>

-----------------------------------------------------------------------------
(* Crash and restart. *)

\* A crash may fall between the commits of a task, of its receipt and of its
\* turn.
Crash ==
  /\ up /\ up' = FALSE /\ faults < MaxFaults /\ faults' = faults + 1
  /\ \/ UNCHANGED <<made, receipt>>
     \/ \E s \in Senders :
          /\ pc[s] = IF engine = "internal" THEN "preparing" ELSE "attaching"
          /\ made' = [made EXCEPT ![KeyOf(s)] = @ + 1]
          /\ receipt' \in {receipt, [receipt EXCEPT ![KeyOf(s)] = "dispatched"]}
  /\ pc' = [s \in Senders |-> "idle"] /\ GiveUp
  /\ UNCHANGED <<queue, binding, turn, ran, engine>>

\* A bug: no reconcile() when the queue is built.
RestartOnly ==
  /\ ~up /\ up' = TRUE /\ turn' = {}
  /\ UNCHANGED <<queue, binding, receipt, engine, tick, pc, faults, made, ran>>

\* Tasks of native engines fail, some internal ones recover; reconcile() heals
\* the rows whose dispatch is known and blocks the others.
Restart ==
  /\ ~up /\ up' = TRUE
  /\ turn' \in IF engine = "internal" THEN SUBSET turn ELSE {{}}
  /\ LET lost == {q \in Queued : status[q] = "dispatching"}
         known == {q \in lost : receipt[q] = "dispatched"}
     IN /\ status' = [q \in Queued |-> IF q \in known THEN "dispatched"
                                       ELSE IF q \in lost THEN "blocked" ELSE status[q]]
        /\ rev' = [q \in Queued |-> IF q \in lost THEN rev[q] + 1 ELSE rev[q]]
        /\ ambiguous' = ambiguous \cup (lost \ known)
  /\ UNCHANGED <<line, consent, binding, receipt, engine, tick, pc, faults, made, ran>>

-----------------------------------------------------------------------------
Sending(s) ==
  \/ Refuse(s) \/ Prepare(s) \/ PrepareFails(s) \/ CreateInternal(s) \/ CreateFails(s)
  \/ Planned(s) \/ Attach(s) \/ AttachFails(s) \/ CreateNative(s) \/ StartNative(s)

Tick == ReadHead \/ CheckReady \/ CheckFails \/ CheckActive \/ Claim \/ Dispatch

Next ==
  \/ \E q \in Queued : enqueue(q) \/ cancel(q) \/ renew(q) \/ ConsentExpires(q)
  \/ BindingChanges \/ Tick
  \/ \E s \in Senders : Sending(s)
  \/ \E c \in Clients : Send(c)
  \/ \E k \in Keys : TurnEnds(k)
  \/ Crash \/ Restart

Spec == Init /\ [][Next]_vars

\* The worker ticks for ever, every await in send() has a time limit, and the
\* host is started again.
FairSpec ==
  /\ Spec /\ WF_vars(Tick) /\ WF_vars(Restart)
  /\ \A s \in Senders : WF_vars(Sending(s))

-----------------------------------------------------------------------------
(* Properties. *)

\* Types of the rows, the receipts, the senders and the histories.
TypeOK ==
  /\ line \in Seq(Queued)
  /\ status \in [Queued -> PENDING \cup {"none", "dispatched", "cancelled"}]
  /\ rev \in [Queued -> Nat] /\ consent \in [Queued -> Nat] /\ binding \in Nat
  /\ ambiguous \subseteq Queued
  /\ receipt \in [Keys -> {"none", "preparing", "dispatched"}]
  /\ turn \subseteq Keys /\ engine \in {"internal", "native"} /\ up \in BOOLEAN
  /\ wpc \in {"idle", "check", "admit", "claim", "dispatch", "sending"}
  /\ seen \in [row : Queued \cup {"none"}, rev : Nat, consent : Nat]
  /\ pc \in [Senders -> {"idle", "calling"} \cup Locked]
  /\ faults \in Nat /\ made \in [Keys -> Nat] /\ ran \in [Keys -> Nat]

\* A prompt is given to a model or an engine at most once, over repeated
\* requests, renewals, failures and crashes ("never replayed", send and _heal).
RunsAtMostOnce == \A k \in Keys : ran[k] <= 1

\* The conversation has one active turn at a time, whoever sends (send).
OneTurn == \A j, k \in turn : j = k

\* What a user may still cancel or renew has not run, unless the row says that
\* this is unknown (cancel, renew and _heal).
OpenHasNotRun ==
  \A q \in Queued : status[q] \in {"queued", "blocked", "cancelled"} /\ ran[q] > 0
                      => q \in ambiguous

\* A conversation has one turn at a time, and a follow-up that can still be
\* cancelled or renewed has not run (send, cancel, renew, _heal).
TurnsAreExclusive == TypeOK /\ OneTurn /\ OpenHasNotRun

\* A follow-up starts only after every earlier one of the conversation was
\* dispatched or cancelled (the heads in tick).
QueueOrder ==
  [][\A q \in Queued : made'[q] # made[q] =>
       \A p \in Before(q) : status[p] \in {"dispatched", "cancelled"}]_vars

\* A follow-up runs only under the session, policy and settings its user
\* consented to, up to the moment its prompt is handed over (_dispatch_guard).
RunsAsConsented ==
  [][\A q \in Queued : ran'[q] # ran[q] => consent[q] = binding]_vars

\* A dispatch with an unknown outcome is never tried again (_heal, renew).
AmbiguousIsNotRetried ==
  [][\A q \in ambiguous : made'[q] = made[q] /\ ran'[q] = ran[q]]_vars

\* Every dispatch comes to a known or an inspectable end, also over a crash.
DispatchEnds ==
  \A q \in Queued : status[q] = "dispatching" ~> status[q] \in {"dispatched", "blocked"}

\* The first follow-up is taken up unless a turn occupies the conversation.
HeadIsTaken ==
  \A q \in Queued : (status[q] = "queued" /\ IsHead(q)) ~>
                      (status[q] # "queued" \/ turn # {})

-----------------------------------------------------------------------------
(* The promise of Prompts. *)

\* Rows whose outcome stands: nothing dispatches them any more.
Closed == {q \in Queued : status[q] \in {"dispatched", "cancelled"}} \cup ambiguous

Promised == INSTANCE Prompts WITH
  settled <- Closed, consented <- {q \in Queued : consent[q] = binding},
  working <- turn, given <- {k \in Keys : ran[k] > 0}

\* Every step of the queue, of send() and of its failures gives, begins, ends,
\* settles or consents as Prompts promises, or changes nothing of it.
ImplementsPrompts == Promised!Spec
=============================================================================
