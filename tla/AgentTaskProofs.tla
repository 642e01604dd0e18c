------------------------- MODULE AgentTaskProofs -------------------------
(***************************************************************************)
(* One task of the internal agent: no effect is repeated or made without    *)
(* the user, no result is lost, and no wait is left unanswerable, whatever   *)
(* the number of calls, pauses, approvals and crashes.                      *)
(***************************************************************************)
EXTENDS AgentTask, SequenceTheorems, FiniteSetTheorems, TLAPS

-----------------------------------------------------------------------------
(* The inductive invariant. *)

Modes == {"none", "plan", "drive", "approved", "resume"}
Pcs == AwaitPoints \cup
       {"planned", "top", "calls", "parked", "pause_shared", "pause_own",
        "asking", "prepared", "saved"}
BatchPcs == {"calls", "review", "prepared", "tool", "saved", "asking", "parked"}

Workers ==
  [pc : Pcs, mode : Modes, calls : Seq(Calls), first : BOOLEAN,
   fromParked : BOOLEAN, drive : BOOLEAN, done : BOOLEAN, hist : SUBSET Calls]
Checkpoints ==
  [state : {"none", "prepared", "running", "completed_uncommitted", "committed"},
   call : Calls \cup {0}, rest : Seq(Calls), hist : SUBSET Calls]

Types ==
  /\ status \in ACTIVE_STATUSES \cup Terminal
  /\ planning \in BOOLEAN /\ resume \in BOOLEAN /\ lost \in BOOLEAN
  /\ transcript \in SUBSET Calls
  /\ parked \in [calls : Seq(Calls), first : BOOLEAN]
  /\ pending \in SUBSET Requests
  /\ ckpt \in Checkpoints
  /\ review \in [Calls -> {"new", "needs_user", "approved", "permitted", "spent"}]
  /\ host \in {"up", "down", "marked", "settled"}
  /\ cancel \in {"none", "clear", "set"}
  /\ worker \in Workers
  /\ api.op \in {"idle", "granted", "denied"}
  /\ api.op # "idle" => api.approval \in Requests
  /\ takeover \in BOOLEAN
  /\ kind \in [Calls -> {"read", "auto", "ask", "managed"}]
  /\ issued \in 0..MaxCalls
  /\ effects \in [Calls -> Nat] /\ grants \in [Calls -> Nat]
  /\ confirms \in [Calls -> Nat]
  /\ everParked \in SUBSET Calls

\* Who is at work: a stopped host runs nothing, one request waits at a time,
\* and nothing waits while a worker or a decision is on its way.
Control ==
  /\ host # "up" => worker = NoWorker /\ api = Idle /\ private = {}
                    /\ cancel = "none" /\ ~takeover
  /\ worker.pc = "none" => worker = NoWorker
  /\ api.op # "idle" => worker.pc = "none" /\ pending = {} /\ private = {}
                        /\ status = "awaiting_approval"
  /\ worker.pc \notin {"none", "asking"} => pending = {}
  /\ \A a, b \in pending : a = b
  /\ private \subseteq {a.id : a \in pending}
  /\ worker.pc = "asking" =>
       \E a \in pending : a.kind = "tool" /\ a.id \in private
  /\ worker.pc \in {"pause_shared", "pause_own", "planned"} =>
       status = "awaiting_approval"
  /\ status \in {"recovering", "recovery_confirmation_required"} =>
       worker.pc = "none" \/ (worker.pc = "created" /\ worker.mode = "resume")

\* What a worker holds at each of its points.
Holding ==
  /\ worker.pc \in {"review", "prepared", "tool", "saved", "parked", "asking"} =>
       worker.calls # <<>>
  /\ worker.pc \in {"top", "turn", "planning", "planned"} => worker.calls = <<>>
  /\ worker.pc = "created" =>
       /\ worker.mode # "none"
       /\ worker.mode \in {"plan", "drive"} => worker.calls = <<>>
  /\ worker.done => worker.pc \in {"tool", "saved", "releasing"} /\ worker.calls # <<>>
  /\ worker.pc = "saved" => worker.done
  /\ worker.pc = "tool" /\ worker.done => kind[Head(worker.calls)] # "read"
  /\ worker.pc = "review" => kind[Head(worker.calls)] = "managed"
  /\ worker.pc = "turn" => parked.calls = <<>>
  /\ worker.pc = "parked" => parked.calls = worker.calls

\* The requests: a batch is kept with a tool request, a shared one is about
\* the budget.
Asked ==
  /\ \A a \in pending : a.kind = "tool" => a.calls # <<>>
  /\ \A a \in pending : a.shared => a.kind = "budget"
  /\ api.op # "idle" /\ api.approval.kind = "tool" => api.approval.calls # <<>>
  /\ api.op # "idle" /\ api.approval.shared => api.approval.kind = "budget"

\* The status says who is waited for.
Waits ==
  /\ \A a \in pending : a.kind # "tool" =>
       status \in {"awaiting_approval", "cancelling"} \cup Terminal
  /\ status \in {"recovering", "recovery_confirmation_required"} =>
       pending = {} /\ ~resume /\ ckpt.state # "none"
  /\ host = "settled" /\ status \in ACTIVE_STATUSES =>
       \A a \in pending : a.kind # "tool"
  /\ resume => /\ worker.pc = "none" /\ \A a \in pending : a.kind = "budget"
               /\ status \in {"awaiting_approval", "cancelling"} \cup Terminal
               /\ api.op # "idle" => api.approval.kind = "budget"
  /\ host = "up" /\ api.op = "idle" /\ worker.pc = "none"
       /\ status = "awaiting_approval" => \E a \in pending : Resolvable(a)

\* While the task plans it has run nothing.
NothingYet == ckpt = NoCkpt /\ \A c \in Calls : effects[c] = 0
Plans ==
  /\ planning =>
       /\ NothingYet /\ parked.calls = <<>> /\ worker.mode \in {"none", "plan"}
       /\ worker.pc \in {"none", "created", "planning", "pause_shared",
                         "pause_own", "releasing"}
       /\ \A a \in pending : a.kind = "budget"
       /\ api.op # "idle" => api.approval.kind = "budget"
  /\ worker.pc \in {"planning", "planned"} => NothingYet
  /\ worker.pc = "created" /\ worker.mode = "plan" => NothingYet

\* Every effect is in the transcript that goes with the calls still to run.
Known(h, s) == \A c \in Calls : effects[c] > 0 => c \in h \cup Range(s)
Results ==
  /\ worker.pc \in BatchPcs => Known(worker.hist, worker.calls)
  /\ worker.pc = "created" /\ worker.mode \in {"approved", "resume"} =>
       Known(worker.hist, worker.calls)
  /\ worker.pc = "top" => Known(worker.hist, parked.calls)
  /\ worker.pc = "turn" => Known(worker.hist, <<>>)
  /\ worker.pc \in {"pause_shared", "pause_own"} => Known(transcript, parked.calls)
  /\ worker.pc = "created" /\ worker.mode = "drive" => Known(transcript, parked.calls)
  /\ resume => Known(transcript, parked.calls)
  /\ api.op # "idle" /\ api.approval.kind # "tool" => Known(transcript, parked.calls)
  /\ \A a \in pending : IF a.kind = "tool" THEN Known(a.hist, a.calls)
                        ELSE Known(transcript, parked.calls)
  /\ api.op # "idle" /\ api.approval.kind = "tool" =>
       Known(api.approval.hist, api.approval.calls)
  /\ Known(ckpt.hist \cup {ckpt.call}, ckpt.rest)

\* A batch holds distinct calls that were issued.
Batches(n) == {s \in Seq(Calls) : IsInjective(s) /\ Range(s) \subseteq 1..n}
Issued ==
  /\ worker.calls \in Batches(issued) /\ ckpt.rest \in Batches(issued)
  /\ parked.calls \in Batches(issued)
  /\ \A a \in pending : a.calls \in Batches(issued)
  /\ api.op # "idle" => api.approval.calls \in Batches(issued)
  /\ Range(parked.calls) \subseteq everParked
  /\ \A c \in Calls : c > issued => effects[c] = 0

\* The checkpoint is that of the call at the head of the worker's batch.
Checkpointed ==
  /\ IF ckpt.state = "none" THEN NothingYet
     ELSE ckpt.call \in 1..issued /\ ckpt.call \notin Range(ckpt.rest)
          /\ kind[ckpt.call] # "read"
  /\ worker.pc \in {"prepared", "saved"}
       \/ (worker.pc = "tool" /\ kind[Head(worker.calls)] # "read") =>
       ckpt.call = Head(worker.calls) /\ ckpt.rest = Tail(worker.calls)
  /\ worker.pc = "prepared" => ckpt.state = "prepared"
  /\ worker.pc = "saved" => ckpt.state = "completed_uncommitted"
  /\ worker.pc = "tool" /\ kind[Head(worker.calls)] # "read" => ckpt.state = "running"

\* What the worker, a request or the checkpoint may still run unasked.
Left == IF worker.done THEN Tail(worker.calls) ELSE worker.calls
Ahead(c) ==
  \/ c \in Range(Left)
  \/ \E a \in pending : c \in Range(a.calls)
  \/ api.op # "idle" /\ c \in Range(api.approval.calls)
  \/ c \in Range(ckpt.rest)
  \/ ckpt.state = "prepared" /\ ckpt.call = c
Budgeted ==
  \A c \in Calls \ everParked :
    /\ effects[c] <= 1 + confirms[c]
    /\ Ahead(c) => effects[c] <= confirms[c]

\* The permit of a reviewed call is consumed before its effect.
Reviewed ==
  /\ \A c \in Calls : kind[c] = "managed" =>
       effects[c] <= 1 /\ (effects[c] > 0 => review[c] = "spent")
  /\ worker.pc = "prepared" /\ kind[Head(worker.calls)] = "managed" =>
       review[Head(worker.calls)] = "permitted"
  /\ worker.pc = "tool" /\ ~worker.done /\ kind[Head(worker.calls)] = "managed" =>
       effects[Head(worker.calls)] = 0 /\ review[Head(worker.calls)] = "spent"

\* A call about to run, unasked again, has a grant or a confirmation left.
Excused(c) ==
  \/ worker.calls # <<>> /\ c = Head(worker.calls) /\ worker.first /\ ~worker.done
  \/ api.op = "granted" /\ api.approval.kind = "tool"
     /\ c = Head(api.approval.calls)
  \/ ckpt.state = "prepared" /\ ckpt.call = c
Allowed ==
  /\ \A c \in Calls \ everParked : kind[c] = "ask" =>
       /\ effects[c] <= grants[c] + confirms[c]
       /\ Excused(c) => effects[c] < grants[c] + confirms[c]
  /\ worker.pc \in {"prepared", "tool"} /\ kind[Head(worker.calls)] = "ask" =>
       worker.first

IInv ==
  /\ Types /\ Control /\ Holding /\ Asked /\ Waits /\ Plans /\ Results
  /\ Issued /\ Checkpointed /\ Budgeted /\ Reviewed /\ Allowed

-----------------------------------------------------------------------------
(* Sequences of distinct calls. *)

\* The empty batch.
LEMMA EmptyBatch ==
  ASSUME NEW n \in Nat
  PROVE  <<>> \in Batches(n) /\ Range(<<>>) = {}
<1>1. <<>> \in Seq(Calls) /\ Len(<<>>) = 0
  BY EmptySeq
<1>2. DOMAIN <<>> = {}
  BY SMT
<1> QED
  BY <1>1, <1>2 DEF Batches, IsInjective, Range

\* A batch stays one when more calls are issued.
LEMMA BatchGrows ==
  ASSUME NEW m \in Nat, NEW n \in Nat, m <= n
  PROVE  Batches(m) \subseteq Batches(n)
BY SMT DEF Batches

\* The head of a batch is apart from its tail.
LEMMA BatchParts ==
  ASSUME NEW n \in Nat, NEW s \in Batches(n), s # <<>>
  PROVE  /\ Head(s) \in 1..n /\ Head(s) \in Calls
         /\ Tail(s) \in Batches(n)
         /\ Range(s) = {Head(s)} \cup Range(Tail(s))
         /\ Head(s) \notin Range(Tail(s))
<1>1. /\ s \in Seq(Calls) /\ IsInjective(s) /\ Range(s) \subseteq 1..n
  BY DEF Batches
<1>2. /\ Len(s) \in Nat \ {0} /\ DOMAIN s = 1..Len(s) /\ Head(s) = s[1]
  BY <1>1, EmptySeq, LenProperties, SMT
<1>3. /\ Head(s) \in Calls /\ Tail(s) \in Seq(Calls) /\ Len(Tail(s)) = Len(s) - 1
      /\ \A i \in 1..Len(Tail(s)) : Tail(s)[i] = s[i + 1]
  BY <1>1, HeadTailProperties
<1>4. DOMAIN Tail(s) = 1..(Len(s) - 1)
  BY <1>3, LenProperties
<1>5. /\ Range(s) = {s[i] : i \in 1..Len(s)}
      /\ Range(Tail(s)) = {s[i + 1] : i \in 1..(Len(s) - 1)}
  BY <1>2, <1>3, <1>4 DEF Range
<1>6. Range(s) = {Head(s)} \cup Range(Tail(s))
  <2>1. ASSUME NEW i \in 1..Len(s) PROVE s[i] \in {Head(s)} \cup Range(Tail(s))
    <3>1. CASE i = 1
      BY <3>1, <1>2
    <3>2. CASE i # 1
      <4>1. i - 1 \in 1..(Len(s) - 1) /\ (i - 1) + 1 = i
        BY <3>2, <1>2, SMT
      <4> QED BY <4>1, <1>5, SMT
    <3> QED BY <3>1, <3>2
  <2>2. ASSUME NEW i \in 1..(Len(s) - 1) PROVE s[i + 1] \in Range(s)
    <3>1. i + 1 \in 1..Len(s)
      BY <1>2, SMT
    <3> QED BY <3>1, <1>5
  <2>3. Head(s) \in Range(s)
    <3>1. 1 \in 1..Len(s)
      BY <1>2, SMT
    <3> QED BY <3>1, <1>2, <1>5
  <2>4. Range(s) \subseteq {Head(s)} \cup Range(Tail(s))
    BY <2>1, <1>5
  <2>5. {Head(s)} \cup Range(Tail(s)) \subseteq Range(s)
    BY <2>2, <2>3, <1>5
  <2> QED BY <2>4, <2>5
<1>7. Head(s) \notin Range(Tail(s))
  <2>1. \A i \in 1..(Len(s) - 1) : s[i + 1] # s[1]
    BY <1>1, <1>2, SMT DEF IsInjective
  <2> QED BY <2>1, <1>2, <1>5
<1>8. IsInjective(Tail(s))
  BY <1>1, <1>2, <1>3, <1>4, SMT DEF IsInjective
<1>9. Head(s) \in 1..n
  BY <1>1, <1>6
<1> QED
  BY <1>1, <1>3, <1>6, <1>7, <1>8, <1>9 DEF Batches

\* What follows the first calls of a batch.
LEMMA BatchDrop ==
  ASSUME NEW n \in Nat, NEW s \in Batches(n), NEW k \in 1..Len(s)
  PROVE  LET t == SubSeq(s, k + 1, Len(s)) IN
         /\ t \in Batches(n)
         /\ Range(s) = {s[i] : i \in 1..k} \cup Range(t)
         /\ s # <<>>
         /\ k = 1 => t = Tail(s)
<1> DEFINE t == SubSeq(s, k + 1, Len(s))
<1>1. /\ s \in Seq(Calls) /\ IsInjective(s) /\ Range(s) \subseteq 1..n
  BY DEF Batches
<1>2. /\ Len(s) \in Nat /\ DOMAIN s = 1..Len(s) /\ k \in Nat /\ k >= 1 /\ k <= Len(s)
      /\ \A i \in 1..Len(s) : s[i] \in Calls
  BY <1>1, LenProperties, SMT
<1>3. /\ t \in Seq(Calls) /\ Len(t) = Len(s) - k
      /\ \A i \in 1..(Len(s) - k) : t[i] = s[k + i]
  <2>1. \A i \in (k + 1)..Len(s) : s[i] \in Calls
    BY <1>2, SMT
  <2>2. k + 1 \in Int /\ Len(s) \in Int
    BY <1>2, SMT
  <2>3. /\ SubSeq(s, k + 1, Len(s)) \in Seq(Calls)

        /\ Len(SubSeq(s, k + 1, Len(s))) = IF k + 1 <= Len(s) THEN Len(s) - (k + 1) + 1 ELSE 0

        /\ \A i \in 1..(Len(s) - (k + 1) + 1) : SubSeq(s, k + 1, Len(s))[i] = s[(k + 1) + i - 1]
    BY <2>1, <2>2, SubSeqProperties
  <2>4. \A l \in Nat : k <= l =>
          /\ l - (k + 1) + 1 = l - k
          /\ (IF k + 1 <= l THEN l - (k + 1) + 1 ELSE 0) = l - k
    BY <1>2, SMT
  <2>5. \A i \in Nat : (k + 1) + i - 1 = k + i
    BY <1>2, SMT
  <2>6. \A i \in 1..(Len(s) - k) : i \in Nat
    BY <1>2, SMT
  <2> QED BY <2>3, <2>4, <2>5, <2>6, <1>2
<1>4. DOMAIN t = 1..(Len(s) - k)
  BY <1>3, LenProperties
<1> HIDE DEF t
<1>5. /\ Range(s) = {s[i] : i \in 1..Len(s)}
      /\ Range(t) = {s[k + i] : i \in 1..(Len(s) - k)}
  BY <1>2, <1>3, <1>4 DEF Range
<1>6. Range(s) = {s[i] : i \in 1..k} \cup Range(t)
  <2>1. ASSUME NEW i \in 1..Len(s) PROVE s[i] \in {s[j] : j \in 1..k} \cup Range(t)
    <3>1. CASE i \in 1..k
      BY <3>1
    <3>2. CASE i \notin 1..k
      <4>1. i - k \in 1..(Len(s) - k) /\ k + (i - k) = i
        BY <3>2, <1>2, SMT
      <4> QED BY <4>1, <1>5, SMT
    <3> QED BY <3>1, <3>2
  <2>2. ASSUME NEW i \in 1..k PROVE s[i] \in Range(s)
    <3>1. i \in 1..Len(s)
      BY <1>2, SMT
    <3> QED BY <3>1, <1>5
  <2>3. ASSUME NEW i \in 1..(Len(s) - k) PROVE s[k + i] \in Range(s)
    <3>1. k + i \in 1..Len(s)
      BY <1>2, SMT
    <3> QED BY <3>1, <1>5
  <2>4. Range(s) \subseteq {s[i] : i \in 1..k} \cup Range(t)
    BY <2>1, <1>5
  <2>5. {s[i] : i \in 1..k} \cup Range(t) \subseteq Range(s)
    BY <2>2, <2>3, <1>5
  <2> QED BY <2>4, <2>5
<1>7. IsInjective(t)
  <2> SUFFICES ASSUME NEW a \in 1..(Len(s) - k), NEW b \in 1..(Len(s) - k), t[a] = t[b]
               PROVE  a = b
    BY <1>4 DEF IsInjective
  <2>1. k + a \in DOMAIN s /\ k + b \in DOMAIN s
    BY <1>2, SMT
  <2>2. k + a = k + b
    BY <2>1, <1>1, <1>3 DEF IsInjective
  <2> QED BY <2>2, <1>2, SMT
<1>8. s # <<>>
  BY <1>1, <1>2, EmptySeq, SMT
<1>9. k = 1 => t = Tail(s)
  BY <1>1, <1>8, TailIsSubSeq, SMT DEF t
<1>10. t \in Batches(n)
  BY <1>1, <1>3, <1>6, <1>7 DEF Batches
<1> QED
  BY <1>6, <1>8, <1>9, <1>10 DEF t

\* A call before the calls that follow it.
LEMMA BatchCons ==
  ASSUME NEW n \in Nat, NEW s \in Batches(n), NEW c \in Calls, c \in 1..n,
         c \notin Range(s)
  PROVE  LET t == <<c>> \o s IN
         /\ t \in Batches(n) /\ t # <<>>
         /\ Head(t) = c /\ Range(t) = {c} \cup Range(s)
<1> DEFINE t == <<c>> \o s
<1>1. /\ s \in Seq(Calls) /\ IsInjective(s) /\ Range(s) \subseteq 1..n
  BY DEF Batches
<1>2. /\ Len(s) \in Nat /\ DOMAIN s = 1..Len(s)
  BY <1>1, LenProperties
<1>3. <<c>> \in Seq(Calls) /\ Len(<<c>>) = 1 /\ <<c>>[1] = c
  BY SMT
<1>4. /\ t \in Seq(Calls) /\ Len(t) = 1 + Len(s)
      /\ \A i \in 1..(1 + Len(s)) : t[i] = IF i <= 1 THEN <<c>>[i] ELSE s[i - 1]
  <2>1. /\ <<c>> \o s \in Seq(Calls)
        /\ Len(<<c>> \o s) = Len(<<c>>) + Len(s)
        /\ \A i \in 1 .. Len(<<c>>) + Len(s) : (<<c>> \o s)[i] =
                     IF i <= Len(<<c>>) THEN <<c>>[i] ELSE s[i - Len(<<c>>)]
    BY <1>1, <1>3, ConcatProperties
  <2> QED BY <2>1, <1>3
<1> HIDE DEF t
<1>5. DOMAIN t = 1..(1 + Len(s)) /\ t # <<>> /\ Head(t) = t[1] /\ t[1] = c
  BY <1>2, <1>3, <1>4, LenProperties, EmptySeq, SMT
<1>6. \A i \in 1..Len(s) : t[i + 1] = s[i]
  BY <1>2, <1>4, SMT
<1>7. /\ Range(t) = {t[i] : i \in 1..(1 + Len(s))} /\ Range(s) = {s[i] : i \in 1..Len(s)}
  BY <1>2, <1>5 DEF Range
<1>8. Range(t) = {c} \cup Range(s)
  <2>1. ASSUME NEW i \in 1..(1 + Len(s)) PROVE t[i] \in {c} \cup Range(s)
    <3>1. CASE i = 1
      BY <3>1, <1>5
    <3>2. CASE i # 1
      <4>1. i - 1 \in 1..Len(s) /\ t[i] = s[i - 1]
        BY <3>2, <1>2, <1>4, SMT
      <4> QED BY <4>1, <1>7
    <3> QED BY <3>1, <3>2
  <2>2. ASSUME NEW i \in 1..Len(s) PROVE s[i] \in Range(t)
    <3>1. i + 1 \in 1..(1 + Len(s))
      BY <1>2, SMT
    <3> QED BY <3>1, <1>6, <1>7
  <2>3. c \in Range(t)
    <3>1. 1 \in 1..(1 + Len(s))
      BY <1>2, SMT
    <3> QED BY <3>1, <1>5, <1>7
  <2>4. Range(t) \subseteq {c} \cup Range(s)
    BY <2>1, <1>7
  <2>5. {c} \cup Range(s) \subseteq Range(t)
    BY <2>2, <2>3, <1>7
  <2> QED BY <2>4, <2>5
<1>9. IsInjective(t)
  <2> SUFFICES ASSUME NEW a \in 1..(1 + Len(s)), NEW b \in 1..(1 + Len(s)), t[a] = t[b]
               PROVE  a = b
    BY <1>5 DEF IsInjective
  <2>1. ASSUME NEW i \in 1..(1 + Len(s)), i # 1
        PROVE  i - 1 \in DOMAIN s /\ t[i] = s[i - 1] /\ t[i] # c
    <3>1. i - 1 \in 1..Len(s) /\ t[i] = s[i - 1]
      BY <2>1, <1>2, <1>4, SMT
    <3>2. t[i] \in Range(s)
      BY <3>1, <1>7
    <3> QED BY <3>1, <3>2, <1>2
  <2>2. CASE a = 1 \/ b = 1
    BY <2>2, <2>1, <1>5
  <2>3. CASE a # 1 /\ b # 1
    <3>1. a - 1 = b - 1
      BY <2>3, <2>1, <1>1 DEF IsInjective
    <3> QED BY <3>1, <1>2, SMT
  <2> QED BY <2>2, <2>3
<1>10. t \in Batches(n)
  BY <1>1, <1>4, <1>8, <1>9 DEF Batches
<1> QED
  BY <1>5, <1>8, <1>10 DEF t

\* The batch of a turn holds calls that were not issued before.
LEMMA BatchNew ==
  ASSUME NEW m \in Nat, NEW n \in Nat \ {0}, m + n <= MaxCalls
  PROVE  LET t == [i \in 1..n |-> m + i] IN
         t \in Batches(m + n) /\ \A c \in Range(t) : c > m
<1> DEFINE t == [i \in 1..n |-> m + i]
<1>1. \A i \in 1..n : m + i \in Calls /\ m + i \in 1..(m + n) /\ m + i > m
  BY AgentTaskAssumption, SMT DEF Calls
<1>2. t \in [1..n -> Calls] /\ DOMAIN t = 1..n
  BY <1>1
<1>3. t \in Seq(Calls)
  BY <1>2, SMT
<1>4. IsInjective(t)
  BY SMT DEF IsInjective
<1>5. Range(t) \subseteq 1..(m + n) /\ \A c \in Range(t) : c > m
  BY <1>1 DEF Range
<1> QED
  BY <1>3, <1>4, <1>5 DEF Batches

\* A set of numbers that is not empty has a least one.
LEMMA LeastOf ==
  ASSUME NEW T, T \subseteq Nat, T # {}
  PROVE  \E x \in T : \A y \in T : x <= y
<1> DEFINE R == OpToRel(<, Nat)
<1>1. IsWellFoundedOn(R, Nat)
  BY NatLessThanWellFounded
<1>2. \A x, y \in Nat : y < x => <<y, x>> \in R
  BY SMT DEF OpToRel
<1> HIDE DEF R
<1>3. PICK x \in T : \A y \in T : <<y, x>> \notin R
  BY <1>1, WFMin
<1>4. \A y \in T : ~ (y < x)
  BY <1>2, <1>3
<1> QED
  BY <1>3, <1>4, SMT

\* The reads at the head of a batch form a group that is not empty.
LEMMA GroupOfReads ==
  ASSUME worker.calls \in Seq(Calls), worker.calls # <<>>
  PROVE  GroupSize \in 1..Len(worker.calls)
<1> DEFINE s == worker.calls
           P(n) == /\ \A i \in 1..n : kind[s[i]] = "read"
                   /\ n = Len(s) \/ kind[s[n + 1]] # "read"
           T == {n \in 1..Len(s) : kind[s[n]] # "read"}
<1>1. Len(s) \in Nat \ {0} /\ Head(s) = s[1]
  BY EmptySeq, SMT
<1>2. 1 \in 1..Len(s)
  BY <1>1, SMT
<1>3. CASE HeadKind # "read"
  BY <1>2, <1>3 DEF GroupSize
<1>4. CASE HeadKind = "read"
  <2>1. kind[s[1]] = "read"
    BY <1>1, <1>4 DEF HeadKind, HeadCall
  <2>2. \E n \in 1..Len(s) : P(n)
    <3>1. CASE T = {}
      <4>1. Len(s) \in 1..Len(s)
        BY <1>1, SMT
      <4> QED BY <3>1, <4>1
    <3>2. CASE T # {}
      <4>1. T \subseteq Nat
        BY <1>1, SMT
      <4>2. PICK m \in T : \A n \in T : m <= n
        BY <3>2, <4>1, LeastOf
      <4>3. m # 1
        BY <2>1, <4>2
      <4>4. /\ m - 1 \in 1..Len(s) /\ (m - 1) + 1 = m
            /\ \A i \in 1..(m - 1) : i \in 1..Len(s) /\ ~ (m <= i)
        BY <4>3, <1>1, SMT
      <4>5. P(m - 1)
        BY <4>2, <4>4
      <4> QED BY <4>4, <4>5
    <3> QED BY <3>1, <3>2
  <2>3. GroupSize = CHOOSE n \in 1..Len(s) : P(n)
    BY <1>4 DEF GroupSize
  <2> HIDE DEF P
  <2>4. (CHOOSE n \in 1..Len(s) : P(n)) \in 1..Len(s)
    BY <2>2
  <2> QED BY <2>3, <2>4
<1> QED
  BY <1>3, <1>4

\* With no request waiting, the next one has an id of its own.
LEMMA FreshId == ASSUME pending = {} PROVE Fresh \in Nat \ {0}
<1>1. Cardinality(pending) = 0
  BY FS_EmptySet
<1>2. Fresh = CHOOSE n \in 1..1 : TRUE
  BY <1>1, SMT DEF Fresh
<1> QED
  BY <1>2, SMT

-----------------------------------------------------------------------------
(* How the worker moves. *)

\* The worker goes to another point and holds what it held.
Moves(p) ==
  /\ worker' \in Workers
  /\ worker'.pc = p /\ worker'.mode = worker.mode /\ worker'.calls = worker.calls
  /\ worker'.first = worker.first /\ worker'.done = worker.done
  /\ worker'.hist = worker.hist

\* A worker sent to another point moves there.
LEMMA ToMoves ==
  ASSUME worker \in Workers, NEW p \in Pcs, worker' = To(p)
  PROVE  Moves(p)
BY DEF Workers, To, Moves

\* The worker has returned.
Stops ==
  /\ worker' = NoWorker /\ worker' \in Workers /\ worker'.pc = "none"
  /\ worker'.mode = "none" /\ worker'.calls = <<>> /\ ~worker'.first
  /\ ~worker'.done /\ worker'.hist = {}
  /\ <<>> \in Seq(Calls) /\ <<>> \in Batches(issued) /\ Range(<<>>) = {}

\* A worker that ends has stopped.
LEMMA EndStops == ASSUME Types, worker' = NoWorker PROVE Stops
<1>1. issued \in Nat
  BY AgentTaskAssumption, SMT DEF Types
<1> QED
  BY <1>1, EmptySeq, EmptyBatch
     DEF Stops, NoWorker, Workers, Pcs, AwaitPoints, Modes

\* While a worker is at work no request waits and no decision is on its way.
LEMMA Quiet ==
  ASSUME IInv, worker.pc \notin {"none", "asking"}
  PROVE  /\ pending = {} /\ private = {} /\ ~resume
         /\ api.op = "idle" /\ host = "up"
<1>1. pending = {}
  BY DEF IInv, Control
<1>2. private = {}
  BY <1>1 DEF IInv, Control
<1>3. ~resume
  BY DEF IInv, Waits
<1>4. api.op = "idle"
  BY DEF IInv, Control
<1>5. host = "up"
  <2>1. NoWorker.pc = "none"
    BY DEF NoWorker
  <2> QED BY <2>1 DEF IInv, Control
<1> QED
  BY <1>1, <1>2, <1>3, <1>4, <1>5

\* A drive starts from a transcript, with no call in hand.
Drives(h) ==
  /\ worker' \in Workers /\ worker'.pc = "top" /\ worker'.mode = worker.mode
  /\ worker'.calls = <<>> /\ ~worker'.first /\ ~worker'.done /\ worker'.hist = h
  /\ <<>> \in Batches(issued) /\ Range(<<>>) = {}

\* A drive that starts drives from its transcript.
LEMMA StartDrives ==
  ASSUME Types, NEW h \in SUBSET Calls, ~worker.done, StartDrive(h)
  PROVE  /\ Drives(h) /\ status' = "running"
         /\ cancel' \in {"none", "clear", "set"}
<1>1. issued \in Nat
  BY AgentTaskAssumption, SMT DEF Types
<1>2. <<>> \in Batches(issued) /\ Range(<<>>) = {} /\ <<>> \in Seq(Calls)
  BY <1>1, EmptyBatch, EmptySeq
<1>3. cancel' \in {"none", "clear", "set"} /\ status' = "running"
  BY DEF Types, StartDrive, Setdefault
<1> QED
  BY <1>2, <1>3 DEF Types, StartDrive, Drives, Workers, Pcs

\* The batch goes on behind its first calls.
Advances(h, t) ==
  /\ worker' \in Workers /\ worker'.pc = "calls" /\ worker'.mode = worker.mode
  /\ worker'.calls = t /\ ~worker'.first /\ ~worker'.done /\ worker'.hist = h

\* A batch that goes on holds what is left of it.
LEMMA AdvanceAdvances ==
  ASSUME Types, NEW h \in SUBSET Calls, NEW n,
         SubSeq(worker.calls, n + 1, Len(worker.calls)) \in Seq(Calls),
         worker' = Advance(n, h)
  PROVE  Advances(h, SubSeq(worker.calls, n + 1, Len(worker.calls)))
BY DEF Types, Advance, Advances, Workers, Pcs

\* The call at the head of a worker's batch.
LEMMA HeadOfBatch ==
  ASSUME IInv, worker.calls # <<>>
  PROVE  /\ Head(worker.calls) \in 1..issued /\ Head(worker.calls) \in Calls
         /\ Tail(worker.calls) \in Batches(issued) /\ Tail(worker.calls) \in Seq(Calls)
         /\ Range(worker.calls) = {Head(worker.calls)} \cup Range(Tail(worker.calls))
         /\ Head(worker.calls) \notin Range(Tail(worker.calls))
         /\ SubSeq(worker.calls, 1 + 1, Len(worker.calls)) = Tail(worker.calls)
<1>1. issued \in Nat /\ worker.calls \in Batches(issued) /\ worker.calls \in Seq(Calls)
  BY AgentTaskAssumption, SMT DEF IInv, Types, Issued, Workers
<1>2. /\ Head(worker.calls) \in 1..issued /\ Head(worker.calls) \in Calls
      /\ Tail(worker.calls) \in Batches(issued)
      /\ Range(worker.calls) = {Head(worker.calls)} \cup Range(Tail(worker.calls))
      /\ Head(worker.calls) \notin Range(Tail(worker.calls))
  BY <1>1, BatchParts
<1>3. Tail(worker.calls) \in Seq(Calls)
  BY <1>2 DEF Batches
<1>4. SubSeq(worker.calls, 1 + 1, Len(worker.calls)) = Tail(worker.calls)
  <2>1. Tail(worker.calls) = SubSeq(worker.calls, 2, Len(worker.calls))
    BY <1>1, TailIsSubSeq
  <2>2. 1 + 1 = 2
    OBVIOUS
  <2> QED BY <2>1, <2>2
<1> QED
  BY <1>2, <1>3, <1>4

\* The row of a task that has nothing parked.
LEMMA NothingParked ==
  ASSUME Types
  PROVE  /\ Unparked \in [calls : Seq(Calls), first : BOOLEAN]
         /\ Unparked.calls = <<>> /\ <<>> \in Batches(issued) /\ Range(<<>>) = {}
<1>1. issued \in Nat
  BY AgentTaskAssumption, SMT DEF Types
<1> QED
  BY <1>1, EmptyBatch, EmptySeq DEF Unparked

\* The worker takes up the parked batch.
CarriesOn ==
  /\ worker.pc = "top" /\ parked.calls # <<>>
  /\ worker' \in Workers /\ worker'.pc = "calls" /\ worker'.mode = worker.mode
  /\ worker'.calls = parked.calls /\ worker'.first = parked.first
  /\ worker'.done = worker.done /\ worker'.hist = worker.hist
  /\ UNCHANGED <<status, planning, transcript, parked, resume, lost, pending,
                 ckpt, review, host, cancel, private, api, takeover, kind,
                 issued, effects, grants, confirms, everParked>>

\* A cancelled call goes to release the computer.
LEMMA UnwindMoves ==
  ASSUME Types, Unwind
  PROVE  Moves("releasing")
BY ToMoves DEF Types, Unwind, Pcs, AwaitPoints

\* The batch goes on behind its head.
LEMMA AdvanceHead ==
  ASSUME IInv, worker.calls # <<>>,
         worker' = Advance(1, worker.hist \cup {HeadCall})
  PROVE  Advances(worker.hist \cup {Head(worker.calls)}, Tail(worker.calls))
<1> DEFINE h == worker.hist \cup {Head(worker.calls)}
           t == SubSeq(worker.calls, 1 + 1, Len(worker.calls))
<1>1. h \in SUBSET Calls /\ t = Tail(worker.calls) /\ t \in Seq(Calls)
  BY HeadOfBatch DEF IInv, Types, Workers
<1>2. worker' = Advance(1, h)
  BY DEF HeadCall
<1>3. Advances(h, t)
  <2> HIDE DEF h
  <2> QED BY <1>1, <1>2, AdvanceAdvances DEF IInv
<1> QED
  BY <1>1, <1>3

\* A cancelled worker goes to release what it holds.
LEMMA UnwindKeeps ==
  ASSUME IInv, worker.pc \notin {"none", "asking"}, worker.pc # "created",
         Moves("releasing"),
         UNCHANGED <<status, planning, transcript, parked, resume, lost,
                     pending, ckpt, review, host, cancel, private,
                     api, takeover, kind, issued, effects, grants,
                     confirms, everParked>>
  PROVE  IInv'
<1>1. /\ pending = {} /\ private = {} /\ ~resume
      /\ api.op = "idle" /\ host = "up"
  BY Quiet
<1>2. Types'
  BY <1>1 DEF IInv, Types, Terminal, ACTIVE_STATUSES, Moves
<1>3. Control'
  BY <1>1 DEF IInv, Types, Control, Moves
<1>4. Holding'
  BY <1>1 DEF IInv, Types, Holding, Moves
<1>5. Waits'
  BY <1>1 DEF IInv, Types, Control, Asked, Waits, Resolvable, Moves
<1>6. Plans'
  BY <1>1 DEF IInv, Types, Control, Plans, NothingYet, Moves
<1>7. Results'
  BY <1>1 DEF IInv, Types, Control, Holding, Asked, Waits, Plans, Results, Known,
     BatchPcs, Moves
<1>8. Issued'
  BY <1>1 DEF IInv, Types, Control, Checkpointed, Issued, Moves
<1>9. Checkpointed'
  BY <1>1 DEF IInv, Types, Control, Issued, Checkpointed, NothingYet, Moves
<1>10. Budgeted'
  BY <1>1 DEF IInv, Types, Control, Issued, Checkpointed, Budgeted, Left, Ahead, Moves
<1>11. Reviewed'
  BY <1>1 DEF IInv, Types, Control, Reviewed, Moves
<1>12. Allowed'
  BY <1>1 DEF IInv, Types, Control, Issued, Checkpointed, Allowed, Excused, Moves
<1>13. Asked'
  BY <1>1 DEF IInv, Asked
<1> QED
  BY <1>2, <1>3, <1>4, <1>5, <1>6, <1>7, <1>8, <1>9, <1>10, <1>11, <1>12, <1>13 DEF
     IInv

\* A worker that ends leaves a task that is finished.
LEMMA EndKeeps ==
  ASSUME IInv, worker.pc \notin {"none", "asking"}, worker.pc # "created",
         Stops, status' \in Terminal, private' \subseteq private,
         cancel' \in {"none", "clear", "set"},
         UNCHANGED <<planning, transcript, parked, resume, lost, pending,
                     ckpt, review, host, api, takeover, kind,
                     issued, effects, grants, confirms, everParked>>
  PROVE  IInv'
<1>1. /\ pending = {} /\ private = {} /\ ~resume
      /\ api.op = "idle" /\ host = "up"
  BY Quiet
<1>2. Types'
  BY <1>1 DEF IInv, Types, Terminal, ACTIVE_STATUSES, Stops
<1>3. Control'
  BY <1>1 DEF IInv, Types, Control, Stops, Terminal
<1>4. Holding'
  BY <1>1 DEF IInv, Types, Holding, Stops
<1>5. Waits'
  BY <1>1 DEF IInv, Types, Control, Asked, Waits, Resolvable, Stops, Terminal,
     ACTIVE_STATUSES
<1>6. Plans'
  BY <1>1 DEF IInv, Types, Control, Plans, NothingYet, Stops
<1>7. Results'
  BY <1>1 DEF IInv, Types, Control, Holding, Asked, Waits, Plans, Results, Known,
     BatchPcs, Stops
<1>8. Issued'
  BY <1>1 DEF IInv, Types, Control, Checkpointed, Issued, Stops
<1>9. Checkpointed'
  BY <1>1 DEF IInv, Types, Control, Issued, Checkpointed, NothingYet, Stops
<1>10. Budgeted'
  BY <1>1 DEF IInv, Types, Control, Issued, Checkpointed, Budgeted, Left, Ahead, Stops
<1>11. Reviewed'
  BY <1>1 DEF IInv, Types, Control, Reviewed, Stops
<1>12. Allowed'
  BY <1>1 DEF IInv, Types, Control, Issued, Checkpointed, Allowed, Excused, Stops
<1>13. Asked'
  BY <1>1 DEF IInv, Asked
<1> QED
  BY <1>2, <1>3, <1>4, <1>5, <1>6, <1>7, <1>8, <1>9, <1>10, <1>11, <1>12, <1>13 DEF
     IInv

\* A pause saves the transcript that goes with what is parked.
LEMMA PauseKeeps ==
  ASSUME IInv, worker.pc \notin {"none", "asking"}, worker.pc # "created", ~worker.done,
         NEW p \in {"pause_shared", "pause_own"}, Moves(p),
         NEW hist \in SUBSET Calls, Known(hist, parked.calls),
         worker.pc = "planning" \/ ~planning,
         status' = "awaiting_approval", transcript' = hist,
         UNCHANGED <<planning, parked, resume, lost, pending, ckpt, review,
                     host, cancel, private, api, takeover, kind,
                     issued, effects, grants, confirms, everParked>>
  PROVE  IInv'
<1>1. /\ pending = {} /\ private = {} /\ ~resume
      /\ api.op = "idle" /\ host = "up"
  BY Quiet
<1>2. Types'
  BY <1>1 DEF IInv, Types, Terminal, ACTIVE_STATUSES, Moves
<1>3. Control'
  BY <1>1 DEF IInv, Types, Control, Moves
<1>4. Holding'
  BY <1>1 DEF IInv, Types, Holding, Moves
<1>5. Waits'
  BY <1>1 DEF IInv, Types, Control, Asked, Waits, Resolvable, Moves
<1>6. Plans'
  BY <1>1 DEF IInv, Types, Control, Plans, NothingYet, Moves
<1>7. Results'
  BY <1>1 DEF IInv, Types, Control, Holding, Asked, Waits, Plans, Results, Known,
     BatchPcs, Moves
<1>8. Issued'
  BY <1>1 DEF IInv, Types, Control, Checkpointed, Issued, Moves
<1>9. Checkpointed'
  BY <1>1 DEF IInv, Types, Control, Issued, Checkpointed, NothingYet, Moves
<1>10. Budgeted'
  BY <1>1 DEF IInv, Types, Control, Issued, Checkpointed, Budgeted, Left, Ahead, Moves
<1>11. Reviewed'
  BY <1>1 DEF IInv, Types, Control, Reviewed, Moves
<1>12. Allowed'
  BY <1>1 DEF IInv, Types, Control, Issued, Checkpointed, Allowed, Excused, Moves
<1>13. Asked'
  BY <1>1 DEF IInv, Asked
<1> QED
  BY <1>2, <1>3, <1>4, <1>5, <1>6, <1>7, <1>8, <1>9, <1>10, <1>11, <1>12, <1>13 DEF
     IInv

\* A drive goes on from what was saved.
LEMMA DriveKeeps ==
  ASSUME IInv, worker.pc \notin {"none", "asking"}, NEW h \in SUBSET Calls, Drives(h),
         Known(h, parked.calls), ~planning, ~worker.done,
         status' = "running", cancel' \in {"none", "clear", "set"},
         UNCHANGED <<planning, transcript, parked, resume, lost, pending,
                     ckpt, review, host, private, api, takeover,
                     kind, issued, effects, grants, confirms,
                     everParked>>
  PROVE  IInv'
<1>1. /\ pending = {} /\ private = {} /\ ~resume
      /\ api.op = "idle" /\ host = "up"
  BY Quiet
<1>2. Types'
  BY <1>1 DEF IInv, Types, Terminal, ACTIVE_STATUSES, Drives
<1>3. Control'
  BY <1>1 DEF IInv, Types, Control, Drives
<1>4. Holding'
  BY <1>1 DEF IInv, Types, Holding, Drives
<1>5. Waits'
  BY <1>1 DEF IInv, Types, Control, Asked, Waits, Resolvable, Drives
<1>6. Plans'
  BY <1>1 DEF IInv, Types, Control, Plans, NothingYet, Drives
<1>7. Results'
  BY <1>1 DEF IInv, Types, Control, Holding, Asked, Waits, Plans, Results, Known,
     BatchPcs, Drives
<1>8. Issued'
  BY <1>1 DEF IInv, Types, Control, Checkpointed, Issued, Drives
<1>9. Checkpointed'
  BY <1>1 DEF IInv, Types, Control, Issued, Checkpointed, NothingYet, Drives
<1>10. Budgeted'
  BY <1>1 DEF IInv, Types, Control, Issued, Checkpointed, Budgeted, Left, Ahead,
     Drives
<1>11. Reviewed'
  BY <1>1 DEF IInv, Types, Control, Reviewed, Drives
<1>12. Allowed'
  BY <1>1 DEF IInv, Types, Control, Issued, Checkpointed, Allowed, Excused, Drives
<1>13. Asked'
  BY <1>1 DEF IInv, Asked
<1> QED
  BY <1>2, <1>3, <1>4, <1>5, <1>6, <1>7, <1>8, <1>9, <1>10, <1>11, <1>12, <1>13 DEF
     IInv

\* A launched drive goes on from what was saved.
LEMMA LaunchedDriveKeeps ==
  ASSUME IInv, worker.pc = "created", worker.mode = "drive",
         NEW h \in SUBSET Calls, Drives(h),
         Known(h, parked.calls), ~planning, ~worker.done,
         status' = "running", cancel' \in {"none", "clear", "set"},
         UNCHANGED <<planning, transcript, parked, resume, lost, pending,
                     ckpt, review, host, private, api, takeover,
                     kind, issued, effects, grants, confirms,
                     everParked>>
  PROVE  IInv'
<1>1. /\ pending = {} /\ private = {} /\ ~resume
      /\ api.op = "idle" /\ host = "up"
  BY Quiet
<1>2. Types'
  BY <1>1 DEF IInv, Types, Terminal, ACTIVE_STATUSES, Drives
<1>3. Control'
  BY <1>1 DEF IInv, Types, Control, Drives
<1>4. Holding'
  BY <1>1 DEF IInv, Types, Holding, Drives
<1>5. Waits'
  BY <1>1 DEF IInv, Types, Control, Asked, Waits, Resolvable, Drives
<1>6. Plans'
  BY <1>1 DEF IInv, Types, Control, Plans, NothingYet, Drives
<1>7. Results'
  BY <1>1 DEF IInv, Types, Control, Holding, Asked, Waits, Plans, Results, Known,
     BatchPcs, Drives
<1>8. Issued'
  BY <1>1 DEF IInv, Types, Control, Checkpointed, Issued, Drives
<1>9. Checkpointed'
  BY <1>1 DEF IInv, Types, Control, Issued, Checkpointed, NothingYet, Drives
<1>10. Budgeted'
  BY <1>1 DEF IInv, Types, Control, Issued, Checkpointed, Budgeted, Left, Ahead,
     Drives
<1>11. Reviewed'
  BY <1>1 DEF IInv, Types, Control, Reviewed, Drives
<1>12. Allowed'
  BY <1>1 DEF IInv, Types, Control, Issued, Checkpointed, Allowed, Excused, Drives
<1>13. Asked'
  BY <1>1 DEF IInv, Asked
<1> QED
  BY <1>2, <1>3, <1>4, <1>5, <1>6, <1>7, <1>8, <1>9, <1>10, <1>11, <1>12, <1>13 DEF
     IInv

\* A parked batch is taken up again.
LEMMA CarriesOnKeeps ==
  ASSUME IInv, CarriesOn
  PROVE  IInv'
<1>1. /\ pending = {} /\ private = {} /\ ~resume
      /\ api.op = "idle" /\ host = "up"
  BY Quiet DEF CarriesOn
<1>2. /\ worker.pc = "top" /\ worker' \in Workers /\ worker'.pc = "calls"
      /\ worker'.mode = worker.mode /\ worker'.calls = parked.calls
      /\ worker'.done = worker.done /\ worker'.hist = worker.hist
  BY DEF CarriesOn
<1>3. /\ Head(parked.calls) \in everParked /\ Range(parked.calls) \subseteq everParked
      /\ ~worker.done /\ Known(worker.hist, parked.calls) /\ parked.calls # <<>>
      /\ UNCHANGED <<status, planning, transcript, parked, resume, lost, pending,
                     ckpt, review, host, cancel, private, api, takeover,
                     kind, issued, effects, grants, confirms,
                     everParked>>
  BY AgentTaskAssumption, BatchParts DEF CarriesOn, IInv, Types, Issued, Holding,
     Results
<1>4. Types'
  BY <1>1, <1>2, <1>3 DEF IInv, Types, Terminal, ACTIVE_STATUSES
<1>5. Control'
  BY <1>1, <1>2, <1>3 DEF IInv, Types, Control
<1>6. Holding'
  BY <1>1, <1>2, <1>3 DEF IInv, Types, Holding
<1>7. Waits'
  BY <1>1, <1>2, <1>3 DEF IInv, Types, Control, Asked, Waits, Resolvable
<1>8. Plans'
  BY <1>1, <1>2, <1>3 DEF IInv, Types, Control, Plans, NothingYet
<1>9. Results'
  BY <1>1, <1>2, <1>3 DEF IInv, Types, Control, Holding, Asked, Waits, Plans,
     Results, Known, BatchPcs
<1>10. Issued'
  BY <1>1, <1>2, <1>3 DEF IInv, Types, Control, Checkpointed, Issued
<1>11. Checkpointed'
  BY <1>1, <1>2, <1>3 DEF IInv, Types, Control, Issued, Checkpointed, NothingYet
<1>12. Budgeted'
  BY <1>1, <1>2, <1>3 DEF IInv, Types, Control, Issued, Checkpointed, Budgeted,
     Left, Ahead
<1>13. Reviewed'
  BY <1>1, <1>2, <1>3 DEF IInv, Types, Control, Reviewed
<1>14. Allowed'
  BY <1>1, <1>2, <1>3 DEF IInv, Types, Control, Issued, Checkpointed, Allowed, Excused
<1>15. Asked'
  BY <1>1, <1>2, <1>3 DEF IInv, Asked
<1> QED
  BY <1>4, <1>5, <1>6, <1>7, <1>8, <1>9, <1>10, <1>11, <1>12, <1>13, <1>14, <1>15
     DEF IInv

\* The provider is asked when nothing is parked.
LEMMA AsksProviderKeeps ==
  ASSUME IInv, worker.pc = "top", parked.calls = <<>>, Moves("turn"),
         UNCHANGED <<status, planning, transcript, parked, resume, lost,
                     pending, ckpt, review, host, cancel, private,
                     api, takeover, kind, issued, effects, grants,
                     confirms, everParked>>
  PROVE  IInv'
<1>1. /\ pending = {} /\ private = {} /\ ~resume
      /\ api.op = "idle" /\ host = "up"
  BY Quiet
<1>2. Types'
  BY <1>1 DEF IInv, Types, Terminal, ACTIVE_STATUSES, Moves
<1>3. Control'
  BY <1>1 DEF IInv, Types, Control, Moves
<1>4. Holding'
  BY <1>1 DEF IInv, Types, Holding, Moves
<1>5. Waits'
  BY <1>1 DEF IInv, Types, Control, Asked, Waits, Resolvable, Moves
<1>6. Plans'
  BY <1>1 DEF IInv, Types, Control, Plans, NothingYet, Moves
<1>7. Results'
  BY <1>1 DEF IInv, Types, Control, Holding, Asked, Waits, Plans, Results, Known,
     BatchPcs, Moves
<1>8. Issued'
  BY <1>1 DEF IInv, Types, Control, Checkpointed, Issued, Moves
<1>9. Checkpointed'
  BY <1>1 DEF IInv, Types, Control, Issued, Checkpointed, NothingYet, Moves
<1>10. Budgeted'
  BY <1>1 DEF IInv, Types, Control, Issued, Checkpointed, Budgeted, Left, Ahead, Moves
<1>11. Reviewed'
  BY <1>1 DEF IInv, Types, Control, Reviewed, Moves
<1>12. Allowed'
  BY <1>1 DEF IInv, Types, Control, Issued, Checkpointed, Allowed, Excused, Moves
<1>13. Asked'
  BY <1>1 DEF IInv, Asked
<1> QED
  BY <1>2, <1>3, <1>4, <1>5, <1>6, <1>7, <1>8, <1>9, <1>10, <1>11, <1>12, <1>13 DEF
     IInv

\* Planning goes on.
LEMMA PlansAgainKeeps ==
  ASSUME IInv, worker.pc = "created", worker.mode = "plan", Moves("planning"),
         cancel' \in {"none", "clear", "set"},
         UNCHANGED <<status, planning, transcript, parked, resume, lost,
                     pending, ckpt, review, host, private, api,
                     takeover, kind, issued, effects, grants,
                     confirms, everParked>>
  PROVE  IInv'
<1>1. /\ pending = {} /\ private = {} /\ ~resume
      /\ api.op = "idle" /\ host = "up"
  BY Quiet
<1>2. Types'
  BY <1>1 DEF IInv, Types, Terminal, ACTIVE_STATUSES, Moves
<1>3. Control'
  BY <1>1 DEF IInv, Types, Control, Moves
<1>4. Holding'
  BY <1>1 DEF IInv, Types, Holding, Moves
<1>5. Waits'
  BY <1>1 DEF IInv, Types, Control, Asked, Waits, Resolvable, Moves
<1>6. Plans'
  BY <1>1 DEF IInv, Types, Control, Plans, NothingYet, Moves
<1>7. Results'
  BY <1>1 DEF IInv, Types, Control, Holding, Asked, Waits, Plans, Results, Known,
     BatchPcs, Moves
<1>8. Issued'
  BY <1>1 DEF IInv, Types, Control, Checkpointed, Issued, Moves
<1>9. Checkpointed'
  BY <1>1 DEF IInv, Types, Control, Issued, Checkpointed, NothingYet, Moves
<1>10. Budgeted'
  BY <1>1 DEF IInv, Types, Control, Issued, Checkpointed, Budgeted, Left, Ahead, Moves
<1>11. Reviewed'
  BY <1>1 DEF IInv, Types, Control, Reviewed, Moves
<1>12. Allowed'
  BY <1>1 DEF IInv, Types, Control, Issued, Checkpointed, Allowed, Excused, Moves
<1>13. Asked'
  BY <1>1 DEF IInv, Asked
<1> QED
  BY <1>2, <1>3, <1>4, <1>5, <1>6, <1>7, <1>8, <1>9, <1>10, <1>11, <1>12, <1>13 DEF
     IInv

\* The calls of a request or a checkpoint are run.
LEMMA RunsAgainKeeps ==
  ASSUME IInv, worker.pc = "created", worker.mode \in {"approved", "resume"},
         Moves("calls"), cancel' \in {"none", "clear", "set"},
         \/ ckpt' = ckpt
         \/ /\ worker.mode = "resume" /\ ckpt.state = "completed_uncommitted"
            /\ ckpt' = [ckpt EXCEPT !.state = "committed"],
         \/ worker.mode = "resume" /\ status' = "running"
         \/ worker.mode = "approved" /\ status' = status,
         UNCHANGED <<planning, transcript, parked, resume, lost, pending,
                     review, host, private, api, takeover, kind,
                     issued, effects, grants, confirms, everParked>>
  PROVE  IInv'
<1>1. /\ pending = {} /\ private = {} /\ ~resume
      /\ api.op = "idle" /\ host = "up"
  BY Quiet
<1>2. /\ ckpt' \in Checkpoints /\ ckpt'.call = ckpt.call /\ ckpt'.rest = ckpt.rest
      /\ ckpt'.hist = ckpt.hist
      /\ \/ ckpt'.state = ckpt.state
         \/ ckpt.state = "completed_uncommitted" /\ ckpt'.state = "committed"
      /\ ckpt.state = "none" => ckpt' = ckpt
      /\ status' \in ACTIVE_STATUSES \cup Terminal
  BY DEF IInv, Types, Checkpoints, ACTIVE_STATUSES
<1>3. Types'
  BY <1>1, <1>2 DEF IInv, Types, Terminal, ACTIVE_STATUSES, Moves
<1>4. Control'
  BY <1>1, <1>2 DEF IInv, Types, Control, Moves
<1>5. Holding'
  BY <1>1, <1>2 DEF IInv, Types, Holding, Moves
<1>6. Waits'
  BY <1>1, <1>2 DEF IInv, Types, Control, Asked, Waits, Resolvable, Moves
<1>7. Plans'
  BY <1>1, <1>2 DEF IInv, Types, Control, Plans, NothingYet, Moves
<1>8. Results'
  BY <1>1, <1>2 DEF IInv, Types, Control, Holding, Asked, Waits, Plans, Results,
     Known, BatchPcs, Moves
<1>9. Issued'
  BY <1>1, <1>2 DEF IInv, Types, Control, Checkpointed, Issued, Moves
<1>10. Checkpointed'
  BY <1>1, <1>2 DEF IInv, Types, Control, Issued, Checkpointed, NothingYet, Moves
<1>11. Budgeted'
  BY <1>1, <1>2 DEF IInv, Types, Control, Issued, Checkpointed, Budgeted, Left,
     Ahead, Moves
<1>12. Reviewed'
  BY <1>1, <1>2 DEF IInv, Types, Control, Reviewed, Moves
<1>13. Allowed'
  BY <1>1, <1>2 DEF IInv, Types, Control, Issued, Checkpointed, Allowed, Excused,
     Moves
<1>14. Asked'
  BY <1>1, <1>2 DEF IInv, Asked
<1> QED
  BY <1>3, <1>4, <1>5, <1>6, <1>7, <1>8, <1>9, <1>10, <1>11, <1>12, <1>13, <1>14 DEF
     IInv

\* The request of a pause is recorded.
LEMMA PauseBudgetAsksKeeps ==
  ASSUME IInv, PauseBudgetAsks
  PROVE  IInv'
<1>1. /\ pending = {} /\ private = {} /\ ~resume
      /\ api.op = "idle" /\ host = "up"
  BY Quiet DEF PauseBudgetAsks, At
<1>2. Stops
  BY EndStops DEF IInv, PauseBudgetAsks, EndWorker
<1>3. PICK r \in Requests : pending' = {r} /\ r.kind = "budget" /\ r.calls = <<>>
  <2> DEFINE r == [id |-> Fresh, kind |-> "budget", calls |-> <<>>, hist |-> {},
                    shared |-> worker.pc = "pause_shared"]
  <2>1. r \in Requests /\ r.kind = "budget" /\ r.calls = <<>>
    BY <1>1, FreshId, EmptySeq DEF Requests
  <2>2. pending' = {r}
    BY <1>1 DEF PauseBudgetAsks
  <2> QED BY <2>1, <2>2
<1>4. status = "awaiting_approval" /\ worker.pc \in {"pause_shared", "pause_own"}
  BY DEF IInv, Control, PauseBudgetAsks, At
<1>5. /\ cancel' \in {"none", "clear", "set"}
      /\ UNCHANGED <<status, planning, transcript, parked, resume, lost, ckpt,
                     review, host, private, api, takeover, kind, issued,
                     effects, grants, confirms, everParked>>
  BY DEF IInv, Types, PauseBudgetAsks, EndWorker, ghosts
<1>6. Types'
  BY <1>1, <1>2, <1>3, <1>4, <1>5 DEF IInv, Types, Terminal, ACTIVE_STATUSES, Stops
<1>7. Control'
  BY <1>1, <1>2, <1>3, <1>4, <1>5 DEF IInv, Types, Control, Stops
<1>8. Holding'
  BY <1>1, <1>2, <1>3, <1>4, <1>5 DEF IInv, Types, Holding, Stops
<1>9. Asked'
  BY <1>1, <1>2, <1>3, <1>4, <1>5 DEF IInv, Types, Asked, Stops
<1>10. Waits'
  BY <1>1, <1>2, <1>3, <1>4, <1>5 DEF IInv, Types, Control, Asked, Waits,
     Resolvable, Stops
<1>11. Plans'
  BY <1>1, <1>2, <1>3, <1>4, <1>5 DEF IInv, Types, Control, Plans, NothingYet, Stops
<1>12. Results'
  BY <1>1, <1>2, <1>3, <1>4, <1>5 DEF IInv, Types, Control, Holding, Asked, Waits,
     Plans, Results, Known, BatchPcs, Stops
<1>13. Issued'
  BY <1>1, <1>2, <1>3, <1>4, <1>5 DEF IInv, Types, Control, Checkpointed, Issued,
     Stops
<1>14. Checkpointed'
  BY <1>1, <1>2, <1>3, <1>4, <1>5 DEF IInv, Types, Control, Issued, Checkpointed,
     NothingYet, Stops
<1>15. Budgeted'
  BY <1>1, <1>2, <1>3, <1>4, <1>5 DEF IInv, Types, Control, Issued, Checkpointed,
     Budgeted, Left, Ahead, Stops
<1>16. Reviewed'
  BY <1>1, <1>2, <1>3, <1>4, <1>5 DEF IInv, Types, Control, Reviewed, Stops
<1>17. Allowed'
  BY <1>1, <1>2, <1>3, <1>4, <1>5 DEF IInv, Types, Control, Issued, Checkpointed,
     Allowed, Excused, Stops
<1> QED
  BY <1>6, <1>7, <1>8, <1>9, <1>10, <1>11, <1>12, <1>13, <1>14, <1>15, <1>16, <1>17
     DEF IInv

\* The plan is put to the user.
LEMMA PlanAsksKeeps ==
  ASSUME IInv, PlanAsks
  PROVE  IInv'
<1>1. /\ pending = {} /\ private = {} /\ ~resume
      /\ api.op = "idle" /\ host = "up"
  BY Quiet DEF PlanAsks, At
<1>2. Stops
  BY EndStops DEF IInv, PlanAsks, EndWorker
<1>3. PICK r \in Requests : pending' = {r} /\ r.kind = "plan" /\ r.calls = <<>> /\ ~r.shared
  <2> DEFINE r == [id |-> Fresh, kind |-> "plan", calls |-> <<>>, hist |-> {},
                    shared |-> FALSE]
  <2>1. r \in Requests /\ r.kind = "plan" /\ r.calls = <<>> /\ ~r.shared
    BY <1>1, FreshId, EmptySeq DEF Requests
  <2>2. pending' = {r}
    BY <1>1 DEF PlanAsks
  <2> QED BY <2>1, <2>2
<1>4. /\ status = "awaiting_approval" /\ worker.pc = "planned" /\ ~planning
      /\ \A c \in Calls : effects[c] = 0
  BY DEF IInv, Control, Plans, NothingYet, PlanAsks, At
<1>5. /\ cancel' \in {"none", "clear", "set"}
      /\ UNCHANGED <<status, planning, transcript, parked, resume, lost, ckpt,
                     review, host, private, api, takeover, kind, issued,
                     effects, grants, confirms, everParked>>
  BY DEF IInv, Types, PlanAsks, EndWorker, ghosts
<1>6. Types'
  BY <1>1, <1>2, <1>3, <1>4, <1>5 DEF IInv, Types, Terminal, ACTIVE_STATUSES, Stops
<1>7. Control'
  BY <1>1, <1>2, <1>3, <1>4, <1>5 DEF IInv, Types, Control, Stops
<1>8. Holding'
  BY <1>1, <1>2, <1>3, <1>4, <1>5 DEF IInv, Types, Holding, Stops
<1>9. Asked'
  BY <1>1, <1>2, <1>3, <1>4, <1>5 DEF IInv, Types, Asked, Stops
<1>10. Waits'
  BY <1>1, <1>2, <1>3, <1>4, <1>5 DEF IInv, Types, Control, Asked, Waits,
     Resolvable, Stops
<1>11. Plans'
  BY <1>1, <1>2, <1>3, <1>4, <1>5 DEF IInv, Types, Control, Plans, NothingYet, Stops
<1>12. Results'
  BY <1>1, <1>2, <1>3, <1>4, <1>5 DEF IInv, Types, Control, Holding, Asked, Waits,
     Plans, Results, Known, BatchPcs, Stops
<1>13. Issued'
  BY <1>1, <1>2, <1>3, <1>4, <1>5 DEF IInv, Types, Control, Checkpointed, Issued,
     Stops
<1>14. Checkpointed'
  BY <1>1, <1>2, <1>3, <1>4, <1>5 DEF IInv, Types, Control, Issued, Checkpointed,
     NothingYet, Stops
<1>15. Budgeted'
  BY <1>1, <1>2, <1>3, <1>4, <1>5 DEF IInv, Types, Control, Issued, Checkpointed,
     Budgeted, Left, Ahead, Stops
<1>16. Reviewed'
  BY <1>1, <1>2, <1>3, <1>4, <1>5 DEF IInv, Types, Control, Reviewed, Stops
<1>17. Allowed'
  BY <1>1, <1>2, <1>3, <1>4, <1>5 DEF IInv, Types, Control, Issued, Checkpointed,
     Allowed, Excused, Stops
<1> QED
  BY <1>6, <1>7, <1>8, <1>9, <1>10, <1>11, <1>12, <1>13, <1>14, <1>15, <1>16, <1>17
     DEF IInv

\* The status follows the request for a call.
LEMMA AskedForKeeps ==
  ASSUME IInv, AskedFor
  PROVE  IInv'
<1>1. Stops
  BY EndStops DEF IInv, AskedFor, EndWorker
<1>2. /\ host = "up" /\ api.op = "idle" /\ worker.pc = "asking" /\ ~resume
      /\ \E a \in pending : a.kind = "tool" /\ a.id \in private
      /\ \A a \in pending : a.kind = "tool"
  BY DEF IInv, Control, Waits, AskedFor, At
<1>3. /\ status' = "awaiting_approval" /\ transcript' \in SUBSET Calls
      /\ cancel' \in {"none", "clear", "set"}
      /\ UNCHANGED <<planning, parked, resume, lost, pending, ckpt, review, host,
                     private, api, takeover, kind, issued, effects,
                     grants, confirms, everParked>>
  BY DEF IInv, Types, Workers, AskedFor, EndWorker, ghosts
<1>4. Types'
  BY <1>1, <1>2, <1>3 DEF IInv, Types, Terminal, ACTIVE_STATUSES, Stops
<1>5. Control'
  BY <1>1, <1>2, <1>3 DEF IInv, Types, Control, Stops
<1>6. Holding'
  BY <1>1, <1>2, <1>3 DEF IInv, Types, Holding, Stops
<1>7. Waits'
  BY <1>1, <1>2, <1>3 DEF IInv, Types, Control, Asked, Waits, Resolvable, Stops
<1>8. Plans'
  BY <1>1, <1>2, <1>3 DEF IInv, Types, Control, Plans, NothingYet, Stops
<1>9. Results'
  BY <1>1, <1>2, <1>3 DEF IInv, Types, Control, Holding, Asked, Waits, Plans,
     Results, Known, BatchPcs, Stops
<1>10. Issued'
  BY <1>1, <1>2, <1>3 DEF IInv, Types, Control, Checkpointed, Issued, Stops
<1>11. Checkpointed'
  BY <1>1, <1>2, <1>3 DEF IInv, Types, Control, Issued, Checkpointed, NothingYet,
     Stops
<1>12. Budgeted'
  BY <1>1, <1>2, <1>3 DEF IInv, Types, Control, Issued, Checkpointed, Budgeted,
     Left, Ahead, Stops
<1>13. Reviewed'
  BY <1>1, <1>2, <1>3 DEF IInv, Types, Control, Reviewed, Stops
<1>14. Allowed'
  BY <1>1, <1>2, <1>3 DEF IInv, Types, Control, Issued, Checkpointed, Allowed,
     Excused, Stops
<1>15. Asked'
  BY <1>1, <1>2, <1>3 DEF IInv, Asked
<1> QED
  BY <1>4, <1>5, <1>6, <1>7, <1>8, <1>9, <1>10, <1>11, <1>12, <1>13, <1>14, <1>15
     DEF IInv

\* The plan arrives.
LEMMA PlanReadyKeeps ==
  ASSUME IInv, PlanReady
  PROVE  IInv'
<1>1. /\ pending = {} /\ private = {} /\ ~resume
      /\ api.op = "idle" /\ host = "up"
  BY Quiet DEF PlanReady, At
<1>2. Moves("planned")
  BY ToMoves DEF IInv, Types, Pcs, AwaitPoints, PlanReady
<1>3. /\ parked' \in [calls : Seq(Calls), first : BOOLEAN]
      /\ parked'.calls = <<>> /\ <<>> \in Batches(issued) /\ Range(<<>>) = {}
  BY NothingParked DEF IInv, PlanReady
<1>4. /\ worker.pc = "planning" /\ status' = "awaiting_approval" /\ ~planning'
      /\ transcript' = {} /\ ~resume'
      /\ planning' \in BOOLEAN /\ resume' \in BOOLEAN
      /\ UNCHANGED <<lost, pending, ckpt, review, host, cancel, private, api,
                     takeover, kind, issued, effects, grants, confirms,
                     everParked>>
  BY DEF PlanReady, At, ghosts
<1>5. Types'
  BY <1>1, <1>2, <1>3, <1>4 DEF IInv, Types, Terminal, ACTIVE_STATUSES, Moves
<1>6. Control'
  BY <1>1, <1>2, <1>3, <1>4 DEF IInv, Types, Control, Moves
<1>7. Holding'
  BY <1>1, <1>2, <1>3, <1>4 DEF IInv, Types, Holding, Moves
<1>8. Waits'
  BY <1>1, <1>2, <1>3, <1>4 DEF IInv, Types, Control, Asked, Waits, Resolvable, Moves
<1>9. Plans'
  BY <1>1, <1>2, <1>3, <1>4 DEF IInv, Types, Control, Plans, NothingYet, Moves
<1>10. Results'
  BY <1>1, <1>2, <1>3, <1>4 DEF IInv, Types, Control, Holding, Asked, Waits, Plans,
     Results, Known, BatchPcs, Moves
<1>11. Issued'
  BY <1>1, <1>2, <1>3, <1>4 DEF IInv, Types, Control, Checkpointed, Issued, Moves
<1>12. Checkpointed'
  BY <1>1, <1>2, <1>3, <1>4 DEF IInv, Types, Control, Issued, Checkpointed,
     NothingYet, Moves
<1>13. Budgeted'
  BY <1>1, <1>2, <1>3, <1>4 DEF IInv, Types, Control, Issued, Checkpointed,
     Budgeted, Left, Ahead, Moves
<1>14. Reviewed'
  BY <1>1, <1>2, <1>3, <1>4 DEF IInv, Types, Control, Reviewed, Moves
<1>15. Allowed'
  BY <1>1, <1>2, <1>3, <1>4 DEF IInv, Types, Control, Issued, Checkpointed, Allowed,
     Excused, Moves
<1>16. Asked'
  BY <1>1, <1>2, <1>3, <1>4 DEF IInv, Asked
<1> QED
  BY <1>5, <1>6, <1>7, <1>8, <1>9, <1>10, <1>11, <1>12, <1>13, <1>14, <1>15, <1>16
     DEF IInv

\* A turn returns a batch of new calls.
LEMMA TurnCallsKeeps ==
  ASSUME IInv, TurnCalls
  PROVE  IInv'
<1>1. /\ pending = {} /\ private = {} /\ ~resume
      /\ api.op = "idle" /\ host = "up"
  BY Quiet DEF TurnCalls, At
<1>2. PICK n \in 1..MaxBatch : issued + n <= MaxCalls /\ issued' = issued + n
        /\ worker' = [worker EXCEPT !.pc = "calls", !.fromParked = FALSE,
                       !.first = FALSE, !.calls = [i \in 1..n |-> issued + i]]
  BY DEF TurnCalls
<1>3. /\ issued \in Nat /\ n \in Nat \ {0} /\ issued' \in Nat /\ issued <= issued'
      /\ issued' \in 0..MaxCalls
  BY <1>1, <1>2, AgentTaskAssumption, SMT DEF IInv, Types
<1>4. /\ worker'.calls \in Batches(issued') /\ \A c \in Range(worker'.calls) : c > issued
      /\ Batches(issued) \subseteq Batches(issued')
  <2>1. worker'.calls = [i \in 1..n |-> issued + i]
    BY <1>2 DEF IInv, Types, Workers
  <2>2. /\ [i \in 1..n |-> issued + i] \in Batches(issued + n)
        /\ \A c \in Range([i \in 1..n |-> issued + i]) : c > issued
    BY <1>2, <1>3, BatchNew
  <2>3. Batches(issued) \subseteq Batches(issued')
    BY <1>3, BatchGrows
  <2> QED BY <2>1, <2>2, <2>3, <1>2
<1>5. /\ worker' \in Workers /\ worker'.pc = "calls" /\ worker'.mode = worker.mode
      /\ ~worker'.first /\ worker'.done = worker.done /\ worker'.hist = worker.hist
  BY <1>2, <1>4 DEF IInv, Types, Workers, Pcs, Batches
<1>6. /\ worker.pc = "turn" /\ ~worker.done /\ Range(<<>>) = {}
      /\ UNCHANGED <<status, planning, transcript, parked, resume, lost, pending,
                     ckpt, review, host, cancel, private, api, takeover,
                     kind, effects, grants, confirms, everParked>>
  BY <1>1, <1>2, <1>3, <1>4, <1>5, EmptyBatch DEF IInv, Holding, TurnCalls, At,
     durable
<1>7. Types'
  BY <1>1, <1>2, <1>3, <1>4, <1>5, <1>6 DEF IInv, Types, Terminal, ACTIVE_STATUSES
<1>8. Control'
  BY <1>1, <1>2, <1>3, <1>4, <1>5, <1>6 DEF IInv, Types, Control
<1>9. Holding'
  BY <1>1, <1>2, <1>3, <1>4, <1>5, <1>6 DEF IInv, Types, Holding
<1>10. Waits'
  BY <1>1, <1>2, <1>3, <1>4, <1>5, <1>6 DEF IInv, Types, Control, Asked, Waits,
     Resolvable
<1>11. Plans'
  BY <1>1, <1>2, <1>3, <1>4, <1>5, <1>6 DEF IInv, Types, Control, Plans, NothingYet
<1>12. Results'
  BY <1>1, <1>2, <1>3, <1>4, <1>5, <1>6 DEF IInv, Types, Control, Holding, Asked,
     Waits, Plans, Results, Known, BatchPcs
<1>13. Issued'
  BY <1>1, <1>2, <1>3, <1>4, <1>5, <1>6 DEF IInv, Types, Control, Checkpointed,
     Issued, Calls
<1>14. Checkpointed'
  BY <1>1, <1>2, <1>3, <1>4, <1>5, <1>6 DEF IInv, Types, Control, Issued,
     Checkpointed, NothingYet
<1>15. Budgeted'
  <2>1. ASSUME NEW c \in Calls, c \in Range(worker'.calls)
        PROVE  effects'[c] <= confirms'[c]
    <3>1. effects[c] = 0 /\ confirms[c] \in Nat
      BY <2>1, <1>4 DEF IInv, Types, Issued
    <3> QED BY <3>1, <1>6, SMT
  <2>2. ASSUME NEW c \in Calls, Ahead(c)', c \notin Range(worker'.calls) PROVE Ahead(c)
    BY <2>2, <1>1, <1>2, <1>3, <1>4, <1>5, <1>6 DEF Ahead, Left
  <2> QED BY <2>1, <2>2, <1>6 DEF IInv, Budgeted
<1>16. Reviewed'
  BY <1>1, <1>2, <1>3, <1>4, <1>5, <1>6 DEF IInv, Types, Control, Reviewed
<1>17. Allowed'
  BY <1>1, <1>2, <1>3, <1>4, <1>5, <1>6 DEF IInv, Types, Control, Issued,
     Checkpointed, Allowed, Excused
<1>18. Asked'
  BY <1>1, <1>2, <1>3, <1>4, <1>5, <1>6 DEF IInv, Asked
<1> QED
  BY <1>7, <1>8, <1>9, <1>10, <1>11, <1>12, <1>13, <1>14, <1>15, <1>16, <1>17, <1>18
     DEF IInv

\* A turn without a call completes the task.
LEMMA TurnCompletesKeeps ==
  ASSUME IInv, TurnCompletes
  PROVE  IInv'
<1>1. /\ pending = {} /\ private = {} /\ ~resume
      /\ api.op = "idle" /\ host = "up"
  BY Quiet DEF TurnCompletes, At
<1>2. Stops
  BY EndStops DEF IInv, TurnCompletes, EndWorker
<1>3. /\ parked' \in [calls : Seq(Calls), first : BOOLEAN]
      /\ parked'.calls = <<>> /\ <<>> \in Batches(issued) /\ Range(<<>>) = {}
  BY NothingParked DEF IInv, TurnCompletes
<1>4. /\ worker.pc = "turn" /\ status' = "completed" /\ ~planning'
      /\ transcript' = {} /\ ~resume' /\ private' = private
      /\ planning' \in BOOLEAN /\ resume' \in BOOLEAN /\ lost' \in BOOLEAN
      /\ cancel' \in {"none", "clear", "set"}
      /\ UNCHANGED <<pending, ckpt, review, host, api, takeover, kind, issued,
                     effects, grants, confirms, everParked>>
  BY DEF IInv, Types, TurnCompletes, EndWorker, At, ghosts
<1>5. Types'
  BY <1>1, <1>2, <1>3, <1>4 DEF IInv, Types, Terminal, ACTIVE_STATUSES, Stops
<1>6. Control'
  BY <1>1, <1>2, <1>3, <1>4 DEF IInv, Types, Control, Stops
<1>7. Holding'
  BY <1>1, <1>2, <1>3, <1>4 DEF IInv, Types, Holding, Stops
<1>8. Waits'
  BY <1>1, <1>2, <1>3, <1>4 DEF IInv, Types, Control, Asked, Waits, Resolvable, Stops
<1>9. Plans'
  BY <1>1, <1>2, <1>3, <1>4 DEF IInv, Types, Control, Plans, NothingYet, Stops
<1>10. Results'
  BY <1>1, <1>2, <1>3, <1>4 DEF IInv, Types, Control, Holding, Asked, Waits, Plans,
     Results, Known, BatchPcs, Stops
<1>11. Issued'
  BY <1>1, <1>2, <1>3, <1>4 DEF IInv, Types, Control, Checkpointed, Issued, Stops
<1>12. Checkpointed'
  BY <1>1, <1>2, <1>3, <1>4 DEF IInv, Types, Control, Issued, Checkpointed,
     NothingYet, Stops
<1>13. Budgeted'
  BY <1>1, <1>2, <1>3, <1>4 DEF IInv, Types, Control, Issued, Checkpointed,
     Budgeted, Left, Ahead, Stops
<1>14. Reviewed'
  BY <1>1, <1>2, <1>3, <1>4 DEF IInv, Types, Control, Reviewed, Stops
<1>15. Allowed'
  BY <1>1, <1>2, <1>3, <1>4 DEF IInv, Types, Control, Issued, Checkpointed, Allowed,
     Excused, Stops
<1>16. Asked'
  BY <1>1, <1>2, <1>3, <1>4 DEF IInv, Asked
<1> QED
  BY <1>5, <1>6, <1>7, <1>8, <1>9, <1>10, <1>11, <1>12, <1>13, <1>14, <1>15, <1>16
     DEF IInv

\* A batch is parked.
LEMMA ParkBatchKeeps ==
  ASSUME IInv, ParkBatch
  PROVE  IInv'
<1>1. /\ pending = {} /\ private = {} /\ ~resume
      /\ api.op = "idle" /\ host = "up"
  BY Quiet DEF ParkBatch, At
<1>2. Moves("parked")
  BY ToMoves DEF IInv, Types, Pcs, AwaitPoints, ParkBatch
<1>3. /\ parked' \in [calls : Seq(Calls), first : BOOLEAN] /\ parked'.calls = worker.calls
      /\ everParked' = everParked \cup Range(worker.calls)
      /\ Range(worker.calls) \subseteq Calls
  BY RangeOfSeq DEF IInv, Types, Workers, ParkBatch, Range
<1>4. /\ worker.pc = "calls" /\ worker.calls # <<>>
      /\ UNCHANGED <<status, planning, transcript, resume, lost, pending, ckpt,
                     review, host, cancel, private, api, takeover, kind,
                     issued, effects, grants, confirms>>
  BY DEF ParkBatch, At
<1>5. Types'
  BY <1>1, <1>2, <1>3, <1>4 DEF IInv, Types, Terminal, ACTIVE_STATUSES, Moves
<1>6. Control'
  BY <1>1, <1>2, <1>3, <1>4 DEF IInv, Types, Control, Moves
<1>7. Holding'
  BY <1>1, <1>2, <1>3, <1>4 DEF IInv, Types, Holding, Moves
<1>8. Waits'
  BY <1>1, <1>2, <1>3, <1>4 DEF IInv, Types, Control, Asked, Waits, Resolvable, Moves
<1>9. Plans'
  BY <1>1, <1>2, <1>3, <1>4 DEF IInv, Types, Control, Plans, NothingYet, Moves
<1>10. Results'
  BY <1>1, <1>2, <1>3, <1>4 DEF IInv, Types, Control, Holding, Asked, Waits, Plans,
     Results, Known, BatchPcs, Moves
<1>11. Issued'
  BY <1>1, <1>2, <1>3, <1>4 DEF IInv, Types, Control, Checkpointed, Issued, Moves
<1>12. Checkpointed'
  BY <1>1, <1>2, <1>3, <1>4 DEF IInv, Types, Control, Issued, Checkpointed,
     NothingYet, Moves
<1>13. Budgeted'
  BY <1>1, <1>2, <1>3, <1>4 DEF IInv, Types, Control, Issued, Checkpointed,
     Budgeted, Left, Ahead, Moves
<1>14. Reviewed'
  BY <1>1, <1>2, <1>3, <1>4 DEF IInv, Types, Control, Reviewed, Moves
<1>15. Allowed'
  BY <1>1, <1>2, <1>3, <1>4 DEF IInv, Types, Control, Issued, Checkpointed, Allowed,
     Excused, Moves
<1>16. Asked'
  BY <1>1, <1>2, <1>3, <1>4 DEF IInv, Asked
<1> QED
  BY <1>5, <1>6, <1>7, <1>8, <1>9, <1>10, <1>11, <1>12, <1>13, <1>14, <1>15, <1>16
     DEF IInv

\* A group of reads starts.
LEMMA ReadsStartKeeps ==
  ASSUME IInv, worker.pc = "calls", worker.calls # <<>>,
         kind[Head(worker.calls)] = "read", Moves("tool"),
         UNCHANGED <<status, planning, transcript, parked, resume, lost,
                     pending, ckpt, review, host, cancel, private,
                     api, takeover, kind, issued, effects, grants,
                     confirms, everParked>>
  PROVE  IInv'
<1>1. /\ pending = {} /\ private = {} /\ ~resume
      /\ api.op = "idle" /\ host = "up"
  BY Quiet
<1>2. /\ Head(worker.calls) \in 1..issued /\ Head(worker.calls) \in Calls
      /\ Tail(worker.calls) \in Batches(issued) /\ Tail(worker.calls) \in Seq(Calls)
      /\ Range(worker.calls) = {Head(worker.calls)} \cup Range(Tail(worker.calls))
      /\ Head(worker.calls) \notin Range(Tail(worker.calls))
      /\ SubSeq(worker.calls, 1 + 1, Len(worker.calls)) = Tail(worker.calls)
  BY HeadOfBatch
<1>3. Types'
  BY <1>1, <1>2 DEF IInv, Types, Terminal, ACTIVE_STATUSES, Moves
<1>4. Control'
  BY <1>1, <1>2 DEF IInv, Types, Control, Moves
<1>5. Holding'
  BY <1>1, <1>2 DEF IInv, Types, Holding, Moves
<1>6. Waits'
  BY <1>1, <1>2 DEF IInv, Types, Control, Asked, Waits, Resolvable, Moves
<1>7. Plans'
  BY <1>1, <1>2 DEF IInv, Types, Control, Plans, NothingYet, Moves
<1>8. Results'
  BY <1>1, <1>2 DEF IInv, Types, Control, Holding, Asked, Waits, Plans, Results,
     Known, BatchPcs, Moves
<1>9. Issued'
  BY <1>1, <1>2 DEF IInv, Types, Control, Checkpointed, Issued, Moves
<1>10. Checkpointed'
  BY <1>1, <1>2 DEF IInv, Types, Control, Issued, Checkpointed, NothingYet, Moves
<1>11. Budgeted'
  BY <1>1, <1>2 DEF IInv, Types, Control, Issued, Checkpointed, Budgeted, Left,
     Ahead, Moves
<1>12. Reviewed'
  BY <1>1, <1>2 DEF IInv, Types, Control, Reviewed, Moves
<1>13. Allowed'
  BY <1>1, <1>2 DEF IInv, Types, Control, Issued, Checkpointed, Allowed, Excused,
     Moves
<1>14. Asked'
  BY <1>1, <1>2 DEF IInv, Asked
<1> QED
  BY <1>3, <1>4, <1>5, <1>6, <1>7, <1>8, <1>9, <1>10, <1>11, <1>12, <1>13, <1>14 DEF
     IInv

\* The request for a call is recorded.
LEMMA AskKeeps ==
  ASSUME IInv, Ask
  PROVE  IInv'
<1>1. /\ pending = {} /\ private = {} /\ ~resume
      /\ api.op = "idle" /\ host = "up"
  BY Quiet DEF Ask, At
<1>2. Moves("asking")
  BY ToMoves DEF IInv, Types, Pcs, AwaitPoints, Ask, AskFor
<1>3. /\ worker.pc = "calls" /\ ~worker.done /\ worker.calls # <<>> /\ ~planning
  BY DEF IInv, Holding, Plans, Ask, At
<1>4. /\ Head(worker.calls) \in 1..issued /\ Head(worker.calls) \in Calls
      /\ Tail(worker.calls) \in Batches(issued) /\ Tail(worker.calls) \in Seq(Calls)
      /\ Range(worker.calls) = {Head(worker.calls)} \cup Range(Tail(worker.calls))
      /\ Head(worker.calls) \notin Range(Tail(worker.calls))
      /\ SubSeq(worker.calls, 1 + 1, Len(worker.calls)) = Tail(worker.calls)
  BY <1>1, <1>2, <1>3, HeadOfBatch
<1>5. PICK r \in Requests :
        /\ pending' = {r} /\ r.kind = "tool" /\ r.calls = worker.calls
        /\ r.hist = worker.hist /\ ~r.shared /\ private' = {r.id}
    <2> DEFINE r == [id |-> Fresh, kind |-> "tool", calls |-> worker.calls,
                    hist |-> worker.hist, shared |-> FALSE]
  <2>1. /\ r \in Requests /\ r.kind = "tool" /\ r.calls = worker.calls
        /\ r.hist = worker.hist /\ ~r.shared /\ r.id = Fresh
    BY <1>1, FreshId DEF IInv, Types, Workers, Requests
  <2>2. pending' = {r} /\ private' = {Fresh}
    BY <1>1 DEF Ask, AskFor
  <2> QED BY <2>1, <2>2
<1>6. /\ UNCHANGED <<status, planning, transcript, parked, resume, lost, ckpt,
                     review, host, cancel, api, takeover, kind, issued,
                     effects, grants, confirms, everParked>>
  BY DEF Ask, ghosts
<1>7. Types'
  BY <1>1, <1>2, <1>3, <1>4, <1>5, <1>6 DEF IInv, Types, Terminal, ACTIVE_STATUSES,
     Moves
<1>8. Control'
  BY <1>1, <1>2, <1>3, <1>4, <1>5, <1>6 DEF IInv, Types, Control, Moves
<1>9. Holding'
  BY <1>1, <1>2, <1>3, <1>4, <1>5, <1>6 DEF IInv, Types, Holding, Moves
<1>10. Asked'
  BY <1>1, <1>2, <1>3, <1>4, <1>5, <1>6 DEF IInv, Types, Asked, Moves
<1>11. Waits'
  BY <1>1, <1>2, <1>3, <1>4, <1>5, <1>6 DEF IInv, Types, Control, Asked, Waits,
     Resolvable, Moves
<1>12. Plans'
  BY <1>1, <1>2, <1>3, <1>4, <1>5, <1>6 DEF IInv, Types, Control, Plans, NothingYet,
     Moves
<1>13. Results'
  BY <1>1, <1>2, <1>3, <1>4, <1>5, <1>6 DEF IInv, Types, Control, Holding, Asked,
     Waits, Plans, Results, Known, BatchPcs, Moves
<1>14. Issued'
  BY <1>1, <1>2, <1>3, <1>4, <1>5, <1>6 DEF IInv, Types, Control, Checkpointed,
     Issued, Moves
<1>15. Checkpointed'
  BY <1>1, <1>2, <1>3, <1>4, <1>5, <1>6 DEF IInv, Types, Control, Issued,
     Checkpointed, NothingYet, Moves
<1>16. Budgeted'
  BY <1>1, <1>2, <1>3, <1>4, <1>5, <1>6 DEF IInv, Types, Control, Issued,
     Checkpointed, Budgeted, Left, Ahead, Moves
<1>17. Reviewed'
  BY <1>1, <1>2, <1>3, <1>4, <1>5, <1>6 DEF IInv, Types, Control, Reviewed, Moves
<1>18. Allowed'
  BY <1>1, <1>2, <1>3, <1>4, <1>5, <1>6 DEF IInv, Types, Control, Issued,
     Checkpointed, Allowed, Excused, Moves
<1> QED
  BY <1>7, <1>8, <1>9, <1>10, <1>11, <1>12, <1>13, <1>14, <1>15, <1>16, <1>17, <1>18
     DEF IInv

\* The request for a reviewed call is recorded.
LEMMA ReviewAsksKeeps ==
  ASSUME IInv, ReviewAsks
  PROVE  IInv'
<1>1. /\ pending = {} /\ private = {} /\ ~resume
      /\ api.op = "idle" /\ host = "up"
  BY Quiet DEF ReviewAsks, At
<1>2. Moves("asking")
  BY ToMoves DEF IInv, Types, Pcs, AwaitPoints, ReviewAsks, AskFor
<1>3. /\ worker.pc = "review" /\ ~worker.done /\ worker.calls # <<>> /\ ~planning
  BY DEF IInv, Holding, Plans, ReviewAsks, At
<1>4. /\ Head(worker.calls) \in 1..issued /\ Head(worker.calls) \in Calls
      /\ Tail(worker.calls) \in Batches(issued) /\ Tail(worker.calls) \in Seq(Calls)
      /\ Range(worker.calls) = {Head(worker.calls)} \cup Range(Tail(worker.calls))
      /\ Head(worker.calls) \notin Range(Tail(worker.calls))
      /\ SubSeq(worker.calls, 1 + 1, Len(worker.calls)) = Tail(worker.calls)
  BY <1>1, <1>2, <1>3, HeadOfBatch
<1>5. PICK r \in Requests :
        /\ pending' = {r} /\ r.kind = "tool" /\ r.calls = worker.calls
        /\ r.hist = worker.hist /\ ~r.shared /\ private' = {r.id}
    <2> DEFINE r == [id |-> Fresh, kind |-> "tool", calls |-> worker.calls,
                    hist |-> worker.hist, shared |-> FALSE]
  <2>1. /\ r \in Requests /\ r.kind = "tool" /\ r.calls = worker.calls
        /\ r.hist = worker.hist /\ ~r.shared /\ r.id = Fresh
    BY <1>1, FreshId DEF IInv, Types, Workers, Requests
  <2>2. pending' = {r} /\ private' = {Fresh}
    BY <1>1 DEF ReviewAsks, AskFor
  <2> QED BY <2>1, <2>2
<1>6. /\ review' = [review EXCEPT ![Head(worker.calls)] = "needs_user"]
      /\ review[Head(worker.calls)] # "spent"
  BY DEF ReviewAsks, HeadCall
<1>7. /\ UNCHANGED <<status, planning, transcript, parked, resume, lost, ckpt,
                     host, cancel, api, takeover, kind, issued, effects,
                     grants, confirms, everParked>>
  BY DEF ReviewAsks, ghosts
<1>8. Types'
  BY <1>1, <1>2, <1>3, <1>4, <1>5, <1>6, <1>7 DEF IInv, Types, Terminal,
     ACTIVE_STATUSES, Moves
<1>9. Control'
  BY <1>1, <1>2, <1>3, <1>4, <1>5, <1>6, <1>7 DEF IInv, Types, Control, Moves
<1>10. Holding'
  BY <1>1, <1>2, <1>3, <1>4, <1>5, <1>6, <1>7 DEF IInv, Types, Holding, Moves
<1>11. Asked'
  BY <1>1, <1>2, <1>3, <1>4, <1>5, <1>6, <1>7 DEF IInv, Types, Asked, Moves
<1>12. Waits'
  BY <1>1, <1>2, <1>3, <1>4, <1>5, <1>6, <1>7 DEF IInv, Types, Control, Asked,
     Waits, Resolvable, Moves
<1>13. Plans'
  BY <1>1, <1>2, <1>3, <1>4, <1>5, <1>6, <1>7 DEF IInv, Types, Control, Plans,
     NothingYet, Moves
<1>14. Results'
  BY <1>1, <1>2, <1>3, <1>4, <1>5, <1>6, <1>7 DEF IInv, Types, Control, Holding,
     Asked, Waits, Plans, Results, Known, BatchPcs, Moves
<1>15. Issued'
  BY <1>1, <1>2, <1>3, <1>4, <1>5, <1>6, <1>7 DEF IInv, Types, Control,
     Checkpointed, Issued, Moves
<1>16. Checkpointed'
  BY <1>1, <1>2, <1>3, <1>4, <1>5, <1>6, <1>7 DEF IInv, Types, Control, Issued,
     Checkpointed, NothingYet, Moves
<1>17. Budgeted'
  BY <1>1, <1>2, <1>3, <1>4, <1>5, <1>6, <1>7 DEF IInv, Types, Control, Issued,
     Checkpointed, Budgeted, Left, Ahead, Moves
<1>18. Reviewed'
  BY <1>1, <1>2, <1>3, <1>4, <1>5, <1>6, <1>7 DEF IInv, Types, Control, Reviewed,
     Moves
<1>19. Allowed'
  BY <1>1, <1>2, <1>3, <1>4, <1>5, <1>6, <1>7 DEF IInv, Types, Control, Issued,
     Checkpointed, Allowed, Excused, Moves
<1> QED
  BY <1>8, <1>9, <1>10, <1>11, <1>12, <1>13, <1>14, <1>15, <1>16, <1>17, <1>18,
     <1>19 DEF IInv

\* The checkpoint of an allowed effect is prepared.
LEMMA PrepareKeeps ==
  ASSUME IInv, Prepare
  PROVE  IInv'
<1>1. /\ pending = {} /\ private = {} /\ ~resume
      /\ api.op = "idle" /\ host = "up"
  BY Quiet DEF Prepare, At
<1>2. Moves("prepared")
  BY ToMoves DEF IInv, Types, Pcs, AwaitPoints, Prepare
<1>3. /\ worker.pc = "calls" /\ ~worker.done /\ worker.calls # <<>> /\ ~planning
  BY DEF IInv, Holding, Plans, Prepare, At
<1>4. /\ Head(worker.calls) \in 1..issued /\ Head(worker.calls) \in Calls
      /\ Tail(worker.calls) \in Batches(issued) /\ Tail(worker.calls) \in Seq(Calls)
      /\ Range(worker.calls) = {Head(worker.calls)} \cup Range(Tail(worker.calls))
      /\ Head(worker.calls) \notin Range(Tail(worker.calls))
      /\ SubSeq(worker.calls, 1 + 1, Len(worker.calls)) = Tail(worker.calls)
  BY <1>1, <1>2, <1>3, HeadOfBatch
<1>5. /\ ckpt' \in Checkpoints /\ ckpt'.state = "prepared"
      /\ ckpt'.call = Head(worker.calls) /\ ckpt'.rest = Tail(worker.calls)
      /\ ckpt'.hist = worker.hist
  BY <1>1, <1>2, <1>3, <1>4 DEF Prepare, WriteCheckpoint, HeadCall, IInv, Types,
     Workers, Checkpoints
<1>6. /\ kind[Head(worker.calls)] \in {"auto", "ask"}
      /\ kind[Head(worker.calls)] = "ask" => worker.first
  BY DEF Prepare, HeadKind, HeadCall
<1>7. /\ UNCHANGED <<status, planning, transcript, parked, resume, lost, pending,
                     review, host, cancel, private, api, takeover, kind,
                     issued, effects, grants, confirms, everParked>>
  BY DEF Prepare, ghosts
<1>8. Types'
  BY <1>1, <1>2, <1>3, <1>4, <1>5, <1>6, <1>7 DEF IInv, Types, Terminal,
     ACTIVE_STATUSES, Moves
<1>9. Control'
  BY <1>1, <1>2, <1>3, <1>4, <1>5, <1>6, <1>7 DEF IInv, Types, Control, Moves
<1>10. Holding'
  BY <1>1, <1>2, <1>3, <1>4, <1>5, <1>6, <1>7 DEF IInv, Types, Holding, Moves
<1>11. Waits'
  BY <1>1, <1>2, <1>3, <1>4, <1>5, <1>6, <1>7 DEF IInv, Types, Control, Asked,
     Waits, Resolvable, Moves
<1>12. Plans'
  BY <1>1, <1>2, <1>3, <1>4, <1>5, <1>6, <1>7 DEF IInv, Types, Control, Plans,
     NothingYet, Moves
<1>13. Results'
  BY <1>1, <1>2, <1>3, <1>4, <1>5, <1>6, <1>7 DEF IInv, Types, Control, Holding,
     Asked, Waits, Plans, Results, Known, BatchPcs, Moves
<1>14. Issued'
  BY <1>1, <1>2, <1>3, <1>4, <1>5, <1>6, <1>7 DEF IInv, Types, Control,
     Checkpointed, Issued, Moves
<1>15. Checkpointed'
  BY <1>1, <1>2, <1>3, <1>4, <1>5, <1>6, <1>7 DEF IInv, Types, Control, Issued,
     Checkpointed, NothingYet, Moves
<1>16. Budgeted'
  BY <1>1, <1>2, <1>3, <1>4, <1>5, <1>6, <1>7 DEF IInv, Types, Control, Issued,
     Checkpointed, Budgeted, Left, Ahead, Moves
<1>17. Reviewed'
  BY <1>1, <1>2, <1>3, <1>4, <1>5, <1>6, <1>7 DEF IInv, Types, Control, Reviewed,
     Moves
<1>18. Allowed'
  BY <1>1, <1>2, <1>3, <1>4, <1>5, <1>6, <1>7, SMTT(30) DEF IInv, Types, Control, Issued,
     Checkpointed, Allowed, Excused, Moves
<1>19. Asked'
  BY <1>1, <1>2, <1>3, <1>4, <1>5, <1>6, <1>7 DEF IInv, Asked
<1> QED
  BY <1>8, <1>9, <1>10, <1>11, <1>12, <1>13, <1>14, <1>15, <1>16, <1>17, <1>18,
     <1>19 DEF IInv

\* A managed call is put to the broker.
LEMMA StartReviewKeeps ==
  ASSUME IInv, StartReview
  PROVE  IInv'
<1>1. /\ pending = {} /\ private = {} /\ ~resume
      /\ api.op = "idle" /\ host = "up"
  BY Quiet DEF StartReview, At
<1>2. Moves("review")
  BY ToMoves DEF IInv, Types, Pcs, AwaitPoints, StartReview
<1>3. /\ worker.pc = "calls" /\ ~worker.done /\ worker.calls # <<>> /\ ~planning
  BY DEF IInv, Holding, Plans, StartReview, At
<1>4. kind[Head(worker.calls)] = "managed"
  BY DEF StartReview, HeadKind, HeadCall
<1>5. /\ UNCHANGED <<status, planning, transcript, parked, resume, lost, pending,
                     ckpt, review, host, cancel, private, api, takeover,
                     kind, issued, effects, grants, confirms,
                     everParked>>
  BY DEF StartReview, durable, ghosts
<1>6. Types'
  BY <1>1, <1>2, <1>3, <1>4, <1>5 DEF IInv, Types, Terminal, ACTIVE_STATUSES, Moves
<1>7. Control'
  BY <1>1, <1>2, <1>3, <1>4, <1>5 DEF IInv, Types, Control, Moves
<1>8. Holding'
  BY <1>1, <1>2, <1>3, <1>4, <1>5 DEF IInv, Types, Holding, Moves
<1>9. Waits'
  BY <1>1, <1>2, <1>3, <1>4, <1>5 DEF IInv, Types, Control, Asked, Waits,
     Resolvable, Moves
<1>10. Plans'
  BY <1>1, <1>2, <1>3, <1>4, <1>5 DEF IInv, Types, Control, Plans, NothingYet, Moves
<1>11. Results'
  BY <1>1, <1>2, <1>3, <1>4, <1>5 DEF IInv, Types, Control, Holding, Asked, Waits,
     Plans, Results, Known, BatchPcs, Moves
<1>12. Issued'
  BY <1>1, <1>2, <1>3, <1>4, <1>5 DEF IInv, Types, Control, Checkpointed, Issued,
     Moves
<1>13. Checkpointed'
  BY <1>1, <1>2, <1>3, <1>4, <1>5 DEF IInv, Types, Control, Issued, Checkpointed,
     NothingYet, Moves
<1>14. Budgeted'
  BY <1>1, <1>2, <1>3, <1>4, <1>5 DEF IInv, Types, Control, Issued, Checkpointed,
     Budgeted, Left, Ahead, Moves
<1>15. Reviewed'
  BY <1>1, <1>2, <1>3, <1>4, <1>5 DEF IInv, Types, Control, Reviewed, Moves
<1>16. Allowed'
  BY <1>1, <1>2, <1>3, <1>4, <1>5 DEF IInv, Types, Control, Issued, Checkpointed,
     Allowed, Excused, Moves
<1>17. Asked'
  BY <1>1, <1>2, <1>3, <1>4, <1>5 DEF IInv, Asked
<1> QED
  BY <1>6, <1>7, <1>8, <1>9, <1>10, <1>11, <1>12, <1>13, <1>14, <1>15, <1>16, <1>17
     DEF IInv

\* The broker permits the call and its checkpoint is prepared.
LEMMA ReviewPermitsKeeps ==
  ASSUME IInv, ReviewPermits
  PROVE  IInv'
<1>1. /\ pending = {} /\ private = {} /\ ~resume
      /\ api.op = "idle" /\ host = "up"
  BY Quiet DEF ReviewPermits, At
<1>2. Moves("prepared")
  BY ToMoves DEF IInv, Types, Pcs, AwaitPoints, ReviewPermits
<1>3. /\ worker.pc = "review" /\ ~worker.done /\ worker.calls # <<>> /\ ~planning
  BY DEF IInv, Holding, Plans, ReviewPermits, At
<1>4. /\ Head(worker.calls) \in 1..issued /\ Head(worker.calls) \in Calls
      /\ Tail(worker.calls) \in Batches(issued) /\ Tail(worker.calls) \in Seq(Calls)
      /\ Range(worker.calls) = {Head(worker.calls)} \cup Range(Tail(worker.calls))
      /\ Head(worker.calls) \notin Range(Tail(worker.calls))
      /\ SubSeq(worker.calls, 1 + 1, Len(worker.calls)) = Tail(worker.calls)
  BY <1>1, <1>2, <1>3, HeadOfBatch
<1>5. /\ ckpt' \in Checkpoints /\ ckpt'.state = "prepared"
      /\ ckpt'.call = Head(worker.calls) /\ ckpt'.rest = Tail(worker.calls)
      /\ ckpt'.hist = worker.hist
  BY <1>1, <1>2, <1>3, <1>4 DEF ReviewPermits, WriteCheckpoint, HeadCall, IInv,
     Types, Workers, Checkpoints
<1>6. /\ kind[Head(worker.calls)] = "managed"
      /\ review' = [review EXCEPT ![Head(worker.calls)] = "permitted"]
      /\ review[Head(worker.calls)] # "spent"
  BY <1>1, <1>2, <1>3, <1>4, <1>5 DEF ReviewPermits, HeadCall, IInv, Holding
<1>7. /\ UNCHANGED <<status, planning, transcript, parked, resume, lost, pending,
                     host, cancel, private, api, takeover, kind, issued,
                     effects, grants, confirms, everParked>>
  BY DEF ReviewPermits, ghosts
<1>8. Types'
  BY <1>1, <1>2, <1>3, <1>4, <1>5, <1>6, <1>7 DEF IInv, Types, Terminal,
     ACTIVE_STATUSES, Moves
<1>9. Control'
  BY <1>1, <1>2, <1>3, <1>4, <1>5, <1>6, <1>7 DEF IInv, Types, Control, Moves
<1>10. Holding'
  BY <1>1, <1>2, <1>3, <1>4, <1>5, <1>6, <1>7 DEF IInv, Types, Holding, Moves
<1>11. Waits'
  BY <1>1, <1>2, <1>3, <1>4, <1>5, <1>6, <1>7 DEF IInv, Types, Control, Asked,
     Waits, Resolvable, Moves
<1>12. Plans'
  BY <1>1, <1>2, <1>3, <1>4, <1>5, <1>6, <1>7 DEF IInv, Types, Control, Plans,
     NothingYet, Moves
<1>13. Results'
  BY <1>1, <1>2, <1>3, <1>4, <1>5, <1>6, <1>7 DEF IInv, Types, Control, Holding,
     Asked, Waits, Plans, Results, Known, BatchPcs, Moves
<1>14. Issued'
  BY <1>1, <1>2, <1>3, <1>4, <1>5, <1>6, <1>7 DEF IInv, Types, Control,
     Checkpointed, Issued, Moves
<1>15. Checkpointed'
  BY <1>1, <1>2, <1>3, <1>4, <1>5, <1>6, <1>7 DEF IInv, Types, Control, Issued,
     Checkpointed, NothingYet, Moves
<1>16. Budgeted'
  BY <1>1, <1>2, <1>3, <1>4, <1>5, <1>6, <1>7 DEF IInv, Types, Control, Issued,
     Checkpointed, Budgeted, Left, Ahead, Moves
<1>17. Reviewed'
  BY <1>1, <1>2, <1>3, <1>4, <1>5, <1>6, <1>7 DEF IInv, Types, Control, Reviewed,
     Moves
<1>18. Allowed'
  BY <1>1, <1>2, <1>3, <1>4, <1>5, <1>6, <1>7 DEF IInv, Types, Control, Issued,
     Checkpointed, Allowed, Excused, Moves
<1>19. Asked'
  BY <1>1, <1>2, <1>3, <1>4, <1>5, <1>6, <1>7 DEF IInv, Asked
<1> QED
  BY <1>8, <1>9, <1>10, <1>11, <1>12, <1>13, <1>14, <1>15, <1>16, <1>17, <1>18,
     <1>19 DEF IInv

\* A refused call is passed over.
LEMMA ReviewRefusesKeeps ==
  ASSUME IInv, ReviewRefuses
  PROVE  IInv'
<1>1. /\ pending = {} /\ private = {} /\ ~resume
      /\ api.op = "idle" /\ host = "up"
  BY Quiet DEF ReviewRefuses, At
<1>2. /\ worker.pc = "review" /\ ~worker.done /\ worker.calls # <<>> /\ ~planning
  BY DEF IInv, Holding, Plans, ReviewRefuses, At
<1>3. /\ Head(worker.calls) \in 1..issued /\ Head(worker.calls) \in Calls
      /\ Tail(worker.calls) \in Batches(issued) /\ Tail(worker.calls) \in Seq(Calls)
      /\ Range(worker.calls) = {Head(worker.calls)} \cup Range(Tail(worker.calls))
      /\ Head(worker.calls) \notin Range(Tail(worker.calls))
      /\ SubSeq(worker.calls, 1 + 1, Len(worker.calls)) = Tail(worker.calls)
  BY <1>1, <1>2, HeadOfBatch
<1>4. Advances(worker.hist \cup {Head(worker.calls)}, Tail(worker.calls))
  BY <1>1, <1>2, <1>3, AdvanceHead DEF ReviewRefuses
<1>5. /\ review' \in [Calls -> {"new", "needs_user", "approved", "permitted", "spent"}]
      /\ \A c \in Calls : review[c] = "spent" => review'[c] = "spent"
  BY <1>1, <1>2, <1>3, <1>4 DEF ReviewRefuses, HeadCall, IInv, Types
<1>6. /\ UNCHANGED <<status, planning, transcript, parked, resume, lost, pending,
                     ckpt, host, cancel, private, api, takeover, kind,
                     issued, effects, grants, confirms, everParked>>
  BY DEF ReviewRefuses, ghosts
<1>7. Types'
  BY <1>1, <1>2, <1>3, <1>4, <1>5, <1>6 DEF IInv, Types, Terminal, ACTIVE_STATUSES,
     Advances
<1>8. Control'
  BY <1>1, <1>2, <1>3, <1>4, <1>5, <1>6 DEF IInv, Types, Control, Advances
<1>9. Holding'
  BY <1>1, <1>2, <1>3, <1>4, <1>5, <1>6 DEF IInv, Types, Holding, Advances
<1>10. Waits'
  BY <1>1, <1>2, <1>3, <1>4, <1>5, <1>6 DEF IInv, Types, Control, Asked, Waits,
     Resolvable, Advances
<1>11. Plans'
  BY <1>1, <1>2, <1>3, <1>4, <1>5, <1>6 DEF IInv, Types, Control, Plans, NothingYet,
     Advances
<1>12. Results'
  BY <1>1, <1>2, <1>3, <1>4, <1>5, <1>6 DEF IInv, Types, Control, Holding, Asked,
     Waits, Plans, Results, Known, BatchPcs, Advances
<1>13. Issued'
  BY <1>1, <1>2, <1>3, <1>4, <1>5, <1>6 DEF IInv, Types, Control, Checkpointed,
     Issued, Advances
<1>14. Checkpointed'
  BY <1>1, <1>2, <1>3, <1>4, <1>5, <1>6 DEF IInv, Types, Control, Issued,
     Checkpointed, NothingYet, Advances
<1>15. Budgeted'
  BY <1>1, <1>2, <1>3, <1>4, <1>5, <1>6 DEF IInv, Types, Control, Issued,
     Checkpointed, Budgeted, Left, Ahead, Advances
<1>16. Reviewed'
  BY <1>1, <1>2, <1>3, <1>4, <1>5, <1>6 DEF IInv, Types, Control, Reviewed, Advances
<1>17. Allowed'
  BY <1>1, <1>2, <1>3, <1>4, <1>5, <1>6 DEF IInv, Types, Control, Issued,
     Checkpointed, Allowed, Excused, Advances
<1>18. Asked'
  BY <1>1, <1>2, <1>3, <1>4, <1>5, <1>6 DEF IInv, Asked
<1> QED
  BY <1>7, <1>8, <1>9, <1>10, <1>11, <1>12, <1>13, <1>14, <1>15, <1>16, <1>17, <1>18
     DEF IInv

\* The checkpoint says running, the permit is spent, the tool is called.
LEMMA StartEffectKeeps ==
  ASSUME IInv, StartEffect
  PROVE  IInv'
<1>1. /\ pending = {} /\ private = {} /\ ~resume
      /\ api.op = "idle" /\ host = "up"
  BY Quiet DEF StartEffect, At
<1>2. PICK p \in {"releasing", "tool"} : Moves(p)
  BY ToMoves, UnwindMoves DEF StartEffect, Invoke, IInv, Types, Pcs, AwaitPoints
<1>3. /\ worker.pc = "prepared" /\ ~worker.done /\ worker.calls # <<>> /\ ~planning
  BY DEF IInv, Holding, Plans, StartEffect, At
<1>4. /\ Head(worker.calls) \in 1..issued /\ Head(worker.calls) \in Calls
      /\ Tail(worker.calls) \in Batches(issued) /\ Tail(worker.calls) \in Seq(Calls)
      /\ Range(worker.calls) = {Head(worker.calls)} \cup Range(Tail(worker.calls))
      /\ Head(worker.calls) \notin Range(Tail(worker.calls))
      /\ SubSeq(worker.calls, 1 + 1, Len(worker.calls)) = Tail(worker.calls)
  BY <1>1, <1>2, <1>3, HeadOfBatch
<1>5. /\ ckpt.state = "prepared" /\ ckpt.call = Head(worker.calls)
      /\ ckpt.rest = Tail(worker.calls) /\ kind[Head(worker.calls)] # "read"
  BY <1>1, <1>2, <1>3, <1>4 DEF IInv, Checkpointed
<1>6. /\ ckpt' \in Checkpoints /\ ckpt'.state = "running" /\ ckpt'.call = ckpt.call
      /\ ckpt'.rest = ckpt.rest /\ ckpt'.hist = ckpt.hist
  BY <1>1, <1>2, <1>3, <1>4, <1>5 DEF StartEffect, IInv, Types, Checkpoints
<1>7. /\ review' \in [Calls -> {"new", "needs_user", "approved", "permitted", "spent"}]
      /\ \A c \in Calls : review[c] = "spent" => review'[c] = "spent"
      /\ kind[Head(worker.calls)] = "managed" => review'[Head(worker.calls)] = "spent"
      /\ \A c \in Calls : c # Head(worker.calls) => review'[c] = review[c]
  BY <1>1, <1>2, <1>3, <1>4, <1>5, <1>6 DEF StartEffect, HeadCall, HeadKind, IInv,
     Types
<1>8. kind[Head(worker.calls)] = "managed" => effects[Head(worker.calls)] = 0
    <2>1. effects[Head(worker.calls)] \in Nat
    BY <1>4 DEF IInv, Types
  <2> QED BY <1>3, <1>4, <2>1, SMT DEF IInv, Reviewed
<1>9. /\ UNCHANGED <<status, planning, transcript, parked, resume, lost, pending,
                     host, cancel, private, api, takeover, kind, issued,
                     effects, grants, confirms, everParked>>
  BY DEF StartEffect, ghosts
<1>10. Types'
  BY <1>1, <1>2, <1>3, <1>4, <1>5, <1>6, <1>7, <1>8, <1>9 DEF IInv, Types, Terminal,
     ACTIVE_STATUSES, Moves
<1>11. Control'
  BY <1>1, <1>2, <1>3, <1>4, <1>5, <1>6, <1>7, <1>8, <1>9 DEF IInv, Types, Control,
     Moves
<1>12. Holding'
  BY <1>1, <1>2, <1>3, <1>4, <1>5, <1>6, <1>7, <1>8, <1>9 DEF IInv, Types, Holding,
     Moves
<1>13. Waits'
  BY <1>1, <1>2, <1>3, <1>4, <1>5, <1>6, <1>7, <1>8, <1>9 DEF IInv, Types, Control,
     Asked, Waits, Resolvable, Moves
<1>14. Plans'
  BY <1>1, <1>2, <1>3, <1>4, <1>5, <1>6, <1>7, <1>8, <1>9 DEF IInv, Types, Control,
     Plans, NothingYet, Moves
<1>15. Results'
  BY <1>1, <1>2, <1>3, <1>4, <1>5, <1>6, <1>7, <1>8, <1>9 DEF IInv, Types, Control,
     Holding, Asked, Waits, Plans, Results, Known, BatchPcs, Moves
<1>16. Issued'
  BY <1>1, <1>2, <1>3, <1>4, <1>5, <1>6, <1>7, <1>8, <1>9 DEF IInv, Types, Control,
     Checkpointed, Issued, Moves
<1>17. Checkpointed'
  BY <1>1, <1>2, <1>3, <1>4, <1>5, <1>6, <1>7, <1>8, <1>9 DEF IInv, Types, Control,
     Issued, Checkpointed, NothingYet, Moves
<1>18. Budgeted'
  BY <1>1, <1>2, <1>3, <1>4, <1>5, <1>6, <1>7, <1>8, <1>9 DEF IInv, Types, Control,
     Issued, Checkpointed, Budgeted, Left, Ahead, Moves
<1>19. Reviewed'
  BY <1>1, <1>2, <1>3, <1>4, <1>5, <1>6, <1>7, <1>8, <1>9 DEF IInv, Types, Control,
     Reviewed, Moves
<1>20. Allowed'
  BY <1>1, <1>2, <1>3, <1>4, <1>5, <1>6, <1>7, <1>8, <1>9 DEF IInv, Types, Control,
     Issued, Checkpointed, Allowed, Excused, Moves
<1>21. Asked'
  BY <1>1, <1>2, <1>3, <1>4, <1>5, <1>6, <1>7, <1>8, <1>9 DEF IInv, Asked
<1> QED
  BY <1>10, <1>11, <1>12, <1>13, <1>14, <1>15, <1>16, <1>17, <1>18, <1>19, <1>20,
     <1>21 DEF IInv

\* The result of an effect is saved.
LEMMA ToolReturnsKeeps ==
  ASSUME IInv, ToolReturns
  PROVE  IInv'
<1>1. /\ pending = {} /\ private = {} /\ ~resume
      /\ api.op = "idle" /\ host = "up"
  BY Quiet DEF ToolReturns, At
<1>2. Moves("saved")
  BY ToMoves DEF IInv, Types, Pcs, AwaitPoints, ToolReturns
<1>3. /\ worker.pc = "tool" /\ worker.done /\ worker.calls # <<>> /\ ~planning
  BY DEF IInv, Holding, Plans, ToolReturns, At
<1>4. /\ Head(worker.calls) \in 1..issued /\ Head(worker.calls) \in Calls
      /\ Tail(worker.calls) \in Batches(issued) /\ Tail(worker.calls) \in Seq(Calls)
      /\ Range(worker.calls) = {Head(worker.calls)} \cup Range(Tail(worker.calls))
      /\ Head(worker.calls) \notin Range(Tail(worker.calls))
      /\ SubSeq(worker.calls, 1 + 1, Len(worker.calls)) = Tail(worker.calls)
  BY <1>1, <1>2, <1>3, HeadOfBatch
<1>5. /\ ckpt.state = "running" /\ ckpt.call = Head(worker.calls)
      /\ ckpt.rest = Tail(worker.calls) /\ kind[Head(worker.calls)] # "read"
  BY <1>1, <1>2, <1>3, <1>4 DEF IInv, Checkpointed, Holding
<1>6. /\ ckpt' \in Checkpoints /\ ckpt'.state = "completed_uncommitted"
      /\ ckpt'.call = ckpt.call
      /\ ckpt'.rest = ckpt.rest /\ ckpt'.hist = ckpt.hist
  BY <1>1, <1>2, <1>3, <1>4, <1>5 DEF ToolReturns, IInv, Types, Checkpoints
<1>7. /\ UNCHANGED <<status, planning, transcript, parked, resume, lost, pending,
                     review, host, cancel, private, api, takeover, kind,
                     issued, effects, grants, confirms, everParked>>
  BY DEF ToolReturns, ghosts
<1>8. Types'
  BY <1>1, <1>2, <1>3, <1>4, <1>5, <1>6, <1>7 DEF IInv, Types, Terminal,
     ACTIVE_STATUSES, Moves
<1>9. Control'
  BY <1>1, <1>2, <1>3, <1>4, <1>5, <1>6, <1>7 DEF IInv, Types, Control, Moves
<1>10. Holding'
  BY <1>1, <1>2, <1>3, <1>4, <1>5, <1>6, <1>7 DEF IInv, Types, Holding, Moves
<1>11. Waits'
  BY <1>1, <1>2, <1>3, <1>4, <1>5, <1>6, <1>7 DEF IInv, Types, Control, Asked,
     Waits, Resolvable, Moves
<1>12. Plans'
  BY <1>1, <1>2, <1>3, <1>4, <1>5, <1>6, <1>7 DEF IInv, Types, Control, Plans,
     NothingYet, Moves
<1>13. Results'
  BY <1>1, <1>2, <1>3, <1>4, <1>5, <1>6, <1>7 DEF IInv, Types, Control, Holding,
     Asked, Waits, Plans, Results, Known, BatchPcs, Moves
<1>14. Issued'
  BY <1>1, <1>2, <1>3, <1>4, <1>5, <1>6, <1>7 DEF IInv, Types, Control,
     Checkpointed, Issued, Moves
<1>15. Checkpointed'
  BY <1>1, <1>2, <1>3, <1>4, <1>5, <1>6, <1>7 DEF IInv, Types, Control, Issued,
     Checkpointed, NothingYet, Moves
<1>16. Budgeted'
  BY <1>1, <1>2, <1>3, <1>4, <1>5, <1>6, <1>7 DEF IInv, Types, Control, Issued,
     Checkpointed, Budgeted, Left, Ahead, Moves
<1>17. Reviewed'
  BY <1>1, <1>2, <1>3, <1>4, <1>5, <1>6, <1>7 DEF IInv, Types, Control, Reviewed,
     Moves
<1>18. Allowed'
  BY <1>1, <1>2, <1>3, <1>4, <1>5, <1>6, <1>7 DEF IInv, Types, Control, Issued,
     Checkpointed, Allowed, Excused, Moves
<1>19. Asked'
  BY <1>1, <1>2, <1>3, <1>4, <1>5, <1>6, <1>7 DEF IInv, Asked
<1> QED
  BY <1>8, <1>9, <1>10, <1>11, <1>12, <1>13, <1>14, <1>15, <1>16, <1>17, <1>18,
     <1>19 DEF IInv

\* The committed result is in the transcript and the batch goes on.
LEMMA ResultKeeps ==
  ASSUME IInv, worker.pc = "saved", ckpt' = [ckpt EXCEPT !.state = "committed"],
         worker' = Advance(1, worker.hist \cup {HeadCall}),
         UNCHANGED <<status, planning, transcript, parked, resume, lost,
                     pending, review, host, cancel, private, api,
                     takeover, kind, issued, effects, grants,
                     confirms, everParked>>
  PROVE  IInv'
<1>1. /\ pending = {} /\ private = {} /\ ~resume
      /\ api.op = "idle" /\ host = "up"
  BY Quiet
<1>2. /\ worker.done /\ worker.calls # <<>> /\ ~planning
  BY DEF IInv, Holding, Plans
<1>3. /\ Head(worker.calls) \in 1..issued /\ Head(worker.calls) \in Calls
      /\ Tail(worker.calls) \in Batches(issued) /\ Tail(worker.calls) \in Seq(Calls)
      /\ Range(worker.calls) = {Head(worker.calls)} \cup Range(Tail(worker.calls))
      /\ Head(worker.calls) \notin Range(Tail(worker.calls))
      /\ SubSeq(worker.calls, 1 + 1, Len(worker.calls)) = Tail(worker.calls)
  BY <1>1, <1>2, HeadOfBatch
<1>4. /\ ckpt.state = "completed_uncommitted" /\ ckpt.call = Head(worker.calls)
      /\ ckpt.rest = Tail(worker.calls) /\ kind[Head(worker.calls)] # "read"
  BY <1>1, <1>2, <1>3 DEF IInv, Checkpointed
<1>5. /\ ckpt' \in Checkpoints /\ ckpt'.state = "committed" /\ ckpt'.call = ckpt.call
      /\ ckpt'.rest = ckpt.rest /\ ckpt'.hist = ckpt.hist
  BY <1>1, <1>2, <1>3, <1>4 DEF IInv, Types, Checkpoints
<1>6. Advances(worker.hist \cup {Head(worker.calls)}, Tail(worker.calls))
  BY <1>1, <1>2, <1>3, <1>4, <1>5, AdvanceHead
<1>7. Types'
  BY <1>1, <1>2, <1>3, <1>4, <1>5, <1>6 DEF IInv, Types, Terminal, ACTIVE_STATUSES,
     Advances
<1>8. Control'
  BY <1>1, <1>2, <1>3, <1>4, <1>5, <1>6 DEF IInv, Types, Control, Advances
<1>9. Holding'
  BY <1>1, <1>2, <1>3, <1>4, <1>5, <1>6 DEF IInv, Types, Holding, Advances
<1>10. Waits'
  BY <1>1, <1>2, <1>3, <1>4, <1>5, <1>6 DEF IInv, Types, Control, Asked, Waits,
     Resolvable, Advances
<1>11. Plans'
  BY <1>1, <1>2, <1>3, <1>4, <1>5, <1>6 DEF IInv, Types, Control, Plans, NothingYet,
     Advances
<1>12. Results'
  BY <1>1, <1>2, <1>3, <1>4, <1>5, <1>6 DEF IInv, Types, Control, Holding, Asked,
     Waits, Plans, Results, Known, BatchPcs, Advances
<1>13. Issued'
  BY <1>1, <1>2, <1>3, <1>4, <1>5, <1>6 DEF IInv, Types, Control, Checkpointed,
     Issued, Advances
<1>14. Checkpointed'
  BY <1>1, <1>2, <1>3, <1>4, <1>5, <1>6 DEF IInv, Types, Control, Issued,
     Checkpointed, NothingYet, Advances
<1>15. Budgeted'
  BY <1>1, <1>2, <1>3, <1>4, <1>5, <1>6 DEF IInv, Types, Control, Issued,
     Checkpointed, Budgeted, Left, Ahead, Advances
<1>16. Reviewed'
  BY <1>1, <1>2, <1>3, <1>4, <1>5, <1>6 DEF IInv, Types, Control, Reviewed, Advances
<1>17. Allowed'
  BY <1>1, <1>2, <1>3, <1>4, <1>5, <1>6 DEF IInv, Types, Control, Issued,
     Checkpointed, Allowed, Excused, Advances
<1>18. Asked'
  BY <1>1, <1>2, <1>3, <1>4, <1>5, <1>6 DEF IInv, Asked
<1> QED
  BY <1>7, <1>8, <1>9, <1>10, <1>11, <1>12, <1>13, <1>14, <1>15, <1>16, <1>17, <1>18
     DEF IInv

\* A cancelled tool leaves its committed result behind.
LEMMA ResultUnwindKeeps ==
  ASSUME IInv, worker.pc = "saved", ckpt' = [ckpt EXCEPT !.state = "committed"],
         Moves("releasing"),
         UNCHANGED <<status, planning, transcript, parked, resume, lost,
                     pending, review, host, cancel, private, api,
                     takeover, kind, issued, effects, grants,
                     confirms, everParked>>
  PROVE  IInv'
<1>1. /\ pending = {} /\ private = {} /\ ~resume
      /\ api.op = "idle" /\ host = "up"
  BY Quiet
<1>2. /\ worker.done /\ worker.calls # <<>> /\ ~planning
  BY DEF IInv, Holding, Plans
<1>3. /\ ckpt.state = "completed_uncommitted" /\ ckpt.call = Head(worker.calls)
      /\ ckpt.rest = Tail(worker.calls) /\ kind[Head(worker.calls)] # "read"
  BY <1>1, <1>2 DEF IInv, Checkpointed
<1>4. /\ ckpt' \in Checkpoints /\ ckpt'.state = "committed" /\ ckpt'.call = ckpt.call
      /\ ckpt'.rest = ckpt.rest /\ ckpt'.hist = ckpt.hist
  BY <1>1, <1>2, <1>3 DEF IInv, Types, Checkpoints
<1>5. Types'
  BY <1>1, <1>2, <1>3, <1>4 DEF IInv, Types, Terminal, ACTIVE_STATUSES, Moves
<1>6. Control'
  BY <1>1, <1>2, <1>3, <1>4 DEF IInv, Types, Control, Moves
<1>7. Holding'
  BY <1>1, <1>2, <1>3, <1>4 DEF IInv, Types, Holding, Moves
<1>8. Waits'
  BY <1>1, <1>2, <1>3, <1>4 DEF IInv, Types, Control, Asked, Waits, Resolvable, Moves
<1>9. Plans'
  BY <1>1, <1>2, <1>3, <1>4 DEF IInv, Types, Control, Plans, NothingYet, Moves
<1>10. Results'
  BY <1>1, <1>2, <1>3, <1>4 DEF IInv, Types, Control, Holding, Asked, Waits, Plans,
     Results, Known, BatchPcs, Moves
<1>11. Issued'
  BY <1>1, <1>2, <1>3, <1>4 DEF IInv, Types, Control, Checkpointed, Issued, Moves
<1>12. Checkpointed'
  BY <1>1, <1>2, <1>3, <1>4 DEF IInv, Types, Control, Issued, Checkpointed,
     NothingYet, Moves
<1>13. Budgeted'
  BY <1>1, <1>2, <1>3, <1>4 DEF IInv, Types, Control, Issued, Checkpointed,
     Budgeted, Left, Ahead, Moves
<1>14. Reviewed'
  BY <1>1, <1>2, <1>3, <1>4 DEF IInv, Types, Control, Reviewed, Moves
<1>15. Allowed'
  BY <1>1, <1>2, <1>3, <1>4 DEF IInv, Types, Control, Issued, Checkpointed, Allowed,
     Excused, Moves
<1>16. Asked'
  BY <1>1, <1>2, <1>3, <1>4 DEF IInv, Asked
<1> QED
  BY <1>5, <1>6, <1>7, <1>8, <1>9, <1>10, <1>11, <1>12, <1>13, <1>14, <1>15, <1>16
     DEF IInv

\* The results of the reads join the transcript.
LEMMA ReadsReturnKeeps ==
  ASSUME IInv, ReadsReturn
  PROVE  IInv'
<1>1. /\ pending = {} /\ private = {} /\ ~resume
      /\ api.op = "idle" /\ host = "up"
  BY Quiet DEF ReadsReturn, At
<1>2. /\ worker.pc = "tool" /\ worker.calls # <<>> /\ ~planning
      /\ kind[Head(worker.calls)] = "read" /\ ~worker.done
  BY DEF IInv, Holding, Plans, ReadsReturn, At, HeadKind, HeadCall
<1>3. PICK h \in SUBSET Calls, t \in Batches(issued) :
        /\ Advances(h, t) /\ h \cup Range(t) = worker.hist \cup Range(worker.calls)
        /\ Range(t) \subseteq Range(worker.calls)
    <2> DEFINE g == {worker.calls[i] : i \in 1..GroupSize}
             h == worker.hist \cup g
             t == SubSeq(worker.calls, GroupSize + 1, Len(worker.calls))
  <2>1. /\ issued \in Nat /\ worker.calls \in Batches(issued)
        /\ worker.calls \in Seq(Calls) /\ worker.hist \subseteq Calls
    BY AgentTaskAssumption, SMT DEF IInv, Types, Issued, Workers
  <2>2. GroupSize \in 1..Len(worker.calls)
    BY <1>2, <2>1, GroupOfReads
  <2>3. t \in Batches(issued) /\ Range(worker.calls) = g \cup Range(t)
    BY <2>1, <2>2, BatchDrop
  <2>4. Range(worker.calls) \subseteq Calls
    BY <2>1, RangeOfSeq DEF Range
  <2>5. h \in SUBSET Calls /\ t \in Seq(Calls)
    BY <2>1, <2>3, <2>4 DEF Batches
  <2>6. worker' = Advance(GroupSize, h)
    BY DEF ReadsReturn
  <2>7. Advances(h, t)
    <3> HIDE DEF h
    <3> QED BY <2>5, <2>6, AdvanceAdvances DEF IInv
  <2> QED
    <3> HIDE DEF t, g
    <3> QED BY <2>3, <2>5, <2>7
<1>4. /\ UNCHANGED <<status, planning, transcript, parked, resume, lost, pending,
                     ckpt, review, host, cancel, private, api, takeover,
                     kind, issued, effects, grants, confirms,
                     everParked>>
  BY DEF ReadsReturn, durable, ghosts
<1>5. Types'
  BY <1>1, <1>2, <1>3, <1>4 DEF IInv, Types, Terminal, ACTIVE_STATUSES, Advances
<1>6. Control'
  BY <1>1, <1>2, <1>3, <1>4 DEF IInv, Types, Control, Advances
<1>7. Holding'
  BY <1>1, <1>2, <1>3, <1>4 DEF IInv, Types, Holding, Advances
<1>8. Waits'
  BY <1>1, <1>2, <1>3, <1>4 DEF IInv, Types, Control, Asked, Waits, Resolvable,
     Advances
<1>9. Plans'
  BY <1>1, <1>2, <1>3, <1>4 DEF IInv, Types, Control, Plans, NothingYet, Advances
<1>10. Results'
  BY <1>1, <1>2, <1>3, <1>4 DEF IInv, Types, Control, Holding, Asked, Waits, Plans,
     Results, Known, BatchPcs, Advances
<1>11. Issued'
  BY <1>1, <1>2, <1>3, <1>4 DEF IInv, Types, Control, Checkpointed, Issued, Advances
<1>12. Checkpointed'
  BY <1>1, <1>2, <1>3, <1>4 DEF IInv, Types, Control, Issued, Checkpointed,
     NothingYet, Advances
<1>13. Budgeted'
  BY <1>1, <1>2, <1>3, <1>4 DEF IInv, Types, Control, Issued, Checkpointed,
     Budgeted, Left, Ahead, Advances
<1>14. Reviewed'
  BY <1>1, <1>2, <1>3, <1>4 DEF IInv, Types, Control, Reviewed, Advances
<1>15. Allowed'
  BY <1>1, <1>2, <1>3, <1>4 DEF IInv, Types, Control, Issued, Checkpointed, Allowed,
     Excused, Advances
<1>16. Asked'
  BY <1>1, <1>2, <1>3, <1>4 DEF IInv, Asked
<1> QED
  BY <1>5, <1>6, <1>7, <1>8, <1>9, <1>10, <1>11, <1>12, <1>13, <1>14, <1>15, <1>16
     DEF IInv

\* A finished batch is saved and the drive goes on.
LEMMA DriveSavesKeeps ==
  ASSUME IInv, worker.pc = "calls", worker.calls = <<>>, worker.drive,
         BatchDone
  PROVE  IInv'
<1>1. /\ pending = {} /\ private = {} /\ ~resume
      /\ api.op = "idle" /\ host = "up"
  BY Quiet
<1>2. /\ parked' \in [calls : Seq(Calls), first : BOOLEAN]
      /\ parked'.calls = <<>> /\ <<>> \in Batches(issued) /\ Range(<<>>) = {}
  BY NothingParked DEF IInv, BatchDone
<1>3. /\ worker' \in Workers /\ worker'.pc \in {"turn", "top"}
      /\ worker'.mode = worker.mode
      /\ worker'.calls = worker.calls /\ worker'.done = worker.done
      /\ worker'.first = worker.first /\ worker'.hist = worker.hist /\ ~worker.done
  <2>1. PICK pc \in {"turn", "top"} :
          worker' = [worker EXCEPT !.pc = pc, !.fromParked = FALSE]
    BY DEF BatchDone
  <2>2. worker \in Workers /\ pc \in Pcs
    BY DEF IInv, Types, Pcs, AwaitPoints
  <2>3. ~worker.done
    BY DEF IInv, Holding
  <2> QED
    BY <2>1, <2>2, <2>3 DEF Workers
<1>4. /\ ~planning /\ ~planning' /\ ~resume' /\ lost' \in BOOLEAN
      /\ transcript' \in SUBSET Calls /\ planning' \in BOOLEAN /\ resume' \in BOOLEAN
  BY <1>1, <1>2, <1>3 DEF IInv, Types, Workers, Plans, BatchDone
<1>5. /\ transcript' = worker.hist
      /\ UNCHANGED <<status, pending, ckpt, review, host, cancel, private, api,
                     takeover, kind, issued, effects, grants, confirms,
                     everParked>>
  BY DEF BatchDone, ghosts
<1>6. Types'
  BY <1>1, <1>2, <1>3, <1>4, <1>5 DEF IInv, Types, Terminal, ACTIVE_STATUSES
<1>7. Control'
  BY <1>1, <1>2, <1>3, <1>4, <1>5 DEF IInv, Types, Control
<1>8. Holding'
  BY <1>1, <1>2, <1>3, <1>4, <1>5 DEF IInv, Types, Holding
<1>9. Waits'
  BY <1>1, <1>2, <1>3, <1>4, <1>5 DEF IInv, Types, Control, Asked, Waits, Resolvable
<1>10. Plans'
  BY <1>1, <1>2, <1>3, <1>4, <1>5 DEF IInv, Types, Control, Plans, NothingYet
<1>11. Results'
  BY <1>1, <1>2, <1>3, <1>4, <1>5 DEF IInv, Types, Control, Holding, Asked, Waits,
     Plans, Results, Known, BatchPcs
<1>12. Issued'
  BY <1>1, <1>2, <1>3, <1>4, <1>5 DEF IInv, Types, Control, Checkpointed, Issued
<1>13. Checkpointed'
  BY <1>1, <1>2, <1>3, <1>4, <1>5 DEF IInv, Types, Control, Issued, Checkpointed,
     NothingYet
<1>14. Budgeted'
  BY <1>1, <1>2, <1>3, <1>4, <1>5 DEF IInv, Types, Control, Issued, Checkpointed,
     Budgeted, Left, Ahead
<1>15. Reviewed'
  BY <1>1, <1>2, <1>3, <1>4, <1>5 DEF IInv, Types, Control, Reviewed
<1>16. Allowed'
  BY <1>1, <1>2, <1>3, <1>4, <1>5 DEF IInv, Types, Control, Issued, Checkpointed,
     Allowed, Excused
<1>17. Asked'
  BY <1>1, <1>2, <1>3, <1>4, <1>5 DEF IInv, Asked
<1> QED
  BY <1>6, <1>7, <1>8, <1>9, <1>10, <1>11, <1>12, <1>13, <1>14, <1>15, <1>16, <1>17
     DEF IInv

\* A grant is committed to the row of the request.
LEMMA ApproveKeeps ==
  ASSUME IInv, NEW a \in pending, Approve(a)
  PROVE  IInv'
<1>1. /\ a \in Requests /\ api.op = "idle" /\ status = "awaiting_approval"
      /\ pending = {a} /\ private \subseteq {a.id} /\ pending' = {} /\ private' = {}
      /\ api'.approval = a
  BY DEF IInv, Types, Control, Approve, LoopFree
<1>2. /\ host = "up" /\ worker = NoWorker /\ worker.pc = "none" /\ worker.mode = "none"
      /\ worker.calls = <<>> /\ ~worker.done /\ ~worker.first
  BY DEF IInv, Control, Asked, NoWorker, Approve, LoopFree
<1>3. /\ a.calls \in Batches(issued) /\ Range(<<>>) = {} /\ a.shared => a.kind = "budget"
      /\ a.kind = "tool" => /\ Head(a.calls) \in 1..issued /\ Head(a.calls) \in Calls
                            /\ a.calls # <<>> /\ Head(a.calls) \in Range(a.calls)
  BY <1>1, <1>2, AgentTaskAssumption, EmptyBatch, BatchParts DEF IInv, Types,
     Issued, Asked
<1>4. /\ api'.op = "granted" /\ resume' = (resume \/ a.shared) /\ resume' \in BOOLEAN
      /\ grants' \in [Calls -> Nat] /\ \A c \in Calls : grants[c] <= grants'[c]
      /\ a.kind = "tool" => grants'[Head(a.calls)] = grants[Head(a.calls)] + 1
  BY <1>1, <1>2, <1>3, SMTT(30) DEF IInv, Types, Approve, Requests
<1>5. /\ UNCHANGED <<status, planning, transcript, parked, lost, ckpt, review,
                     host, cancel, worker, takeover, kind, issued,
                     effects, confirms, everParked>>
  BY DEF Approve
<1>6. Types'
  BY <1>1, <1>2, <1>3, <1>4, <1>5 DEF IInv, Types, Terminal, ACTIVE_STATUSES
<1>7. Control'
  BY <1>1, <1>2, <1>3, <1>4, <1>5 DEF IInv, Types, Control
<1>8. Asked'
  BY <1>1, <1>2, <1>3, <1>4, <1>5 DEF IInv, Types, Asked
<1>9. Waits'
  BY <1>1, <1>2, <1>3, <1>4, <1>5 DEF IInv, Types, Control, Asked, Waits, Resolvable
<1>10. Plans'
  BY <1>1, <1>2, <1>3, <1>4, <1>5 DEF IInv, Types, Control, Plans, NothingYet
<1>11. Results'
  BY <1>1, <1>2, <1>3, <1>4, <1>5 DEF IInv, Types, Control, Holding, Asked, Waits,
     Plans, Results, Known, BatchPcs
<1>12. Issued'
  BY <1>1, <1>2, <1>3, <1>4, <1>5 DEF IInv, Types, Control, Checkpointed, Issued
<1>13. Budgeted'
  BY <1>1, <1>2, <1>3, <1>4, <1>5 DEF IInv, Types, Control, Issued, Checkpointed,
     Budgeted, Left, Ahead
<1>14. Allowed'
  BY <1>1, <1>2, <1>3, <1>4, <1>5 DEF IInv, Types, Control, Issued, Checkpointed,
     Allowed, Excused
<1>15. Holding' /\ Checkpointed' /\ Reviewed'
  BY <1>1, <1>2, <1>3, <1>4, <1>5 DEF IInv, Holding, Checkpointed, NothingYet,
     Reviewed
<1> QED
  BY <1>6, <1>7, <1>8, <1>9, <1>10, <1>11, <1>12, <1>13, <1>14, <1>15 DEF IInv

\* A refusal is committed to the row of the request.
LEMMA DenyKeeps ==
  ASSUME IInv, NEW a \in pending, Deny(a)
  PROVE  IInv'
<1>1. /\ a \in Requests /\ api.op = "idle" /\ status = "awaiting_approval"
      /\ pending = {a} /\ private \subseteq {a.id} /\ pending' = {} /\ private' = {}
      /\ api'.approval = a
  BY DEF IInv, Types, Control, Deny, LoopFree
<1>2. /\ host = "up" /\ worker = NoWorker /\ worker.pc = "none" /\ worker.mode = "none"
      /\ worker.calls = <<>> /\ ~worker.done /\ ~worker.first
  BY DEF IInv, Control, Asked, NoWorker, Deny, LoopFree, AwaitPoints
<1>3. /\ a.calls \in Batches(issued) /\ Range(<<>>) = {} /\ a.shared => a.kind = "budget"
      /\ a.kind = "tool" => /\ Head(a.calls) \in 1..issued /\ Head(a.calls) \in Calls
                            /\ a.calls # <<>> /\ Head(a.calls) \in Range(a.calls)
  BY <1>1, <1>2, AgentTaskAssumption, EmptyBatch, BatchParts DEF IInv, Types,
     Issued, Asked
<1>4. api'.op = "denied"
  BY DEF Deny
<1>5. /\ UNCHANGED <<status, planning, transcript, parked, resume, lost, ckpt,
                     review, host, cancel, worker, takeover, kind,
                     issued, effects, grants, confirms, everParked>>
  BY DEF Deny, ghosts
<1>6. Types'
  BY <1>1, <1>2, <1>3, <1>4, <1>5 DEF IInv, Types, Terminal, ACTIVE_STATUSES
<1>7. Control'
  BY <1>1, <1>2, <1>3, <1>4, <1>5 DEF IInv, Types, Control
<1>8. Asked'
  BY <1>1, <1>2, <1>3, <1>4, <1>5 DEF IInv, Types, Asked
<1>9. Waits'
  BY <1>1, <1>2, <1>3, <1>4, <1>5 DEF IInv, Types, Control, Asked, Waits, Resolvable
<1>10. Plans'
  BY <1>1, <1>2, <1>3, <1>4, <1>5 DEF IInv, Types, Control, Plans, NothingYet
<1>11. Results'
  BY <1>1, <1>2, <1>3, <1>4, <1>5 DEF IInv, Types, Control, Holding, Asked, Waits,
     Plans, Results, Known, BatchPcs
<1>12. Issued'
  BY <1>1, <1>2, <1>3, <1>4, <1>5 DEF IInv, Types, Control, Checkpointed, Issued
<1>13. Budgeted'
  BY <1>1, <1>2, <1>3, <1>4, <1>5 DEF IInv, Types, Control, Issued, Checkpointed,
     Budgeted, Left, Ahead
<1>14. Allowed'
  BY <1>1, <1>2, <1>3, <1>4, <1>5 DEF IInv, Types, Control, Issued, Checkpointed,
     Allowed, Excused
<1>15. Holding' /\ Checkpointed' /\ Reviewed'
  BY <1>1, <1>2, <1>3, <1>4, <1>5 DEF IInv, Holding, Checkpointed, NothingYet,
     Reviewed
<1> QED
  BY <1>6, <1>7, <1>8, <1>9, <1>10, <1>11, <1>12, <1>13, <1>14, <1>15 DEF IInv

\* A refused task is cancelled.
LEMMA DeniedKeeps ==
  ASSUME IInv, Denied
  PROVE  IInv'
<1>1. /\ pending = {} /\ private = {} /\ status = "awaiting_approval"
      /\ api.approval \in Requests /\ api.op \in {"granted", "denied"} /\ api'.op = "idle"
  BY DEF IInv, Types, Control, Denied, Idle
<1>2. /\ host = "up" /\ worker = NoWorker /\ worker.pc = "none" /\ worker.mode = "none"
      /\ worker.calls = <<>> /\ ~worker.done /\ ~worker.first
  BY DEF IInv, Control, Asked, NoWorker, Denied
<1>3. /\ review' \in [Calls -> {"new", "needs_user", "approved", "permitted", "spent"}]
      /\ \A c \in Calls : review[c] = "spent" => review'[c] = "spent"
  BY <1>1, <1>2 DEF Denied, IInv, Types
<1>4. /\ status' = "cancelled" /\ private' = {} /\ status' \in Terminal
      /\ UNCHANGED <<planning, transcript, parked, resume, lost, pending, ckpt,
                     host, cancel, worker, takeover, kind, issued,
                     effects, grants, confirms, everParked>>
  BY DEF Denied, ghosts, Terminal
<1>5. Types'
  BY <1>1, <1>2, <1>3, <1>4 DEF IInv, Types, Terminal, ACTIVE_STATUSES
<1>6. Control'
  BY <1>1, <1>2, <1>3, <1>4 DEF IInv, Types, Control
<1>7. Asked'
  BY <1>1, <1>2, <1>3, <1>4 DEF IInv, Types, Asked
<1>8. Waits'
  BY <1>1, <1>2, <1>3, <1>4 DEF IInv, Types, Control, Asked, Waits, Resolvable
<1>9. Plans'
  BY <1>1, <1>2, <1>3, <1>4 DEF IInv, Types, Control, Plans, NothingYet
<1>10. Results'
  BY <1>1, <1>2, <1>3, <1>4 DEF IInv, Types, Control, Holding, Asked, Waits, Plans,
     Results, Known, BatchPcs
<1>11. Issued'
  BY <1>1, <1>2, <1>3, <1>4 DEF IInv, Types, Control, Checkpointed, Issued
<1>12. Budgeted'
  BY <1>1, <1>2, <1>3, <1>4 DEF IInv, Types, Control, Issued, Checkpointed,
     Budgeted, Left, Ahead
<1>13. Reviewed'
  BY <1>1, <1>2, <1>3, <1>4 DEF IInv, Types, Control, Reviewed
<1>14. Allowed'
  BY <1>1, <1>2, <1>3, <1>4 DEF IInv, Types, Control, Issued, Checkpointed, Allowed,
     Excused
<1>15. Holding' /\ Checkpointed'
  BY <1>1, <1>2, <1>3, <1>4 DEF IInv, Holding, Checkpointed, NothingYet
<1> QED
  BY <1>5, <1>6, <1>7, <1>8, <1>9, <1>10, <1>11, <1>12, <1>13, <1>14, <1>15 DEF IInv

\* A granted request launches the worker it asked for.
LEMMA GrantedKeeps ==
  ASSUME IInv, Granted
  PROVE  IInv'
<1>1. /\ pending = {} /\ private = {} /\ status = "awaiting_approval"
      /\ api.approval \in Requests /\ api.op \in {"granted", "denied"} /\ api'.op = "idle"
  BY DEF IInv, Types, Control, Granted, Idle
<1>2. /\ host = "up" /\ worker = NoWorker /\ worker.pc = "none" /\ worker.mode = "none"
      /\ worker.calls = <<>> /\ ~worker.done /\ ~worker.first
  BY DEF IInv, Control, Asked, NoWorker, Granted
<1>3. /\ review' \in [Calls -> {"new", "needs_user", "approved", "permitted", "spent"}]
      /\ \A c \in Calls : review[c] = "spent" => review'[c] = "spent"
  BY <1>1, <1>2 DEF Granted, IInv, Types
<1>4. /\ worker' \in Workers /\ worker'.pc = "created" /\ ~worker'.done
      /\ \/ /\ api.approval.kind = "tool" /\ worker'.mode = "approved" /\ ~planning
            /\ worker'.calls = api.approval.calls /\ worker'.hist = api.approval.hist
         \/ /\ api.approval.kind # "tool" /\ planning /\ worker'.mode = "plan"
            /\ worker'.calls = <<>> /\ ~worker'.first
         \/ /\ api.approval.kind # "tool" /\ ~planning /\ worker'.mode = "drive"
            /\ worker'.calls = <<>> /\ ~worker'.first
    <2>1. api.approval.kind \in {"tool", "plan", "budget"}
         /\ (planning => api.approval.kind = "budget")
    BY <1>1 DEF IInv, Types, Plans, Requests
  <2>2. CASE api.approval.kind = "tool"
    <3>1. worker' = Launched("approved", api.approval.calls, TRUE, api.approval.hist)
      BY <2>2 DEF Granted
    <3> QED BY <1>1, <2>1, <2>2, <3>1 DEF Launched, NoWorker, Workers, Modes, Pcs,
         AwaitPoints, Requests
  <2>3. CASE api.approval.kind # "tool" /\ planning
    <3>1. worker' = Launched("plan", <<>>, FALSE, {})
      BY <2>1, <2>3 DEF Granted
    <3> QED BY <2>3, <3>1, EmptySeq DEF Launched, NoWorker, Workers, Modes, Pcs,
         AwaitPoints
  <2>4. CASE api.approval.kind # "tool" /\ ~planning
    <3>1. worker' = Launched("drive", <<>>, FALSE, {})
      BY <2>1, <2>4 DEF Granted
    <3> QED BY <2>4, <3>1, EmptySeq DEF Launched, NoWorker, Workers, Modes, Pcs,
         AwaitPoints
  <2> QED BY <2>2, <2>3, <2>4
<1>5. /\ ~resume' /\ resume' \in BOOLEAN /\ api.op = "granted"
      /\ api.approval.calls \in Batches(issued)
      /\ <<>> \in Batches(issued) /\ Range(<<>>) = {}
      /\ api.approval.kind = "tool" => api.approval.calls # <<>>
  BY <1>1, <1>2, <1>3, <1>4, AgentTaskAssumption, EmptyBatch DEF Granted, IInv,
     Types, Waits, Issued, Asked
<1>6. /\ UNCHANGED <<status, planning, transcript, parked, lost, pending, ckpt,
                     host, cancel, private, takeover, kind, issued,
                     effects, grants, confirms, everParked>>
  BY DEF Granted, ghosts
<1>7. Types'
  BY <1>1, <1>2, <1>3, <1>4, <1>5, <1>6 DEF IInv, Types, Terminal, ACTIVE_STATUSES
<1>8. Control'
  BY <1>1, <1>2, <1>3, <1>4, <1>5, <1>6 DEF IInv, Types, Control
<1>9. Holding'
  BY <1>1, <1>2, <1>3, <1>4, <1>5, <1>6 DEF IInv, Types, Holding
<1>10. Asked'
  BY <1>1, <1>2, <1>3, <1>4, <1>5, <1>6 DEF IInv, Types, Asked
<1>11. Waits'
  BY <1>1, <1>2, <1>3, <1>4, <1>5, <1>6 DEF IInv, Types, Control, Asked, Waits,
     Resolvable
<1>12. Plans'
  BY <1>1, <1>2, <1>3, <1>4, <1>5, <1>6 DEF IInv, Types, Control, Plans, NothingYet
<1>13. Results'
  BY <1>1, <1>2, <1>3, <1>4, <1>5, <1>6 DEF IInv, Types, Control, Holding, Asked,
     Waits, Plans, Results, Known, BatchPcs
<1>14. Issued'
  BY <1>1, <1>2, <1>3, <1>4, <1>5, <1>6 DEF IInv, Types, Control, Checkpointed, Issued
<1>15. Checkpointed'
  BY <1>1, <1>2, <1>3, <1>4, <1>5, <1>6 DEF IInv, Types, Control, Issued,
     Checkpointed, NothingYet
<1>16. Budgeted'
  BY <1>1, <1>2, <1>3, <1>4, <1>5, <1>6 DEF IInv, Types, Control, Issued,
     Checkpointed, Budgeted, Left, Ahead
<1>17. Reviewed'
  BY <1>1, <1>2, <1>3, <1>4, <1>5, <1>6 DEF IInv, Types, Control, Reviewed
<1>18. Allowed'
  BY <1>1, <1>2, <1>3, <1>4, <1>5, <1>6 DEF IInv, Types, Control, Issued,
     Checkpointed, Allowed, Excused
<1> QED
  BY <1>7, <1>8, <1>9, <1>10, <1>11, <1>12, <1>13, <1>14, <1>15, <1>16, <1>17, <1>18
     DEF IInv

\* A cancellation is recorded.
LEMMA CancelKeeps ==
  ASSUME IInv, Cancel
  PROVE  IInv'
<1>1. host = "up" /\ api.op = "idle" /\ worker.pc \in AwaitPoints
  BY DEF Cancel, LoopFree
<1>2. /\ status' \in {"cancelled", "cancelling"} /\ cancel' \in {"none", "clear", "set"}
      /\ private' \subseteq private
      /\ UNCHANGED <<planning, transcript, parked, resume, lost, pending, ckpt,
                     review, host, worker, api, takeover, kind, issued,
                     effects, grants, confirms, everParked>>
  BY DEF Cancel, RequestCancel, IInv, Types, durable, ghosts
<1>3. Types'
  BY <1>1, <1>2 DEF IInv, Types, Terminal, ACTIVE_STATUSES, AwaitPoints
<1>4. Control'
  BY <1>1, <1>2 DEF IInv, Types, Control, AwaitPoints, Terminal, ACTIVE_STATUSES
<1>5. Waits'
  BY <1>1, <1>2 DEF IInv, Types, Control, Asked, Waits, Resolvable, AwaitPoints,
     Terminal, ACTIVE_STATUSES
<1>6. /\ Holding' /\ Asked' /\ Plans' /\ Results' /\ Issued' /\ Checkpointed'
      /\ Budgeted' /\ Reviewed' /\ Allowed'
  BY <1>1, <1>2 DEF IInv, Holding, Asked, Plans, NothingYet, Results, Known,
     BatchPcs, Issued, Checkpointed, Budgeted, Left, Ahead, Reviewed, Allowed,
     Excused
<1> QED
  BY <1>3, <1>4, <1>5, <1>6 DEF IInv

\* The user takes over.
LEMMA TakeoverKeeps ==
  ASSUME IInv, Takeover
  PROVE  IInv'
<1>1. host = "up" /\ api.op = "idle" /\ worker.pc \in AwaitPoints
  BY DEF Takeover, LoopFree
<1>2. /\ status' \in {"cancelled", "cancelling"} /\ cancel' \in {"none", "clear", "set"}
      /\ private' \subseteq private /\ takeover' \in BOOLEAN
      /\ UNCHANGED <<planning, transcript, parked, resume, lost, pending, ckpt,
                     review, host, worker, api, kind, issued, effects,
                     grants, confirms, everParked>>
  BY DEF Takeover, RequestCancel, IInv, Types, durable, ghosts
<1>3. Types'
  BY <1>1, <1>2 DEF IInv, Types, Terminal, ACTIVE_STATUSES, AwaitPoints
<1>4. Control'
  BY <1>1, <1>2 DEF IInv, Types, Control, AwaitPoints, Terminal, ACTIVE_STATUSES
<1>5. Waits'
  BY <1>1, <1>2 DEF IInv, Types, Control, Asked, Waits, Resolvable, AwaitPoints,
     Terminal, ACTIVE_STATUSES
<1>6. /\ Holding' /\ Asked' /\ Plans' /\ Results' /\ Issued' /\ Checkpointed'
      /\ Budgeted' /\ Reviewed' /\ Allowed'
  BY <1>1, <1>2 DEF IInv, Holding, Asked, Plans, NothingYet, Results, Known,
     BatchPcs, Issued, Checkpointed, Budgeted, Left, Ahead, Reviewed, Allowed,
     Excused
<1> QED
  BY <1>3, <1>4, <1>5, <1>6 DEF IInv

\* The task of a takeover is cancelled.
LEMMA TakeoverMarksKeeps ==
  ASSUME IInv, TakeoverMarks
  PROVE  IInv'
<1>1. host = "up" /\ api.op = "idle" /\ worker.pc \in AwaitPoints
  BY DEF TakeoverMarks, LoopFree
<1>2. /\ status' = "cancelled" /\ takeover' \in BOOLEAN
      /\ private' \subseteq private
      /\ UNCHANGED <<planning, transcript, parked, resume, lost, pending, ckpt,
                     review, host, cancel, worker, api, kind, issued,
                     effects, grants, confirms, everParked>>
  BY DEF TakeoverMarks, IInv, Types, durable, ghosts
<1>3. Types'
  BY <1>1, <1>2 DEF IInv, Types, Terminal, ACTIVE_STATUSES, AwaitPoints
<1>4. Control'
  BY <1>1, <1>2 DEF IInv, Types, Control, AwaitPoints, Terminal, ACTIVE_STATUSES
<1>5. Waits'
  BY <1>1, <1>2 DEF IInv, Types, Control, Asked, Waits, Resolvable, AwaitPoints,
     Terminal, ACTIVE_STATUSES
<1>6. /\ Holding' /\ Asked' /\ Plans' /\ Results' /\ Issued' /\ Checkpointed'
      /\ Budgeted' /\ Reviewed' /\ Allowed'
  BY <1>1, <1>2 DEF IInv, Holding, Asked, Plans, NothingYet, Results, Known,
     BatchPcs, Issued, Checkpointed, Budgeted, Left, Ahead, Reviewed, Allowed,
     Excused
<1> QED
  BY <1>3, <1>4, <1>5, <1>6 DEF IInv

\* The host stops and its memory is gone.
LEMMA CrashKeeps ==
  ASSUME IInv, Crash
  PROVE  IInv'
<1>1. Stops
  BY EndStops DEF IInv, Crash
<1>2. api' = Idle /\ api'.op = "idle"
  BY DEF Crash, Idle
<1>3. /\ host' = "down" /\ cancel' = "none" /\ private' = {} /\ ~takeover'
      /\ takeover' \in BOOLEAN
      /\ UNCHANGED <<status, planning, transcript, parked, resume, lost, pending,
                     ckpt, review, kind, issued, effects, grants,
                     confirms, everParked>>
  BY DEF Crash, durable
<1>4. Types'
  BY <1>1, <1>2, <1>3 DEF IInv, Types, Terminal, ACTIVE_STATUSES, Stops, Idle
<1>5. Control'
  BY <1>1, <1>2, <1>3 DEF IInv, Types, Control, Stops, Idle
<1>6. Holding'
  BY <1>1, <1>2, <1>3 DEF IInv, Types, Holding, Stops, Idle
<1>7. Asked'
  BY <1>1, <1>2, <1>3 DEF IInv, Types, Asked, Stops, Idle
<1>8. Waits'
  BY <1>1, <1>2, <1>3 DEF IInv, Types, Control, Asked, Waits, Resolvable, Stops, Idle
<1>9. Plans'
  BY <1>1, <1>2, <1>3 DEF IInv, Types, Control, Plans, NothingYet, Stops, Idle
<1>10. Results'
  BY <1>1, <1>2, <1>3 DEF IInv, Types, Control, Holding, Asked, Waits, Plans,
     Results, Known, BatchPcs, Stops, Idle
<1>11. Issued'
  BY <1>1, <1>2, <1>3 DEF IInv, Types, Control, Checkpointed, Issued, Stops, Idle
<1>12. Checkpointed'
  BY <1>1, <1>2, <1>3 DEF IInv, Types, Control, Issued, Checkpointed, NothingYet,
     Stops, Idle
<1>13. Budgeted'
  BY <1>1, <1>2, <1>3 DEF IInv, Types, Control, Issued, Checkpointed, Budgeted,
     Left, Ahead, Stops, Idle
<1>14. Reviewed'
  BY <1>1, <1>2, <1>3 DEF IInv, Types, Control, Reviewed, Stops, Idle
<1>15. Allowed'
  BY <1>1, <1>2, <1>3 DEF IInv, Types, Control, Issued, Checkpointed, Allowed,
     Excused, Stops, Idle
<1> QED
  BY <1>4, <1>5, <1>6, <1>7, <1>8, <1>9, <1>10, <1>11, <1>12, <1>13, <1>14, <1>15
     DEF IInv

\* The broker starts first, then lost requests are marked.
LEMMA RestartKeeps ==
  ASSUME IInv, Restart
  PROVE  IInv'
<1>1. host = "down" /\ worker = NoWorker /\ api = Idle /\ worker.pc = "none"
      /\ worker.calls = <<>> /\ api.op = "idle"
  BY DEF Restart, IInv, Control, NoWorker, Idle
<1>2. /\ review' \in [Calls -> {"new", "needs_user", "approved", "permitted", "spent"}]
      /\ \A c \in Calls : review[c] = "spent" => review'[c] = "spent"
      /\ lost' \in BOOLEAN
  BY DEF Restart, IInv, Types
<1>3. /\ host' = "marked"
      /\ UNCHANGED <<status, planning, transcript, parked, resume, pending, ckpt,
                     cancel, private, worker, api, takeover, kind,
                     issued, effects, grants, confirms, everParked>>
  BY DEF Restart, volatile, ghosts
<1>4. Types'
  BY <1>1, <1>2, <1>3 DEF IInv, Types, Terminal, ACTIVE_STATUSES
<1>5. Control'
  BY <1>1, <1>2, <1>3 DEF IInv, Types, Control
<1>6. Waits'
  BY <1>1, <1>2, <1>3 DEF IInv, Types, Control, Asked, Waits, Resolvable
<1>7. Reviewed'
  BY <1>1, <1>2, <1>3 DEF IInv, Types, Control, Reviewed
<1>8. /\ Holding' /\ Asked' /\ Plans' /\ Results' /\ Issued' /\ Checkpointed'
      /\ Budgeted' /\ Allowed'
  BY <1>1, <1>2, <1>3 DEF IInv, Holding, Asked, Plans, NothingYet, Results, Known,
     BatchPcs, Issued, Checkpointed, Budgeted, Left, Ahead, Allowed, Excused
<1> QED
  BY <1>4, <1>5, <1>6, <1>7, <1>8 DEF IInv

\* The lost requests of an active task are settled.
LEMMA SettleMissingKeeps ==
  ASSUME IInv, SettleMissing
  PROVE  IInv'
<1>1. host = "marked" /\ worker = NoWorker /\ api = Idle /\ worker.pc = "none"
      /\ worker.calls = <<>> /\ api.op = "idle" /\ private = {}
  BY DEF SettleMissing, IInv, Control, NoWorker, Idle
<1>2. /\ pending' \subseteq pending
      /\ status \in ACTIVE_STATUSES => \A a \in pending' : a.kind # "tool"
  BY DEF SettleMissing, MissingRequests
<1>3. /\ host' = "settled"
      /\ UNCHANGED <<status, planning, transcript, parked, resume, lost, ckpt,
                     review, cancel, private, worker, api, takeover,
                     kind, issued, effects, grants, confirms,
                     everParked>>
  BY DEF SettleMissing, volatile, ghosts
<1>4. Types'
  BY <1>1, <1>2, <1>3 DEF IInv, Types, Terminal, ACTIVE_STATUSES
<1>5. Control'
  BY <1>1, <1>2, <1>3 DEF IInv, Types, Control
<1>6. Asked'
  BY <1>1, <1>2, <1>3 DEF IInv, Types, Asked
<1>7. Waits'
  BY <1>1, <1>2, <1>3 DEF IInv, Types, Control, Asked, Waits, Resolvable
<1>8. Plans'
  BY <1>1, <1>2, <1>3 DEF IInv, Types, Control, Plans, NothingYet
<1>9. Results'
  BY <1>1, <1>2, <1>3 DEF IInv, Types, Control, Holding, Asked, Waits, Plans,
     Results, Known, BatchPcs
<1>10. Issued'
  BY <1>1, <1>2, <1>3 DEF IInv, Types, Control, Checkpointed, Issued
<1>11. Budgeted'
  BY <1>1, <1>2, <1>3 DEF IInv, Types, Control, Issued, Checkpointed, Budgeted,
     Left, Ahead
<1>12. Holding' /\ Checkpointed' /\ Reviewed' /\ Allowed'
  BY <1>1, <1>2, <1>3 DEF IInv, Holding, Checkpointed, NothingYet, Reviewed,
     Allowed, Excused
<1> QED
  BY <1>4, <1>5, <1>6, <1>7, <1>8, <1>9, <1>10, <1>11, <1>12 DEF IInv

\* An interrupted task is settled, kept waiting, or left to recover.
LEMMA RecoverInterruptedKeeps ==
  ASSUME IInv, RecoverInterrupted
  PROVE  IInv'
<1>1. /\ host = "settled" /\ worker = NoWorker /\ api = Idle /\ worker.pc = "none"
      /\ worker.calls = <<>> /\ api.op = "idle" /\ private = {}
  BY DEF RecoverInterrupted, IInv, Control, NoWorker, Idle
<1>2. /\ <<>> \in Batches(issued) /\ Range(<<>>) = {}
      /\ \A a \in pending : a.kind # "tool" \/ status \notin ACTIVE_STATUSES
      /\ \A a \in pending : a.kind # "tool" => a.kind \in {"plan", "budget"}
  BY <1>1, AgentTaskAssumption, EmptyBatch DEF IInv, Types, Waits, Requests
<1>3. \/ pending' \subseteq pending
      \/ /\ resume /\ pending = {} /\ status' = "awaiting_approval"
         /\ \E r \in Requests : /\ pending' = {r} /\ r.kind = "budget"
                              /\ r.calls = <<>> /\ r.shared
    <2>1. CASE status \in ACTIVE_STATUSES /\ status # "cancelling" /\ ~lost /\ resume
             /\ ~PendingBudget
    <3> DEFINE r == [id |-> Fresh, kind |-> "budget", calls |-> <<>>, hist |-> {},
                     shared |-> TRUE]
    <3>1. pending = {} /\ status' = "awaiting_approval"
      BY <1>1, <2>1 DEF IInv, Waits, PendingBudget, RecoverInterrupted,
         RecoveredStatus
    <3>2. r \in Requests
      BY <3>1, FreshId, EmptySeq DEF Requests
    <3>3. pending' = {r}
      BY <2>1, <3>1 DEF RecoverInterrupted, RecoveredPending
    <3>4. r.kind = "budget" /\ r.calls = <<>> /\ r.shared
      OBVIOUS
    <3> QED BY <2>1, <3>1, <3>2, <3>3, <3>4
  <2>2. CASE ~(status \in ACTIVE_STATUSES /\ status # "cancelling" /\ ~lost /\ resume
               /\ ~PendingBudget)
    BY <2>2 DEF RecoverInterrupted, RecoveredPending
  <2> QED BY <2>1, <2>2
<1>4. \/ status' \in Terminal
      \/ /\ status' = "awaiting_approval"
         /\ \E a \in pending' : a.kind \in {"plan", "budget"}
      \/ /\ status' \in {"recovering", "recovery_confirmation_required"}
         /\ pending' = {} /\ ~resume /\ ckpt.state # "none"
    <2>1. CASE status \notin ACTIVE_STATUSES
    BY <2>1 DEF RecoverInterrupted, IInv, Types
  <2>2. CASE status \in ACTIVE_STATUSES /\ (status = "cancelling" \/ lost)
    BY <2>2 DEF RecoverInterrupted, RecoveredStatus, Terminal
  <2>3. CASE status \in ACTIVE_STATUSES /\ status # "cancelling" /\ ~lost /\ resume
    <3>1. status = "awaiting_approval"
      BY <2>3 DEF IInv, Waits, Terminal, ACTIVE_STATUSES
    <3>2. CASE PendingBudget
      <4>1. status' = status /\ pending' = pending
        BY <2>3, <3>2 DEF RecoverInterrupted, RecoveredStatus, RecoveredPending
      <4> QED BY <3>1, <3>2, <4>1 DEF PendingBudget
    <3>3. CASE ~PendingBudget
      <4>1. pending = {}
        BY <2>3, <3>3 DEF IInv, Waits, PendingBudget
      <4> QED BY <1>3, <2>3, <3>3, <4>1 DEF RecoverInterrupted, RecoveredStatus,
           RecoveredPending
    <3> QED BY <3>2, <3>3
  <2>4. CASE status \in ACTIVE_STATUSES /\ status # "cancelling" /\ ~lost /\ ~resume
    <3>1. pending' = pending /\ status' = RecoveredStatus
      BY <2>4 DEF RecoverInterrupted, RecoveredPending
    <3>2. CASE status = "awaiting_approval" /\ PendingBoundary
      <4>1. status' = status
        BY <2>4, <3>1, <3>2 DEF RecoveredStatus
      <4> QED BY <3>1, <3>2, <4>1 DEF PendingBoundary
    <3>3. CASE ~(status = "awaiting_approval" /\ PendingBoundary)
      <4>1. pending = {}
        BY <1>2, <2>4, <3>3 DEF IInv, Waits, PendingBoundary, Terminal,
           ACTIVE_STATUSES
      <4>2. \/ status' = "failed"
            \/ /\ status' \in {"recovering", "recovery_confirmation_required"}
               /\ recovery_decision # "not_resumable"
        BY <2>4, <3>1, <3>3 DEF RecoveredStatus
      <4>3. recovery_decision # "not_resumable" => ckpt.state # "none"
        BY DEF recovery_decision
      <4> QED BY <2>4, <3>1, <4>1, <4>2, <4>3 DEF Terminal
    <3> QED BY <3>2, <3>3
  <2> QED BY <2>1, <2>2, <2>3, <2>4
<1>5. /\ host' = "up"
      /\ UNCHANGED <<planning, transcript, parked, resume, lost, ckpt, review,
                     cancel, private, worker, api, takeover, kind,
                     issued, effects, grants, confirms, everParked>>
  BY DEF RecoverInterrupted, volatile, ghosts
<1>6. Types'
  BY <1>1, <1>2, <1>3, <1>4, <1>5 DEF IInv, Types, Terminal, ACTIVE_STATUSES
<1>7. Control'
  BY <1>1, <1>2, <1>3, <1>4, <1>5 DEF IInv, Types, Control, Terminal, ACTIVE_STATUSES
<1>8. Asked'
  BY <1>1, <1>2, <1>3, <1>4, <1>5 DEF IInv, Types, Asked, Terminal, ACTIVE_STATUSES
<1>9. Waits'
  BY <1>1, <1>2, <1>3, <1>4, <1>5 DEF IInv, Types, Control, Asked, Waits,
     Resolvable, Terminal, ACTIVE_STATUSES
<1>10. Plans'
  BY <1>1, <1>2, <1>3, <1>4, <1>5 DEF IInv, Types, Control, Plans, NothingYet,
     Terminal, ACTIVE_STATUSES
<1>11. Results'
  BY <1>1, <1>2, <1>3, <1>4, <1>5 DEF IInv, Types, Control, Holding, Asked, Waits,
     Plans, Results, Known, BatchPcs, Terminal, ACTIVE_STATUSES
<1>12. Issued'
  BY <1>1, <1>2, <1>3, <1>4, <1>5 DEF IInv, Types, Control, Checkpointed, Issued,
     Terminal, ACTIVE_STATUSES
<1>13. Budgeted'
  BY <1>1, <1>2, <1>3, <1>4, <1>5 DEF IInv, Types, Control, Issued, Checkpointed,
     Budgeted, Left, Ahead, Terminal, ACTIVE_STATUSES
<1>14. Holding' /\ Checkpointed' /\ Reviewed' /\ Allowed'
  BY <1>1, <1>2, <1>3, <1>4, <1>5 DEF IInv, Holding, Checkpointed, NothingYet,
     Reviewed, Allowed, Excused
<1> QED
  BY <1>6, <1>7, <1>8, <1>9, <1>10, <1>11, <1>12, <1>13, <1>14 DEF IInv

\* A reviewed call is not recovered.
LEMMA RecoveryRefusedKeeps ==
  ASSUME IInv, worker.pc = "none",
         status \in {"recovering", "recovery_confirmation_required"},
         status' = "failed",
         UNCHANGED <<planning, transcript, parked, resume, lost, pending,
                     ckpt, review, host, cancel, private, worker,
                     api, takeover, kind, issued, effects, grants,
                     confirms, everParked>>
  PROVE  IInv'
<1>1. worker.calls = <<>> /\ pending = {} /\ status' \in Terminal
  BY DEF IInv, Control, Waits, NoWorker, Terminal
<1>2. Types'
  BY <1>1 DEF IInv, Types, Terminal, ACTIVE_STATUSES
<1>3. Control'
  BY <1>1 DEF IInv, Types, Control
<1>4. Waits'
  BY <1>1 DEF IInv, Types, Control, Asked, Waits, Resolvable
<1>5. /\ Holding' /\ Asked' /\ Plans' /\ Results' /\ Issued' /\ Checkpointed'
      /\ Budgeted' /\ Reviewed' /\ Allowed'
  BY <1>1 DEF IInv, Holding, Asked, Plans, NothingYet, Results, Known, BatchPcs,
     Issued, Checkpointed, Budgeted, Left, Ahead, Reviewed, Allowed, Excused
<1> QED
  BY <1>2, <1>3, <1>4, <1>5 DEF IInv

\* Behind a finished effect the rest of the batch is run.
LEMMA RelaunchRestKeeps ==
  ASSUME IInv, worker.pc = "none", host = "up", api.op = "idle",
         status \in {"recovering", "recovery_confirmation_required"},
         status' = "recovering",
         ckpt.state \in {"completed_uncommitted", "committed"},
         worker' = Launched("resume", ckpt.rest, FALSE, ckpt.hist \cup {ckpt.call}),
         UNCHANGED <<planning, transcript, parked, resume, lost, pending,
                     ckpt, review, host, cancel, private, api,
                     takeover, kind, issued, effects, grants,
                     confirms, everParked>>
  PROVE  IInv'
<1>1. /\ worker.calls = <<>> /\ ~worker.first /\ ~worker.done /\ pending = {} /\ ~resume
      /\ private = {} /\ ckpt.state # "none" /\ ~planning
  BY DEF IInv, Control, Waits, Plans, NothingYet, NoCkpt, NoWorker
<1>2. ckpt.call \in 1..issued /\ ckpt.call \in Calls /\ ckpt.rest \in Batches(issued)
      /\ Range(<<>>) = {}
  BY <1>1, AgentTaskAssumption, EmptyBatch, SMT DEF IInv, Types, Issued,
     Checkpointed, Calls
<1>3. /\ worker' \in Workers /\ worker'.pc = "created" /\ worker'.mode = "resume"
      /\ ~worker'.done /\ worker'.hist = ckpt.hist \cup {ckpt.call}
      /\ worker'.calls = ckpt.rest /\ ~worker'.first
  BY <1>1, <1>2 DEF IInv, Types, Checkpoints, Launched, NoWorker, Workers, Modes,
     Pcs, AwaitPoints
<1>4. Types'
  BY <1>1, <1>2, <1>3 DEF IInv, Types, Terminal, ACTIVE_STATUSES
<1>5. Control'
  BY <1>1, <1>2, <1>3 DEF IInv, Types, Control, ACTIVE_STATUSES
<1>6. Holding'
  BY <1>1, <1>2, <1>3 DEF IInv, Types, Holding, ACTIVE_STATUSES
<1>7. Waits'
  BY <1>1, <1>2, <1>3 DEF IInv, Types, Control, Asked, Waits, Resolvable,
     ACTIVE_STATUSES
<1>8. Plans'
  BY <1>1, <1>2, <1>3 DEF IInv, Types, Control, Plans, NothingYet, ACTIVE_STATUSES
<1>9. Results'
  BY <1>1, <1>2, <1>3 DEF IInv, Types, Control, Holding, Asked, Waits, Plans,
     Results, Known, BatchPcs, ACTIVE_STATUSES
<1>10. Issued'
  BY <1>1, <1>2, <1>3 DEF IInv, Types, Control, Checkpointed, Issued, ACTIVE_STATUSES
<1>11. Checkpointed'
  BY <1>1, <1>2, <1>3 DEF IInv, Types, Control, Issued, Checkpointed, NothingYet,
     ACTIVE_STATUSES
<1>12. Budgeted'
  BY <1>1, <1>2, <1>3 DEF IInv, Types, Control, Issued, Checkpointed, Budgeted,
     Left, Ahead, ACTIVE_STATUSES
<1>13. Reviewed'
  BY <1>1, <1>2, <1>3 DEF IInv, Types, Control, Reviewed, ACTIVE_STATUSES
<1>14. Allowed'
  BY <1>1, <1>2, <1>3 DEF IInv, Types, Control, Issued, Checkpointed, Allowed,
     Excused, ACTIVE_STATUSES
<1>15. Asked'
  BY <1>1, <1>2, <1>3 DEF IInv, Asked
<1> QED
  BY <1>4, <1>5, <1>6, <1>7, <1>8, <1>9, <1>10, <1>11, <1>12, <1>13, <1>14, <1>15
     DEF IInv

\* A call that did not start, or whose repetition is confirmed, is run again.
LEMMA RelaunchCallKeeps ==
  ASSUME IInv, worker.pc = "none", host = "up", api.op = "idle",
         status \in {"recovering", "recovery_confirmation_required"},
         status' = "recovering",
         ckpt.state \in {"prepared", "running"}, kind[ckpt.call] # "managed",
         confirms' = IF ckpt.state = "running"
                     THEN [confirms EXCEPT ![ckpt.call] = @ + 1] ELSE confirms,
         worker' = Launched("resume", <<ckpt.call>> \o ckpt.rest, TRUE, ckpt.hist),
         UNCHANGED <<planning, transcript, parked, resume, lost, pending,
                     ckpt, review, host, cancel, private, api,
                     takeover, kind, issued, effects, grants,
                     everParked>>
  PROVE  IInv'
<1>1. /\ worker.calls = <<>> /\ ~worker.first /\ ~worker.done /\ pending = {} /\ ~resume
      /\ private = {} /\ ckpt.state # "none" /\ ~planning
  BY DEF IInv, Control, Waits, Plans, NothingYet, NoCkpt, NoWorker
<1>2. ckpt.call \in 1..issued /\ ckpt.call \in Calls /\ ckpt.rest \in Batches(issued)
      /\ ckpt.call \notin Range(ckpt.rest) /\ issued \in Nat
  BY <1>1, AgentTaskAssumption, SMT DEF IInv, Types, Issued, Checkpointed, Calls
<1>3. PICK t \in Batches(issued) :
        /\ t = <<ckpt.call>> \o ckpt.rest /\ t # <<>> /\ t \in Seq(Calls)
        /\ Head(t) = ckpt.call /\ Range(t) = {ckpt.call} \cup Range(ckpt.rest)
  BY <1>1, <1>2, BatchCons DEF Batches
<1>4. /\ worker' \in Workers /\ worker'.pc = "created" /\ worker'.mode = "resume"
      /\ ~worker'.done /\ worker'.hist = ckpt.hist
      /\ worker'.calls = t /\ worker'.first
  BY <1>1, <1>2, <1>3 DEF IInv, Types, Checkpoints, Launched, NoWorker, Workers,
     Modes, Pcs, AwaitPoints
<1>5. /\ confirms' \in [Calls -> Nat] /\ \A c \in Calls : confirms[c] <= confirms'[c]
      /\ ckpt.state = "running" => confirms'[ckpt.call] = confirms[ckpt.call] + 1
      /\ confirms[ckpt.call] \in Nat
  BY <1>1, <1>2, <1>3, <1>4 DEF IInv, Types
<1>6. Types'
  BY <1>1, <1>2, <1>3, <1>4, <1>5 DEF IInv, Types, Terminal, ACTIVE_STATUSES
<1>7. Control'
  BY <1>1, <1>2, <1>3, <1>4, <1>5 DEF IInv, Types, Control, ACTIVE_STATUSES
<1>8. Holding'
  BY <1>1, <1>2, <1>3, <1>4, <1>5 DEF IInv, Types, Holding, ACTIVE_STATUSES
<1>9. Waits'
  BY <1>1, <1>2, <1>3, <1>4, <1>5 DEF IInv, Types, Control, Asked, Waits,
     Resolvable, ACTIVE_STATUSES
<1>10. Plans'
  BY <1>1, <1>2, <1>3, <1>4, <1>5 DEF IInv, Types, Control, Plans, NothingYet,
     ACTIVE_STATUSES
<1>11. Results'
  BY <1>1, <1>2, <1>3, <1>4, <1>5 DEF IInv, Types, Control, Holding, Asked, Waits,
     Plans, Results, Known, BatchPcs, ACTIVE_STATUSES
<1>12. Issued'
  BY <1>1, <1>2, <1>3, <1>4, <1>5 DEF IInv, Types, Control, Checkpointed, Issued,
     ACTIVE_STATUSES
<1>13. Checkpointed'
  BY <1>1, <1>2, <1>3, <1>4, <1>5 DEF IInv, Types, Control, Issued, Checkpointed,
     NothingYet, ACTIVE_STATUSES
<1>14. Budgeted'
  <2> SUFFICES ASSUME NEW c \in Calls \ everParked
               PROVE  /\ effects[c] <= 1 + confirms'[c]
                      /\ Ahead(c)' => effects[c] <= confirms'[c]
    BY DEF Budgeted
  <2>1. /\ effects[c] \in Nat /\ confirms[c] \in Nat /\ confirms'[c] \in Nat
        /\ confirms[c] <= confirms'[c] /\ effects[c] <= 1 + confirms[c]
        /\ Ahead(c) => effects[c] <= confirms[c]
    BY <1>5 DEF IInv, Types, Budgeted
  <2>2. effects[c] <= 1 + confirms'[c]
    BY <2>1, SMT
  <2>3. Ahead(c)' => c \in Range(t)
    BY <1>1, <1>3, <1>4 DEF Ahead, Left
  <2>4. CASE c \in Range(ckpt.rest)
    BY <2>1, <2>2, <2>4, SMT DEF Ahead
  <2>5. CASE c = ckpt.call /\ ckpt.state = "running"
    BY <1>5, <2>1, <2>2, <2>5, SMT
  <2>6. CASE c = ckpt.call /\ ckpt.state = "prepared"
    BY <2>1, <2>2, <2>6, SMT DEF Ahead
  <2> QED BY <1>3, <2>2, <2>3, <2>4, <2>5, <2>6
<1>15. Reviewed'
  BY <1>1, <1>2, <1>3, <1>4, <1>5 DEF IInv, Types, Control, Reviewed, ACTIVE_STATUSES
<1>16. Allowed'
  <2>1. ASSUME NEW c \in Calls \ everParked, kind[c] = "ask"
        PROVE  /\ effects[c] <= grants[c] + confirms'[c]
               /\ Excused(c)' => effects[c] < grants[c] + confirms'[c]
    <3>1. /\ effects[c] \in Nat /\ confirms[c] \in Nat /\ confirms'[c] \in Nat
          /\ grants[c] \in Nat /\ confirms[c] <= confirms'[c]
          /\ effects[c] <= grants[c] + confirms[c]
          /\ Excused(c) => effects[c] < grants[c] + confirms[c]
      BY <1>5, <2>1 DEF IInv, Types, Allowed
    <3>2. effects[c] <= grants[c] + confirms'[c]
      BY <3>1, SMT
    <3>3. Excused(c)' => c = ckpt.call
      BY <1>3, <1>4 DEF Excused
    <3>4. CASE c = ckpt.call /\ ckpt.state = "running"
      BY <1>5, <3>1, <3>2, <3>4, SMT
    <3>5. CASE c = ckpt.call /\ ckpt.state = "prepared"
      BY <3>1, <3>2, <3>5, SMT DEF Excused
    <3> QED BY <3>2, <3>3, <3>4, <3>5
  <2>2. worker'.pc = "created"
    BY <1>4
  <2> QED BY <2>1, <2>2 DEF Allowed
<1>17. Asked'
  BY <1>1, <1>2, <1>3, <1>4, <1>5 DEF IInv, Asked
<1> QED
  BY <1>6, <1>7, <1>8, <1>9, <1>10, <1>11, <1>12, <1>13, <1>14, <1>15, <1>16, <1>17
     DEF IInv

\* The effect of a call takes place.
LEMMA ToolActsKeeps == ASSUME IInv, ToolActs PROVE IInv'
<1>1. /\ worker' \in Workers /\ worker'.pc = "tool" /\ worker'.mode = worker.mode
      /\ worker'.calls = worker.calls /\ worker'.first = worker.first
      /\ worker'.hist = worker.hist /\ worker'.done
  BY DEF IInv, Types, Workers, ToolActs, At
<1>2. /\ worker.calls # <<>> /\ Head(worker.calls) \in Calls
      /\ Head(worker.calls) \in 1..issued /\ HeadCall = Head(worker.calls)
      /\ Range(worker.calls) = {Head(worker.calls)} \cup Range(Tail(worker.calls))
      /\ Head(worker.calls) \notin Range(Tail(worker.calls))
  BY BatchParts DEF IInv, Types, Holding, Issued, ToolActs, At, HeadCall
<1>3. Types'
  BY <1>1, <1>2 DEF IInv, Types, ToolActs, At, durable
<1>4. Control'
  BY <1>1 DEF IInv, Types, Control, ToolActs, At, durable
<1>5. Holding'
  BY <1>1, <1>2 DEF IInv, Types, Holding, ToolActs, At, durable, HeadKind
<1>6. Asked'
  BY DEF IInv, Asked, ToolActs, durable
<1>7. Waits'
  BY <1>1 DEF IInv, Control, Waits, Resolvable, ToolActs, At, durable
<1>8. Plans'
  BY <1>1 DEF IInv, Plans, ToolActs, At, durable
<1>9. Results'
  BY <1>1, <1>2 DEF IInv, Types, Control, Waits, Checkpointed, Results, Known,
       BatchPcs, ToolActs, At, durable, HeadKind
<1>10. Issued'
  BY <1>1, <1>2 DEF IInv, Types, Issued, ToolActs, At, durable, HeadKind
<1>11. Checkpointed'
  BY <1>1, <1>2 DEF IInv, Types, Checkpointed, NothingYet, NoCkpt, ToolActs, At,
       durable, HeadKind
<1>12. Budgeted'
  BY <1>1, <1>2 DEF IInv, Types, Control, Checkpointed, Budgeted, Left, Ahead,
       ToolActs, At, durable, HeadKind
<1>13. Reviewed'
  BY <1>1, <1>2 DEF IInv, Types, Reviewed, ToolActs, At, durable, HeadKind
<1>14. Allowed'
  BY <1>1, <1>2 DEF IInv, Types, Control, Checkpointed, Allowed, Excused, ToolActs,
       At, durable, HeadKind
<1> QED
  BY <1>3, <1>4, <1>5, <1>6, <1>7, <1>8, <1>9, <1>10, <1>11, <1>12, <1>13, <1>14 DEF IInv

\* The worker of a cancelled task ends.
LEMMA MarkCancelledKeeps == ASSUME IInv, MarkCancelled PROVE IInv'
<1>1. Stops
  BY EndStops DEF IInv, MarkCancelled, EndWorker
<1>2. /\ worker.pc \notin {"none", "asking"} /\ worker.pc # "created"
      /\ status' \in Terminal /\ private' \subseteq private
      /\ cancel' \in {"none", "clear", "set"}
  BY DEF IInv, Types, MarkCancelled, At, EndWorker, Terminal
<1> QED
  BY <1>1, <1>2, EndKeeps DEF MarkCancelled, durable, ghosts

\* A failed worker ends, a cancelled one goes to release the computer.
LEMMA RaiseKeeps ==
  ASSUME IInv, worker.pc \notin {"none", "asking"}, worker.pc # "created",
         Raise, UNCHANGED <<durable, host, api, takeover, ghosts>>
  PROVE  IInv'
<1>1. CASE worker.drive /\ CancelSet /\ Unwind
           /\ UNCHANGED <<status, private, cancel>>
  BY <1>1, UnwindMoves, UnwindKeeps DEF IInv, durable, ghosts
<1>2. CASE ~(worker.drive /\ CancelSet) /\ _fail
  <2>1. Stops
    BY <1>2, EndStops DEF IInv, _fail, EndWorker
  <2>2. /\ status' \in Terminal /\ private' \subseteq private
        /\ cancel' \in {"none", "clear", "set"}
    BY <1>2 DEF IInv, Types, _fail, EndWorker, Terminal
  <2> QED BY <2>1, <2>2, EndKeeps DEF durable, ghosts
<1> QED
  BY <1>1, <1>2 DEF Raise

\* A request that is not as the broker knows it fails the task.
LEMMA ReviewFailsKeeps == ASSUME IInv, ReviewFails PROVE IInv'
<1>1. worker.pc \notin {"none", "asking"} /\ worker.pc # "created"
  BY DEF ReviewFails, At
<1> QED
  BY <1>1, RaiseKeeps DEF ReviewFails

\* A tool that fails ends the task or its worker.
LEMMA ToolFailsKeeps == ASSUME IInv, ToolFails PROVE IInv'
<1>1. worker.pc \notin {"none", "asking"} /\ worker.pc # "created"
  BY DEF ToolFails, At
<1>2. CASE Raise
  BY <1>1, <1>2, RaiseKeeps DEF ToolFails
<1>3. CASE CancelSet /\ Unwind /\ UNCHANGED <<status, private, cancel>>
  BY <1>1, <1>3, UnwindMoves, UnwindKeeps DEF IInv, ToolFails, durable, ghosts
<1> QED
  BY <1>2, <1>3 DEF ToolFails

\* Planning that is cancelled or fails ends the task; out of time, it pauses.
LEMMA PlanFailsKeeps == ASSUME IInv, PlanFails PROVE IInv'
<1>1. /\ worker.pc \notin {"none", "asking"} /\ worker.pc # "created"
      /\ worker.pc = "planning"
  BY DEF PlanFails, At
<1>2. CASE status' \in {"cancelled", "failed"} /\ private' = {} /\ EndWorker
           /\ UNCHANGED <<transcript, pauses>>
  <2>1. Stops
    BY <1>2, EndStops DEF IInv, EndWorker
  <2>2. /\ status' \in Terminal /\ private' \subseteq private
        /\ cancel' \in {"none", "clear", "set"}
    BY <1>2 DEF IInv, Types, EndWorker, Terminal
  <2> QED BY <1>1, <1>2, <2>1, <2>2, EndKeeps DEF PlanFails
<1>3. CASE PauseBudget(TRUE, {}) /\ UNCHANGED <<private, cancel>>
  <2>1. Moves("pause_shared")
    BY <1>3, ToMoves DEF IInv, Types, PauseBudget, Pcs
  <2>2. Known({}, parked.calls) /\ ~worker.done
    BY <1>1 DEF IInv, Types, Plans, NothingYet, Known, Holding
  <2>3. status' = "awaiting_approval" /\ transcript' = {} /\ {} \in SUBSET Calls
    BY <1>3 DEF PauseBudget
  <2> QED BY <1>1, <1>3, <2>1, <2>2, <2>3, PauseKeeps DEF PlanFails
<1> QED
  BY <1>2, <1>3 DEF PlanFails, _fail

\* A turn that is cancelled goes to release the computer; one that fails ends
\* the task; out of time, it pauses.
LEMMA TurnFailsKeeps == ASSUME IInv, TurnFails PROVE IInv'
<1>1. /\ worker.pc \notin {"none", "asking"} /\ worker.pc # "created"
      /\ worker.pc = "turn"
  BY DEF TurnFails, At
<1>2. CASE CancelSet /\ Unwind
           /\ UNCHANGED <<status, private, cancel, transcript, pauses>>
  BY <1>1, <1>2, UnwindMoves, UnwindKeeps DEF IInv, TurnFails
<1>3. CASE ~CancelSet /\ _fail /\ UNCHANGED <<transcript, pauses>>
  <2>1. Stops
    BY <1>3, EndStops DEF IInv, _fail, EndWorker
  <2>2. /\ status' \in Terminal /\ private' \subseteq private
        /\ cancel' \in {"none", "clear", "set"}
    BY <1>3 DEF IInv, Types, _fail, EndWorker, Terminal
  <2> QED BY <1>1, <1>3, <2>1, <2>2, EndKeeps DEF TurnFails
<1>4. CASE PauseBudget(TRUE, worker.hist) /\ UNCHANGED <<private, cancel>>
  <2>1. Moves("pause_shared")
    BY <1>4, ToMoves DEF IInv, Types, PauseBudget, Pcs
  <2>2. Known(worker.hist, parked.calls) /\ ~worker.done /\ ~planning
    BY <1>1 DEF IInv, Types, Results, Plans, Holding
  <2>3. status' = "awaiting_approval" /\ transcript' = worker.hist
    BY <1>4 DEF PauseBudget
  <2>4. worker.hist \in SUBSET Calls
    BY DEF IInv, Types, Workers
  <2> QED BY <1>1, <1>4, <2>1, <2>2, <2>3, <2>4, PauseKeeps DEF TurnFails
<1> QED
  BY <1>2, <1>3, <1>4 DEF TurnFails

\* A parked batch is followed by the pause that explains it.
LEMMA PauseParkKeeps == ASSUME IInv, PausePark PROVE IInv'
<1>1. /\ worker.pc \notin {"none", "asking"} /\ worker.pc # "created"
      /\ worker.pc = "parked" /\ PauseBudget(TRUE, worker.hist)
  BY DEF PausePark, At
<1>2. Moves("pause_shared")
  BY <1>1, ToMoves DEF IInv, Types, PauseBudget, Pcs
<1>3. Known(worker.hist, parked.calls) /\ ~worker.done /\ ~planning
  BY <1>1 DEF IInv, Types, Results, BatchPcs, Plans, Holding
<1>4. status' = "awaiting_approval" /\ transcript' = worker.hist
  BY <1>1 DEF PauseBudget
<1>5. worker.hist \in SUBSET Calls
  BY DEF IInv, Types, Workers
<1> QED
  BY <1>1, <1>2, <1>3, <1>4, <1>5, PauseKeeps DEF PausePark

\* The loop's head goes on with what was parked or asks the provider, unless
\* it is cancelled or out of budget.
LEMMA TopKeeps == ASSUME IInv, Top PROVE IInv'
<1>1. /\ worker.pc \notin {"none", "asking"} /\ worker.pc # "created"
      /\ worker.pc = "top" /\ worker.calls = <<>> /\ ~worker.done /\ ~planning
      /\ worker.hist \in SUBSET Calls /\ Known(worker.hist, parked.calls)
  BY DEF Top, At, IInv, Types, Workers, Holding, Plans, Results
<1>2. CASE CancelSet /\ Unwind /\ UNCHANGED <<status, transcript, pauses>>
  BY <1>1, <1>2, UnwindMoves, UnwindKeeps DEF IInv, Top
<1>3. ASSUME NEW shared \in BOOLEAN, PauseBudget(shared, worker.hist)
      PROVE  IInv'
  <2>1. PICK p \in {"pause_shared", "pause_own"} : Moves(p)
    BY <1>3, ToMoves DEF IInv, Types, PauseBudget, Pcs
  <2>2. status' = "awaiting_approval" /\ transcript' = worker.hist
    BY <1>3 DEF PauseBudget
  <2> QED BY <1>1, <2>1, <2>2, PauseKeeps DEF Top
<1>4. CASE /\ ~CancelSet /\ parked.calls # <<>>
           /\ worker' = [worker EXCEPT !.pc = "calls", !.calls = parked.calls,
                           !.first = parked.first, !.fromParked = TRUE]
           /\ UNCHANGED <<status, transcript, pauses>>
  <2>1. CarriesOn
    BY <1>1, <1>4 DEF IInv, Types, Workers, Pcs, Top, CarriesOn
  <2> QED BY <1>1, <2>1, CarriesOnKeeps
<1>5. CASE /\ ~CancelSet /\ parked.calls = <<>> /\ worker' = To("turn")
           /\ UNCHANGED <<status, transcript, pauses>>
  <2>1. Moves("turn")
    BY <1>5, ToMoves DEF IInv, Types, Pcs, AwaitPoints
  <2>2. UNCHANGED <<status, planning, transcript, parked, resume, lost, pending,
                    ckpt, review, host, cancel, private, api, takeover, kind,
                    issued, effects, grants, confirms, everParked>>
    BY <1>5 DEF Top
  <2> QED BY <1>1, <1>5, <2>1, <2>2, AsksProviderKeeps
<1> QED
  BY <1>2, <1>3, <1>4, <1>5 DEF Top

\* The worker starts where its entry point does.
LEMMA BeginKeeps == ASSUME IInv, Begin PROVE IInv'
<1>1. /\ worker.pc = "created" /\ worker.pc \notin {"none", "asking"}
      /\ worker.mode \in {"plan", "drive", "approved", "resume"} /\ ~worker.done
      /\ transcript \in SUBSET Calls
  BY DEF Begin, At, IInv, Types, Workers, Modes, Holding
<1>2. UNCHANGED <<planning, transcript, parked, resume, lost, pending, review,
             host, private, api, takeover, ghosts>>
  BY DEF Begin
<1>3. cancel \in {"none", "clear", "set"} /\ Setdefault \in {"none", "clear", "set"}
  BY DEF IInv, Types, Setdefault
<1>4. CASE worker.mode = "plan"
  <2>1. cancel' = Setdefault /\ worker' = To("planning") /\ UNCHANGED <<status, ckpt>>
    BY <1>4 DEF Begin
  <2>2. Moves("planning")
    BY <2>1, ToMoves DEF IInv, Types, Pcs, AwaitPoints
  <2> QED BY <1>1, <1>2, <1>3, <1>4, <2>1, <2>2, PlansAgainKeeps DEF ghosts
<1>5. CASE worker.mode = "drive"
  <2>1. StartDrive(transcript) /\ UNCHANGED ckpt
    BY <1>5 DEF Begin
  <2>2. Known(transcript, parked.calls) /\ ~planning
    BY <1>1, <1>5 DEF IInv, Plans, Results
  <2>3. /\ Drives(transcript) /\ status' = "running"
        /\ cancel' \in {"none", "clear", "set"}
    BY <1>1, <2>1, StartDrives DEF IInv
  <2> QED BY <1>1, <1>2, <1>5, <2>1, <2>2, <2>3, LaunchedDriveKeeps DEF ghosts
<1>6. CASE worker.mode = "approved"
  <2>1. cancel' = Setdefault /\ worker' = To("calls") /\ UNCHANGED <<status, ckpt>>
    BY <1>6 DEF Begin
  <2>2. Moves("calls")
    BY <2>1, ToMoves DEF IInv, Types, Pcs
  <2> QED BY <1>1, <1>2, <1>3, <1>6, <2>1, <2>2, RunsAgainKeeps DEF ghosts
<1>7. CASE worker.mode = "resume"
  <2>1. /\ cancel' = Setdefault /\ worker' = To("calls") /\ status' = "running"
        /\ ckpt' = IF ckpt.state = "completed_uncommitted"
                   THEN [ckpt EXCEPT !.state = "committed"] ELSE ckpt
    BY <1>7 DEF Begin
  <2>2. Moves("calls")
    BY <2>1, ToMoves DEF IInv, Types, Pcs
  <2> QED BY <1>1, <1>2, <1>3, <1>7, <2>1, <2>2, RunsAgainKeeps DEF ghosts
<1> QED
  BY <1>1, <1>4, <1>5, <1>6, <1>7

\* A group of reads starts, or the cancelled worker goes to release.
LEMMA RunReadsKeeps == ASSUME IInv, RunReads PROVE IInv'
<1>1. /\ worker.pc = "calls" /\ worker.calls # <<>>
      /\ kind[Head(worker.calls)] = "read"
      /\ UNCHANGED <<status, durable, host, cancel, private, api, takeover, ghosts>>
  BY DEF RunReads, At, HeadKind, HeadCall
<1>2. CASE Unwind
  BY <1>1, <1>2, UnwindMoves, UnwindKeeps DEF IInv, durable, ghosts
<1>3. CASE worker' = To("tool")
  <2>1. Moves("tool")
    BY <1>3, ToMoves DEF IInv, Types, Pcs, AwaitPoints
  <2> QED BY <1>1, <2>1, ReadsStartKeeps DEF durable, ghosts
<1> QED
  BY <1>2, <1>3 DEF RunReads, Invoke

\* The checkpoint of a finished effect is committed.
LEMMA CommitResultKeeps == ASSUME IInv, CommitResult PROVE IInv'
<1>1. worker.pc = "saved" /\ ckpt' = [ckpt EXCEPT !.state = "committed"]
  BY DEF CommitResult, At
<1>2. CASE worker' = Advance(1, worker.hist \cup {HeadCall})
  BY <1>1, <1>2, ResultKeeps DEF CommitResult, ghosts
<1>3. CASE CancelSet /\ Unwind
  BY <1>1, <1>3, UnwindMoves, ResultUnwindKeeps DEF IInv, CommitResult, ghosts
<1> QED
  BY <1>2, <1>3 DEF CommitResult

\* A finished batch gives way to a drive.
LEMMA BatchDoneKeeps == ASSUME IInv, BatchDone PROVE IInv'
<1>1. worker.pc = "calls" /\ worker.calls = <<>>
  BY DEF BatchDone, At
<1>2. CASE worker.drive
  BY <1>1, <1>2, DriveSavesKeeps
<1>3. CASE ~worker.drive
  <2>1. /\ worker.hist \in SUBSET Calls /\ ~worker.done /\ ~planning
        /\ Known(worker.hist, worker.calls)
    BY <1>1 DEF IInv, Types, Workers, Holding, Plans, Results, BatchPcs
  <2>2. Known(worker.hist, parked.calls)
    BY <1>1, <2>1, NothingParked DEF IInv, Known
  <2>3. Drives(worker.hist) /\ status' = "running"
        /\ cancel' \in {"none", "clear", "set"}
    BY <1>3, <2>1, StartDrives DEF IInv, BatchDone
  <2> QED BY <1>1, <1>3, <2>1, <2>2, <2>3, DriveKeeps DEF BatchDone, ghosts
<1> QED
  BY <1>2, <1>3

\* A recovery runs what the checkpoint leaves to be run, or is refused.
LEMMA RecoverKeeps ==
  ASSUME IInv, NEW confirm \in BOOLEAN, Recover(confirm) PROVE IInv'
<1>1. /\ worker.pc = "none" /\ host = "up" /\ api.op = "idle"
      /\ status \in {"recovering", "recovery_confirmation_required"}
      /\ UNCHANGED <<durable, host, cancel, private, api, takeover, kind, issued,
                     effects, grants, everParked, pauses, asks, crashes>>
  BY DEF Recover, LoopFree
<1>2. CASE NeedsFreshInstruction
  BY <1>1, <1>2, RecoveryRefusedKeeps DEF Recover, durable
<1>3. CASE ~NeedsFreshInstruction
  <2>1. ckpt.state \in {"prepared", "running", "completed_uncommitted", "committed"}
    BY <1>1 DEF IInv, Types, Checkpoints, Waits
  <2>2. status' = "recovering"
    BY <1>3 DEF Recover
  <2>3. CASE ckpt.state \in {"completed_uncommitted", "committed"}
    <3>1. recovery_decision \in {"resume_reuse", "resume_committed"}
      BY <2>3 DEF recovery_decision
    <3>2. /\ confirms' = confirms
          /\ worker' = Launched("resume", ckpt.rest, FALSE,
                                ckpt.hist \cup {ckpt.call})
      BY <1>3, <3>1 DEF Recover
    <3> QED BY <1>1, <2>2, <2>3, <3>2, RelaunchRestKeeps DEF durable
  <2>4. CASE ckpt.state \in {"prepared", "running"}
    <3>1. /\ kind[ckpt.call] # "managed"
          /\ recovery_decision \notin {"resume_reuse", "resume_committed"}
          /\ recovery_decision = "confirm_required" <=> ckpt.state = "running"
      BY <1>3, <2>4 DEF NeedsFreshInstruction, recovery_decision
    <3>2. /\ confirms' = IF ckpt.state = "running"
                         THEN [confirms EXCEPT ![ckpt.call] = @ + 1] ELSE confirms
          /\ worker' = Launched("resume", <<ckpt.call>> \o ckpt.rest, TRUE, ckpt.hist)
      BY <1>3, <3>1 DEF Recover
    <3> QED BY <1>1, <2>2, <2>4, <3>1, <3>2, RelaunchCallKeeps DEF durable
  <2> QED BY <2>1, <2>3, <2>4
<1> QED
  BY <1>2, <1>3

-----------------------------------------------------------------------------
(* The theorems. *)

\* Nothing changes.
LEMMA StutterKeeps == ASSUME IInv, UNCHANGED vars PROVE IInv'
<1>1. Types' /\ Control' /\ Holding' /\ Asked'
  BY DEF IInv, Types, Control, Holding, Asked, vars
<1>2. Waits' /\ Plans' /\ Results' /\ Issued'
  BY DEF IInv, Waits, Resolvable, Plans, NothingYet, Results, Known, Issued, vars
<1>3. Checkpointed' /\ Budgeted' /\ Reviewed' /\ Allowed'
  BY DEF IInv, Checkpointed, NothingYet, Budgeted, Left, Ahead, Reviewed, Allowed,
         Excused, vars
<1> QED
  BY <1>1, <1>2, <1>3 DEF IInv

\* A new task satisfies the invariant.
LEMMA InitHolds == Init => IInv
<1> SUFFICES ASSUME Init PROVE IInv
  OBVIOUS
<1>1. /\ issued = 0 /\ issued \in Nat /\ issued \in 0..MaxCalls
      /\ <<>> \in Batches(issued) /\ <<>> \in Seq(Calls) /\ Range(<<>>) = {}
  BY AgentTaskAssumption, EmptyBatch, EmptySeq, SMT DEF Init
<1>2. /\ worker \in Workers /\ worker.pc = "planning" /\ worker.mode = "plan"
      /\ worker.calls = <<>> /\ ~worker.done /\ ~worker.first
  BY <1>1 DEF Init, NoWorker, Workers, Pcs, AwaitPoints, Modes
<1>3. Types
  BY <1>1, <1>2, AgentTaskAssumption
     DEF Init, Types, Unparked, NoCkpt, Idle, Checkpoints, ACTIVE_STATUSES
<1>4. Control /\ Holding /\ Asked /\ Waits
  BY <1>2 DEF Init, Control, Holding, Asked, Waits, Idle, Unparked
<1>5. Plans /\ Results /\ Issued
  BY <1>1, <1>2 DEF Init, Plans, NothingYet, Results, Known, BatchPcs, Issued, Idle,
                    Unparked, NoCkpt
<1>6. Checkpointed /\ Budgeted
  BY <1>1, <1>2 DEF Init, Checkpointed, NothingYet, Budgeted, Left, Ahead, Idle,
                    NoCkpt
<1>7. Reviewed /\ Allowed
  BY <1>1, <1>2 DEF Init, Reviewed, Allowed, Excused, Idle, NoCkpt
<1> QED
  BY <1>3, <1>4, <1>5, <1>6, <1>7 DEF IInv

\* Every step preserves the invariant.
LEMMA NextKeeps == ASSUME IInv, Next PROVE IInv'
<1>1. CASE WorkerStep
  BY <1>1, PlanReadyKeeps, PlanAsksKeeps, PlanFailsKeeps, BeginKeeps, TopKeeps,
     TurnCallsKeeps, TurnCompletesKeeps, TurnFailsKeeps, ParkBatchKeeps,
     PauseParkKeeps, PauseBudgetAsksKeeps, RunReadsKeeps, AskKeeps, AskedForKeeps,
     PrepareKeeps, StartReviewKeeps, ReviewPermitsKeeps, ReviewAsksKeeps,
     ReviewRefusesKeeps, ReviewFailsKeeps, StartEffectKeeps, ToolActsKeeps,
     ReadsReturnKeeps, ToolReturnsKeeps, CommitResultKeeps, ToolFailsKeeps,
     BatchDoneKeeps, MarkCancelledKeeps DEF WorkerStep
<1>2. CASE HostStep
  BY <1>2, RestartKeeps, SettleMissingKeeps, RecoverInterruptedKeeps, GrantedKeeps,
     DeniedKeeps, TakeoverMarksKeeps, RecoverKeeps DEF HostStep
<1>3. CASE UserStep
  BY <1>3, ApproveKeeps, DenyKeeps, CancelKeeps, TakeoverKeeps, RecoverKeeps
     DEF UserStep
<1>4. CASE Crash
  BY <1>4, CrashKeeps
<1> QED
  BY <1>1, <1>2, <1>3, <1>4 DEF Next

\* The invariant holds whatever the user, the provider, the tools and the
\* crashes of the host do (agent/manager.py as a whole).
THEOREM AgentInvariant == Spec => []IInv
<1>1. Init => IInv
  BY InitHolds
<1>2. IInv /\ [Next]_vars => IInv'
  BY NextKeeps, StutterKeeps
<1> QED
  BY <1>1, <1>2, PTL DEF Spec

\* The invariant implies that nothing is forgotten.
LEMMA InvNothingIsForgotten == IInv => NothingIsForgotten
<1> SUFFICES ASSUME IInv PROVE NothingIsForgotten
  OBVIOUS
<1>1. TypeOK
  BY DEF IInv, Types, Control, TypeOK, Workers, Pcs, Checkpoints
<1>2. NoResultIsLost
  <2> SUFFICES ASSUME worker.pc = "turn", NEW c \in Calls, effects[c] > 0
               PROVE  c \in worker.hist
    BY DEF NoResultIsLost
  <2>1. issued \in Nat
    BY AgentTaskAssumption, SMT DEF IInv, Types
  <2> QED BY <2>1, EmptyBatch DEF IInv, Results, Known
<1>3. WaitCanBeAnswered
  BY DEF IInv, Waits, WaitCanBeAnswered, LoopFree
<1> QED
  BY <1>1, <1>2, <1>3 DEF NothingIsForgotten

\* The provider is never asked to go on without the result of an effect that
\* took place, and a task that waits for approval has a request that can still
\* be answered (_pause_budget, _run_calls, _recover_interrupted_tasks).
THEOREM NothingForgotten == Spec => []NothingIsForgotten
BY AgentInvariant, InvNothingIsForgotten, PTL

\* The invariant implies that no effect is repeated unasked.
LEMMA InvNoUnconfirmedReplay == IInv => NoUnconfirmedReplay
BY DEF IInv, Budgeted, Reviewed, NoUnconfirmedReplay

\* No crash, recovery or approval repeats an effect, unless the user confirmed
\* an ambiguous recovery of that call; a reviewed action takes effect once at
\* most (recovery_decision, recover_task, ActionBroker.start_execution).
THEOREM NoReplay == Spec => []NoUnconfirmedReplay
BY AgentInvariant, InvNoUnconfirmedReplay, PTL

\* The invariant implies that every effect was granted.
LEMMA InvEveryEffectWasGranted == IInv => EveryEffectWasGranted
BY DEF IInv, Allowed, EveryEffectWasGranted

\* A call that needs the user takes effect no more often than it was granted or
\* its recovery confirmed (_run_calls: only the head of an approved batch runs).
THEOREM EffectsAreGranted == Spec => []EveryEffectWasGranted
BY AgentInvariant, InvEveryEffectWasGranted, PTL

\* A recorded cancellation outlives a crash: the next host carries it out and
\* starts no worker for the task (_recover_interrupted_tasks).
THEOREM CancellationSurvives == Spec => CancelSurvivesRestart
<1>1. IInv /\ [Next]_vars =>
        (host # "up" /\ status = "cancelling"
          => status' \in {"cancelling", "cancelled"} /\ worker'.pc = "none")
  <2> SUFFICES ASSUME IInv, [Next]_vars, host # "up", status = "cancelling"
               PROVE  status' \in {"cancelling", "cancelled"} /\ worker'.pc = "none"
    OBVIOUS
  <2>1. worker = NoWorker /\ worker.pc = "none" /\ api.op = "idle" /\ ~takeover
    BY DEF IInv, Control, NoWorker, Idle
  <2>2. ~WorkerStep
    BY DEF WorkerStep, PlanReady, PlanAsks, PlanFails, Begin, Top, TurnCalls,
           TurnCompletes, TurnFails, ParkBatch, PausePark, PauseBudgetAsks, RunReads,
           Ask, AskedFor, Prepare, StartReview, ReviewPermits, ReviewAsks,
           ReviewRefuses, ReviewFails, StartEffect, ToolActs, ReadsReturn,
           ToolReturns, CommitResult, ToolFails, BatchDone, MarkCancelled, At
  <2>3. ~UserStep /\ ~Granted /\ ~Denied /\ ~TakeoverMarks /\ ~Recover(FALSE)
    BY DEF UserStep, Approve, Deny, Cancel, Takeover, Recover, Granted, Denied,
           TakeoverMarks, LoopFree
  <2>4. CASE Crash
    BY <2>4 DEF Crash, NoWorker
  <2>5. CASE Restart \/ SettleMissing
    BY <2>1, <2>5 DEF Restart, SettleMissing, volatile
  <2>6. CASE RecoverInterrupted
    BY <2>1, <2>6 DEF RecoverInterrupted, RecoveredStatus, ACTIVE_STATUSES, volatile
  <2>7. CASE UNCHANGED vars
    BY <2>1, <2>7 DEF vars
  <2> QED BY <2>2, <2>3, <2>4, <2>5, <2>6, <2>7 DEF Next, HostStep
<1> QED
  BY <1>1, AgentInvariant, PTL DEF Spec, CancelSurvivesRestart

=============================================================================
