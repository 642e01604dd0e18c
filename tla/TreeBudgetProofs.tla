-------------------------- MODULE TreeBudgetProofs --------------------------
(***************************************************************************)
(* TreeBudget for every task tree, every set of positions and every choice *)
(* of limits: its step and time accounting, its receipts and its grants.   *)
(***************************************************************************)
EXTENDS TreeBudget, FiniteSetTheorems, TLAPS

\* A row exists for the root of every bound task and of every reservation.
RowsCover ==
    /\ \A t \in member : RootOf[t] \in rows
    /\ \A s \in reserved : RootOf[s[1]] \in rows
    /\ uncertain \subseteq rows

\* StepsAccounted and StepsWithinCeiling are inductive together with the
\* types and with the existence of the rows they speak about.
StepsInv == TypeOK /\ RowsCover /\ StepsAccounted /\ StepsWithinCeiling

-----------------------------------------------------------------------------
\* The members that bind adds all belong to the tree of the task it binds.
LEMMA ChainInTree ==
    ASSUME NEW t \in Tasks, NEW u \in Chain(t)
    PROVE  RootOf[u] = RootOf[t]
<1> DEFINE S == {v \in Tasks : RootOf[v] = RootOf[t]}
<1>1. t \in S /\ S \in SUBSET Tasks
  OBVIOUS
<1>2. \A v \in S : Parent[v] # NoTask => Parent[v] \in S
  BY TreeAssumption
<1>3. u \in S
  BY <1>1, <1>2 DEF Chain
<1> QED
  BY <1>3

\* Settling adds a natural number of seconds.
LEMMA UnsettledNat ==
    ASSUME TypeOK, NEW r \in Tasks
    PROVE  Unsettled(r) \in Nat /\ Spent(r) \in Nat /\ Spent(r) >= budget[r].seconds
<1> DEFINE W == {w \in Leased(r) \X (1..now) : w[2] > lease[w[1]]}
<1>1. IsFiniteSet(Leased(r))
  BY TreeAssumption, FS_Subset DEF Leased, TreeOf
<1>2. IsFiniteSet(1..now)
  BY FS_Interval DEF TypeOK
<1>3. IsFiniteSet(Leased(r) \X (1..now))
  BY <1>1, <1>2, FS_Product
<1>4. IsFiniteSet(W)
  <2>1. W \in SUBSET (Leased(r) \X (1..now))
    OBVIOUS
  <2> QED
    BY <1>3, <2>1, FS_Subset
<1>5. Cardinality(W) \in Nat
  BY <1>4, FS_CardinalityType
<1>6. Unsettled(r) \in Nat
  BY <1>5 DEF Unsettled
<1>7. budget[r].seconds \in Nat
  BY DEF TypeOK
<1> QED
  BY <1>6, <1>7 DEF Spent

\* Settling touches leases with times of the clock and creates none.
LEMMA TouchedType ==
    ASSUME TypeOK, NEW r \in Tasks
    PROVE  Touched(r) \in [Tasks -> Nat \cup {NoLease}]
BY DEF TypeOK, Touched

\* The reservations of a tree are finitely many.
LEMMA ReservedFinite ==
    ASSUME TypeOK, NEW r
    PROVE  IsFiniteSet(Reserved(r)) /\ Cardinality(Reserved(r)) \in Nat
<1>1. IsFiniteSet(Tasks \X Positions)
  BY TreeAssumption, BoundsAssumption, FS_Product
<1>2. Reserved(r) \in SUBSET (Tasks \X Positions)
  BY DEF TypeOK, Reserved
<1> QED
  BY <1>1, <1>2, FS_Subset, FS_CardinalityType

\* Admitting a batch adds exactly its new positions to the tree.
LEMMA ReserveCounts ==
    ASSUME TypeOK, NEW t \in Tasks, NEW P \in SUBSET Positions,
           reserved' = reserved \cup {<<t, p>> : p \in P}
    PROVE  /\ Cardinality(NewPositions(t, P)) \in Nat
           /\ Cardinality(Reserved(RootOf[t])') =
                Cardinality(Reserved(RootOf[t])) + Cardinality(NewPositions(t, P))
           /\ \A r : r # RootOf[t] => Reserved(r)' = Reserved(r)
<1> DEFINE N == NewPositions(t, P)
           A == {<<t, p>> : p \in N}
           R == Reserved(RootOf[t])
<1>1. IsFiniteSet(N) /\ Cardinality(N) \in Nat
  BY BoundsAssumption, FS_Subset, FS_CardinalityType DEF NewPositions
<1>2. IsFiniteSet(A) /\ Cardinality(A) = Cardinality(N)
  <2> DEFINE f == [p \in N |-> <<t, p>>]
  <2>1. f \in Bijection(N, A)
    BY DEF Bijection, Injection, Surjection, IsInjective
  <2> QED
    BY <1>1, <2>1, FS_Bijection DEF ExistsBijection
<1>3. R' = R \cup A
  <2>1. \A p : (<<t, p>>)[1] = t
    OBVIOUS
  <2>2. R' = {s \in reserved \cup {<<t, p>> : p \in P} : RootOf[s[1]] = RootOf[t]}
    BY DEF Reserved
  <2>3. {<<t, p>> : p \in P} \subseteq reserved \cup A
    BY DEF NewPositions
  <2>4. A \subseteq {<<t, p>> : p \in P}
    BY DEF NewPositions
  <2>5. \A s \in A : RootOf[s[1]] = RootOf[t]
    BY <2>1
  <2>6. R = {s \in reserved : RootOf[s[1]] = RootOf[t]}
    BY DEF Reserved
  <2> HIDE DEF A, R
  <2> QED
    BY <2>2, <2>3, <2>4, <2>5, <2>6
<1>4. R \cap A = {}
  BY DEF Reserved, NewPositions
<1>5. IsFiniteSet(R) /\ Cardinality(R) \in Nat
  BY ReservedFinite
<1>6. Cardinality(R \cup A) = Cardinality(R) + Cardinality(A) - Cardinality(R \cap A)
  BY <1>2, <1>5, FS_Union
<1>7. Cardinality(R') = Cardinality(R) + Cardinality(N)
  <2>1. Cardinality(R \cap A) = 0
    BY <1>4, FS_EmptySet
  <2>2. Cardinality(R') = Cardinality(R \cup A)
    BY <1>3
  <2> HIDE DEF A, R, N
  <2> QED
    BY <1>1, <1>2, <1>5, <1>6, <2>1, <2>2
<1>8. \A r : r # RootOf[t] => Reserved(r)' = Reserved(r)
  BY DEF Reserved
<1> QED
  BY <1>1, <1>7, <1>8

\* The first state of the host: no row, no reservation, no lease.
LEMMA InitStepsInv == Init => StepsInv
<1> SUFFICES ASSUME Init PROVE StepsInv
  OBVIOUS
<1>1. TypeOK
  BY TreeAssumption, BoundsAssumption DEF Init, TypeOK, Limits, NoLease, NoRequest
<1>2. RowsCover /\ StepsAccounted /\ StepsWithinCeiling
  BY DEF Init, RowsCover, StepsAccounted, StepsWithinCeiling
<1> QED
  BY <1>1, <1>2 DEF StepsInv

\* A step that leaves the reservations, the ceilings and the counters of all
\* rows alone keeps the accounting.
LEMMA FrameKeepsAccounts ==
    ASSUME StepsInv, TypeOK',
           rows' = rows, member' = member, reserved' = reserved,
           uncertain' \subseteq rows,
           \A r \in Tasks : /\ budget'[r].steps = budget[r].steps
                            /\ budget'[r].max_steps = budget[r].max_steps
    PROVE  StepsInv'
<1>1. \A r : Reserved(r)' = Reserved(r)
  BY DEF Reserved
<1>2. RowsCover'
  BY DEF StepsInv, RowsCover
<1>3. rows \subseteq Tasks
  BY DEF StepsInv, TypeOK
<1>4. StepsAccounted'
  BY <1>1, <1>3 DEF StepsInv, StepsAccounted
<1>5. StepsWithinCeiling'
  BY <1>3 DEF StepsInv, StepsWithinCeiling
<1> QED
  BY <1>2, <1>4, <1>5 DEF StepsInv

\* Settling keeps the types of rows and leases and touches no counter.
LEMMA SettleKeeps ==
    ASSUME TypeOK, NEW r \in Tasks,
           budget' = [budget EXCEPT ![r].seconds = Spent(r)]
    PROVE  /\ budget' \in [Tasks -> [max_steps : Nat, max_seconds : Nat, steps : Nat,
                                     seconds : Nat, version : Nat]]
           /\ \A q \in Tasks : /\ budget'[q].steps = budget[q].steps
                               /\ budget'[q].max_steps = budget[q].max_steps
<1>1. Spent(r) \in Nat
  BY UnsettledNat
<1> QED
  BY <1>1, SMTT(30) DEF TypeOK

LEMMA BindStep ==
    ASSUME StepsInv, NEW t \in Tasks, bind(t)
    PROVE  StepsInv'
<1> DEFINE r == RootOf[t]
<1>1. r \in Tasks
  BY TreeAssumption
<1>2. Chain(t) \subseteq Tasks
  BY DEF Chain
<1>3. limits[r].max_steps \in Nat /\ limits[r].max_seconds \in Nat
  BY <1>1 DEF StepsInv, TypeOK
<1>4. TypeOK'
  <2>1. budget' \in [Tasks -> [max_steps : Nat, max_seconds : Nat, steps : Nat,
                               seconds : Nat, version : Nat]]
    BY <1>1, <1>3 DEF StepsInv, TypeOK, bind
  <2> QED
    BY <1>1, <1>2, <2>1 DEF StepsInv, TypeOK, bind, decision, history
<1>5. RowsCover'
  <2>1. \A u \in Chain(t) : RootOf[u] = r
    BY ChainInTree
  <2> QED
    BY <2>1 DEF StepsInv, RowsCover, bind, history
<1>6. \A q : Reserved(q)' = Reserved(q)
  BY DEF bind, Reserved
<1>7. \A q \in rows : budget'[q] = budget[q]
  BY <1>1 DEF StepsInv, TypeOK, bind
<1>8. r \notin rows => /\ budget'[r].steps = 0
                      /\ budget'[r].max_steps = limits[r].max_steps
                      /\ Reserved(r) = {}
  BY <1>1 DEF StepsInv, TypeOK, bind, RowsCover, Reserved
<1>9. rows' = rows \cup {r}
  BY DEF bind
<1>10. StepsAccounted'
  BY <1>6, <1>7, <1>8, <1>9, FS_EmptySet DEF StepsInv, StepsAccounted
<1>11. StepsWithinCeiling'
  BY <1>3, <1>7, <1>8, <1>9 DEF StepsInv, StepsWithinCeiling
<1> QED
  BY <1>4, <1>5, <1>10, <1>11 DEF StepsInv

LEMMA ReserveStep ==
    ASSUME StepsInv, NEW t \in Tasks, NEW P \in SUBSET Positions, reserve(t, P)
    PROVE  StepsInv'
<1> DEFINE r == RootOf[t]
           n == Cardinality(NewPositions(t, P))
<1>1. r \in Tasks /\ r \in rows
  BY TreeAssumption DEF StepsInv, RowsCover, reserve, Working, Live
<1>2. /\ n \in Nat
      /\ Cardinality(Reserved(r)') = Cardinality(Reserved(r)) + n
      /\ \A q : q # r => Reserved(q)' = Reserved(q)
  BY ReserveCounts DEF StepsInv, reserve
<1>3. Spent(r) \in Nat
  BY <1>1, UnsettledNat DEF StepsInv
<1>4. budget' = [budget EXCEPT ![r] =
      [max_steps |-> budget[r].max_steps, max_seconds |-> budget[r].max_seconds,
       steps |-> budget[r].steps + n, seconds |-> Spent(r), version |-> budget[r].version]]
  BY DEF reserve
<1>5. /\ budget' \in [Tasks -> [max_steps : Nat, max_seconds : Nat, steps : Nat,
                                seconds : Nat, version : Nat]]
      /\ budget'[r].steps = budget[r].steps + n
      /\ budget'[r].max_steps = budget[r].max_steps
      /\ \A q \in Tasks : q # r => budget'[q] = budget[q]
  <2>1. budget[r] \in [max_steps : Nat, max_seconds : Nat, steps : Nat,
                       seconds : Nat, version : Nat]
    BY <1>1 DEF StepsInv, TypeOK
  <2> DEFINE row == [max_steps |-> budget[r].max_steps, max_seconds |-> budget[r].max_seconds,
       steps |-> budget[r].steps + n, seconds |-> Spent(r), version |-> budget[r].version]
  <2>2. /\ row \in [max_steps : Nat, max_seconds : Nat, steps : Nat,
                    seconds : Nat, version : Nat]
        /\ row.steps = budget[r].steps + n
        /\ row.max_steps = budget[r].max_steps
    <3> HIDE DEF n, r
    <3> QED
      BY <1>2, <1>3, <2>1
  <2>3. budget' = [budget EXCEPT ![r] = row]
    BY <1>4
  <2> HIDE DEF row, n, r
  <2> QED
    BY <1>1, <2>2, <2>3 DEF StepsInv, TypeOK
<1>6. budget[r].steps + n <= budget[r].max_steps
  <2>1. ~(budget[r].steps + n > budget[r].max_steps)
    BY DEF reserve, Refused
  <2>2. budget[r].steps \in Nat /\ budget[r].max_steps \in Nat
    BY <1>1 DEF StepsInv, TypeOK
  <2> HIDE DEF n, r
  <2> QED
    BY <1>2, <2>1, <2>2
<1>7. TypeOK'
  <2>1. Touched(r) \in [Tasks -> Nat \cup {NoLease}]
    BY <1>1, TouchedType DEF StepsInv
  <2>2. reserved' \subseteq Tasks \X Positions
    BY DEF StepsInv, TypeOK, reserve
  <2> QED
    BY <1>5, <2>1, <2>2 DEF StepsInv, TypeOK, reserve, decision, history
<1>8. RowsCover'
  <2>1. \A s \in reserved' : s \in reserved \/ s[1] = t
    BY DEF reserve
  <2> QED
    BY <1>1, <2>1 DEF StepsInv, RowsCover, reserve, history
<1>9. rows' = rows /\ rows \subseteq Tasks
  BY DEF StepsInv, TypeOK, reserve
<1>10. StepsAccounted'
  <2> SUFFICES ASSUME NEW q \in rows PROVE budget'[q].steps = Cardinality(Reserved(q)')
    BY <1>9 DEF StepsAccounted
  <2>1. CASE q = r
    BY <1>1, <1>2, <1>5, <2>1 DEF StepsInv, StepsAccounted
  <2>2. CASE q # r
    BY <1>2, <1>5, <1>9, <2>2 DEF StepsInv, StepsAccounted
  <2> QED
    BY <2>1, <2>2
<1>11. StepsWithinCeiling'
  <2> SUFFICES ASSUME NEW q \in rows PROVE budget'[q].steps <= budget'[q].max_steps
    BY <1>9 DEF StepsWithinCeiling
  <2>1. CASE q = r
    BY <1>5, <1>6, <2>1
  <2>2. CASE q # r
    BY <1>5, <1>9, <2>2 DEF StepsInv, StepsWithinCeiling
  <2> QED
    BY <2>1, <2>2
<1> QED
  BY <1>7, <1>8, <1>10, <1>11 DEF StepsInv

LEMMA ApproveRenewStep ==
    ASSUME StepsInv, NEW t \in Tasks, NEW l \in Limits, ApproveRenew(t, l)
    PROVE  StepsInv'
<1> DEFINE r == RootOf[t]
           row == [max_steps |-> l.max_steps, max_seconds |-> l.max_seconds,
                   steps |-> budget[r].steps, seconds |-> 0,
                   version |-> budget[r].version + 1]
<1>1. r \in Tasks
  BY TreeAssumption
<1>2. /\ l.max_steps \in Nat /\ l.max_seconds \in Nat
      /\ l \in [max_steps : Nat, max_seconds : Nat]
  BY BoundsAssumption DEF Limits
<1>3. budget' = [budget EXCEPT ![r] = row]
  BY DEF ApproveRenew
<1>4. row \in [max_steps : Nat, max_seconds : Nat, steps : Nat, seconds : Nat,
              version : Nat]
  BY <1>1, <1>2 DEF StepsInv, TypeOK
<1>5. /\ budget' \in [Tasks -> [max_steps : Nat, max_seconds : Nat, steps : Nat,
                                seconds : Nat, version : Nat]]
      /\ budget'[r] = row
      /\ \A q \in Tasks : q # r => budget'[q] = budget[q]
  <2> HIDE DEF row, r
  <2> QED
    BY <1>1, <1>3, <1>4 DEF StepsInv, TypeOK
<1>6. TypeOK'
  <2>1. lease' \in [Tasks -> Nat \cup {NoLease}]
    BY DEF StepsInv, TypeOK, ApproveRenew
  <2>2. /\ limits' \in [Tasks -> [max_steps : Nat, max_seconds : Nat]]
        /\ request' \in [Tasks -> [version : Nat, reuse : BOOLEAN]]
        /\ worked' \in [Tasks -> Nat]
    BY <1>2 DEF StepsInv, TypeOK, ApproveRenew, NoRequest
  <2> QED
    BY <1>5, <2>1, <2>2 DEF StepsInv, TypeOK, ApproveRenew
<1>7. \A q : Reserved(q)' = Reserved(q)
  BY DEF ApproveRenew, Reserved
<1>8. rows' = rows /\ rows \subseteq Tasks
  BY DEF ApproveRenew, StepsInv, TypeOK
<1>9. RowsCover'
  BY DEF ApproveRenew, StepsInv, RowsCover
<1>10. \A q \in Tasks : budget'[q].steps = budget[q].steps
  BY <1>5
<1>11. StepsAccounted'
  BY <1>7, <1>8, <1>10 DEF StepsInv, StepsAccounted
<1>12. budget[r].steps <= l.max_steps
  BY <1>1, <1>2 DEF ApproveRenew, StepsInv, TypeOK
<1>13. StepsWithinCeiling'
  BY <1>5, <1>8, <1>12 DEF StepsInv, StepsWithinCeiling
<1> QED
  BY <1>6, <1>9, <1>11, <1>13 DEF StepsInv

\* snapshot, start, stop, parking and reuse settle and change no counter.
LEMMA SettlingStep ==
    ASSUME StepsInv, NEW t \in Tasks,
           snapshot(t) \/ start(t) \/ stop(t) \/ PauseBudget(t) \/ ApproveReuse(t)
    PROVE  StepsInv'
<1> DEFINE r == RootOf[t]
<1>1. r \in Tasks
  BY TreeAssumption
<1>2. budget' = [budget EXCEPT ![r].seconds = Spent(r)]
  BY DEF snapshot, start, stop, PauseBudget, ApproveReuse, Settle
<1>3. /\ budget' \in [Tasks -> [max_steps : Nat, max_seconds : Nat, steps : Nat,
                                seconds : Nat, version : Nat]]
      /\ \A q \in Tasks : /\ budget'[q].steps = budget[q].steps
                          /\ budget'[q].max_steps = budget[q].max_steps
  <2> HIDE DEF r
  <2> QED
    BY <1>1, <1>2, SettleKeeps DEF StepsInv
<1>4. Touched(r) \in [Tasks -> Nat \cup {NoLease}]
  BY <1>1, TouchedType DEF StepsInv
<1>5. lease' \in [Tasks -> Nat \cup {NoLease}]
  <2>1. CASE snapshot(t) \/ PauseBudget(t) \/ ApproveReuse(t)
    BY <1>4, <2>1 DEF snapshot, PauseBudget, ApproveReuse, Settle
  <2>2. CASE start(t)
    <3>1. now \in Nat
      BY DEF StepsInv, TypeOK
    <3>2. lease' = [Touched(r) EXCEPT ![t] = IF @ = NoLease THEN now ELSE @]
      BY <2>2 DEF start
    <3> QED
      BY <1>4, <3>1, <3>2
  <2>3. CASE stop(t)
    <3>1. lease' = [Touched(r) EXCEPT ![t] = NoLease]
      BY <2>3 DEF stop
    <3> QED
      BY <1>4, <3>1
  <2> QED
    BY <2>1, <2>2, <2>3
<1>6. rows' = rows /\ member' = member /\ reserved' = reserved /\ uncertain' = uncertain
  BY DEF snapshot, start, stop, PauseBudget, ApproveReuse, decision, history
<1>7. /\ limits' \in [Tasks -> [max_steps : Nat, max_seconds : Nat]]
      /\ request' \in [Tasks -> [version : Nat, reuse : BOOLEAN]]
  <2>1. CASE snapshot(t) \/ start(t) \/ stop(t)
    BY <2>1 DEF StepsInv, TypeOK, snapshot, start, stop, decision
  <2>2. CASE PauseBudget(t)
    BY <1>1, <2>2 DEF StepsInv, TypeOK, PauseBudget
  <2>3. CASE ApproveReuse(t)
    BY <1>1, <2>3 DEF StepsInv, TypeOK, ApproveReuse, NoRequest
  <2> QED
    BY <2>1, <2>2, <2>3
<1>8. /\ resume' \subseteq Tasks /\ ended' = ended
      /\ launching' \in Tasks \cup {NoTask}
      /\ up' = up /\ now' = now /\ worked' = worked /\ monotone' = monotone
  BY DEF StepsInv, TypeOK, snapshot, start, stop, PauseBudget, ApproveReuse,
         decision, history
<1>9. TypeOK'
  BY <1>3, <1>5, <1>6, <1>7, <1>8 DEF StepsInv, TypeOK
<1>10. uncertain' \subseteq rows
  BY <1>6 DEF StepsInv, RowsCover
<1> QED
  BY <1>3, <1>6, <1>9, <1>10, FrameKeepsAccounts

\* Startup raises the charged time of trees that lost a lease.
LEMMA RestartStep ==
    ASSUME StepsInv, Restart
    PROVE  StepsInv'
<1> DEFINE used(b) == IF b.seconds > b.max_seconds THEN b.seconds ELSE b.max_seconds
           lost == {r \in rows : Leased(r) # {}}
           row(r) == IF r \in lost THEN [budget[r] EXCEPT !.seconds = used(budget[r])]
                                   ELSE budget[r]
<1>1. budget' = [r \in Tasks |-> row(r)]
  BY DEF Restart
<1>2. ASSUME NEW r \in Tasks
      PROVE  /\ row(r) \in [max_steps : Nat, max_seconds : Nat, steps : Nat,
                            seconds : Nat, version : Nat]
             /\ row(r).steps = budget[r].steps
             /\ row(r).max_steps = budget[r].max_steps
  <2> DEFINE u == used(budget[r])
  <2>1. /\ budget[r] \in [max_steps : Nat, max_seconds : Nat, steps : Nat,
                          seconds : Nat, version : Nat]
        /\ u \in Nat
    BY DEF StepsInv, TypeOK
  <2>2. row(r) = IF r \in lost THEN [budget[r] EXCEPT !.seconds = u] ELSE budget[r]
    OBVIOUS
  <2> HIDE DEF u, row, lost
  <2> QED
    BY <2>1, <2>2
<1>3. /\ budget' \in [Tasks -> [max_steps : Nat, max_seconds : Nat, steps : Nat,
                                seconds : Nat, version : Nat]]
      /\ \A r \in Tasks : /\ budget'[r].steps = budget[r].steps
                          /\ budget'[r].max_steps = budget[r].max_steps
  <2> HIDE DEF row
  <2> QED
    BY <1>1, <1>2
<1>4. /\ lease' \in [Tasks -> Nat \cup {NoLease}]
      /\ rows' = rows /\ member' = member /\ reserved' = reserved
      /\ up' \in BOOLEAN
      /\ uncertain' = uncertain \cup lost
      /\ UNCHANGED <<limits, resume, ended, launching, now, worked, monotone>>
  BY DEF Restart
<1>5. uncertain' \subseteq rows
  BY <1>4 DEF StepsInv, RowsCover
<1>6. request' \in [Tasks -> [version : Nat, reuse : BOOLEAN]]
  <2> DEFINE spent(r) == row(r).seconds >= row(r).max_seconds \/ OutOfSteps(r)
  <2>1. request' = [t \in Tasks |->
                     IF t \in resume \ ended /\ request[t] = NoRequest
                     THEN [version |-> budget[RootOf[t]].version,
                           reuse |-> ~spent(RootOf[t])]
                     ELSE request[t]]
    BY DEF Restart
  <2>2. \A t \in Tasks : budget[RootOf[t]].version \in Nat
    BY TreeAssumption DEF StepsInv, TypeOK
  <2>3. \A t \in Tasks : request[t] \in [version : Nat, reuse : BOOLEAN]
    BY DEF StepsInv, TypeOK
  <2>4. \A t \in Tasks : (~spent(RootOf[t])) \in BOOLEAN
    OBVIOUS
  <2> HIDE DEF spent
  <2> QED
    BY <2>1, <2>2, <2>3, <2>4
<1>7. TypeOK'
  BY <1>3, <1>4, <1>5, <1>6 DEF StepsInv, TypeOK
<1> HIDE DEF row
<1> QED
  BY <1>3, <1>4, <1>5, <1>7, FrameKeepsAccounts

\* Steps that settle nothing.
LEMMA QuietStep ==
    ASSUME StepsInv,
           \/ \E t \in Tasks : End(t)
           \/ Relaunch \/ Crash \/ Tick \/ ClockStepsBack \/ UNCHANGED vars
    PROVE  StepsInv'
<1>1. /\ UNCHANGED durable /\ uncertain' = uncertain
  BY DEF End, Relaunch, Crash, Tick, ClockStepsBack, vars, history
<1>2. rows' = rows /\ member' = member /\ reserved' = reserved /\ budget' = budget
      /\ limits' = limits
  BY <1>1 DEF durable
<1>3. worked' \in [Tasks -> Nat]
  <2>1. CASE Tick
    <3>1. \A r : IsFiniteSet(Leased(r))
      BY TreeAssumption, FS_Subset DEF Leased, TreeOf
    <3>2. \A r : Cardinality(Leased(r)) \in Nat
      BY <3>1, FS_CardinalityType
    <3> QED
      BY <2>1, <3>2 DEF Tick, StepsInv, TypeOK
  <2>2. CASE ~Tick
    BY <2>2 DEF End, Relaunch, Crash, ClockStepsBack, vars, history, StepsInv, TypeOK
  <2> QED
    BY <2>1, <2>2
<1>4. /\ lease' = lease /\ resume' \subseteq Tasks /\ ended' \subseteq Tasks
      /\ launching' \in Tasks \cup {NoTask} /\ up' \in BOOLEAN /\ now' \in Nat
      /\ request' \in [Tasks -> [version : Nat, reuse : BOOLEAN]]
  <2> USE DEF StepsInv, TypeOK
  <2>1. ASSUME NEW t \in Tasks, End(t) PROVE <1>4!:
    BY <2>1 DEF End, NoRequest
  <2>2. CASE Relaunch
    BY <2>2 DEF Relaunch
  <2>3. CASE Crash
    BY <2>3 DEF Crash
  <2>4. CASE Tick
    BY <2>4 DEF Tick, decision
  <2>5. CASE ClockStepsBack
    BY <2>5 DEF ClockStepsBack, decision
  <2>6. CASE UNCHANGED vars
    BY <2>6 DEF vars, decision
  <2> QED
    BY <2>1, <2>2, <2>3, <2>4, <2>5, <2>6
<1>5. monotone' \in BOOLEAN
  BY DEF End, Relaunch, Crash, Tick, ClockStepsBack, vars, history, StepsInv, TypeOK
<1>6. TypeOK'
  BY <1>1, <1>2, <1>3, <1>4, <1>5 DEF StepsInv, TypeOK
<1> QED
  BY <1>1, <1>2, <1>6, FrameKeepsAccounts DEF StepsInv, RowsCover

LEMMA StepsInvNext == StepsInv /\ [Next]_vars => StepsInv'
<1> SUFFICES ASSUME StepsInv, [Next]_vars PROVE StepsInv'
  OBVIOUS
<1>1. ASSUME NEW t \in Tasks, bind(t) PROVE StepsInv'
  BY <1>1, BindStep
<1>2. ASSUME NEW t \in Tasks,
             snapshot(t) \/ start(t) \/ stop(t) \/ PauseBudget(t) \/ ApproveReuse(t)
      PROVE  StepsInv'
  BY <1>2, SettlingStep
<1>3. ASSUME NEW t \in Tasks, NEW P \in SUBSET Positions \ {{}}, reserve(t, P)
      PROVE  StepsInv'
  BY <1>3, ReserveStep
<1>4. ASSUME NEW t \in Tasks, NEW l \in Limits, ApproveRenew(t, l) PROVE StepsInv'
  BY <1>4, ApproveRenewStep
<1>5. CASE Restart
  BY <1>5, RestartStep
<1>6. CASE (\E t \in Tasks : End(t)) \/ Relaunch \/ Crash \/ Tick \/ ClockStepsBack
           \/ UNCHANGED vars
  BY <1>6, QuietStep
<1> QED
  BY <1>1, <1>2, <1>3, <1>4, <1>5, <1>6 DEF Next

\* Every state of every execution has well-typed rows, and a row for each
\* bound task and each reservation (TreeBudget's tables).
THEOREM TypeCorrect == Spec => []TypeOK
<1>1. StepsInv => TypeOK
  BY DEF StepsInv
<1> QED
  BY <1>1, InitStepsInv, StepsInvNext, PTL DEF Spec

\* For any tree, any batches and any limits, the step counter of a tree is
\* the number of positions reserved in it (reserve).
THEOREM StepsAreAccounted == Spec => []StepsAccounted
<1>1. StepsInv => StepsAccounted
  BY DEF StepsInv
<1> QED
  BY <1>1, InitStepsInv, StepsInvNext, PTL DEF Spec

\* No interleaving of parents, children, renewals and restarts reserves more
\* calls than the ceiling in force (reserve, _renew).
THEOREM StepsStayWithinCeiling == Spec => []StepsWithinCeiling
<1>1. StepsInv => StepsWithinCeiling
  BY DEF StepsInv
<1> QED
  BY <1>1, InitStepsInv, StepsInvNext, PTL DEF Spec

-----------------------------------------------------------------------------
\* Uncertain time: what each step does to the clock of a row.

\* Settling only adds time, and leaves the ceilings alone.
LEMMA SettleAdds ==
    ASSUME TypeOK, NEW r \in Tasks,
           budget' = [budget EXCEPT ![r].seconds = Spent(r)]
    PROVE  \A q \in Tasks : /\ budget'[q].seconds >= budget[q].seconds
                            /\ budget'[q].max_seconds = budget[q].max_seconds
<1>1. Spent(r) \in Nat /\ Spent(r) >= budget[r].seconds
  BY UnsettledNat
<1>2. \A q \in Tasks : budget[q] \in [max_steps : Nat, max_seconds : Nat, steps : Nat,
                                      seconds : Nat, version : Nat]
  BY DEF TypeOK
<1>3. budget'[r].seconds = Spent(r) /\ budget'[r].max_seconds = budget[r].max_seconds
  BY DEF TypeOK
<1>4. \A q \in Tasks : q # r => budget'[q] = budget[q]
  BY DEF TypeOK
<1> QED
  BY <1>1, <1>2, <1>3, <1>4

\* Whatever a step does to a root that stays uncertain, it takes no charged
\* time away from it, and leaves its ceiling alone.
LEMMA UncertainKept ==
    ASSUME StepsInv, [Next]_vars, NEW r \in uncertain \cap uncertain'
    PROVE  /\ budget'[r].seconds >= budget[r].seconds
           /\ budget'[r].max_seconds = budget[r].max_seconds
<1> DEFINE Kept == /\ budget'[r].seconds >= budget[r].seconds
                   /\ budget'[r].max_seconds = budget[r].max_seconds
<1>1. r \in Tasks /\ r \in rows
  BY DEF StepsInv, TypeOK, RowsCover
<1>2. budget[r] \in [max_steps : Nat, max_seconds : Nat, steps : Nat,
                    seconds : Nat, version : Nat]
  BY <1>1 DEF StepsInv, TypeOK
<1>3. CASE budget'[r] = budget[r]
  BY <1>2, <1>3
<1>4. ASSUME NEW t \in Tasks,
             snapshot(t) \/ start(t) \/ stop(t) \/ PauseBudget(t) \/ ApproveReuse(t)
      PROVE  Kept
  <2>1. RootOf[t] \in Tasks
    BY TreeAssumption
  <2>2. budget' = [budget EXCEPT ![RootOf[t]].seconds = Spent(RootOf[t])]
    BY <1>4 DEF snapshot, start, stop, PauseBudget, ApproveReuse, Settle
  <2> QED
    BY <1>1, <2>1, <2>2, SettleAdds DEF StepsInv
<1>5. ASSUME NEW t \in Tasks, bind(t) PROVE budget'[r] = budget[r]
  BY <1>1, <1>5 DEF bind, StepsInv, TypeOK
<1>6. ASSUME NEW t \in Tasks, NEW P \in SUBSET Positions, reserve(t, P) PROVE Kept
  <2> DEFINE q == RootOf[t]
             row == [max_steps |-> budget[q].max_steps, max_seconds |-> budget[q].max_seconds,
                     steps |-> budget[q].steps + Cardinality(NewPositions(t, P)),
                     seconds |-> Spent(q), version |-> budget[q].version]
  <2>1. q \in Tasks
    BY TreeAssumption
  <2>2. budget' = [budget EXCEPT ![q] = row]
    BY <1>6 DEF reserve
  <2>3. Spent(q) >= budget[q].seconds
    BY <2>1, UnsettledNat DEF StepsInv
  <2>4. row.seconds = Spent(q) /\ row.max_seconds = budget[q].max_seconds
    OBVIOUS
  <2> HIDE DEF row, q
  <2> QED
    BY <1>1, <1>2, <2>1, <2>2, <2>3, <2>4 DEF StepsInv, TypeOK
<1>7. ASSUME NEW t \in Tasks, NEW l \in Limits, ApproveRenew(t, l)
      PROVE  budget'[r] = budget[r]
  <2>1. r # RootOf[t]
    BY <1>7 DEF ApproveRenew
  <2> QED
    BY <1>1, <1>7, <2>1 DEF ApproveRenew, StepsInv, TypeOK
<1>8. CASE Restart
  <2>1. budget'[r] = IF r \in {q \in rows : Leased(q) # {}}
                     THEN [budget[r] EXCEPT !.seconds =
                             IF budget[r].seconds > budget[r].max_seconds
                             THEN budget[r].seconds ELSE budget[r].max_seconds]
                     ELSE budget[r]
    BY <1>1, <1>8 DEF Restart
  <2> QED
    BY <1>2, <2>1
<1>9. CASE (\E t \in Tasks : End(t)) \/ Relaunch \/ Crash \/ Tick \/ ClockStepsBack
           \/ UNCHANGED vars
  BY <1>2, <1>9 DEF End, Relaunch, Crash, Tick, ClockStepsBack, vars, durable
<1> QED
  BY <1>3, <1>4, <1>5, <1>6, <1>7, <1>8, <1>9 DEF Next

\* A root becomes uncertain only at startup, which uses its time up.
LEMMA UncertainNext ==
    ASSUME StepsInv, UncertainIsExhausted, [Next]_vars
    PROVE  UncertainIsExhausted'
<1> SUFFICES ASSUME NEW r \in uncertain'
             PROVE  budget'[r].seconds >= budget'[r].max_seconds
  BY DEF UncertainIsExhausted
<1>1. CASE r \in uncertain
  <2>1. /\ budget'[r].seconds >= budget[r].seconds
        /\ budget'[r].max_seconds = budget[r].max_seconds
    BY <1>1, UncertainKept
  <2>2. budget[r].seconds >= budget[r].max_seconds
    BY <1>1 DEF UncertainIsExhausted
  <2>3. TypeOK'
    BY StepsInvNext DEF StepsInv
  <2>4. r \in Tasks
    BY <1>1 DEF StepsInv, TypeOK
  <2>5. /\ budget'[r].seconds \in Nat /\ budget[r].seconds \in Nat
        /\ budget[r].max_seconds \in Nat
    BY <2>3, <2>4 DEF StepsInv, TypeOK
  <2> QED
    BY <2>1, <2>2, <2>5
<1>2. CASE r \notin uncertain
  <2>1. Restart
    BY <1>2 DEF Next, bind, snapshot, start, stop, reserve, PauseBudget, ApproveRenew,
       ApproveReuse, Relaunch, End, Crash, Tick, ClockStepsBack, vars, history
  <2>2. r \in rows /\ Leased(r) # {} /\ r \in Tasks
    BY <1>2, <2>1 DEF Restart, StepsInv, TypeOK
  <2>3. budget'[r] = [budget[r] EXCEPT !.seconds =
                        IF budget[r].seconds > budget[r].max_seconds
                        THEN budget[r].seconds ELSE budget[r].max_seconds]
    BY <2>1, <2>2 DEF Restart
  <2>4. budget[r] \in [max_steps : Nat, max_seconds : Nat, steps : Nat,
                      seconds : Nat, version : Nat]
    BY <2>2 DEF StepsInv, TypeOK
  <2> QED
    BY <2>3, <2>4
<1> QED
  BY <1>1, <1>2

\* A tree that lost a live lease to a crash stays out of time until a grant,
\* for any tree and whatever happens in between (__init__, _renew).
THEOREM UncertainStaysExhausted == Spec => []UncertainIsExhausted
<1>1. Init => StepsInv /\ UncertainIsExhausted
  BY InitStepsInv DEF Init, UncertainIsExhausted
<1>2. StepsInv /\ UncertainIsExhausted /\ [Next]_vars
        => StepsInv' /\ UncertainIsExhausted'
  BY StepsInvNext, UncertainNext
<1> QED
  BY <1>1, <1>2, PTL DEF Spec

-----------------------------------------------------------------------------
\* No step reserves in a tree whose time is used up: reserve settles first.
LEMMA NoReserveWhenUncertain ==
    ASSUME StepsInv, UncertainIsExhausted, [Next]_vars, NEW r \in uncertain
    PROVE  {s \in reserved' : RootOf[s[1]] = r} = Reserved(r)
<1>1. ASSUME NEW t \in Tasks, NEW P \in SUBSET Positions, reserve(t, P)
      PROVE  RootOf[t] # r
  <2>1. ~OutOfTime(RootOf[t]) /\ RootOf[t] \in Tasks
    BY <1>1, TreeAssumption DEF reserve, Refused
  <2>2. SUFFICES ASSUME RootOf[t] = r PROVE FALSE
    OBVIOUS
  <2>3. budget[r].seconds >= budget[r].max_seconds
    BY DEF UncertainIsExhausted
  <2>4. Spent(r) \in Nat /\ Spent(r) >= budget[r].seconds
    BY <2>1, <2>2, UnsettledNat DEF StepsInv
  <2>5. budget[r].seconds \in Nat /\ budget[r].max_seconds \in Nat
    BY <2>1, <2>2 DEF StepsInv, TypeOK
  <2> QED
    BY <2>1, <2>2, <2>3, <2>4, <2>5 DEF OutOfTime
<1>2. CASE reserved' = reserved
  BY <1>2 DEF Reserved
<1>3. CASE \E t \in Tasks, P \in SUBSET Positions : reserve(t, P)
  <2>1. PICK t \in Tasks, P \in SUBSET Positions : reserve(t, P)
    BY <1>3
  <2>2. \A s \in reserved' : s \in reserved \/ s[1] = t
    BY <2>1 DEF reserve
  <2>3. reserved \subseteq reserved' /\ RootOf[t] # r
    BY <1>1, <2>1 DEF reserve
  <2> QED
    BY <2>2, <2>3 DEF Reserved
<1>4. CASE reserved' # reserved
  <2>1. \E t \in Tasks, P \in SUBSET Positions : reserve(t, P)
    BY <1>4 DEF Next, bind, snapshot, start, stop, PauseBudget, ApproveRenew, ApproveReuse,
       Relaunch, End, Crash, Restart, Tick, ClockStepsBack, vars, durable
  <2> QED
    BY <1>3, <2>1
<1> QED
  BY <1>2, <1>4

\* Between a restart that lost a lease and the renewal that forgives it, no
\* member of the tree reserves a call (reserve after __init__).
THEOREM NoUngrantedWork == Spec => NoWorkUntilRegranted
<1>1. Init => StepsInv /\ UncertainIsExhausted
  BY InitStepsInv DEF Init, UncertainIsExhausted
<1>2. StepsInv /\ UncertainIsExhausted /\ [Next]_vars
        => StepsInv' /\ UncertainIsExhausted'
  BY StepsInvNext, UncertainNext
<1>3. StepsInv /\ UncertainIsExhausted /\ [Next]_vars =>
        [\A r \in uncertain \cap uncertain' :
           {s \in reserved' : RootOf[s[1]] = r} = Reserved(r)]_vars
  BY NoReserveWhenUncertain
<1> QED
  BY <1>1, <1>2, <1>3, PTL DEF Spec, NoWorkUntilRegranted

-----------------------------------------------------------------------------
(* The clock: what a tree is charged, and which receipts are asked again. *)

\* A lease belongs to a bound task, a tree without a row has worked nothing,
\* and the charge of a tree is the work of its leases.  A stopped host charges
\* nothing to the leases it left behind: Restart settles those trees by making
\* them uncertain, so only a tree without a lease is exact while it is down.
Charged(r) ==
    Spent(r) <= worked[r] /\ (monotone => Spent(r) = worked[r])
ClockInv ==
    /\ \A t \in Tasks : lease[t] # NoLease => t \in member
    /\ \A r \in Tasks \ rows : worked[r] = 0
    /\ monotone => \A t \in Tasks : lease[t] <= now
    /\ \A r \in rows \ uncertain : up \/ Leased(r) = {} => Charged(r)

\* A receipt belongs to a bound task, whose tree was granted a version, and a
\* stopped host launches nothing.
ReceiptInv ==
    /\ resume \subseteq member
    /\ \A r \in rows : budget[r].version # 0
    /\ ~up => launching = NoTask
    /\ ReceiptAskedAgain

-----------------------------------------------------------------------------
(* Counting the unsettled seconds of a set of leases. *)

\* The seconds up to n that the leases le of the tasks L have not settled.
Open(L, le, n) == {w \in L \X (1..n) : w[2] > le[w[1]]}

\* They are finitely many.
LEMMA OpenFinite ==
    ASSUME NEW L, IsFiniteSet(L), NEW le, NEW n \in Nat
    PROVE  IsFiniteSet(Open(L, le, n)) /\ Cardinality(Open(L, le, n)) \in Nat
<1>1. IsFiniteSet(L \X (1..n))
  <2>1. IsFiniteSet(1..n)
    BY FS_Interval
  <2> QED
    BY <2>1, FS_Product
<1>2. Open(L, le, n) \in SUBSET (L \X (1..n))
  BY DEF Open
<1> QED
  BY <1>1, <1>2, FS_Subset, FS_CardinalityType

\* A lease touched now has no unsettled second.
LEMMA NothingOpen ==
    ASSUME NEW L, NEW le, NEW n \in Nat,
           \A t \in L : le[t] \in Int /\ le[t] >= n
    PROVE  Cardinality(Open(L, le, n)) = 0
<1>1. \A w \in L \X (1..n) : ~(w[2] > le[w[1]])
  <2> SUFFICES ASSUME NEW t \in L, NEW i \in 1..n PROVE ~(i > le[t])
    OBVIOUS
  <2> QED
    BY SMT
<1>2. Open(L, le, n) = {}
  BY <1>1 DEF Open
<1> QED
  BY <1>2, FS_EmptySet

\* Only the leases count.
LEMMA SameOpen ==
    ASSUME NEW L, NEW le, NEW le2, NEW n, \A t \in L : le2[t] = le[t]
    PROVE  Open(L, le2, n) = Open(L, le, n)
<1>1. \A w \in L \X (1..n) : le2[w[1]] = le[w[1]]
  OBVIOUS
<1> QED
  BY <1>1 DEF Open

\* A clock set back opens nothing.
LEMMA BackOpens ==
    ASSUME NEW L, IsFiniteSet(L), NEW le, NEW n \in Nat, n > 0
    PROVE  Cardinality(Open(L, le, n - 1)) <= Cardinality(Open(L, le, n))
<1>1. (1..(n - 1)) \subseteq 1..n
  BY SMT
<1>2. Open(L, le, n - 1) \in SUBSET Open(L, le, n)
  BY <1>1 DEF Open
<1> QED
  BY <1>2, OpenFinite, FS_Subset

\* A second adds one for each lease, none for a lease of the future.
LEMMA TickOpens ==
    ASSUME NEW L, IsFiniteSet(L), NEW le, NEW n \in Nat, \A t \in L : le[t] \in Int
    PROVE  /\ Cardinality(Open(L, le, n + 1))
                <= Cardinality(Open(L, le, n)) + Cardinality(L)
           /\ (\A t \in L : le[t] <= n) =>
                Cardinality(Open(L, le, n + 1))
                  = Cardinality(Open(L, le, n)) + Cardinality(L)
<1> DEFINE K == {t \in L : le[t] <= n}
           A == {<<t, n + 1>> : t \in K}
           O == Open(L, le, n)
           O2 == Open(L, le, n + 1)
<1>1. IsFiniteSet(K) /\ Cardinality(K) <= Cardinality(L) /\ Cardinality(K) \in Nat
      /\ Cardinality(L) \in Nat
  BY FS_Subset, FS_CardinalityType
<1>2. IsFiniteSet(A) /\ Cardinality(A) = Cardinality(K)
  <2> DEFINE f == [t \in K |-> <<t, n + 1>>]
  <2>1. f \in Bijection(K, A)
    BY DEF Bijection, Injection, Surjection, IsInjective
  <2> QED
    BY <1>1, <2>1, FS_Bijection DEF ExistsBijection
<1>3. O2 = O \cup A
  <2>1. ASSUME NEW t \in L, NEW i \in 1..(n + 1), i > le[t]
        PROVE  <<t, i>> \in O \cup A
    <3>1. CASE i \in 1..n
      BY <2>1, <3>1 DEF Open
    <3>2. CASE i \notin 1..n
      <4>1. i = n + 1 /\ le[t] <= n
        BY <2>1, <3>2, SMT
      <4> QED
        BY <4>1
    <3> QED
      BY <3>1, <3>2
  <2>2. O2 \subseteq O \cup A
    <3> SUFFICES ASSUME NEW w \in O2 PROVE w \in O \cup A
      OBVIOUS
    <3>1. PICK t \in L, i \in 1..(n + 1) : w = <<t, i>> /\ i > le[t]
      BY DEF Open
    <3> QED
      BY <2>1, <3>1
  <2>3. O \subseteq O2
    <3>1. (1..n) \subseteq 1..(n + 1)
      BY SMT
    <3> QED
      BY <3>1 DEF Open
  <2>4. A \subseteq O2
    <3> SUFFICES ASSUME NEW t \in K PROVE <<t, n + 1>> \in O2
      OBVIOUS
    <3>1. n + 1 \in 1..(n + 1) /\ n + 1 > le[t]
      BY SMT
    <3> QED
      BY <3>1 DEF Open
  <2> QED
    BY <2>2, <2>3, <2>4
<1>4. O \cap A = {}
  <2> SUFFICES ASSUME NEW t \in K, <<t, n + 1>> \in O PROVE FALSE
    OBVIOUS
  <2>1. n + 1 \in 1..n
    BY DEF Open
  <2> QED
    BY <2>1, SMT
<1>5. IsFiniteSet(O) /\ Cardinality(O) \in Nat
  BY OpenFinite
<1>6. Cardinality(O2) = Cardinality(O) + Cardinality(K)
  <2>1. Cardinality(O \cap A) = 0
    BY <1>4, FS_EmptySet
  <2>2. Cardinality(O \cup A) = Cardinality(O) + Cardinality(A) - Cardinality(O \cap A)
    BY <1>2, <1>5, FS_Union
  <2> HIDE DEF O, O2, A, K
  <2> QED
    BY <1>1, <1>2, <1>3, <1>5, <2>1, <2>2
<1>7. (\A t \in L : le[t] <= n) => Cardinality(K) = Cardinality(L)
  <2>1. (\A t \in L : le[t] <= n) => K = L
    OBVIOUS
  <2> QED
    BY <2>1
<1>8. Cardinality(O2) <= Cardinality(O) + Cardinality(L)
  <2> HIDE DEF O, O2, A, K
  <2> QED
    BY <1>1, <1>5, <1>6, SMT
<1>9. (\A t \in L : le[t] <= n) => Cardinality(O2) = Cardinality(O) + Cardinality(L)
  BY <1>6, <1>7
<1> QED
  BY <1>8, <1>9

-----------------------------------------------------------------------------
(* The charge of a tree is the work of its leases.  Each kind of step that *)
(* touches the clock, a lease or the seconds of a row has a lemma.          *)

\* The unsettled seconds are the open ones of the tree's leases.
LEMMA UnsettledIsOpen ==
    ASSUME NEW r \in Tasks
    PROVE  /\ Unsettled(r) = Cardinality(Open(Leased(r), lease, now))
           /\ Unsettled(r)' = Cardinality(Open(Leased(r)', lease', now'))
BY DEF Unsettled, Open

LEMMA LeasedFinite ==
    ASSUME NEW r \in Tasks
    PROVE  IsFiniteSet(Leased(r)) /\ IsFiniteSet(Leased(r)')
<1>1. Leased(r) \in SUBSET Tasks /\ Leased(r)' \in SUBSET Tasks
  BY DEF Leased, TreeOf
<1> QED
  BY <1>1, FS_Subset, TreeAssumption

\* A tree whose leases a step leaves alone has the same unsettled seconds.
LEMMA OtherTree ==
    ASSUME NEW r \in Tasks, \A t \in TreeOf(r) : lease'[t] = lease[t], now' = now
    PROVE  Unsettled(r)' = Unsettled(r) /\ Leased(r)' = Leased(r)
<1>1. Leased(r)' = Leased(r)
  BY DEF Leased, TreeOf
<1>2. \A t \in Leased(r) : lease'[t] = lease[t]
  BY DEF Leased
<1>3. Open(Leased(r), lease', now) = Open(Leased(r), lease, now)
  BY <1>2, SameOpen
<1> QED
  BY <1>1, <1>3, UnsettledIsOpen

\* A tree whose leases are touched has none.
LEMMA TouchedTree ==
    ASSUME TypeOK', NEW r \in Tasks, \A t \in Leased(r)' : lease'[t] >= now'
    PROVE  Unsettled(r)' = 0
<1>1. now' \in Nat /\ \A t \in Leased(r)' : lease'[t] \in Int
  BY DEF TypeOK, Leased, TreeOf, NoLease
<1>2. Cardinality(Open(Leased(r)', lease', now')) = 0
  BY <1>1, NothingOpen
<1> QED
  BY <1>2, UnsettledIsOpen

\* Without a lease there is nothing to settle, before and after.
LEMMA NoLeaseNothingOpen ==
    ASSUME TypeOK, NEW r \in Tasks, Leased(r) = {}
    PROVE  Unsettled(r) = 0
<1>1. now \in Nat
  BY DEF TypeOK
<1>2. Cardinality(Open({}, lease, now)) = 0
  BY <1>1, NothingOpen
<1> QED
  BY <1>2, UnsettledIsOpen

\* A settlement, alone or with a lease that starts or ends: the row takes up
\* what was open, nothing stays open, and no other tree changes.
SettledTo(r) ==
    /\ up /\ up' = up /\ now' = now
    /\ rows' = rows /\ uncertain' = uncertain /\ member' = member
    /\ worked' = worked /\ monotone' = monotone
    /\ budget'[r].seconds = Spent(r)
    /\ \A u \in Tasks \ {r} : budget'[u] = budget[u]
    /\ \A t \in Tasks \ TreeOf(r) : lease'[t] = lease[t]
    /\ \A t \in TreeOf(r) :
         lease'[t] # NoLease =>
            /\ lease'[t] >= now /\ (monotone => lease'[t] <= now)
            /\ t \in member

LEMMA SettledKeepsClock ==
    ASSUME StepsInv, StepsInv', ClockInv, NEW r \in Tasks, SettledTo(r)
    PROVE  ClockInv'
<1> USE DEF StepsInv
<1>1. \A t \in Tasks : lease'[t] # NoLease => t \in member'
  BY DEF ClockInv, SettledTo
<1>2. \A u \in Tasks \ rows' : worked'[u] = 0
  BY DEF ClockInv, SettledTo
<1>3. monotone' => \A t \in Tasks : lease'[t] <= now'
  <2> SUFFICES ASSUME monotone, NEW t \in Tasks PROVE lease'[t] <= now
    BY DEF SettledTo
  <2>1. CASE t \in TreeOf(r) /\ lease'[t] # NoLease
    BY <2>1 DEF SettledTo
  <2>2. CASE lease'[t] = NoLease
    BY <2>2 DEF NoLease, TypeOK
  <2>3. CASE t \notin TreeOf(r)
    BY <2>3 DEF SettledTo, ClockInv
  <2> QED
    BY <2>1, <2>2, <2>3
<1>4. ASSUME NEW u \in rows' \ uncertain' PROVE Charged(u)'
  <2>1. u \in Tasks /\ u \in rows \ uncertain /\ Charged(u)
    BY DEF SettledTo, ClockInv, TypeOK
  <2>2. Spent(u)' = Spent(u)
    <3>1. CASE u = r
      <4>1. Unsettled(r)' = 0
        <5>1. \A t \in Leased(r)' : lease'[t] >= now'
          BY DEF SettledTo, Leased, TreeOf
        <5> QED
          BY <5>1, TouchedTree
      <4>2. budget'[r].seconds = Spent(r) /\ Spent(r) \in Nat
        BY UnsettledNat DEF SettledTo
      <4> QED
        BY <3>1, <4>1, <4>2 DEF Spent
    <3>2. CASE u # r
      <4>1. \A t \in TreeOf(u) : lease'[t] = lease[t]
        BY <2>1, <3>2 DEF SettledTo, TreeOf
      <4>2. Unsettled(u)' = Unsettled(u)
        BY <2>1, <4>1, OtherTree DEF SettledTo
      <4> QED
        BY <2>1, <3>2, <4>2 DEF Spent, SettledTo
    <3> QED
      BY <3>1, <3>2
  <2> QED
    BY <2>1, <2>2 DEF Charged, SettledTo
<1> QED
  BY <1>1, <1>2, <1>3, <1>4 DEF ClockInv

\* The leases that settling leaves are of now, and belong to whom they did.
LEMMA TouchedLeases ==
    ASSUME TypeOK, ClockInv, NEW r \in Tasks, NEW t \in Tasks
    PROVE  /\ t \notin TreeOf(r) => Touched(r)[t] = lease[t]
           /\ Touched(r)[t] # NoLease => t \in member
           /\ (t \in TreeOf(r) /\ Touched(r)[t] # NoLease) =>
                Touched(r)[t] >= now /\ (monotone => Touched(r)[t] <= now)
BY DEF TypeOK, ClockInv, Touched, Leased, TreeOf, NoLease

\* snapshot, start, stop, a batch, a budget request and a receipt settle.
LEMMA SettlingIsSettled ==
    ASSUME StepsInv, ClockInv, NEW t \in Tasks,
           \/ snapshot(t) \/ start(t) \/ stop(t)
           \/ PauseBudget(t) \/ ApproveReuse(t)
           \/ \E P \in SUBSET Positions \ {{}} : reserve(t, P)
    PROVE  SettledTo(RootOf[t])
<1> DEFINE r == RootOf[t]
<1> USE DEF StepsInv
<1>1. r \in Tasks /\ t \in TreeOf(r) /\ now \in Nat
  BY TreeAssumption DEF TreeOf, TypeOK
<1>2. /\ up /\ up' = up /\ now' = now
      /\ rows' = rows /\ uncertain' = uncertain /\ member' = member
      /\ worked' = worked /\ monotone' = monotone
  BY DEF snapshot, start, stop, PauseBudget, ApproveReuse, reserve, Working,
         Live, decision, history
<1>3. budget'[r].seconds = Spent(r) /\ \A u \in Tasks \ {r} : budget'[u] = budget[u]
  <2>1. budget \in [Tasks -> [max_steps : Nat, max_seconds : Nat, steps : Nat,
                             seconds : Nat, version : Nat]]
    BY DEF TypeOK
  <2>2. \/ budget' = [budget EXCEPT ![r].seconds = Spent(r)]
        \/ \E P \in SUBSET Positions \ {{}} : reserve(t, P)
    BY DEF snapshot, start, stop, PauseBudget, ApproveReuse, Settle
  <2>3. CASE budget' = [budget EXCEPT ![r].seconds = Spent(r)]
    BY <1>1, <2>1, <2>3
  <2>4. ASSUME NEW P \in SUBSET Positions \ {{}}, reserve(t, P)
        PROVE  budget'[r].seconds = Spent(r) /\ \A u \in Tasks \ {r} : budget'[u] = budget[u]
    BY <1>1, <2>1, <2>4 DEF reserve
  <2> QED
    BY <2>2, <2>3, <2>4
<1>4. \/ lease' = Touched(r)
      \/ /\ t \in member
         /\ lease' = [Touched(r) EXCEPT ![t] = IF @ = NoLease THEN now ELSE @]
      \/ lease' = [Touched(r) EXCEPT ![t] = NoLease]
  BY DEF snapshot, start, stop, PauseBudget, ApproveReuse, reserve, Working,
         Live, Settle
<1>5. Touched(r) \in [Tasks -> Nat \cup {NoLease}]
  BY <1>1, TouchedType
<1>6. ASSUME NEW u \in Tasks
      PROVE  /\ u \notin TreeOf(r) => lease'[u] = lease[u]
             /\ (u \in TreeOf(r) /\ lease'[u] # NoLease) =>
                  /\ lease'[u] >= now /\ (monotone => lease'[u] <= now)
                  /\ u \in member
  <2>1. \/ lease'[u] = Touched(r)[u]
        \/ u = t /\ lease'[u] = NoLease
        \/ u = t /\ lease'[u] = now /\ t \in member
    BY <1>4, <1>5
  <2> QED
    BY <1>1, <2>1, TouchedLeases
<1> QED
  BY <1>2, <1>3, <1>6 DEF SettledTo, TreeOf

\* Steps that touch no clock, lease, row or history.
LEMMA FrameKeepsClock ==
    ASSUME ClockInv, UNCHANGED <<rows, budget, member, lease, now, history>>,
           up' => up
    PROVE  ClockInv'
<1>1. \A r \in rows : Unsettled(r)' = Unsettled(r) /\ Leased(r)' = Leased(r)
  BY DEF Unsettled, Leased, TreeOf
<1>2. \A r \in rows : Charged(r)' = Charged(r)
  BY <1>1 DEF Charged, Spent, history
<1> QED
  BY <1>1, <1>2 DEF ClockInv, history

\* The first task of a tree brings a row that has worked and owes nothing.
LEMMA BindKeepsClock ==
    ASSUME StepsInv, ClockInv, NEW t \in Tasks, bind(t)
    PROVE  ClockInv'
<1> DEFINE r == RootOf[t]
<1> USE DEF StepsInv
<1>1. r \in Tasks
  BY TreeAssumption
<1>2. /\ now' = now /\ lease' = lease /\ worked' = worked /\ up /\ up'
      /\ uncertain' = uncertain /\ monotone' = monotone
      /\ rows' = rows \cup {r} /\ member \subseteq member'
  BY DEF bind, history
<1>3. \A u \in Tasks : Unsettled(u)' = Unsettled(u) /\ Leased(u)' = Leased(u)
  BY <1>2, OtherTree
<1>4. ASSUME NEW u \in rows \ uncertain PROVE Charged(u)'
  <2>1. u \in Tasks /\ Charged(u)
    BY <1>2 DEF ClockInv, TypeOK
  <2>2. budget'[u] = budget[u]
    BY <1>1, <2>1 DEF bind, TypeOK
  <2> QED
    BY <1>2, <1>3, <2>1, <2>2 DEF Charged, Spent
<1>5. CASE r \notin rows
  <2>1. Leased(r) = {}
    BY <1>5 DEF RowsCover, Leased, TreeOf, ClockInv
  <2>2. Unsettled(r)' = 0
    BY <1>1, <1>3, <2>1, NoLeaseNothingOpen
  <2>3. budget'[r].seconds = 0
    BY <1>1, <1>5 DEF bind, TypeOK
  <2>4. worked'[r] = 0
    BY <1>1, <1>2, <1>5 DEF ClockInv
  <2>5. Charged(r)'
    BY <2>2, <2>3, <2>4 DEF Charged, Spent
  <2> QED
    BY <1>2, <1>4, <2>5 DEF ClockInv
<1>6. CASE r \in rows
  <2>1. rows' = rows
    BY <1>2, <1>6
  <2> QED
    BY <1>2, <1>4, <2>1 DEF ClockInv
<1> QED
  BY <1>5, <1>6

\* A grant forgives what was worked, and what is open of it.
LEMMA RenewKeepsClock ==
    ASSUME StepsInv, StepsInv', ClockInv, NEW t \in Tasks, NEW l \in Limits,
           ApproveRenew(t, l)
    PROVE  ClockInv'
<1> DEFINE r == RootOf[t]
<1> USE DEF StepsInv
<1>1. r \in Tasks /\ now \in Nat
  BY TreeAssumption DEF TypeOK
<1>2. /\ now' = now /\ up /\ rows' = rows /\ member' = member
      /\ uncertain' = uncertain \ {r} /\ monotone' = monotone
      /\ worked' = [worked EXCEPT ![r] = 0]
      /\ lease' = [u \in Tasks |-> IF u \in Leased(r) THEN now ELSE lease[u]]
  BY DEF ApproveRenew, Live
<1>3. budget'[r].seconds = 0 /\ \A u \in Tasks \ {r} : budget'[u] = budget[u]
  BY <1>1 DEF ApproveRenew, TypeOK
<1>4. \A u \in Tasks : lease'[u] # NoLease => u \in member'
  BY <1>2 DEF ClockInv, Leased
<1>5. \A u \in Tasks \ rows' : worked'[u] = 0
  BY <1>1, <1>2 DEF ClockInv, TypeOK
<1>6. monotone' => \A u \in Tasks : lease'[u] <= now'
  BY <1>1, <1>2 DEF ClockInv
<1>7. ASSUME NEW u \in rows' \ uncertain' PROVE Charged(u)'
  <2>1. CASE u = r
    <3>1. \A v \in Leased(r)' : lease'[v] >= now'
      BY <1>1, <1>2 DEF Leased, TreeOf
    <3>2. Unsettled(r)' = 0
      BY <1>1, <3>1, TouchedTree
    <3>3. worked'[r] = 0
      BY <1>1, <1>2 DEF TypeOK
    <3> QED
      BY <1>3, <2>1, <3>2, <3>3 DEF Charged, Spent
  <2>2. CASE u # r
    <3>1. u \in Tasks /\ u \in rows \ uncertain /\ Charged(u)
      BY <1>2, <2>2 DEF ClockInv, TypeOK
    <3>2. \A v \in TreeOf(u) : lease'[v] = lease[v]
      BY <1>2, <2>2 DEF TreeOf, Leased
    <3>3. Unsettled(u)' = Unsettled(u)
      BY <1>2, <3>1, <3>2, OtherTree
    <3>4. worked'[u] = worked[u]
      BY <1>2, <2>2, <3>1 DEF TypeOK
    <3> QED
      BY <1>2, <1>3, <2>2, <3>1, <3>3, <3>4 DEF Charged, Spent
  <2> QED
    BY <2>1, <2>2
<1> QED
  BY <1>4, <1>5, <1>6, <1>7 DEF ClockInv

\* A tree that kept a lease over the crash becomes uncertain; another one has
\* nothing open, and what it was charged stays what it worked.
LEMMA RestartKeepsClock ==
    ASSUME StepsInv, StepsInv', ClockInv, Restart
    PROVE  ClockInv'
<1> USE DEF StepsInv
<1>1. /\ now' = now /\ rows' = rows /\ member' = member /\ worked' = worked
      /\ monotone' = monotone /\ lease' = [t \in Tasks |-> NoLease]
      /\ uncertain' = uncertain \cup {r \in rows : Leased(r) # {}}
  BY DEF Restart
<1>2. ASSUME NEW r \in rows' \ uncertain' PROVE Charged(r)'
  <2>1. r \in Tasks /\ r \in rows \ uncertain /\ Leased(r) = {} /\ Charged(r)
    BY <1>1 DEF ClockInv, TypeOK
  <2>2. Unsettled(r) = 0
    BY <2>1, NoLeaseNothingOpen
  <2>3. Unsettled(r)' = 0
    <3>1. Leased(r)' = {}
      BY <1>1 DEF Leased, TreeOf
    <3> QED
      BY <2>1, <3>1, TouchedTree
  <2>4. budget'[r] = budget[r]
    BY <2>1 DEF Restart
  <2> QED
    BY <1>1, <2>1, <2>2, <2>3, <2>4 DEF Charged, Spent
<1>3. monotone' => \A t \in Tasks : lease'[t] <= now'
  BY <1>1 DEF TypeOK, NoLease
<1> QED
  BY <1>1, <1>2, <1>3 DEF ClockInv, TypeOK

\* A second of a running host is worked by every lease; a stopped one works
\* nothing, and only a tree without a lease speaks of it.
LEMMA TickKeepsClock ==
    ASSUME StepsInv, StepsInv', ClockInv, Tick
    PROVE  ClockInv'
<1> USE DEF StepsInv
<1>1. /\ now \in Nat /\ now' = now + 1 /\ rows' = rows /\ member' = member
      /\ lease' = lease /\ budget' = budget /\ up' = up
      /\ uncertain' = uncertain /\ monotone' = monotone
      /\ worked' = [r \in Tasks |-> worked[r] + (IF up THEN Cardinality(Leased(r)) ELSE 0)]
  BY DEF Tick, TypeOK, durable
<1>2. \A r \in Tasks : Leased(r)' = Leased(r)
  BY <1>1 DEF Leased, TreeOf
<1>3. \A t \in Tasks : lease[t] \in Int
  BY DEF TypeOK, NoLease
<1>4. monotone' => \A t \in Tasks : lease'[t] <= now'
  BY <1>1, <1>3 DEF ClockInv
<1>5. \A r \in Tasks \ rows' : worked'[r] = 0
  <2> SUFFICES ASSUME NEW r \in Tasks \ rows PROVE worked'[r] = 0
    BY <1>1
  <2>1. Leased(r) = {}
    BY DEF RowsCover, Leased, TreeOf, ClockInv
  <2>2. Cardinality(Leased(r)) = 0 /\ worked[r] = 0
    BY <2>1, FS_EmptySet DEF ClockInv
  <2> QED
    BY <1>1, <2>2
<1>6. ASSUME NEW r \in rows \ uncertain, up \/ Leased(r) = {} PROVE Charged(r)'
  <2>1. r \in Tasks /\ Charged(r) /\ worked[r] \in Nat /\ budget[r].seconds \in Nat
    BY <1>6 DEF ClockInv, TypeOK
  <2> DEFINE L == Leased(r)
             n == Cardinality(L)
             a == Cardinality(Open(L, lease, now))
             b == Cardinality(Open(L, lease, now + 1))
  <2>2. /\ IsFiniteSet(L) /\ \A t \in L : lease[t] \in Int
    BY <1>3, <2>1, LeasedFinite DEF Leased, TreeOf
  <2>3. a \in Nat /\ b \in Nat /\ n \in Nat
    BY <1>1, <2>2, OpenFinite, FS_CardinalityType
  <2>4. b <= a + n
    BY <1>1, <2>2, TickOpens
  <2>5. monotone => b = a + n
    <3> SUFFICES ASSUME monotone PROVE b = a + n
      OBVIOUS
    <3>1. \A t \in L : lease[t] <= now
      BY <2>1 DEF ClockInv, Leased, TreeOf
    <3> QED
      BY <1>1, <2>2, <3>1, TickOpens
  <2>6. Unsettled(r) = a /\ Unsettled(r)' = b
    BY <1>1, <1>2, <2>1, UnsettledIsOpen
  <2>7. worked'[r] = worked[r] + n
    <3>1. CASE up
      BY <1>1, <2>1, <3>1
    <3>2. CASE ~up
      <4>1. n = 0
        BY <1>6, <3>2, FS_EmptySet
      <4> HIDE DEF n
      <4> QED
        BY <1>1, <2>1, <3>2, <4>1
    <3> QED
      BY <3>1, <3>2
  <2> HIDE DEF n, a, b
  <2>8. Spent(r) = budget[r].seconds + a /\ Spent(r)' = budget[r].seconds + b
    BY <1>1, <2>6 DEF Spent
  <2>9. Spent(r) <= worked[r] /\ (monotone => Spent(r) = worked[r])
    BY <2>1 DEF Charged
  <2>10. Spent(r)' <= worked'[r] /\ (monotone => Spent(r)' = worked'[r])
    BY <2>1, <2>3, <2>4, <2>5, <2>7, <2>8, <2>9
  <2> QED
    BY <1>1, <2>10 DEF Charged
<1>7. \A r \in rows' \ uncertain' : up' \/ Leased(r)' = {} => Charged(r)'
  BY <1>1, <1>2, <1>6 DEF TypeOK
<1> QED
  BY <1>1, <1>4, <1>5, <1>7 DEF ClockInv

\* A clock set back charges no more.
LEMMA BackKeepsClock ==
    ASSUME StepsInv, StepsInv', ClockInv, ClockStepsBack
    PROVE  ClockInv'
<1> USE DEF StepsInv
<1>1. /\ now \in Nat /\ now > 0 /\ now' = now - 1 /\ rows' = rows
      /\ member' = member /\ lease' = lease /\ budget' = budget /\ up' = up
      /\ uncertain' = uncertain /\ monotone' = FALSE /\ worked' = worked
  BY DEF ClockStepsBack, TypeOK, durable
<1>2. \A r \in Tasks : Leased(r)' = Leased(r)
  BY <1>1 DEF Leased, TreeOf
<1>3. ASSUME NEW r \in rows \ uncertain, up \/ Leased(r) = {} PROVE Charged(r)'
  <2>1. r \in Tasks /\ Charged(r) /\ worked[r] \in Nat /\ budget[r].seconds \in Nat
    BY <1>3 DEF ClockInv, TypeOK
  <2> DEFINE a == Cardinality(Open(Leased(r), lease, now))
             b == Cardinality(Open(Leased(r), lease, now - 1))
  <2>2. IsFiniteSet(Leased(r)) /\ now - 1 \in Nat
    BY <1>1, <2>1, LeasedFinite
  <2>3. a \in Nat /\ b \in Nat /\ b <= a
    BY <1>1, <2>2, OpenFinite, BackOpens
  <2>4. Unsettled(r) = a /\ Unsettled(r)' = b
    BY <1>1, <1>2, <2>1, UnsettledIsOpen
  <2> HIDE DEF a, b
  <2>5. Spent(r)' <= worked'[r]
    BY <1>1, <2>1, <2>3, <2>4 DEF Charged, Spent
  <2> QED
    BY <1>1, <2>5 DEF Charged
<1>4. \A r \in rows' \ uncertain' : up' \/ Leased(r)' = {} => Charged(r)'
  BY <1>1, <1>2, <1>3 DEF TypeOK
<1> QED
  BY <1>1, <1>4 DEF ClockInv

\* Every step keeps the clock.
LEMMA ClockNext ==
    ASSUME StepsInv, StepsInv', ClockInv, [Next]_vars
    PROVE  ClockInv'
<1>1. ASSUME NEW t \in Tasks, bind(t) PROVE ClockInv'
  BY <1>1, BindKeepsClock
<1>2. ASSUME NEW t \in Tasks,
             \/ snapshot(t) \/ start(t) \/ stop(t)
             \/ PauseBudget(t) \/ ApproveReuse(t)
             \/ \E P \in SUBSET Positions \ {{}} : reserve(t, P)
      PROVE ClockInv'
  <2>1. RootOf[t] \in Tasks
    BY TreeAssumption
  <2> QED
    BY <1>2, <2>1, SettlingIsSettled, SettledKeepsClock
<1>3. ASSUME NEW t \in Tasks, NEW l \in Limits, ApproveRenew(t, l) PROVE ClockInv'
  BY <1>3, RenewKeepsClock
<1>4. CASE Restart
  BY <1>4, RestartKeepsClock
<1>5. CASE Tick
  BY <1>5, TickKeepsClock
<1>6. CASE ClockStepsBack
  BY <1>6, BackKeepsClock
<1>7. ASSUME NEW t \in Tasks, End(t) PROVE ClockInv'
  BY <1>7, FrameKeepsClock DEF End, durable
<1>8. CASE Relaunch
  BY <1>8, FrameKeepsClock DEF Relaunch, durable
<1>9. CASE Crash
  BY <1>9, FrameKeepsClock DEF Crash, durable
<1>10. CASE UNCHANGED vars
  BY <1>10, FrameKeepsClock DEF vars, durable
<1> QED
  BY <1>1, <1>2, <1>3, <1>4, <1>5, <1>6, <1>7, <1>8, <1>9, <1>10 DEF Next

\* A version, once granted, is never zero again, and only a grant changes it.
LEMMA VersionsKept ==
    ASSUME StepsInv, [Next]_vars, NEW r \in rows
    PROVE  \/ budget'[r].version = budget[r].version
           \/ \E t \in Tasks, l \in Limits :
                ApproveRenew(t, l) /\ r = RootOf[t]
                /\ budget'[r].version = budget[r].version + 1
<1> USE DEF StepsInv
<1>1. /\ r \in Tasks /\ \A t \in Tasks : RootOf[t] \in Tasks
      /\ budget \in [Tasks -> [max_steps : Nat, max_seconds : Nat, steps : Nat,
                               seconds : Nat, version : Nat]]
  BY TreeAssumption DEF TypeOK
<1>2. ASSUME NEW t \in Tasks, bind(t) PROVE budget'[r] = budget[r]
  BY <1>1, <1>2 DEF bind
<1>3. ASSUME NEW t \in Tasks,
             snapshot(t) \/ start(t) \/ stop(t) \/ PauseBudget(t) \/ ApproveReuse(t)
      PROVE budget'[r].version = budget[r].version
  <2>1. budget' = [budget EXCEPT ![RootOf[t]].seconds = Spent(RootOf[t])]
    BY <1>3 DEF snapshot, start, stop, PauseBudget, ApproveReuse, Settle
  <2> QED
    BY <1>1, <2>1
<1>4. ASSUME NEW t \in Tasks, NEW P \in SUBSET Positions \ {{}}, reserve(t, P)
      PROVE budget'[r].version = budget[r].version
  BY <1>1, <1>4 DEF reserve
<1>5. ASSUME NEW t \in Tasks, NEW l \in Limits, ApproveRenew(t, l)
      PROVE \/ budget'[r].version = budget[r].version
            \/ r = RootOf[t] /\ budget'[r].version = budget[r].version + 1
  BY <1>1, <1>5 DEF ApproveRenew
<1>6. CASE Restart
  BY <1>1, <1>6 DEF Restart
<1>7. ASSUME \/ \E t \in Tasks : End(t)
             \/ Relaunch \/ Crash \/ Tick \/ ClockStepsBack \/ UNCHANGED vars
      PROVE budget' = budget
  BY <1>7 DEF End, Relaunch, Crash, Tick, ClockStepsBack, vars, durable
<1> QED
  BY <1>2, <1>3, <1>4, <1>5, <1>6, <1>7 DEF Next

\* Every step keeps the receipts.
LEMMA ReceiptNext ==
    ASSUME StepsInv, StepsInv', ReceiptInv, [Next]_vars
    PROVE  ReceiptInv'
<1> USE DEF StepsInv
<1>1. \A t \in Tasks : RootOf[t] \in Tasks
  BY TreeAssumption
<1>2. ASSUME NEW t \in Tasks, bind(t) PROVE ReceiptInv'
  <2>1. \A r \in rows' : budget'[r].version # 0
    BY <1>1, <1>2 DEF bind, ReceiptInv, TypeOK
  <2> QED
    BY <1>2, <2>1 DEF bind, ReceiptInv, ReceiptAskedAgain, decision
<1>3. \A r \in rows : budget'[r].version # 0
  <2> SUFFICES ASSUME NEW r \in rows PROVE budget'[r].version # 0
    OBVIOUS
  <2>1. budget[r].version \in Nat /\ budget[r].version # 0
    BY DEF ReceiptInv, TypeOK
  <2>2. budget'[r].version = budget[r].version \/ budget'[r].version = budget[r].version + 1
    BY VersionsKept
  <2> QED
    BY <2>1, <2>2
<1>4. ASSUME UNCHANGED <<rows, member, resume, request, launching, ended, up>>
      PROVE  ReceiptInv'
  BY <1>3, <1>4 DEF ReceiptInv, ReceiptAskedAgain
<1>5. ASSUME NEW t \in Tasks, snapshot(t) \/ start(t) \/ stop(t) PROVE ReceiptInv'
  BY <1>4, <1>5 DEF snapshot, start, stop, decision
<1>6. ASSUME NEW t \in Tasks, NEW P \in SUBSET Positions \ {{}}, reserve(t, P)
      PROVE ReceiptInv'
  BY <1>4, <1>6 DEF reserve, decision
<1>7. ASSUME NEW t \in Tasks, PauseBudget(t) PROVE ReceiptInv'
  <2>1. /\ rows' = rows /\ member' = member /\ resume' = resume /\ up
        /\ launching' = launching /\ ended' = ended /\ up' = up /\ t \notin resume
        /\ \A u \in Tasks \ {t} : request'[u] = request[u]
    BY <1>7 DEF PauseBudget, Working, Live, TypeOK
  <2> QED
    BY <1>3, <2>1 DEF ReceiptInv, ReceiptAskedAgain, TypeOK
<1>8. ASSUME NEW t \in Tasks,
             ApproveReuse(t) \/ \E l \in Limits : ApproveRenew(t, l)
      PROVE ReceiptInv'
  <2>1. /\ rows' = rows /\ member' = member /\ resume' = resume \cup {t} /\ up'
        /\ launching = NoTask /\ launching' = t /\ ended' = ended /\ t \in member /\ up
        /\ \A u \in Tasks \ {t} : request'[u] = request[u]
    <3>1. CASE ApproveReuse(t)
      BY <3>1 DEF ApproveReuse, Live, TypeOK
    <3>2. ASSUME NEW l \in Limits, ApproveRenew(t, l) PROVE request' = [request EXCEPT ![t] = NoRequest]
      BY <3>2 DEF ApproveRenew
    <3>3. ASSUME NEW l \in Limits, ApproveRenew(t, l)
          PROVE  /\ rows' = rows /\ member' = member /\ resume' = resume \cup {t} /\ up'
                 /\ launching = NoTask /\ launching' = t /\ ended' = ended /\ t \in member /\ up
      BY <3>3 DEF ApproveRenew, Live
    <3> QED
      BY <1>8, <3>1, <3>2, <3>3 DEF TypeOK
  <2>2. \A u \in resume' \ ended' : launching' = u \/ request'[u] # NoRequest
    BY <2>1, TreeAssumption DEF ReceiptInv, ReceiptAskedAgain, TypeOK
  <2> QED
    BY <1>3, <2>1, <2>2 DEF ReceiptInv, ReceiptAskedAgain
<1>9. ASSUME NEW t \in Tasks, End(t) PROVE ReceiptInv'
  <2>1. /\ rows' = rows /\ member' = member /\ resume' = resume
        /\ launching' = launching /\ ended' = ended \cup {t} /\ up' = up
        /\ \A u \in Tasks \ {t} : request'[u] = request[u]
    BY <1>9 DEF End, TypeOK, durable
  <2> QED
    BY <1>3, <2>1 DEF ReceiptInv, ReceiptAskedAgain, TypeOK
<1>10. CASE Relaunch
  <2>1. /\ rows' = rows /\ member' = member /\ resume' = resume \ {launching}
        /\ launching' = NoTask /\ ended' = ended /\ up' = up /\ request' = request
    BY <1>10 DEF Relaunch, durable
  <2> QED
    BY <1>3, <2>1 DEF ReceiptInv, ReceiptAskedAgain
<1>11. CASE Crash
  <2>1. /\ rows' = rows /\ member' = member /\ resume' = resume
        /\ launching' = NoTask /\ ~up'
    BY <1>11 DEF Crash, durable
  <2> QED
    BY <1>3, <2>1 DEF ReceiptInv, ReceiptAskedAgain
<1>12. CASE Restart
  <2>1. /\ rows' = rows /\ member' = member /\ resume' = resume
        /\ launching' = launching /\ ended' = ended /\ up'
    BY <1>12 DEF Restart
  <2>2. ASSUME NEW t \in resume \ ended PROVE request'[t] # NoRequest
    <3>1. t \in Tasks /\ budget[RootOf[t]].version # 0
      BY DEF ReceiptInv, RowsCover, TypeOK
    <3>2. request[t] = NoRequest => request'[t].version = budget[RootOf[t]].version
      BY <1>12, <3>1 DEF Restart
    <3>3. request[t] # NoRequest => request'[t] = request[t]
      BY <1>12, <3>1 DEF Restart
    <3> QED
      BY <3>1, <3>2, <3>3 DEF NoRequest
  <2> QED
    BY <1>3, <2>1, <2>2 DEF ReceiptInv, ReceiptAskedAgain
<1>13. CASE Tick \/ ClockStepsBack \/ UNCHANGED vars
  BY <1>4, <1>13 DEF Tick, ClockStepsBack, vars, durable, decision
<1> QED
  BY <1>2, <1>5, <1>6, <1>7, <1>8, <1>9, <1>10, <1>11, <1>12, <1>13 DEF Next

\* What a tree is charged is what it used, and a committed grant is not
\* forgotten (reserve, _settle, start, stop, _renew, approve's receipt).
THEOREM ChargesExact == Spec => []ChargesAreExact
<1>1. Init => ClockInv /\ ReceiptInv
  <2> SUFFICES ASSUME Init PROVE ClockInv /\ ReceiptInv
    OBVIOUS
  <2>1. ClockInv
    BY DEF Init, ClockInv, NoLease
  <2> QED
    BY <2>1 DEF Init, ReceiptInv, ReceiptAskedAgain
<1>2. StepsInv /\ StepsInv' /\ ClockInv /\ ReceiptInv /\ [Next]_vars
        => ClockInv' /\ ReceiptInv'
  BY ClockNext, ReceiptNext
<1>3. StepsInv /\ ClockInv /\ ReceiptInv => ChargesAreExact
  BY DEF StepsInv, ClockInv, ReceiptInv, ChargesAreExact, TimeCharged, Charged
<1> QED
  BY InitStepsInv, StepsInvNext, <1>1, <1>2, <1>3, PTL DEF Spec

\* No step but a grant takes back a charge.
LEMMA SecondsKept ==
    ASSUME StepsInv, [Next]_vars, NEW r \in rows
    PROVE  \/ budget'[r].seconds >= budget[r].seconds
           \/ \E t \in Tasks, l \in Limits : ApproveRenew(t, l) /\ r = RootOf[t]
<1> USE DEF StepsInv
<1>1. /\ r \in Tasks /\ \A t \in Tasks : RootOf[t] \in Tasks
      /\ budget[r].seconds \in Nat /\ budget[r].max_seconds \in Nat
      /\ budget \in [Tasks -> [max_steps : Nat, max_seconds : Nat, steps : Nat,
                               seconds : Nat, version : Nat]]
  BY TreeAssumption DEF TypeOK
<1>2. \A u \in Tasks : Spent(u) \in Nat /\ Spent(u) >= budget[u].seconds
  BY UnsettledNat
<1>3. ASSUME NEW t \in Tasks, bind(t) PROVE budget'[r] = budget[r]
  BY <1>1, <1>3 DEF bind
<1>4. ASSUME NEW t \in Tasks,
             \/ snapshot(t) \/ start(t) \/ stop(t) \/ PauseBudget(t) \/ ApproveReuse(t)
             \/ \E P \in SUBSET Positions \ {{}} : reserve(t, P)
      PROVE budget'[r].seconds >= budget[r].seconds
  <2>1. \/ budget' = [budget EXCEPT ![RootOf[t]].seconds = Spent(RootOf[t])]
        \/ \E P \in SUBSET Positions \ {{}} : reserve(t, P)
    BY <1>4 DEF snapshot, start, stop, PauseBudget, ApproveReuse, Settle
  <2>2. budget'[r].seconds = budget[r].seconds \/ budget'[r].seconds = Spent(r)
    <3>1. CASE budget' = [budget EXCEPT ![RootOf[t]].seconds = Spent(RootOf[t])]
      BY <1>1, <3>1
    <3>2. ASSUME NEW P \in SUBSET Positions \ {{}}, reserve(t, P)
          PROVE  budget'[r].seconds = budget[r].seconds \/ budget'[r].seconds = Spent(r)
      BY <1>1, <3>2 DEF reserve
    <3> QED
      BY <2>1, <3>1, <3>2
  <2> QED
    BY <1>1, <1>2, <2>2
<1>5. ASSUME NEW t \in Tasks, NEW l \in Limits, ApproveRenew(t, l)
      PROVE r = RootOf[t] \/ budget'[r] = budget[r]
  BY <1>1, <1>5 DEF ApproveRenew
<1>6. CASE Restart
  BY <1>1, <1>6 DEF Restart
<1>7. ASSUME \/ \E t \in Tasks : End(t)
             \/ Relaunch \/ Crash \/ Tick \/ ClockStepsBack \/ UNCHANGED vars
      PROVE budget' = budget
  BY <1>7 DEF End, Relaunch, Crash, Tick, ClockStepsBack, vars, durable
<1> QED
  BY <1>1, <1>3, <1>4, <1>5, <1>6, <1>7, SMTT(30) DEF Next

\* A grant consumes the request that quoted the version it replaces.
LEMMA GrantConsumes ==
    ASSUME StepsInv, NEW t \in Tasks, NEW l \in Limits, ApproveRenew(t, l)
    PROVE  /\ budget'[RootOf[t]].version = budget[RootOf[t]].version + 1
           /\ request[t].version = budget[RootOf[t]].version
           /\ request'[t] = NoRequest
           /\ \A u \in Tasks \ {t} : request'[u] = request[u]
BY TreeAssumption DEF StepsInv, TypeOK, ApproveRenew, Renews

\* A charge is taken back by a decision of the user and by nothing else, and
\* the receipt of a restart is no such decision (_renew, resolve_approval).
THEOREM OnlyDecisionsRenew == Spec => OnlyADecisionRenews
<1> DEFINE Refund(r) ==
             budget'[r].seconds < budget[r].seconds \/ budget'[r].version # budget[r].version
           Answered(t) ==
             up /\ request[t].reuse /\ request'[t] = NoRequest /\ ~Exhausted(RootOf[t])
<1>1. ASSUME StepsInv, ReceiptInv, [Next]_vars, NEW r \in rows, Refund(r)
      PROVE  /\ budget'[r].version = budget[r].version + 1
             /\ \E t \in TreeOf(r) : /\ request[t].version = budget[r].version
                                     /\ request'[t] = NoRequest
  <2>1. budget[r].seconds \in Nat /\ r \in Tasks
    BY <1>1 DEF StepsInv, TypeOK
  <2>2. budget'[r].seconds \in Nat
    BY <1>1, StepsInvNext, <2>1 DEF StepsInv, TypeOK
  <2>3. PICK t \in Tasks, l \in Limits : ApproveRenew(t, l) /\ r = RootOf[t]
    BY <1>1, <2>1, <2>2, SecondsKept, VersionsKept
  <2> QED
    BY <1>1, <2>3, GrantConsumes DEF TreeOf
<1>2. ASSUME StepsInv, ReceiptInv, [Next]_vars, NEW t \in resume, Answered(t)
      PROVE  budget'[RootOf[t]].version = budget[RootOf[t]].version
  <2>1. t \in Tasks /\ RootOf[t] \in rows
    BY <1>1, <1>2 DEF StepsInv, TypeOK, RowsCover, ReceiptInv
  <2> SUFFICES ASSUME NEW u \in Tasks, NEW l \in Limits, ApproveRenew(u, l) PROVE FALSE
    BY <1>2, <2>1, VersionsKept
  <2>2. CASE u = t
    BY <1>2, <2>2 DEF ApproveRenew, Renews
  <2>3. CASE u # t
    <3>1. request'[t] = request[t]
      BY <1>2, <2>1, <2>3, GrantConsumes
    <3> QED
      BY <1>2, <3>1 DEF NoRequest
  <2> QED
    BY <2>2, <2>3
<1>3. StepsInv /\ ReceiptInv /\ [Next]_vars
        => [\A r \in rows : Refund(r)
              => /\ budget'[r].version = budget[r].version + 1
                 /\ \E t \in TreeOf(r) : /\ request[t].version = budget[r].version
                                          /\ request'[t] = NoRequest]_vars
  BY <1>1
<1>4. StepsInv /\ ReceiptInv /\ [Next]_vars
        => [\A t \in resume : Answered(t)
              => budget'[RootOf[t]].version = budget[RootOf[t]].version]_vars
  BY <1>2
<1>5. Init => ReceiptInv
  BY DEF Init, ReceiptInv, ReceiptAskedAgain
<1>6. StepsInv /\ StepsInv' /\ ReceiptInv /\ [Next]_vars => ReceiptInv'
  BY ReceiptNext
<1> QED
  BY InitStepsInv, StepsInvNext, <1>3, <1>4, <1>5, <1>6, PTL
     DEF Spec, OnlyADecisionRenews, OnlyADecisionRefunds, ReceiptNeverRenews
=============================================================================
