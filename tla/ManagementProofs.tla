-------------------------- MODULE ManagementProofs --------------------------
(***************************************************************************)
(* What is proved of the panels of MCManagement: the lemmas on each panel's  *)
(* steps and its invariant, and the theorems on the panels together.         *)
(***************************************************************************)
EXTENDS MCManagement, FiniteSetTheorems, SequenceTheorems, TLAPS

-----------------------------------------------------------------------------
(* Sequences. *)

LEMMA SeqIsOf == ASSUME NEW S, NEW q \in Seq(S) PROVE SeqOf(q) /\ Len(q) \in Nat
<1>1. Len(q) \in Nat /\ q = [i \in 1..Len(q) |-> q[i]]
  OBVIOUS
<1>2. PICK T : T = {q[i] : i \in 1..Len(q)}
  OBVIOUS
<1>3. \A i \in 1..Len(q) : q[i] \in T
  BY <1>2
<1>4. q \in [1..Len(q) -> T]
  BY <1>1, <1>3
<1>5. q \in Seq(T)
  BY <1>1, <1>4
<1> QED
  BY <1>1, <1>2, <1>5 DEF SeqOf

LEMMA SeqReplaced ==
  ASSUME NEW q, SeqOf(q), NEW i, i \in 1..Len(q), NEW x
  PROVE  Changed([q EXCEPT ![i] = x], q, i, x)
<1> DEFINE T == {q[k] : k \in 1..Len(q)} \cup {x}
           p == [q EXCEPT ![i] = x]
<1>1. Len(q) \in Nat /\ DOMAIN q = 1..Len(q)
  BY DEF SeqOf
<1>2. p = [k \in 1..Len(q) |-> IF k = i THEN x ELSE q[k]]
  BY <1>1
<1>3. p \in [1..Len(q) -> T]
  BY <1>2
<1>4. p \in Seq(T)
  BY <1>1, <1>3
<1>5. Len(p) = Len(q)
  BY <1>1, <1>2, <1>4
<1> QED
  BY <1>2, <1>4, <1>5, SeqIsOf DEF Changed

LEMMA SeqAppended ==
  ASSUME NEW q, SeqOf(q), NEW x
  PROVE  /\ SeqOf(Append(q, x)) /\ Len(Append(q, x)) = Len(q) + 1 /\ Len(q) \in Nat
         /\ Append(q, x)[Len(q) + 1] = x /\ \A k \in 1..Len(q) : Append(q, x)[k] = q[k]
<1> DEFINE T == {q[k] : k \in 1..Len(q)} \cup {x}
<1>1. q \in Seq({q[k] : k \in 1..Len(q)})
  BY DEF SeqOf
<1>2. q \in Seq(T) /\ x \in T
  BY <1>1
<1> HIDE DEF T
<1>3. Append(q, x) \in Seq(T)
  BY <1>2
<1>4. SeqOf(Append(q, x))
  BY <1>3, SeqIsOf
<1> QED
  BY <1>2, <1>4

LEMMA SeqLessFirst ==
  ASSUME NEW q, SeqOf(q), q # <<>>
  PROVE  /\ SeqOf(Tail(q)) /\ Len(q) \in Nat \ {0} /\ Len(Tail(q)) = Len(q) - 1 /\ Head(q) = q[1]
         /\ \A k \in 1..(Len(q) - 1) : Tail(q)[k] = q[k + 1]
<1> DEFINE T == {q[k] : k \in 1..Len(q)}
<1>1. q \in Seq(T)
  BY DEF SeqOf
<1> HIDE DEF T
<1>2. Tail(q) \in Seq(T)
  BY <1>1
<1>3. SeqOf(Tail(q))
  BY <1>2, SeqIsOf
<1> QED
  BY <1>1, <1>3

-----------------------------------------------------------------------------
(* The renewal of the sign-in, for any number of windows, requests and        *)
(* expiries.                                                                 *)

\* The steps of the host on a refresh keep its lock and its finding
\* (identity.py: the rotation is one transaction).
LEMMA HostKeepsRefresh ==
  ASSUME RefreshInv, NEW w \in Windows,
         Access!hostChecks(w) \/ Access!hostRotates(w) \/ Access!hostMe(w) \/ Access!refreshLost(w)
  PROVE  RefreshInv'
<1>2. CASE Access!hostChecks(w)
  BY <1>2, AccessAssumption DEF RefreshInv, AccessShape, LockIsHeld, CheckedIsCurrent, Access!Asking, Access!hostChecks, Access!Answers, AccessRefreshes
<1>3. CASE Access!hostRotates(w)
  <2>1. \A v \in Windows : v # w => ~Access!Asking(v, "checked")
    BY <1>3 DEF RefreshInv, AccessShape, LockIsHeld, Access!Asking, Access!hostRotates
  <2>2. AccessShape'
    <3>1. refreshing[w] \in AccessRefreshes /\ identity.proof + 1 \in Nat
      BY <1>3 DEF RefreshInv, AccessShape, Access!Asking, Access!hostRotates
    <3> QED BY <1>3, <3>1 DEF RefreshInv, AccessShape, Access!hostRotates, Access!Answers, Access!Issued, AccessCookies, AccessRefreshes
  <2>3. LockIsHeld'
    BY <1>3 DEF RefreshInv, AccessShape, LockIsHeld, Access!Asking, Access!hostRotates, AccessRefreshes
  <2>4. CheckedIsCurrent'
    BY <1>3, <2>1, AccessAssumption DEF RefreshInv, AccessShape, CheckedIsCurrent, Access!Asking, Access!hostRotates, AccessRefreshes, Access!Answers
  <2> QED BY <2>2, <2>3, <2>4 DEF RefreshInv
<1>4. CASE Access!hostMe(w)
  BY <1>4, AccessAssumption DEF RefreshInv, AccessShape, LockIsHeld, CheckedIsCurrent, Access!Asking, Access!hostMe, Access!Answers, AccessRefreshes
<1>5. CASE Access!refreshLost(w)
  BY <1>5, AccessAssumption DEF RefreshInv, AccessShape, LockIsHeld, CheckedIsCurrent, Access!Asking, Access!refreshLost, Access!Answers, AccessRefreshes
<1> QED BY <1>2, <1>3, <1>4, <1>5

\* A window holds the lock from its first question to the end of its refresh
\* (refreshSession, api.ts).
LEMMA LockKeepsRefresh ==
  ASSUME RefreshInv, NEW w \in Windows,
         Access!acquire(w) \/ Access!meAnswered(w) \/ Access!postAnswered(w)
  PROVE  RefreshInv'
<1>2. CASE Access!acquire(w)
  BY <1>2, AccessAssumption DEF RefreshInv, AccessShape, LockIsHeld, CheckedIsCurrent, Access!Asking, Access!acquire, Access!Ask, Access!MayEnter, AccessRefreshes
<1>3. CASE Access!meAnswered(w)
  <2>1. CASE Access!Ask(w, "post") /\ UNCHANGED <<holder, accessCall>>
    BY <1>3, <2>1 DEF RefreshInv, AccessShape, LockIsHeld, CheckedIsCurrent, Access!Asking, Access!meAnswered, Access!Ask, AccessRefreshes
  <2>2. CASE Access!Settle(w, refreshing[w].answer = "ok", jar)
    BY Zenon, <1>3, <2>2 DEF RefreshInv, AccessShape, LockIsHeld, CheckedIsCurrent, Access!Asking, Access!meAnswered, Access!Settle, Access!Over
  <2> QED BY <1>3, <2>1, <2>2 DEF Access!meAnswered
<1>4. CASE Access!postAnswered(w)
  BY Zenon, <1>4 DEF RefreshInv, AccessShape, LockIsHeld, CheckedIsCurrent, Access!Asking, Access!postAnswered, Access!Settle, Access!Over, AccessRefreshes
<1> QED BY <1>2, <1>3, <1>4

\* A request only starts a refresh that waits for the lock (request, gql).
LEMMA CallsKeepRefresh ==
  ASSUME RefreshInv, NEW n \in Access!Calls, Access!hostServes(n) \/ Access!callLost(n) \/ Access!answered(n)
  PROVE  RefreshInv'
<1>2. CASE Access!hostServes(n)
  BY <1>2 DEF RefreshInv, AccessShape, LockIsHeld, CheckedIsCurrent, Access!Asking, Access!hostServes, Access!RunsOut
<1>3. CASE Access!callLost(n)
  BY <1>3 DEF RefreshInv, AccessShape, LockIsHeld, CheckedIsCurrent, Access!Asking, Access!callLost
<1>4. CASE Access!answered(n)
  <2>1. \/ UNCHANGED refreshing
        \/ refreshing' = [refreshing EXCEPT ![accessCall[n].window] =
                            [pc |-> "waiting", with |-> Access!NoCookies, answer |-> None]]
           /\ refreshing[accessCall[n].window] = None
    BY <1>4 DEF Access!answered, Access!Refresh, Access!readOnly
  <2>2. [pc |-> "waiting", with |-> Access!NoCookies, answer |-> None] \in AccessRefreshes
    BY DEF Access!NoCookies, AccessCookies, AccessRefreshes
  <2> QED BY <1>4, <2>1, <2>2 DEF RefreshInv, AccessShape, LockIsHeld, CheckedIsCurrent, Access!Asking, Access!answered
<1> QED BY <1>2, <1>3, <1>4

\* Each step of the specification keeps the invariant of the refreshes.
LEMMA RefreshStep == ASSUME RefreshInv, Access!Next \/ UNCHANGED accessVars PROVE RefreshInv'
<1>1. CASE UNCHANGED accessVars
  BY <1>1 DEF RefreshInv, AccessShape, LockIsHeld, CheckedIsCurrent, Access!Asking, accessVars
<1>2. CASE Access!expire \/ Access!revoke
  BY <1>2 DEF RefreshInv, AccessShape, LockIsHeld, CheckedIsCurrent, Access!Asking, Access!expire, Access!revoke, Access!RunsOut
<1>3. ASSUME NEW n \in Access!Calls, NEW w \in Windows, NEW kind \in {"read", "write"}, Access!request(n, w, kind)
    PROVE  RefreshInv'
  BY <1>3 DEF RefreshInv, AccessShape, LockIsHeld, CheckedIsCurrent, Access!Asking, Access!request
<1> QED BY <1>1, <1>2, <1>3, HostKeepsRefresh, LockKeepsRefresh, CallsKeepRefresh DEF Access!Next

\* No refresh of the windows uses a proof that was used: however many they are,
\* none of them ends the session they share (api.ts:15-16, identity.py:509-511).
LEMMA RotatesTheCurrentProof ==
  ASSUME RefreshInv, NEW w \in Windows, Access!hostRotates(w)
  PROVE  identity'.alive = identity.alive
BY DEF RefreshInv, AccessShape, CheckedIsCurrent, Access!Asking, Access!hostRotates

\* A refresh that is over sends the requests that waited for it, or fails them:
\* none of them was carried out by it.
LEMMA SettleKeepsCalls ==
  ASSUME CallInv, NEW w, NEW ok \in BOOLEAN, NEW cookies \in AccessCookies,
         Access!Settle(w, ok, cookies), UNCHANGED ran
  PROVE  CallInv'
<1>1. ASSUME NEW n \in Access!Calls
      PROVE  /\ accessCall'[n] \in {None} \cup AccessRequests
             /\ (accessCall'[n] = None) <=> (accessCall[n] = None)
             /\ accessCall[n] # None =>
                  /\ accessCall'[n].kind = accessCall[n].kind
                  /\ (MayRun(accessCall'[n]) => MayRun(accessCall[n]))
  <2>1. accessCall[n] \in {None} \cup AccessRequests
    BY DEF CallInv
  <2>2. cookies.access \in Nat \cup {None}
    BY DEF AccessCookies
  <2>3. CASE ~Access!Waiting(n, w)
    BY Zenon, <2>1, <2>3 DEF Access!Settle
  <2>4. CASE Access!Waiting(n, w)
    <3>1. accessCall[n] \in AccessRequests /\ accessCall[n].pc = "waiting"
      BY <2>1, <2>4 DEF Access!Waiting
    <3>2. CASE ok
      <4>1. accessCall'[n] = [accessCall[n] EXCEPT !.pc = "sent", !.with = cookies.access, !.answer = None]
        BY Zenon, <2>4, <3>2 DEF Access!Settle
      <4>2. accessCall'[n] \in AccessRequests
        BY <3>1, <4>1, <2>2 DEF AccessRequests
      <4> QED BY <3>1, <4>1, <4>2, AccessAssumption DEF AccessRequests, MayRun
    <3>3. CASE ~ok
      <4>1. accessCall'[n] = [accessCall[n] EXCEPT !.pc = "ended"]
        BY <2>4, <3>3 DEF Access!Settle
      <4>2. accessCall'[n] \in AccessRequests
        BY <3>1, <4>1 DEF AccessRequests
      <4> QED BY <3>1, <4>1, <4>2, AccessAssumption DEF AccessRequests, MayRun
    <3> QED BY <3>2, <3>3
  <2> QED BY <2>3, <2>4
<1>2. accessCall' \in [Access!Calls -> {None} \cup AccessRequests]
  BY Zenon, <1>1 DEF Access!Settle
<1> QED BY <1>1, <1>2 DEF CallInv, UnrunYet, Access!WriteRunsOnce

\* What the host and the windows do with a request keeps a write unrun as long
\* as it may be sent again: "a partially executed mutation must never be
\* replayed" (api.ts:64-66).
LEMMA RequestsKeepCalls ==
  ASSUME CallInv, NEW n \in Access!Calls, Access!hostServes(n) \/ Access!callLost(n) \/ Access!answered(n)
  PROVE  CallInv'
<1>1. accessCall[n] \in AccessRequests /\ accessCall[n] # None
  BY DEF CallInv, Access!hostServes, Access!callLost, Access!answered
<1>2. CASE Access!hostServes(n)
  <2>1. PICK answer \in {"ok", "field", "401"} :
          /\ accessCall' = [accessCall EXCEPT ![n] = [@ EXCEPT !.pc = "answered", !.answer = answer]]
          /\ ran' = IF answer = "401" THEN ran ELSE [ran EXCEPT ![n] = @ + 1]
    BY <1>2 DEF Access!hostServes, CallInv
  <2>2. /\ accessCall'[n] \in AccessRequests /\ accessCall'[n].kind = accessCall[n].kind
        /\ accessCall'[n].pc = "answered" /\ accessCall'[n].answer = answer
    BY <1>1, <2>1 DEF CallInv, AccessRequests, Access!Answers
  <2>3. accessCall[n].kind = "write" => ran[n] = 0
    BY <1>1, <1>2 DEF CallInv, UnrunYet, MayRun, Access!hostServes
  <2> QED BY <1>1, <2>1, <2>2, <2>3, AccessAssumption DEF CallInv, UnrunYet, Access!WriteRunsOnce, MayRun
<1>3. CASE Access!callLost(n)
  <2>1. accessCall' = [accessCall EXCEPT ![n] = [@ EXCEPT !.pc = "answered", !.answer = "lost"]]
    BY <1>3 DEF Access!callLost, CallInv
  <2>2. /\ accessCall'[n] \in AccessRequests /\ accessCall'[n].kind = accessCall[n].kind
        /\ accessCall'[n].pc = "answered" /\ accessCall'[n].answer = "lost"
    BY <1>1, <2>1 DEF CallInv, AccessRequests, Access!Answers
  <2>3. ran' = ran
    BY <1>3 DEF Access!callLost
  <2>4. ~MayRun(accessCall'[n]) /\ accessCall'[n] # None
    BY <2>2, AccessAssumption DEF MayRun, AccessRequests
  <2>5. accessCall' \in [Access!Calls -> {None} \cup AccessRequests]
    BY <2>1, <2>2 DEF CallInv
  <2>6. \A m \in Access!Calls : m # n => accessCall'[m] = accessCall[m]
    BY <2>1 DEF CallInv
  <2>7. UnrunYet'
    BY <2>3, <2>4, <2>6 DEF CallInv, UnrunYet, MayRun
  <2>8. Access!WriteRunsOnce'
    BY <1>1, <2>2, <2>3, <2>6 DEF CallInv, Access!WriteRunsOnce
  <2> QED
    BY <2>3, <2>5, <2>7, <2>8 DEF CallInv
<1>4. CASE Access!answered(n)
  <2>1. PICK q \in AccessRequests :
          /\ accessCall' = [accessCall EXCEPT ![n] = q]
          /\ q.kind = accessCall[n].kind
          /\ (q.kind = "write" /\ MayRun(q)) => accessCall[n].answer = "401"
    <3>1. CASE accessCall[n].answer = "401" /\ accessCall[n].retry
      <4> DEFINE r == [[accessCall[n] EXCEPT !.retry = FALSE] EXCEPT !.pc = "waiting"]
      <4>1. accessCall' = [accessCall EXCEPT ![n] = r]
        BY <1>4, <3>1 DEF Access!answered, Access!Refresh
      <4>2. r \in AccessRequests /\ r.kind = accessCall[n].kind
        BY <1>1 DEF AccessRequests
      <4> QED BY <3>1, <4>1, <4>2
    <3>2. CASE ~(accessCall[n].answer = "401" /\ accessCall[n].retry) /\ accessCall[n].answer = "field" /\ accessCall[n].again /\ Access!readOnly(accessCall[n])
      <4> DEFINE r == [[accessCall[n] EXCEPT !.again = FALSE, !.retry = TRUE] EXCEPT !.pc = "waiting"]
      <4>1. accessCall' = [accessCall EXCEPT ![n] = r]
        BY <1>4, <3>2 DEF Access!answered, Access!Refresh
      <4>2. r \in AccessRequests /\ r.kind = accessCall[n].kind /\ r.kind = "read"
        BY <1>1, <3>2 DEF AccessRequests, Access!readOnly
      <4> QED BY <4>1, <4>2
    <3>3. CASE ~(accessCall[n].answer = "401" /\ accessCall[n].retry) /\ ~(accessCall[n].answer = "field" /\ accessCall[n].again /\ Access!readOnly(accessCall[n]))
      <4> DEFINE r == [accessCall[n] EXCEPT !.pc = "ended"]
      <4>1. accessCall' = [accessCall EXCEPT ![n] = r]
        BY <1>4, <3>3 DEF Access!answered
      <4>2. r \in AccessRequests /\ r.kind = accessCall[n].kind /\ ~MayRun(r)
        BY <1>1 DEF AccessRequests, MayRun
      <4> QED BY <4>1, <4>2
    <3> QED BY <3>1, <3>2, <3>3
  <2>2. ran' = ran /\ accessCall[n].pc = "answered"
    BY <1>4 DEF Access!answered
  <2>3. accessCall' \in [Access!Calls -> {None} \cup AccessRequests]
    BY <2>1 DEF CallInv
  <2>4. accessCall'[n] = q /\ \A m \in Access!Calls : m # n => accessCall'[m] = accessCall[m]
    BY <2>1 DEF CallInv
  <2>5. UnrunYet'
    BY <1>1, <2>1, <2>2, <2>4, AccessAssumption DEF CallInv, UnrunYet, MayRun
  <2>6. Access!WriteRunsOnce'
    BY <1>1, <2>1, <2>2, <2>4 DEF CallInv, Access!WriteRunsOnce
  <2> QED
    BY <2>2, <2>3, <2>5, <2>6 DEF CallInv
<1> QED BY <1>2, <1>3, <1>4

\* However access runs out and whatever is lost, a write is carried out once at
\* most, though its request may be sent twice (api.ts:61-70).
LEMMA CallStep ==
  ASSUME RefreshInv, CallInv, Access!Next \/ UNCHANGED accessVars
  PROVE  CallInv'
<1>1. CASE UNCHANGED accessVars \/ Access!expire \/ Access!revoke
  BY <1>1 DEF CallInv, UnrunYet, Access!WriteRunsOnce, MayRun, accessVars, Access!expire, Access!revoke
<1>2. ASSUME NEW n \in Access!Calls, NEW w \in Windows, NEW kind \in {"read", "write"}, Access!request(n, w, kind)
    PROVE  CallInv'
  BY <1>2, AccessAssumption DEF RefreshInv, AccessShape, AccessCookies, CallInv, UnrunYet, Access!WriteRunsOnce, MayRun, Access!request, AccessRequests
<1>3. ASSUME NEW w \in Windows, Access!hostChecks(w) \/ Access!hostRotates(w) \/ Access!hostMe(w) \/ Access!refreshLost(w) \/ Access!acquire(w)
    PROVE  CallInv'
  BY <1>3 DEF CallInv, UnrunYet, Access!WriteRunsOnce, MayRun, Access!hostChecks, Access!hostRotates, Access!hostMe, Access!refreshLost, Access!acquire
<1>4. ASSUME NEW w \in Windows, Access!meAnswered(w) PROVE CallInv'
  <2>1. CASE Access!Ask(w, "post") /\ UNCHANGED <<holder, accessCall>>
    BY <2>1, <1>4 DEF CallInv, UnrunYet, Access!WriteRunsOnce, MayRun, Access!meAnswered
  <2>2. CASE Access!Settle(w, refreshing[w].answer = "ok", jar)
    BY <2>2, <1>4, SettleKeepsCalls DEF RefreshInv, AccessShape, Access!meAnswered
  <2> QED BY <1>4, <2>1, <2>2 DEF Access!meAnswered
<1>5. ASSUME NEW w \in Windows, Access!postAnswered(w) PROVE CallInv'
  <2>1. /\ refreshing[w].with \in AccessCookies /\ jar \in AccessCookies
    BY <1>5 DEF RefreshInv, AccessShape, Access!postAnswered, AccessRefreshes
  <2>2. \E cookies \in AccessCookies : Access!Settle(w, refreshing[w].answer = "ok", cookies)
    BY <1>5, <2>1 DEF Access!postAnswered
  <2> QED BY <1>5, <2>2, SettleKeepsCalls DEF Access!postAnswered
<1> QED BY <1>1, <1>2, <1>3, <1>4, <1>5, RequestsKeepCalls DEF Access!Next

\* The session, once it has ended, stays so: every other step of the host and of
\* the windows leaves the refusals and what they prove alone.
LEMMA RefusalsStand ==
  ASSUME RefreshInv, RefusedIsEnded, Access!Next \/ UNCHANGED accessVars
  PROVE  RefusedIsEnded'
<1> USE DEF RefreshInv, AccessShape, RefusedIsEnded, Access!Asking
<1>1. CASE UNCHANGED accessVars
  BY <1>1 DEF accessVars
<1>2. CASE Access!expire \/ Access!revoke
  BY <1>2 DEF Access!expire, Access!revoke, Access!RunsOut
<1>3. ASSUME NEW n \in Access!Calls, Access!hostServes(n) \/ Access!callLost(n) PROVE RefusedIsEnded'
  BY <1>3 DEF Access!hostServes, Access!callLost, Access!RunsOut
<1>4. ASSUME NEW n \in Access!Calls, Access!answered(n) PROVE RefusedIsEnded'
  <2>1. \/ UNCHANGED refreshing
        \/ refreshing' = [refreshing EXCEPT ![accessCall[n].window] =
                            [pc |-> "waiting", with |-> Access!NoCookies, answer |-> None]]
    BY <1>4 DEF Access!answered, Access!Refresh, Access!readOnly
  <2> QED
    BY <1>4, <2>1 DEF Access!answered
<1>5. ASSUME NEW n \in Access!Calls, NEW w \in Windows, NEW kind \in {"read", "write"},
           Access!request(n, w, kind)
    PROVE  RefusedIsEnded'
  BY <1>5 DEF Access!request
<1>6. ASSUME NEW w \in Windows,
           Access!hostChecks(w) \/ Access!hostMe(w) \/ Access!refreshLost(w) \/ Access!acquire(w)
    PROVE  RefusedIsEnded'
  BY <1>6, AccessAssumption DEF Access!hostChecks, Access!hostMe, Access!refreshLost, Access!acquire, Access!Ask, AccessRefreshes, Access!Answers
<1>7. ASSUME NEW w \in Windows, Access!hostRotates(w) PROVE RefusedIsEnded'
  BY <1>7 DEF Access!hostRotates, AccessRefreshes
<1>8. ASSUME NEW w \in Windows, Access!meAnswered(w) \/ Access!postAnswered(w) PROVE RefusedIsEnded'
  <2>1. identity' = identity /\ (Access!Ask(w, "post") \/ refreshing' = [refreshing EXCEPT ![w] = None])
    BY Zenon, <1>8 DEF Access!meAnswered, Access!postAnswered, Access!Settle, Access!Over
  <2> QED
    BY <2>1, AccessAssumption DEF Access!Ask, Access!Answers
<1> QED
  BY <1>1, <1>2, <1>3, <1>4, <1>5, <1>6, <1>7, <1>8 DEF Access!Next

LEMMA AccessInitInv == Access!Init => AccessInv
BY DEF Access!Init, AccessInv, RefreshInv, AccessShape, LockIsHeld, CheckedIsCurrent, Access!Asking,
       Access!Issued, Access!NoCookies, AccessCookies, CallInv, UnrunYet, Access!WriteRunsOnce, RefusedIsEnded

LEMMA AccessNext == ASSUME AccessInv, Access!Next \/ UNCHANGED accessVars PROVE AccessInv'
BY RefreshStep, CallStep, RefusalsStand DEF AccessInv

\* The windows are signed out by a refresh only when the session has ended: no
\* timeout and no race does it (api.ts:24-26).
LEMMA SignsOutWhenEnded ==
  ASSUME AccessInv, Access!Next \/ UNCHANGED accessVars, signed' # signed
  PROVE  ~identity.alive
<1>1. PICK w \in Windows : Access!postAnswered(w)
  BY Zenon DEF Access!Next, accessVars, Access!expire, Access!revoke, Access!hostServes, Access!callLost, Access!answered,
         Access!request, Access!hostChecks, Access!hostRotates, Access!hostMe, Access!refreshLost, Access!acquire,
         Access!meAnswered
<1> QED
  BY <1>1 DEF AccessInv, RefusedIsEnded, Access!postAnswered, Access!Proves

-----------------------------------------------------------------------------
(* The layout of the dock. *)

LEMMA PanelNames == Dock!Panels = {"editor", "conversation", "browser"}
BY DEF Dock!Panels, Dock!Order

LEMMA EarliestIsIn == ASSUME NEW S, S \subseteq Dock!Panels, S # {} PROVE Dock!Earliest(S) \in S
<1> DEFINE First(i) == Dock!Order[i] \in S /\ \A j \in 1..(i - 1) : Dock!Order[j] \notin S
<1>1. DOMAIN Dock!Order = 1..3 /\ Dock!Order[1] = "editor" /\ Dock!Order[2] = "conversation" /\ Dock!Order[3] = "browser"
  BY DEF Dock!Order
<1>2. \E i \in 1..3 : First(i)
  <2>1. CASE "editor" \in S
    BY <1>1, <2>1
  <2>2. CASE "editor" \notin S /\ "conversation" \in S
    BY <1>1, <2>2
  <2>3. CASE "editor" \notin S /\ "conversation" \notin S
    <3>1. "browser" \in S
      BY <2>3, PanelNames
    <3>2. \A j \in 1..(3 - 1) : j = 1 \/ j = 2
      OBVIOUS
    <3>3. First(3)
      BY <1>1, <2>3, <3>1, <3>2
    <3> QED
      BY <3>3
  <2> QED
    BY <2>1, <2>2, <2>3
<1>3. First(CHOOSE i \in DOMAIN Dock!Order : First(i))
  BY <1>1, <1>2
<1> QED
  BY <1>3 DEF Dock!Earliest

\* What is in the center is arranged, whatever is hidden beside it.
LEMMA CenterIsOpen ==
    ASSUME NEW s, GoodSnapshot(s)
    PROVE  \E p \in Dock!Panels : Dock!effective(s)[p] = "main" /\ p \in Dock!opened(s)
BY DEF GoodSnapshot, Dock!HasMain, Dock!effective, Dock!opened

LEMMA CenterShows ==
    ASSUME NEW s, GoodSnapshot(s), NEW v, v.expanded \in Dock!opened(s) \cup {None}
    PROVE  /\ Dock!visiblePanels(s, v) # {} /\ Dock!visiblePanels(s, v) \subseteq Dock!Panels
           /\ v.expanded = None =>
                \A p, q \in Dock!visiblePanels(s, v) : Dock!effective(s)[p] = Dock!effective(s)[q] => p = q
<1>1. CASE v.expanded # None
  BY <1>1 DEF Dock!visiblePanels, Dock!opened
<1>2. CASE v.expanded = None
  <2> DEFINE group == {p \in Dock!opened(s) : v.narrow \/ Dock!effective(s)[p] = "main"}
             center == {p \in group : Dock!effective(s)[p] = "main"}
             tab == Dock!selectedFor(s, v, "main")
  <2>1. center # {} /\ center \subseteq Dock!Panels /\ center \subseteq group
    BY CenterIsOpen DEF Dock!opened
  <2>2. Dock!Earliest(center) \in center
    BY <2>1, EarliestIsIn
  <2>3. tab \in group
    BY <2>1, <2>2 DEF Dock!selectedFor, Dock!Slot
  <2>4. CASE ~v.narrow
    <3>1. Dock!effective(s)[tab] = "main" /\ tab \in Dock!opened(s)
      BY <2>3, <2>4
    <3> QED
      BY <1>2, <3>1 DEF Dock!visiblePanels, Dock!opened
  <2>5. CASE v.narrow
    <3>1. \A r : Dock!selectedFor(s, v, r) = tab
      BY <2>5 DEF Dock!selectedFor, Dock!Slot
    <3>2. tab \in Dock!opened(s)
      BY <2>3
    <3> QED
      BY <1>2, <3>1, <3>2 DEF Dock!visiblePanels, Dock!opened
  <2> QED
    BY <2>4, <2>5
<1> QED
  BY <1>1, <1>2

LEMMA DockInvImplies == DockInv => Dock!NeverBlank
BY CenterShows DEF DockInv, Dock!NeverBlank, GoodSnapshot

-----------------------------------------------------------------------------
\* Views and arrangements that commands make.
LEMMA ViewKept ==
    ASSUME NEW v, GoodView(v)
    PROVE  /\ \A x : GoodView([v EXCEPT !.expanded = x]) /\ [v EXCEPT !.expanded = x].expanded = x
           /\ \A x : GoodView([v EXCEPT !.closed = x])
           /\ \A r, p : GoodView([v EXCEPT !.active[r] = p])
           /\ GoodView([v EXCEPT !.narrow = ~@])
BY DEF GoodView

LEMMA ActivateKeepsView ==
    ASSUME NEW s, NEW v, GoodView(v), NEW p PROVE GoodView(Dock!activate(s, v, p))
<1> DEFINE r == Dock!Slot(v, Dock!effective(s)[p])
           w == [v EXCEPT !.active[r] = p]
<1>1. GoodView(w)
  BY ViewKept
<1>2. /\ GoodView([w EXCEPT !.floatingChat = TRUE, !.chatExpanded = TRUE])
      /\ GoodView([w EXCEPT !.expanded = p])
  BY <1>1 DEF GoodView
<1> QED
  BY <1>1, <1>2 DEF Dock!activate

LEMMA DockedIsGood ==
    ASSUME GoodSnapshot(now), NEW d, d = [p \in Dock!Panels |-> d[p]], Dock!HasMain(d)
    PROVE  GoodSnapshot(Dock!Docked(d)) /\ Dock!Docked(d).layout = now.layout
BY DEF GoodSnapshot, Dock!Docked

LEMMA MovedIsGood ==
    ASSUME GoodSnapshot(now), NEW p, NEW r
    PROVE  LET d == Dock!Moved(p, r) IN d = [q \in Dock!Panels |-> d[q]] /\ Dock!HasMain(d)
<1> DEFINE next == [now.dock EXCEPT ![p] = r]
           siblings == Dock!opened(now) \ {p}
           sibling == CASE "conversation" \in siblings -> "conversation"
                        [] "conversation" \notin siblings /\ siblings # {} -> Dock!Earliest(siblings)
                        [] OTHER -> p
<1>1. next = [q \in Dock!Panels |-> next[q]]
  BY DEF GoodSnapshot
<1>2. CASE Dock!HasMain(next)
  BY <1>1, <1>2 DEF Dock!Moved
<1>3. CASE ~Dock!HasMain(next)
  <2>1. p \in Dock!Panels
    BY <1>3 DEF GoodSnapshot, Dock!HasMain
  <2>2. siblings \subseteq Dock!Panels
    BY DEF Dock!opened
  <2>3. sibling \in Dock!Panels
    BY <2>1, <2>2, EarliestIsIn
  <2>4. Dock!Moved(p, r) = [next EXCEPT ![sibling] = "main"]
    BY <1>3 DEF Dock!Moved
  <2> QED
    BY <1>1, <2>3, <2>4 DEF Dock!HasMain
<1> QED
  BY <1>2, <1>3

LEMMA DefaultIsGood ==
    ASSUME NEW l \in Dock!Persistent
    PROVE  GoodSnapshot(Dock!defaultLayout(l)) /\ Dock!defaultLayout(l).layout = l
<1>1. Dock!Center[l] \in Dock!Panels
  BY PanelNames DEF Dock!Persistent, Dock!Center
<1> DEFINE dm == Dock!defaultLayout(l).dock
<1>2. dm = [p \in Dock!Panels |-> dm[p]] /\ dm[Dock!Center[l]] = "main"
  <2>1. PICK x : x = Dock!Center[l]
    OBVIOUS
  <2>2. dm = [p \in Dock!Panels |-> CASE p = x -> "main"
                                      [] p # x /\ p = "conversation" -> "right"
                                      [] OTHER -> "hidden"]
    BY <2>1 DEF Dock!defaultLayout
  <2>3. x \in Dock!Panels
    BY <1>1, <2>1
  <2>4. dm[x] = "main"
    BY <2>2, <2>3
  <2> QED
    BY <2>1, <2>2, <2>4
<1>3. Dock!defaultLayout(l) = [layout |-> l, dock |-> dm, right |-> TRUE, bottom |-> TRUE]
  BY DEF Dock!defaultLayout
<1>4. Dock!HasMain(dm)
  BY <1>1, <1>2 DEF Dock!HasMain
<1> HIDE DEF dm
<1> QED
  BY <1>2, <1>3, <1>4 DEF GoodSnapshot, DockLayouts

-----------------------------------------------------------------------------
\* The book.
LEMMA RememberKeeps ==
    ASSUME NEW b, GoodBook(b), NEW s, GoodSnapshot(s)
    PROVE  LET c == Dock!remember(b, s)
           IN  GoodBook(c) /\ c.named = b.named /\ OthersStay(b, c, {s.layout})
<1>1. CASE s.layout = "focus"
  BY <1>1 DEF Dock!remember, OthersStay
<1>2. CASE s.layout # "focus"
  <2> DEFINE a == [b.arrangements EXCEPT ![s.layout] = s]
  <2>1. PICK c : c = Dock!remember(b, s)
    OBVIOUS
  <2>2. c = [b EXCEPT !.arrangements = a, !.last = s.layout]
    BY <1>2, <2>1 DEF Dock!remember
  <2>3. /\ c \in [arrangements : {a}, last : {s.layout}, named : {b.named}, ids : {b.ids}]
    BY <2>2 DEF GoodBook
  <2>4. \A l \in Dock!Persistent : a[l] = IF l = s.layout THEN s ELSE b.arrangements[l]
    BY DEF GoodBook
  <2>5. a = [l \in Dock!Persistent |-> a[l]]
    BY DEF GoodBook
  <2>6. GoodBook(c)
    BY <2>3, <2>4, <2>5 DEF GoodBook
  <2> QED
    BY <2>1, <2>3, <2>4, <2>6 DEF OthersStay
<1> QED
  BY <1>1, <1>2

LEMMA SaveKeeps ==
    ASSUME NEW b, GoodBook(b), NEW s, GoodSnapshot(s), NEW title
    PROVE  LET c == Dock!save(b, title, s)
           IN  GoodBook(c) /\ c.arrangements = b.arrangements /\ NamedStay(b, c)
<1> DEFINE old == {n \in b.named : n.name = title}
           number == IF old = {} THEN b.ids + 1 ELSE (CHOOSE n \in old : TRUE).id
           new == [id |-> number, name |-> title, snapshot |-> s]
           named1 == (b.named \ old) \cup {new}
<1>1. PICK c : c = Dock!save(b, title, s)
  OBVIOUS
<1>2. /\ c \in [arrangements : {b.arrangements}, last : {b.last}, named : {named1}, ids : {c.ids}]
  BY Zenon, <1>1 DEF Dock!save, GoodBook
<1>3. /\ new \in [id : {new.id}, name : {new.name}, snapshot : {new.snapshot}]
      /\ new.name = title /\ new.snapshot = s /\ new.id = number
  OBVIOUS
<1>4. \A n \in old : n.id = number
  BY DEF GoodBook
<1>5. NamedStay(b, c)
  BY <1>2, <1>3, <1>4 DEF NamedStay
<1>6. /\ \A n \in named1 : n \in [id : {n.id}, name : {n.name}, snapshot : {n.snapshot}] /\ GoodSnapshot(n.snapshot)
      /\ \A n, m \in named1 : n.name = m.name => n = m
  BY <1>3 DEF GoodBook
<1>7. GoodBook(c)
  BY <1>2, <1>6 DEF GoodBook
<1> QED
  BY <1>1, <1>2, <1>5, <1>7

LEMMA RemoveKeeps ==
    ASSUME NEW b, GoodBook(b), NEW number
    PROVE  LET c == Dock!remove(b, number) IN GoodBook(c) /\ c.arrangements = b.arrangements
<1> DEFINE kept == {n \in b.named : n.id # number}
<1>1. PICK c : c = Dock!remove(b, number)
  OBVIOUS
<1>2. /\ c \in [arrangements : {b.arrangements}, last : {b.last}, named : {kept}, ids : {b.ids}]
  BY <1>1 DEF Dock!remove, GoodBook
<1>3. GoodBook(c)
  BY <1>2 DEF GoodBook
<1> QED
  BY <1>1, <1>2, <1>3

LEMMA ArrangementIsGood ==
    ASSUME NEW b, GoodBook(b), NEW l \in Dock!Persistent PROVE GoodSnapshot(Dock!arrangement(b, l))
BY DefaultIsGood DEF Dock!arrangement, GoodBook

-----------------------------------------------------------------------------
\* The steps.
LEMMA UndoKept ==
    ASSUME DockInv, Dock!rememberLayout PROVE GoodUndo(undo')
<1>1. PICK i \in {1, 2} : undo' = Append(SubSeq(undo, i, Len(undo)), now)
  BY DEF Dock!rememberLayout
<1> DEFINE S == {undo[k] : k \in 1..Len(undo)} \cup {now}
<1>2. undo \in Seq(S) /\ Len(undo) \in Nat
  BY DEF DockInv, GoodUndo, SeqOf
<1>3. \A x \in S : GoodSnapshot(x)
  BY DEF DockInv, GoodUndo
<1>4. SubSeq(undo, i, Len(undo)) \in Seq(S)
  BY <1>2, SubSeqProperties
<1>5. undo' \in Seq(S)
  BY <1>1, <1>4, AppendProperties
<1>6. Len(undo') \in Nat /\ \A k \in 1..Len(undo') : undo'[k] \in S
  BY <1>5
<1> QED
  BY <1>3, <1>5, <1>6, SeqIsOf DEF GoodUndo

\* Every command that changes the arrangement or the view ends like this.
LEMMA BecomeKeeps ==
    ASSUME DockInv, NEW s, GoodSnapshot(s), NEW v, GoodView(v), NEW b, GoodBook(b), b.named = book.named,
           OthersStay(book, b, {now.layout, s.layout}), Dock!Become(s, v, b),
           Dock!rememberLayout \/ GoodUndo(undo'),
           focusRestore' # None => GoodSnapshot(focusRestore')
    PROVE  DockInv' /\ DockBook
<1>1. now' = s /\ GoodSnapshot(now')
  BY DEF Dock!Become
<1>2. GoodView(dockView') /\ dockView'.expanded \in Dock!opened(s) \cup {None}
  BY ViewKept DEF Dock!Become
<1>3. GoodBook(book') /\ book'.named = b.named /\ OthersStay(b, book', {s.layout})
  BY RememberKeeps DEF Dock!Become, OthersStay
<1>4. GoodUndo(undo')
  BY UndoKept
<1>5. DockInv'
  BY <1>1, <1>2, <1>3, <1>4 DEF DockInv
<1>6. OthersStay(book, book', {now.layout, now'.layout})
  BY <1>1, <1>3 DEF OthersStay
<1> QED
  BY <1>3, <1>5, <1>6 DEF DockBook, NamedStay

\* The usual case: the book is as it was.
LEMMA BecomeWithBook ==
    ASSUME DockInv, NEW s, GoodSnapshot(s), NEW v, GoodView(v), Dock!Become(s, v, book),
           Dock!rememberLayout \/ undo' = undo, focusRestore' # None => GoodSnapshot(focusRestore')
    PROVE  DockInv' /\ DockBook
<1>1. GoodBook(book) /\ OthersStay(book, book, {now.layout, s.layout}) /\ GoodUndo(undo)
  BY DEF DockInv, OthersStay
<1>2. Dock!rememberLayout \/ GoodUndo(undo')
  BY <1>1
<1> QED
  BY <1>1, <1>2, BecomeKeeps

LEMMA DockMoves ==
    ASSUME DockInv, Dock!move \/ Dock!openTab \/ Dock!reopen PROVE DockInv' /\ DockBook
<1>1. GoodSnapshot(now) /\ GoodView(dockView) /\ (focusRestore # None => GoodSnapshot(focusRestore))
  BY DEF DockInv
<1>2. \A p, r : GoodSnapshot(Dock!Docked(Dock!Moved(p, r)))
  BY <1>1, MovedIsGood, DockedIsGood
<1>3. \A p, d : GoodView(Dock!MovedView(p, d))
  BY <1>1 DEF Dock!MovedView, GoodView
<1>4. \A p, v : GoodView(v) => GoodView(Dock!Reopened(p, v))
  BY DEF Dock!Reopened, GoodView
<1>5. CASE Dock!move
  BY <1>1, <1>2, <1>3, <1>5, BecomeWithBook DEF Dock!move
<1>6. CASE Dock!openTab
  <2>1. \A p : GoodView(Dock!Reopened(p, Dock!activate(now, dockView, p)))
    BY <1>1, <1>4, ActivateKeepsView
  <2> QED
    BY <1>1, <1>2, <1>3, <1>4, <1>6, <2>1, BecomeWithBook DEF Dock!openTab
<1>7. CASE Dock!reopen
  <2>1. \A p, d, x : GoodView([Dock!MovedView(p, d) EXCEPT !.closed = x])
    BY <1>3, ViewKept
  <2> QED
    BY <1>1, <1>2, <1>7, <2>1, BecomeWithBook DEF Dock!reopen
<1> QED
  BY <1>5, <1>6, <1>7

LEMMA DockCloses ==
    ASSUME DockInv, Dock!closeTab PROVE DockInv' /\ DockBook
<1>1. GoodSnapshot(now) /\ GoodView(dockView) /\ (focusRestore # None => GoodSnapshot(focusRestore))
  BY DEF DockInv
<1>2. PICK p, q, x, r, d :
        /\ p \in Dock!opened(now) /\ q \in Dock!Panels
        /\ d = Dock!Refilled([now.dock EXCEPT ![p] = "hidden"], q)
        /\ Dock!Become(Dock!Docked(d), [dockView EXCEPT !.active[r] = q, !.expanded = IF @ = p THEN None ELSE @,
                                                        !.closed = x], book)
  <2>1. PICK p \in Dock!opened(now) :
          LET rest == Dock!opened(now) \ {p}
              Like(region) == {q \in rest : now.dock[q] = region}
              successor == CASE Like(now.dock[p]) # {} -> Dock!Earliest(Like(now.dock[p]))
                             [] Like(now.dock[p]) = {} /\ Like("main") # {} -> Dock!Earliest(Like("main"))
                             [] OTHER -> Dock!Earliest(rest)
              next == Dock!Refilled([now.dock EXCEPT ![p] = "hidden"], successor)
              kept == SelectSeq(dockView.closed, LAMBDA c : c.panel # p)
          IN  /\ rest # {}
              /\ Dock!Become(Dock!Docked(next),
                     [dockView EXCEPT !.active[Dock!Slot(dockView, next[successor])] = successor,
                                      !.expanded = IF @ = p THEN None ELSE @,
                                      !.closed = Append(SubSeq(kept, IF Len(kept) = MaxUndo THEN 2 ELSE 1, Len(kept)),
                                                        [panel |-> p, region |-> now.dock[p]])], book)
    BY Zenon DEF Dock!closeTab
  <2> DEFINE rest == Dock!opened(now) \ {p}
             Like(region) == {q \in rest : now.dock[q] = region}
             successor == CASE Like(now.dock[p]) # {} -> Dock!Earliest(Like(now.dock[p]))
                            [] Like(now.dock[p]) = {} /\ Like("main") # {} -> Dock!Earliest(Like("main"))
                            [] OTHER -> Dock!Earliest(rest)
  <2>2. rest \subseteq Dock!Panels /\ rest # {} /\ \A region : Like(region) \subseteq rest
    BY <2>1 DEF Dock!opened
  <2>3. successor \in Dock!Panels
    BY <2>2, EarliestIsIn
  <2> QED
    BY <2>1, <2>3, Zenon
<1>3. d = [z \in Dock!Panels |-> d[z]] /\ Dock!HasMain(d)
  BY <1>1, <1>2 DEF Dock!Refilled, GoodSnapshot, Dock!HasMain
<1>4. GoodView([dockView EXCEPT !.active[r] = q, !.expanded = IF @ = p THEN None ELSE @, !.closed = x])
  BY <1>1 DEF GoodView
<1>5. GoodSnapshot(Dock!Docked(d))
  BY <1>1, <1>3, DockedIsGood
<1>6. Dock!rememberLayout /\ focusRestore' = focusRestore
  BY DEF Dock!closeTab
<1> QED
  BY <1>1, <1>2, <1>4, <1>5, <1>6, BecomeWithBook

LEMMA DockViews ==
    ASSUME DockInv, Dock!selectTab \/ Dock!expand \/ Dock!resizeWindow PROVE DockInv' /\ DockBook
<1>1. GoodSnapshot(now) /\ GoodView(dockView) /\ (focusRestore # None => GoodSnapshot(focusRestore))
  BY DEF DockInv
<1>2. CASE Dock!selectTab
  BY <1>1, <1>2, ActivateKeepsView, BecomeWithBook DEF Dock!selectTab
<1>3. CASE Dock!expand
  <2>1. PICK v : Dock!Become(now, v, book)
                 /\ v \in {[dockView EXCEPT !.expanded = IF @ = p THEN None ELSE p, !.floatingChat = TRUE, !.chatExpanded = FALSE]
                           : p \in Dock!visiblePanels(now, dockView)}
                       \cup {[dockView EXCEPT !.floatingChat = ~@], [dockView EXCEPT !.chatExpanded = ~@], [dockView EXCEPT !.expanded = None]}
    BY Zenon, <1>3 DEF Dock!expand
  <2>2. GoodView(v)
    BY Zenon, <1>1, <2>1 DEF GoodView
  <2> QED
    BY Zenon, <1>1, <1>3, <2>1, <2>2, BecomeWithBook DEF Dock!expand
<1>4. CASE Dock!resizeWindow
  BY <1>1, <1>4, ViewKept, BecomeWithBook DEF Dock!resizeWindow
<1> QED
  BY <1>2, <1>3, <1>4

LEMMA DockChooses ==
    ASSUME DockInv, Dock!chooseLayout PROVE DockInv' /\ DockBook
<1>1. GoodSnapshot(now) /\ GoodView(dockView) /\ GoodBook(book)
  BY DEF DockInv
<1> DEFINE b == Dock!remember(book, now)
<1>2. GoodBook(b) /\ b.named = book.named /\ OthersStay(book, b, {now.layout})
  BY <1>1, RememberKeeps
<1>3. PICK arranged, v :
        Dock!Become(arranged, v, b) /\ GoodSnapshot(arranged) /\ GoodView(v)
  <2>1. PICK l \in Dock!Persistent, reveal \in {None, "editor"} :
          LET s == Dock!arrangement(b, l)
              region == CASE s.dock[reveal] # "hidden" -> s.dock[reveal]
                          [] s.dock[reveal] = "hidden" /\ Dock!HasMain(s.dock) -> "split"
                          [] OTHER -> "main"
              arranged == IF reveal = None THEN s
                       ELSE [s EXCEPT !.dock[reveal] = region, !.right = @ \/ region = "right", !.bottom = @ \/ region = "bottom"]
          IN  /\ reveal # None => l = "workbench"
              /\ Dock!Become(arranged, IF reveal = None THEN dockView ELSE Dock!activate(arranged, dockView, reveal), b)
    BY Zenon DEF Dock!chooseLayout
  <2> DEFINE s == Dock!arrangement(b, l)
             region == CASE s.dock[reveal] # "hidden" -> s.dock[reveal]
                         [] s.dock[reveal] = "hidden" /\ Dock!HasMain(s.dock) -> "split"
                         [] OTHER -> "main"
             d == [s.dock EXCEPT ![reveal] = region]
             wide == [s EXCEPT !.dock = d, !.right = @ \/ region = "right", !.bottom = @ \/ region = "bottom"]
  <2>2. GoodSnapshot(s)
    BY <1>2, ArrangementIsGood
  <2>3. CASE reveal = None
    BY <1>1, <2>1, <2>2, <2>3
  <2>4. CASE reveal # None
    <3>1. reveal \in Dock!Panels
      BY <2>4, PanelNames
    <3>2. region = IF s.dock[reveal] # "hidden" THEN s.dock[reveal] ELSE "split"
      BY <2>2 DEF GoodSnapshot
    <3>3. d = [q \in Dock!Panels |-> d[q]] /\ Dock!HasMain(d)
      BY <2>2, <3>1, <3>2 DEF GoodSnapshot, Dock!HasMain
    <3>4. GoodSnapshot(wide)
      BY <2>2, <3>3 DEF GoodSnapshot
    <3>5. GoodView(Dock!activate(wide, dockView, reveal))
      BY <1>1, ActivateKeepsView
    <3> QED
      BY <2>1, <2>4, <3>4, <3>5
  <2> QED
    BY <2>3, <2>4
<1>4. OthersStay(book, b, {now.layout, arranged.layout})
  BY <1>2 DEF OthersStay
<1>5. Dock!rememberLayout /\ focusRestore' = None
  BY DEF Dock!chooseLayout
<1> QED
  BY <1>2, <1>3, <1>4, <1>5, BecomeKeeps

LEMMA DockOpens ==
    ASSUME DockInv, Dock!openSurface \/ Dock!focusPanel PROVE DockInv' /\ DockBook
<1>1. GoodSnapshot(now) /\ GoodView(dockView) /\ (focusRestore # None => GoodSnapshot(focusRestore))
  BY DEF DockInv
<1>2. Dock!HasMain(now.dock)
  BY <1>1 DEF GoodSnapshot
<1>3. CASE Dock!openSurface
  <2>1. PICK p, d :
          /\ p \in Dock!Panels
          /\ d = IF now.dock[p] = "hidden" THEN [now.dock EXCEPT ![p] = "right"] ELSE now.dock
          /\ LET s == [now EXCEPT !.dock = d, !.right = @ \/ d[p] = "right", !.bottom = @ \/ d[p] = "bottom"]
             IN  Dock!Become(s, Dock!activate(s, dockView, p), book)
    BY Zenon, <1>2, <1>3 DEF Dock!openSurface
  <2> DEFINE s == [now EXCEPT !.dock = d, !.right = @ \/ d[p] = "right", !.bottom = @ \/ d[p] = "bottom"]
  <2>2. d = [q \in Dock!Panels |-> d[q]] /\ Dock!HasMain(d)
    BY <1>1, <2>1 DEF GoodSnapshot, Dock!HasMain
  <2>3. GoodSnapshot(s)
    BY <1>1, <2>2 DEF GoodSnapshot
  <2>4. GoodView(Dock!activate(s, dockView, p))
    BY <1>1, ActivateKeepsView
  <2> QED
    BY Zenon, <1>1, <1>3, <2>1, <2>3, <2>4, BecomeWithBook DEF Dock!openSurface
<1>4. CASE Dock!focusPanel
  <2>1. PICK p, r, s :
          /\ p \in Dock!Panels
          /\ s = CASE now.dock[p] = "hidden" -> Dock!Docked([now.dock EXCEPT ![p] = r])
                   [] now.dock[p] = "right" -> [now EXCEPT !.right = TRUE]
                   [] now.dock[p] = "bottom" -> [now EXCEPT !.bottom = TRUE]
                   [] OTHER -> now
          /\ Dock!Become(s, Dock!activate(s, dockView, p), book)
          /\ Dock!rememberLayout \/ undo' = undo
    BY <1>4 DEF Dock!focusPanel
  <2>2. GoodSnapshot(s)
    <3>1. CASE now.dock[p] = "hidden"
      <4> DEFINE d == [now.dock EXCEPT ![p] = r]
      <4>1. d = [q \in Dock!Panels |-> d[q]] /\ Dock!HasMain(d)
        BY <1>1, <3>1 DEF GoodSnapshot, Dock!HasMain
      <4> QED
        BY <1>1, <2>1, <3>1, <4>1, DockedIsGood
    <3>2. CASE now.dock[p] # "hidden"
      BY <1>1, <2>1, <3>2 DEF GoodSnapshot
    <3> QED
      BY <3>1, <3>2
  <2>3. GoodView(Dock!activate(s, dockView, p))
    BY <1>1, ActivateKeepsView
  <2> QED
    BY <1>1, <1>4, <2>1, <2>2, <2>3, BecomeWithBook DEF Dock!focusPanel
<1> QED
  BY <1>3, <1>4

LEMMA DockReturns ==
    ASSUME DockInv, Dock!toggleFocus \/ Dock!undoLayout \/ Dock!toggleRegion \/ Dock!restoreNamed PROVE DockInv' /\ DockBook
<1>1. /\ GoodSnapshot(now) /\ GoodView(dockView) /\ (focusRestore # None => GoodSnapshot(focusRestore))
      /\ GoodBook(book) /\ GoodUndo(undo) /\ OthersStay(book, book, {})
  BY DEF DockInv, OthersStay
<1>2. CASE Dock!toggleFocus
  <2>1. CASE focusRestore # None
    BY <1>1, <1>2, <2>1, BecomeWithBook DEF Dock!toggleFocus
  <2>2. CASE focusRestore = None
    <3>1. PICK p \in Dock!visiblePanels(now, dockView) :
            Dock!Become([layout |-> "focus", dock |-> Dock!focusDockMap(p), right |-> FALSE, bottom |-> FALSE], dockView, book)
      BY <1>2, <2>2 DEF Dock!toggleFocus
    <3>2. p \in Dock!Panels
      BY <3>1 DEF Dock!visiblePanels, Dock!opened
    <3>3. GoodSnapshot([layout |-> "focus", dock |-> Dock!focusDockMap(p), right |-> FALSE, bottom |-> FALSE])
      BY <3>2 DEF GoodSnapshot, Dock!focusDockMap, Dock!HasMain, DockLayouts
    <3>4. Dock!rememberLayout /\ focusRestore' = now
      BY <1>2, <2>2 DEF Dock!toggleFocus
    <3> QED
      BY <1>1, <3>1, <3>3, <3>4, BecomeWithBook
  <2> QED
    BY <2>1, <2>2
<1>3. CASE Dock!undoLayout
  <2>1. undo # <<>> /\ undo' = SubSeq(undo, 1, Len(undo) - 1) /\ focusRestore' = None
        /\ Dock!Become(undo[Len(undo)], dockView, book)
    BY <1>3 DEF Dock!undoLayout
  <2> DEFINE S == {undo[k] : k \in 1..Len(undo)}
  <2>2. undo \in Seq(S) /\ Len(undo) \in Nat \ {0} /\ \A x \in S : GoodSnapshot(x)
    BY <1>1, <2>1 DEF GoodUndo, SeqOf
  <2>3. undo' \in Seq(S)
    BY <2>1, <2>2, SubSeqProperties
  <2>4. Len(undo') \in Nat /\ \A k \in 1..Len(undo') : undo'[k] \in S
    BY <2>3
  <2>5. GoodUndo(undo') /\ GoodSnapshot(undo[Len(undo)])
    BY <2>2, <2>3, <2>4, SeqIsOf DEF GoodUndo
  <2>6. OthersStay(book, book, {now.layout, undo[Len(undo)].layout})
    BY DEF OthersStay
  <2> QED
    BY <1>1, <2>1, <2>5, <2>6, BecomeKeeps
<1>4. CASE Dock!toggleRegion
  <2>1. PICK s \in {[now EXCEPT !.right = ~@], [now EXCEPT !.bottom = ~@]} : Dock!Become(s, dockView, book)
    BY <1>4 DEF Dock!toggleRegion
  <2>2. GoodSnapshot(s)
    BY <1>1, <2>1 DEF GoodSnapshot
  <2> QED
    BY <1>1, <1>4, <2>1, <2>2, BecomeWithBook DEF Dock!toggleRegion
<1>5. CASE Dock!restoreNamed
  <2>1. PICK m \in book.named : Dock!Become(m.snapshot, dockView, book)
    BY <1>5 DEF Dock!restoreNamed
  <2>2. GoodSnapshot(m.snapshot)
    BY <1>1, <2>1 DEF GoodBook
  <2> QED
    BY <1>1, <1>5, <2>1, <2>2, BecomeWithBook DEF Dock!restoreNamed
<1> QED
  BY <1>2, <1>3, <1>4, <1>5

LEMMA DockResets ==
    ASSUME DockInv, Dock!resetLayout PROVE DockInv' /\ DockBook
<1>1. /\ GoodSnapshot(now) /\ GoodView(dockView) /\ (focusRestore # None => GoodSnapshot(focusRestore))
      /\ GoodBook(book)
  BY DEF DockInv
<1>2. PICK l \in Dock!Persistent : Dock!Become(Dock!defaultLayout(l), dockView, Dock!reset(book, l))
  <2> DEFINE under == CASE now.layout # "focus" -> now.layout
                        [] now.layout = "focus" /\ focusRestore # None -> focusRestore.layout
                        [] OTHER -> "chat"
             l == IF under = "focus" THEN "chat" ELSE under
  <2>1. Dock!Become(Dock!defaultLayout(l), dockView, Dock!reset(book, l))
    BY DEF Dock!resetLayout
  <2>2. l \in Dock!Persistent
    BY <1>1 DEF GoodSnapshot, DockLayouts, Dock!Persistent
  <2> QED
    BY <2>1, <2>2
<1>3. PICK s : s = Dock!defaultLayout(l)
  OBVIOUS
<1>4. GoodSnapshot(s) /\ s.layout = l
  BY <1>3, DefaultIsGood
<1>5. PICK b : b = Dock!reset(book, l)
  OBVIOUS
<1>6. b = [book EXCEPT !.arrangements = [@ EXCEPT ![l] = s]]
  BY <1>3, <1>5 DEF Dock!reset
<1> DEFINE a == [book.arrangements EXCEPT ![l] = s]
<1>7. b \in [arrangements : {a}, last : {book.last}, named : {book.named}, ids : {book.ids}]
  BY <1>1, <1>6 DEF GoodBook
<1>8. \A k \in Dock!Persistent : a[k] = IF k = l THEN s ELSE book.arrangements[k]
  BY <1>1 DEF GoodBook
<1>9. a = [k \in Dock!Persistent |-> a[k]]
  BY <1>1 DEF GoodBook
<1>10. GoodBook(b) /\ b.named = book.named /\ OthersStay(book, b, {now.layout, s.layout})
  BY <1>1, <1>4, <1>7, <1>8, <1>9 DEF GoodBook, OthersStay
<1>11. Dock!rememberLayout /\ focusRestore' = None
  BY DEF Dock!resetLayout
<1> QED
  BY <1>1, <1>2, <1>3, <1>4, <1>5, <1>10, <1>11, BecomeKeeps

LEMMA DockBooks ==
    ASSUME DockInv, \/ Dock!otherWindow \/ Dock!Removes
                    \/ \E n \in LayoutNames : Dock!saveLayout(n)
    PROVE  DockInv' /\ DockBook
<1>1. GoodSnapshot(now) /\ GoodBook(book)
  BY DEF DockInv
<1>2. ASSUME UNCHANGED <<now, undo, focusRestore, dockView>>, GoodBook(book') PROVE DockInv'
  BY <1>2 DEF DockInv
<1>3. CASE Dock!otherWindow
  <2>1. PICK l, s :
          /\ l \in Dock!Persistent
          /\ s = [Dock!defaultLayout(l) EXCEPT !.bottom = FALSE]
          /\ book' = Dock!remember(book, s) \/ \E n \in LayoutNames : book' = Dock!save(book, n, s)
    BY <1>3 DEF Dock!otherWindow
  <2>2. GoodSnapshot(s)
    BY <2>1, DefaultIsGood DEF GoodSnapshot
  <2>3. GoodBook(book') /\ NamedStay(book, book')
    <3>1. CASE book' = Dock!remember(book, s)
      BY <1>1, <2>2, <3>1, RememberKeeps DEF NamedStay
    <3>2. ASSUME NEW n \in LayoutNames, book' = Dock!save(book, n, s)
          PROVE  GoodBook(book') /\ NamedStay(book, book')
      BY <1>1, <2>2, <3>2, SaveKeeps
    <3> QED
      BY <2>1, <3>1, <3>2
  <2> QED
    BY <1>2, <1>3, <2>3 DEF Dock!otherWindow, DockBook
<1>4. CASE Dock!Removes
  <2>1. PICK i : book' = Dock!remove(book, i)
    BY <1>4 DEF Dock!Removes, Dock!removeNamed, Dock!otherRemoves
  <2>2. GoodBook(book') /\ book'.arrangements = book.arrangements
    BY <1>1, <2>1, RemoveKeeps
  <2>3. UNCHANGED <<now, undo, focusRestore, dockView>>
    BY <1>4 DEF Dock!Removes, Dock!removeNamed, Dock!otherRemoves
  <2> QED
    BY <1>2, <1>4, <2>2, <2>3 DEF DockBook, OthersStay
<1>5. CASE \E n \in LayoutNames : Dock!saveLayout(n)
  <2>1. PICK n \in LayoutNames : Dock!saveLayout(n)
    BY <1>5
  <2>2. GoodBook(book') /\ book'.arrangements = book.arrangements /\ NamedStay(book, book')
    BY <1>1, <2>1, SaveKeeps DEF Dock!saveLayout
  <2> QED
    BY <1>2, <2>1, <2>2 DEF Dock!saveLayout, DockBook, OthersStay
<1> QED
  BY <1>3, <1>4, <1>5

LEMMA DockInitInv == Dock!Init => DockInv
<1> SUFFICES ASSUME Dock!Init PROVE DockInv
  OBVIOUS
<1>1. "chat" \in Dock!Persistent
  BY DEF Dock!Persistent
<1>2. GoodSnapshot(now)
  BY <1>1, DefaultIsGood DEF Dock!Init
<1>3. GoodUndo(undo)
  <2>1. undo = <<>>
    BY DEF Dock!Init
  <2>2. undo \in Seq({}) /\ Len(undo) = 0
    BY <2>1
  <2>3. SeqOf(undo)
    BY <2>2, SeqIsOf
  <2>4. 1..Len(undo) = {}
    BY <2>2
  <2> QED
    BY <2>2, <2>3, <2>4 DEF GoodUndo
<1>4. GoodView(dockView) /\ dockView.expanded = None
  BY DEF Dock!Init, GoodView
<1>5. GoodBook(book)
  BY <1>2 DEF Dock!Init, GoodBook
<1> QED
  BY <1>2, <1>3, <1>4, <1>5 DEF DockInv, Dock!Init

LEMMA DockStep == ASSUME DockInv, Dock!Next PROVE DockInv' /\ DockBook
BY DockMoves, DockCloses, DockViews, DockChooses, DockOpens, DockReturns, DockResets, DockBooks DEF Dock!Next

LEMMA DockNext == ASSUME DockInv, Dock!Next \/ UNCHANGED dockVars PROVE DockInv'
<1>1. CASE UNCHANGED dockVars
  BY <1>1 DEF dockVars, DockInv
<1> QED
  BY <1>1, DockStep

-----------------------------------------------------------------------------
(* Calls of tools. *)

LEMMA ToolCallsAre == Tools!Call = ToolCallRecords
BY DEF Tools!Call, ToolCallRecords, Tools!Keys, Tools!Definitions

LEMMA ToolsQuietKeeps ==
  ASSUME ToolsInv, \A n \in Tools!Calls : ToolsQuiet(n),
         DOMAIN toolsCall' = Tools!Calls, toolsCall' = [n \in Tools!Calls |-> toolsCall'[n]]
  PROVE  /\ toolsCall' \in [Tools!Calls -> Tools!Call \cup {None}]
         /\ Tools!NoCallRepeat'
         /\ \A n \in Tools!Calls : toolsCall'[n] # None =>
              /\ \A m \in 1..(n - 1) : toolsCall'[m] # None /\ ~InHand(m)'
              /\ toolsCall'[n].pc = "hash" => toolsCall'[n].wire = "none"
              /\ InHand(n)' => InHand(n) /\ toolsCall'[n].key = toolsCall[n].key
<1>1. \A n \in Tools!Calls : \A m \in 1..(n - 1) : m \in Tools!Calls
  BY ToolsAssumption DEF Tools!Calls
<1>2. \A n \in Tools!Calls : toolsCall'[n] \in Tools!Call \cup {None}
  BY DEF ToolsQuiet
<1>3. toolsCall' \in [Tools!Calls -> Tools!Call \cup {None}]
  BY <1>2
<1>4. Tools!NoCallRepeat'
  BY <1>1 DEF ToolsQuiet, ToolsInv, Tools!NoCallRepeat, Tools!Sent
<1>5. ASSUME NEW n \in Tools!Calls, toolsCall'[n] # None
      PROVE  /\ \A m \in 1..(n - 1) : toolsCall'[m] # None /\ ~InHand(m)'
             /\ toolsCall'[n].pc = "hash" => toolsCall'[n].wire = "none"
             /\ InHand(n)' => InHand(n) /\ toolsCall'[n].key = toolsCall[n].key
  BY <1>1, <1>5 DEF ToolsQuiet, ToolsInv, InHandIsShown, InHand
<1> QED
  BY <1>3, <1>4, <1>5

LEMMA ToolsFrame ==
  ASSUME ToolsInv, UNCHANGED <<definition, receipts, mcp, toolsCall>>
  PROVE  ToolsInv'
BY DEF ToolsInv, ToolShape, ReceiptsAreTheirs, InHandIsShown, InHand, Known, Tools!NoCallRepeat, Tools!Sent

\* The calls go out of view, or out of hand, and what the panel shows is another.
LEMMA ToolsKeepReceipts ==
  ASSUME ToolsInv, \A n \in Tools!Calls : ToolsQuiet(n), UNCHANGED receipts,
         \A n \in Tools!Calls : toolsCall[n] # None =>
            toolsCall'[n].reported = toolsCall[n].reported /\ toolsCall'[n].acknowledged = toolsCall[n].acknowledged
  PROVE  ReceiptsAreTheirs'
<1>1. ASSUME NEW k \in Tools!Keys, receipts[k] # None
      PROVE  toolsCall'[receipts[k].call] # None /\ toolsCall'[receipts[k].call].key = k
  <2>1. receipts[k].call \in Tools!Calls
    BY <1>1 DEF ToolsInv, ToolShape, ToolReceipts
  <2> QED
    BY <1>1, <2>1 DEF ToolsInv, ReceiptsAreTheirs, ToolsQuiet
<1>2. ASSUME NEW n \in Tools!Calls, Tools!Sent(n)', ~Known(n)'
      PROVE  receipts[toolsCall'[n].key] # None /\ receipts[toolsCall'[n].key].call = n
  BY <1>2 DEF ToolsInv, ReceiptsAreTheirs, ToolsQuiet, Tools!Sent, Known
<1> QED
  BY <1>1, <1>2 DEF ReceiptsAreTheirs

LEMMA ToolsOutOfView ==
  ASSUME ToolsInv, UNCHANGED receipts, definition' \in Tools!Definitions,
         mcp' \in ToolPanels,
         \/ toolsCall' = [n \in Tools!Calls |-> IF toolsCall[n] = None THEN None
                                ELSE [toolsCall[n] EXCEPT !.fresh = FALSE, !.inView = FALSE]]
         \/ toolsCall' = Tools!OutOfView
         \/ toolsCall' = [n \in Tools!Calls |-> IF toolsCall[n] = None THEN None
                                ELSE [toolsCall[n] EXCEPT !.pc = "ended"]]
  PROVE  ToolsInv'
<1>1. ASSUME NEW n \in Tools!Calls
      PROVE  /\ ToolsQuiet(n)
             /\ toolsCall[n] # None =>
                  /\ toolsCall'[n].reported = toolsCall[n].reported
                  /\ toolsCall'[n].acknowledged = toolsCall[n].acknowledged
             /\ toolsCall'[n] # None => ~InHand(n)'
  <2>1. toolsCall[n] \in Tools!Call \cup {None}
    BY Zenon DEF ToolsInv, ToolShape
  <2>2. CASE toolsCall[n] = None
    BY Zenon, <2>2 DEF Tools!OutOfView, ToolsQuiet
  <2>3. CASE toolsCall[n] # None
    <3>1. \/ toolsCall'[n] = [toolsCall[n] EXCEPT !.fresh = FALSE, !.inView = FALSE]
          \/ toolsCall'[n] = [toolsCall[n] EXCEPT !.inView = FALSE]
          \/ toolsCall'[n] = [toolsCall[n] EXCEPT !.pc = "ended"]
      BY Zenon, <2>3 DEF Tools!OutOfView
    <3>2. toolsCall'[n] \in Tools!Call
      BY Zenon, <2>1, <2>3, <3>1 DEF Tools!Call
    <3>3. toolsCall'[n] # None
      BY Zenon, <3>2, ToolsAssumption, ToolCallsAre
    <3> QED
      BY Zenon, <2>1, <2>3, <3>1, <3>2, <3>3 DEF Tools!Call, ToolsQuiet, InHand
  <2> QED
    BY Zenon, <2>2, <2>3
<1>2. DOMAIN toolsCall' = Tools!Calls /\ toolsCall' = [n \in Tools!Calls |-> toolsCall'[n]]
  BY Zenon DEF Tools!OutOfView
<1>3. ReceiptsAreTheirs'
  BY Zenon, <1>1, ToolsKeepReceipts
<1> QED
  BY Zenon, <1>1, <1>2, <1>3, ToolsQuietKeeps DEF ToolsInv, ToolShape, InHandIsShown

\* The panel alone: what is in hand stays on screen.
LEMMA ToolsPanel ==
  ASSUME ToolsInv, UNCHANGED <<definition, receipts, toolsCall>>,
         mcp' \in ToolPanels,
         mcp'.inspecting = mcp.inspecting, mcp'.flight = mcp.flight \/ mcp.flight \notin Tools!Calls
  PROVE  ToolsInv'
BY DEF ToolsInv, ToolShape, ReceiptsAreTheirs, InHandIsShown, InHand, Known, Tools!NoCallRepeat, Tools!Sent

LEMMA AdminIsNoCall == Tools!Admin \notin Tools!Calls
BY ToolsAssumption DEF Tools!Admin, Tools!Calls

LEMMA ToolsShow ==
  ASSUME ToolsInv, Tools!loaded \/ Tools!reviewCall \/ Tools!acknowledge \/ Tools!administer
  PROVE  ToolsInv'
<1>1. None \notin Tools!Calls
  BY ToolsAssumption DEF Tools!Calls
<1>2. definition \in Tools!Definitions
  BY DEF ToolsInv, ToolShape
<1> QED
  BY <1>1, <1>2, ToolsPanel DEF ToolPanels, ToolsInv, ToolShape, Tools!loaded, Tools!reviewCall, Tools!acknowledge, Tools!administer

LEMMA ToolsStartOver ==
  ASSUME ToolsInv, \/ Tools!reset \/ Tools!reloadPage \/ Tools!closeInspection \/ Tools!administered
                   \/ \E k \in Tools!Keys : Tools!inspect(k)
  PROVE  ToolsInv'
<1>0. Tools!Fresh \in ToolPanels
  BY DEF ToolPanels, Tools!Fresh
<1>1. CASE Tools!reset \/ Tools!reloadPage
  BY Zenon, <1>0, <1>1, ToolsOutOfView DEF ToolsInv, ToolShape, Tools!reset, Tools!reloadPage
<1>2. CASE Tools!closeInspection \/ \E k \in Tools!Keys : Tools!inspect(k)
  BY Zenon, <1>2, ToolsOutOfView DEF ToolPanels, ToolsInv, ToolShape, Tools!closeInspection, Tools!inspect, Tools!Invalidated
<1>3. CASE Tools!administered
  <2>1. CASE definition' = definition + 1 /\ definition < MaxDefinition
    <3>1. definition' \in Tools!Definitions
      BY <2>1, ToolsAssumption DEF Tools!Definitions, ToolsInv, ToolShape
    <3>2. definition' # definition
      BY <2>1, ToolsAssumption DEF Tools!Definitions, ToolsInv, ToolShape
    <3>3. /\ mcp' = Tools!Fresh /\ UNCHANGED receipts
          /\ toolsCall' = [n \in Tools!Calls |-> IF toolsCall[n] = None THEN None
                              ELSE [toolsCall[n] EXCEPT !.fresh = FALSE, !.inView = FALSE]]
      BY Zenon, <1>3, <3>2 DEF Tools!administered
    <3> QED
      BY Zenon, <1>0, <3>1, <3>3, ToolsOutOfView
  <2>2. CASE mcp' = [mcp EXCEPT !.flight = None] /\ UNCHANGED <<definition, toolsCall>>
    BY <1>3, <2>2, ToolsPanel, AdminIsNoCall DEF ToolPanels, Tools!administered, ToolsInv, ToolShape
  <2> QED
    BY Zenon, <1>3, <2>1, <2>2 DEF Tools!administered
<1> QED
  BY <1>1, <1>2, <1>3

\* The host serves a call that left.
LEMMA ToolsServed ==
  ASSUME ToolsInv, NEW n \in Tools!Calls, Tools!hostCalls(n)
  PROVE  ToolsInv'
<1>1. toolsCall[n] \in Tools!Call /\ toolsCall[n] # None /\ toolsCall[n].wire = "sent"
  BY DEF ToolsInv, ToolShape, Tools!hostCalls
<1>2. PICK w \in {"done", "failed"} : toolsCall' = [toolsCall EXCEPT ![n].wire = w]
  BY DEF Tools!hostCalls
<1>3. toolsCall' = [toolsCall EXCEPT ![n] = [toolsCall[n] EXCEPT !.wire = w]]
  BY <1>1, <1>2 DEF ToolsInv, ToolShape
<1>4. [toolsCall[n] EXCEPT !.wire = w] \in Tools!Call
  BY <1>1 DEF Tools!Call
<1>5. [toolsCall[n] EXCEPT !.wire = w] # None
  BY <1>4, ToolsAssumption, ToolCallsAre
<1>6. ASSUME NEW m \in Tools!Calls
      PROVE  /\ ToolsQuiet(m)
             /\ toolsCall[m] # None =>
                  /\ toolsCall'[m].reported = toolsCall[m].reported
                  /\ toolsCall'[m].acknowledged = toolsCall[m].acknowledged
  BY <1>1, <1>3, <1>4, <1>5 DEF ToolsQuiet, Tools!Call, ToolsInv, ToolShape
<1>7. UNCHANGED <<definition, receipts, mcp>> /\ DOMAIN toolsCall' = Tools!Calls
  BY <1>3 DEF Tools!hostCalls, ToolsInv, ToolShape
<1>8. toolsCall' = [m \in Tools!Calls |-> toolsCall'[m]]
  BY <1>3 DEF ToolsInv, ToolShape
<1>9. ReceiptsAreTheirs'
  BY <1>6, <1>7, ToolsKeepReceipts
<1>10. /\ toolsCall' \in [Tools!Calls -> Tools!Call \cup {None}]
       /\ Tools!NoCallRepeat'
       /\ \A m \in Tools!Calls : toolsCall'[m] # None =>
            /\ \A j \in 1..(m - 1) : toolsCall'[j] # None /\ ~InHand(j)'
            /\ toolsCall'[m].pc = "hash" => toolsCall'[m].wire = "none"
            /\ InHand(m)' => InHand(m) /\ toolsCall'[m].key = toolsCall[m].key
  BY <1>6, <1>7, <1>8, ToolsQuietKeeps
<1>11. InHandIsShown'
  BY <1>6, <1>7, <1>10 DEF ToolsQuiet, ToolsInv, InHandIsShown
<1> QED
  BY <1>7, <1>9, <1>10, <1>11 DEF ToolsInv, ToolShape

\* A call is confirmed: it is the last, and it is on screen.
LEMMA ToolsConfirm ==
  ASSUME ToolsInv, NEW n \in Tools!Calls, Tools!confirmCall(n)
  PROVE  ToolsInv'
<1> DEFINE new == [key |-> mcp.reviewed, pc |-> "hash", fresh |-> TRUE, inView |-> TRUE,
                   wire |-> "none", acknowledged |-> FALSE, reported |-> FALSE]
<1>1. mcp.reviewed \in Tools!Keys /\ mcp.inspecting = mcp.reviewed /\ mcp.flight = None
  BY DEF Tools!confirmCall, ToolsInv, ToolShape, ToolPanels
<1>2. new \in Tools!Call /\ new # None
  <2>1. new \in Tools!Call
    BY <1>1 DEF Tools!Call
  <2> QED
    BY <2>1, ToolsAssumption, ToolCallsAre
<1>3. /\ toolsCall' = [toolsCall EXCEPT ![n] = new] /\ toolsCall[n] = None
      /\ mcp' = [mcp EXCEPT !.reviewed = None, !.flight = n] /\ UNCHANGED <<definition, receipts>>
      /\ \A m \in 1..(n - 1) : toolsCall[m] # None
  BY DEF Tools!confirmCall
<1>4. \A m \in Tools!Calls : \A k \in 1..(m - 1) : k \in Tools!Calls
  BY ToolsAssumption DEF Tools!Calls
<1>5. \A m \in Tools!Calls : toolsCall[m] # None => n \notin 1..(m - 1)
  BY <1>3 DEF ToolsInv, InHandIsShown
<1>6. \A m \in Tools!Calls : toolsCall[m] # None => ~InHand(m)
  BY <1>1 , ToolsAssumption DEF ToolsInv, InHandIsShown, Tools!Calls
<1>7. ToolShape'
  BY <1>2, <1>3 DEF ToolsInv, ToolShape, ToolPanels
<1>8. \A m \in Tools!Calls : toolsCall'[m] = IF m = n THEN new ELSE toolsCall[m]
  BY <1>3 DEF ToolsInv, ToolShape
<1>9. ReceiptsAreTheirs'
  <2>1. \A k \in Tools!Keys : receipts[k] # None => receipts[k].call \in Tools!Calls
    BY DEF ToolsInv, ToolShape, ToolReceipts
  <2>2. \A m \in Tools!Calls : Tools!Sent(m)' => Tools!Sent(m) /\ m # n
    BY <1>8 DEF Tools!Sent
  <2> QED
    BY <1>2, <1>3, <1>8, <2>1, <2>2 DEF ToolsInv, ReceiptsAreTheirs, Tools!Sent, Known
<1>10. Tools!NoCallRepeat'
  BY <1>4, <1>8 DEF ToolsInv, Tools!NoCallRepeat, Tools!Sent
<1>11. InHandIsShown'
  <2> SUFFICES ASSUME NEW m \in Tools!Calls, toolsCall'[m] # None
               PROVE  /\ InHand(m)' => mcp'.inspecting = toolsCall'[m].key /\ mcp'.flight = m
                      /\ \A k \in 1..(m - 1) : toolsCall'[k] # None /\ ~InHand(k)'
                      /\ toolsCall'[m].pc = "hash" => toolsCall'[m].wire = "none"
    BY DEF InHandIsShown
  <2>1. mcp'.inspecting = mcp.inspecting /\ mcp'.flight = n
    BY <1>3 DEF ToolsInv, ToolShape, ToolPanels
  <2>2. CASE m = n
    BY <1>1, <1>3, <1>4, <1>6, <1>8, <2>1, <2>2, ToolsAssumption DEF InHand, Tools!Calls
  <2>3. CASE m # n
    BY <1>4, <1>5, <1>6, <1>8, <2>1, <2>3 DEF InHand, ToolsInv, InHandIsShown
  <2> QED
    BY <2>2, <2>3
<1> QED
  BY <1>7, <1>9, <1>10, <1>11 DEF ToolsInv

LEMMA ToolsSend ==
  ASSUME ToolsInv, NEW n \in Tools!Calls, Tools!send(n)
  PROVE  ToolsInv'
<1> DEFINE k == toolsCall[n].key
           go == Tools!StillReviewed(n) /\ Tools!Unheld(n)
           new == [toolsCall[n] EXCEPT !.pc = IF go THEN "sent" ELSE "ended", !.wire = IF go THEN "sent" ELSE @]
<1>1. /\ toolsCall[n] \in Tools!Call /\ toolsCall[n] # None /\ toolsCall[n].pc = "hash"
      /\ k \in Tools!Keys /\ toolsCall[n].wire = "none"
  BY DEF Tools!send, ToolsInv, ToolShape, Tools!Call, InHandIsShown
<1>2. new \in Tools!Call
  BY <1>1 DEF Tools!Call
<1>3. new # None
  BY <1>2, ToolsAssumption, ToolCallsAre
<1>4. toolsCall' = [toolsCall EXCEPT ![n] = new] /\ definition' = definition
  BY <1>1 DEF Tools!send, ToolsInv, ToolShape
<1>5. \A m \in Tools!Calls : toolsCall'[m] = IF m = n THEN new ELSE toolsCall[m]
  BY <1>4 DEF ToolsInv, ToolShape
<1>6. new.key = k /\ new.pc = (IF go THEN "sent" ELSE "ended") /\ new.wire = (IF go THEN "sent" ELSE "none")
      /\ new.reported = toolsCall[n].reported /\ new.acknowledged = toolsCall[n].acknowledged
      /\ new.fresh = toolsCall[n].fresh /\ new.inView = toolsCall[n].inView
  BY <1>1 DEF Tools!Call
<1>7. mcp' \in ToolPanels /\ mcp'.inspecting = mcp.inspecting /\ (mcp'.flight = mcp.flight \/ mcp.flight = n)
  <2>1. CASE go \/ ~toolsCall[n].fresh
    BY <2>1 DEF Tools!send, ToolsInv, ToolShape
  <2>2. CASE ~(go \/ ~toolsCall[n].fresh)
    <3>1. receipts[k] # None => [key |-> k, call |-> receipts[k].call] \in Tools!Unconfirmed
      BY <1>1 DEF Tools!Unconfirmed, ToolsInv, ToolShape, ToolReceipts
    <3>2. mcp' = Tools!Landed(IF Tools!StillReviewed(n) /\ receipts[k] # None
                               THEN [mcp EXCEPT !.unconfirmed = [key |-> k, call |-> receipts[k].call],
                                                !.acknowledged = FALSE]
                               ELSE mcp, n)
      BY <2>2 DEF Tools!send
    <3>3. PICK p : p = IF Tools!StillReviewed(n) /\ receipts[k] # None
                               THEN [mcp EXCEPT !.unconfirmed = [key |-> k, call |-> receipts[k].call],
                                                !.acknowledged = FALSE]
                               ELSE mcp
      OBVIOUS
    <3>4. p \in ToolPanels /\ p.inspecting = mcp.inspecting /\ p.flight = mcp.flight
      BY <3>1, <3>3 DEF ToolPanels, ToolsInv, ToolShape
    <3> QED
      BY <3>2, <3>3, <3>4 DEF Tools!Landed, ToolPanels
  <2> QED
    BY <2>1, <2>2
<1>8. /\ go => receipts[k] = None /\ InHand(n)
      /\ receipts' = IF go THEN [receipts EXCEPT ![k] = [state |-> "pending", call |-> n]] ELSE receipts
  BY <1>1 DEF Tools!send, Tools!StillReviewed, Tools!Unheld, InHand
<1>9. [state |-> "pending", call |-> n] \in ToolReceipts /\ [state |-> "pending", call |-> n] # None
  BY ToolsAssumption DEF ToolReceipts, Tools!Calls
<1>10. ToolShape'
  BY <1>1, <1>2, <1>4, <1>7, <1>8, <1>9 DEF ToolsInv, ToolShape
<1> HIDE DEF go, new
<1>11. \A m \in Tools!Calls : \A j \in 1..(m - 1) : j \in Tools!Calls
  BY ToolsAssumption DEF Tools!Calls
<1>12. \A m \in Tools!Calls : Tools!Sent(m)' <=> (Tools!Sent(m) \/ (m = n /\ go))
  BY <1>1, <1>3, <1>5, <1>6 DEF Tools!Sent
<1>13. \A m \in Tools!Calls : toolsCall[m] # None => toolsCall'[m].key = toolsCall[m].key /\ (Known(m)' <=> Known(m))
  BY <1>5, <1>6 DEF Known
<1>14. ReceiptsAreTheirs'
  <2>1. \A i \in Tools!Keys : receipts[i] # None => receipts[i].call \in Tools!Calls
    BY DEF ToolsInv, ToolShape, ToolReceipts
  <2>2. \A i \in Tools!Keys : receipts'[i] = IF go /\ i = k THEN [state |-> "pending", call |-> n] ELSE receipts[i]
    BY <1>8 DEF ToolsInv, ToolShape
  <2>3. ASSUME NEW i \in Tools!Keys, receipts'[i] # None
        PROVE  toolsCall'[receipts'[i].call] # None /\ toolsCall'[receipts'[i].call].key = i
    BY <1>3, <1>5, <1>6, <2>1, <2>2, <2>3 DEF ToolsInv, ReceiptsAreTheirs
  <2>4. ASSUME NEW m \in Tools!Calls, Tools!Sent(m)', ~Known(m)'
        PROVE  receipts'[toolsCall'[m].key] # None /\ receipts'[toolsCall'[m].key].call = m
    <3>1. toolsCall[m] # None /\ toolsCall[m].key \in Tools!Keys
      BY <1>1, <1>12, <2>4 DEF Tools!Sent, ToolsInv, ToolShape, Tools!Call
    <3> QED
      BY <1>8, <1>9, <1>12, <1>13, <2>2, <2>4, <3>1 DEF ToolsInv, ReceiptsAreTheirs
  <2> QED
    BY <2>3, <2>4 DEF ReceiptsAreTheirs
<1>15. Tools!NoCallRepeat'
  <2> SUFFICES ASSUME NEW m \in Tools!Calls, NEW j \in 1..(m - 1), Tools!Sent(m)', Tools!Sent(j)',
                      toolsCall'[m].key = toolsCall'[j].key
               PROVE  Known(j)'
    BY DEF Tools!NoCallRepeat, Known
  <2>1. toolsCall[m] # None /\ toolsCall[j] # None /\ j \in Tools!Calls /\ toolsCall[m].key = toolsCall[j].key
    BY <1>1, <1>11, <1>12, <1>13 DEF Tools!Sent
  <2>2. CASE Tools!Sent(j) /\ Tools!Sent(m)
    BY <1>13, <2>1, <2>2 DEF ToolsInv, Tools!NoCallRepeat, Known
  <2>3. CASE Tools!Sent(j) /\ m = n /\ go
    BY <1>8, <1>13, <2>1, <2>3 DEF ToolsInv, ReceiptsAreTheirs
  <2>4. CASE j = n /\ go
    BY <1>8, <2>1, <2>4 DEF ToolsInv, InHandIsShown
  <2> QED
    BY <1>12, <2>1, <2>2, <2>3, <2>4
<1>16. InHandIsShown'
  <2>1. \A m \in Tools!Calls : InHand(m)' => m # n /\ InHand(m)
    BY <1>5, <1>6 DEF InHand
  <2>2. \A m \in Tools!Calls : toolsCall[m] # None /\ m # n /\ InHand(m) => mcp'.flight = mcp.flight
    BY <1>7 DEF ToolsInv, InHandIsShown
  <2>3. \A m \in Tools!Calls : (toolsCall'[m] = None) <=> (toolsCall[m] = None)
    BY <1>1, <1>3, <1>5
  <2>4. ASSUME NEW m \in Tools!Calls, toolsCall'[m] # None
        PROVE  /\ InHand(m)' => mcp'.inspecting = toolsCall'[m].key /\ mcp'.flight = m
               /\ \A j \in 1..(m - 1) : toolsCall'[j] # None /\ ~InHand(j)'
               /\ toolsCall'[m].pc = "hash" => toolsCall'[m].wire = "none"
    <3>1. InHand(m)' => mcp'.inspecting = toolsCall'[m].key /\ mcp'.flight = m
      BY <1>7, <1>13, <2>1, <2>2, <2>3, <2>4 DEF InHandIsShown, ToolsInv
    <3>2. \A j \in 1..(m - 1) : toolsCall'[j] # None /\ ~InHand(j)'
      BY <1>11, <2>1, <2>3, <2>4 DEF InHandIsShown, ToolsInv
    <3>3. toolsCall'[m].pc = "hash" => toolsCall'[m].wire = "none"
      BY <1>5, <1>6, <2>3, <2>4 DEF InHandIsShown, ToolsInv
    <3> QED
      BY <3>1, <3>2, <3>3
  <2> QED
    BY <2>4 DEF InHandIsShown
<1> QED
  BY <1>10, <1>14, <1>15, <1>16 DEF ToolsInv

\* A call is over: its receipt goes with a report, and stays in doubt otherwise.
LEMMA ToolsAnswer ==
  ASSUME ToolsInv, NEW n \in Tools!Calls, Tools!answer(n)
  PROVE  ToolsInv'
<1> DEFINE k == toolsCall[n].key
           Mine(i) == receipts[k] # None /\ receipts[k].call = n /\ i = k
<1>1. /\ toolsCall[n] \in Tools!Call /\ toolsCall[n] # None /\ toolsCall[n].pc = "sent" /\ k \in Tools!Keys
  BY DEF Tools!answer, ToolsInv, ToolShape, Tools!Call
<1>2. \E reported \in BOOLEAN :
        /\ toolsCall' = [toolsCall EXCEPT ![n] = [toolsCall[n] EXCEPT !.pc = "ended", !.reported = reported \/ toolsCall[n].reported]]
        /\ receipts' = IF reported THEN Tools!Completed(n) ELSE Tools!Doubtful(n)
  <2>1. CASE receipts' = Tools!Completed(n) /\ toolsCall' = [toolsCall EXCEPT ![n].pc = "ended", ![n].reported = TRUE]
    <3>1. [toolsCall[n] EXCEPT !.pc = "ended", !.reported = TRUE \/ toolsCall[n].reported] =
            [toolsCall[n] EXCEPT !.pc = "ended", !.reported = TRUE]
      OBVIOUS
    <3> QED
      BY Zenon, <1>1, <2>1, <3>1 DEF ToolsInv, ToolShape
  <2>2. CASE receipts' = Tools!Doubtful(n) /\ toolsCall' = [toolsCall EXCEPT ![n].pc = "ended"]
    <3>1. [toolsCall[n] EXCEPT !.pc = "ended", !.reported = FALSE \/ toolsCall[n].reported] =
            [toolsCall[n] EXCEPT !.pc = "ended"]
      BY <1>1 DEF Tools!Call
    <3> QED
      BY Zenon, <1>1, <2>2, <3>1 DEF ToolsInv, ToolShape
  <2> QED
    BY Zenon, <2>1, <2>2 DEF Tools!answer
<1>3. PICK reported \in BOOLEAN :
        /\ toolsCall' = [toolsCall EXCEPT ![n] = [toolsCall[n] EXCEPT !.pc = "ended", !.reported = reported \/ toolsCall[n].reported]]
        /\ receipts' = IF reported THEN Tools!Completed(n) ELSE Tools!Doubtful(n)
  BY Zenon, <1>2
<1>4. PICK new : new = [toolsCall[n] EXCEPT !.pc = "ended", !.reported = reported \/ toolsCall[n].reported]
  OBVIOUS
<1>5. /\ new \in Tools!Call /\ new.key = k /\ new.pc = "ended" /\ new.wire = toolsCall[n].wire
      /\ new.reported = (reported \/ toolsCall[n].reported) /\ new.acknowledged = toolsCall[n].acknowledged
  BY <1>1, <1>4 DEF Tools!Call
<1>6. new # None
  BY <1>5, ToolsAssumption, ToolCallsAre
<1>7. toolsCall' = [toolsCall EXCEPT ![n] = new] /\ definition' = definition
  BY <1>3, <1>4 DEF Tools!answer
<1>8. \A m \in Tools!Calls : toolsCall'[m] = IF m = n THEN new ELSE toolsCall[m]
  BY <1>7 DEF ToolsInv, ToolShape
<1>9. mcp' \in ToolPanels /\ mcp'.inspecting = mcp.inspecting /\ (mcp'.flight = mcp.flight \/ mcp.flight = n)
  <2>1. [key |-> k, call |-> n] \in Tools!Unconfirmed
    BY <1>1 DEF Tools!Unconfirmed
  <2>2. mcp' \in {mcp, Tools!Landed(mcp, n), Tools!Landed([mcp EXCEPT !.unconfirmed = [key |-> k, call |-> n],
                                               !.acknowledged = FALSE], n)}
    BY DEF Tools!answer
  <2>3. PICK u : u = [key |-> k, call |-> n]
    OBVIOUS
  <2>4. PICK p : p = [mcp EXCEPT !.unconfirmed = u, !.acknowledged = FALSE]
    OBVIOUS
  <2>5. p \in ToolPanels /\ p.inspecting = mcp.inspecting /\ p.flight = mcp.flight
    BY <2>1, <2>3, <2>4 DEF ToolPanels, ToolsInv, ToolShape
  <2> QED
    BY <2>2, <2>3, <2>4, <2>5 DEF Tools!Landed, ToolPanels, ToolsInv, ToolShape
<1>10. \A i \in Tools!Keys :
         /\ ~Mine(i) => receipts'[i] = receipts[i]
         /\ Mine(i) /\ reported => receipts'[i] = None
         /\ Mine(i) /\ ~reported => receipts'[i] = [receipts[i] EXCEPT !.state = "uncertain"]
  BY <1>1, <1>3 DEF Tools!Completed, Tools!Doubtful, ToolsInv, ToolShape
<1>11. \A i \in Tools!Keys : receipts[i] # None =>
          /\ receipts[i].call \in Tools!Calls
          /\ [receipts[i] EXCEPT !.state = "uncertain"] \in ToolReceipts
          /\ [receipts[i] EXCEPT !.state = "uncertain"].call = receipts[i].call
  BY DEF ToolsInv, ToolShape, ToolReceipts
<1>12. \A r \in ToolReceipts : r # None
  BY ToolsAssumption DEF ToolReceipts, Tools!Calls
<1>12a. ASSUME NEW i \in Tools!Keys
        PROVE  /\ receipts'[i] # None => receipts[i] # None /\ receipts'[i].call = receipts[i].call
               /\ receipts[i] # None /\ ~(Mine(i) /\ reported) =>
                    receipts'[i] # None /\ receipts'[i].call = receipts[i].call
  <2>1. CASE ~Mine(i)
    BY <1>10, <2>1
  <2>2. CASE Mine(i) /\ reported
    BY <1>10, <2>2
  <2>3. CASE Mine(i) /\ ~reported
    <3>1. PICK r : r = [receipts[i] EXCEPT !.state = "uncertain"]
      OBVIOUS
    <3>2. receipts[i] # None /\ receipts'[i] = r
      BY <1>10, <2>3, <3>1
    <3>3. r \in ToolReceipts /\ r.call = receipts[i].call
      BY <1>11, <3>1, <3>2
    <3> QED
      BY <1>12, <3>2, <3>3
  <2> QED
    BY <2>1, <2>2, <2>3
<1>13. ToolShape'
  <2>1. receipts' \in [Tools!Keys -> ToolReceipts \cup {None}]
    <3>1. DOMAIN receipts' = Tools!Keys /\ receipts' = [i \in Tools!Keys |-> receipts'[i]]
      BY <1>3 DEF Tools!Completed, Tools!Doubtful, ToolsInv, ToolShape
    <3> QED
      BY <1>10, <1>11, <3>1 DEF ToolsInv, ToolShape
  <2> QED
    BY <1>5, <1>7, <1>9, <2>1 DEF ToolsInv, ToolShape
<1> HIDE DEF Mine
<1>14. \A m \in Tools!Calls : \A j \in 1..(m - 1) : j \in Tools!Calls
  BY ToolsAssumption DEF Tools!Calls
<1>15. \A m \in Tools!Calls : /\ Tools!Sent(m)' <=> Tools!Sent(m)
                              /\ toolsCall'[m] = None <=> toolsCall[m] = None
                              /\ toolsCall[m] # None => /\ toolsCall'[m].key = toolsCall[m].key
                                                        /\ (Known(m) => Known(m)')
                                                        /\ (~Known(m) /\ Known(m)' => m = n /\ reported)
  BY <1>1, <1>5, <1>6, <1>8 DEF Tools!Sent, Known
<1>16. ReceiptsAreTheirs'
  <2>1. ASSUME NEW i \in Tools!Keys, receipts'[i] # None
        PROVE  toolsCall'[receipts'[i].call] # None /\ toolsCall'[receipts'[i].call].key = i
    <3>1. receipts[i] # None /\ receipts'[i].call = receipts[i].call /\ receipts[i].call \in Tools!Calls
      BY <1>11, <1>12a, <2>1
    <3>2. toolsCall[receipts[i].call] # None /\ toolsCall[receipts[i].call].key = i
      BY <3>1 DEF ToolsInv, ReceiptsAreTheirs
    <3> QED
      BY <1>15, <3>1, <3>2
  <2>2. ASSUME NEW m \in Tools!Calls, Tools!Sent(m)', ~Known(m)'
        PROVE  receipts'[toolsCall'[m].key] # None /\ receipts'[toolsCall'[m].key].call = m
    <3>1. toolsCall[m] # None /\ toolsCall[m].key \in Tools!Keys /\ Tools!Sent(m) /\ ~Known(m)
      BY <1>15, <2>2 DEF Tools!Sent, ToolsInv, ToolShape, Tools!Call
    <3>2. receipts[toolsCall[m].key] # None /\ receipts[toolsCall[m].key].call = m
      BY <3>1 DEF ToolsInv, ReceiptsAreTheirs
    <3>3. CASE Mine(toolsCall[m].key)
      <4>1. ~reported
        BY <1>5, <1>8, <2>2, <3>2, <3>3 DEF Mine, Known
      <4> QED
        BY <1>12a, <1>15, <3>1, <3>2, <4>1
    <3> QED
      BY <1>10, <1>15, <3>1, <3>2, <3>3
  <2> QED
    BY <2>1, <2>2 DEF ReceiptsAreTheirs
<1>17. Tools!NoCallRepeat'
  BY <1>14, <1>15 DEF ToolsInv, Tools!NoCallRepeat, Known, Tools!Sent
<1>18. InHandIsShown'
  <2>1. \A m \in Tools!Calls : InHand(m)' => m # n /\ InHand(m)
    BY <1>5, <1>8 DEF InHand
  <2>2. \A m \in Tools!Calls : toolsCall[m] # None /\ m # n /\ InHand(m) => mcp'.flight = mcp.flight
    BY <1>9 DEF ToolsInv, InHandIsShown
  <2>3. ASSUME NEW m \in Tools!Calls, toolsCall'[m] # None
        PROVE  /\ InHand(m)' => mcp'.inspecting = toolsCall'[m].key /\ mcp'.flight = m
               /\ \A j \in 1..(m - 1) : toolsCall'[j] # None /\ ~InHand(j)'
               /\ toolsCall'[m].pc = "hash" => toolsCall'[m].wire = "none"
    <3>1. InHand(m)' => mcp'.inspecting = toolsCall'[m].key /\ mcp'.flight = m
      BY <1>9, <1>15, <2>1, <2>2, <2>3 DEF InHandIsShown, ToolsInv
    <3>2. \A j \in 1..(m - 1) : toolsCall'[j] # None /\ ~InHand(j)'
      BY <1>14, <1>15, <2>1, <2>3 DEF InHandIsShown, ToolsInv
    <3>3. toolsCall'[m].pc = "hash" => toolsCall'[m].wire = "none"
      BY <1>5, <1>8, <1>15, <2>3 DEF InHandIsShown, ToolsInv
    <3> QED
      BY <3>1, <3>2, <3>3
  <2> QED
    BY <2>3 DEF InHandIsShown
<1> QED
  BY <1>13, <1>16, <1>17, <1>18 DEF ToolsInv

\* The user lets an instruction go: the call in doubt is known from then on.
LEMMA ToolsAcknowledge ==
  ASSUME ToolsInv, Tools!acknowledgeInstruction
  PROVE  ToolsInv'
<1> DEFINE k == mcp.unconfirmed.key
           n == mcp.unconfirmed.call
<1>1. k \in Tools!Keys /\ n \in Tools!Calls /\ receipts[k] # None /\ receipts[k].call = n
  BY DEF Tools!acknowledgeInstruction, ToolsInv, ToolShape, ToolPanels, Tools!Unconfirmed
<1>2. toolsCall[n] \in Tools!Call /\ toolsCall[n] # None /\ toolsCall[n].key = k
  BY <1>1 DEF ToolsInv, ToolShape, ReceiptsAreTheirs
<1>3. PICK new : new = [toolsCall[n] EXCEPT !.acknowledged = TRUE]
  OBVIOUS
<1>4. /\ new \in Tools!Call /\ new.key = k /\ new.pc = toolsCall[n].pc /\ new.wire = toolsCall[n].wire
      /\ new.acknowledged = TRUE /\ new.reported = toolsCall[n].reported
      /\ new.fresh = toolsCall[n].fresh /\ new.inView = toolsCall[n].inView
  BY <1>2, <1>3 DEF Tools!Call
<1>5. new # None
  BY <1>4, ToolsAssumption, ToolCallsAre
<1>6. toolsCall' = [toolsCall EXCEPT ![n] = new] /\ definition' = definition /\ receipts' = [receipts EXCEPT ![k] = None]
  BY <1>1, <1>2, <1>3 DEF Tools!acknowledgeInstruction, ToolsInv, ToolShape
<1>7. \A m \in Tools!Calls : toolsCall'[m] = IF m = n THEN new ELSE toolsCall[m]
  BY <1>1, <1>6 DEF ToolsInv, ToolShape
<1>8. mcp' \in ToolPanels /\ mcp'.inspecting = mcp.inspecting /\ mcp'.flight = mcp.flight
  BY DEF Tools!acknowledgeInstruction, ToolsInv, ToolShape, ToolPanels
<1>9. ToolShape'
  BY <1>1, <1>4, <1>6, <1>8 DEF ToolsInv, ToolShape
<1>10. \A i \in Tools!Keys : receipts'[i] = IF i = k THEN None ELSE receipts[i]
  BY <1>6 DEF ToolsInv, ToolShape
<1> HIDE DEF k, n
<1>11. \A i \in Tools!Keys : receipts[i] # None => receipts[i].call \in Tools!Calls
  BY DEF ToolsInv, ToolShape, ToolReceipts
<1>12. \A m \in Tools!Calls : \A j \in 1..(m - 1) : j \in Tools!Calls
  BY ToolsAssumption DEF Tools!Calls
<1>13. \A m \in Tools!Calls : /\ Tools!Sent(m)' <=> Tools!Sent(m)
                              /\ toolsCall'[m] = None <=> toolsCall[m] = None
                              /\ InHand(m)' <=> InHand(m)
                              /\ toolsCall[m] # None => /\ toolsCall'[m].key = toolsCall[m].key
                                                        /\ toolsCall'[m].pc = toolsCall[m].pc
                                                        /\ toolsCall'[m].wire = toolsCall[m].wire
                                                        /\ (Known(m)' <=> Known(m) \/ m = n)
  BY <1>2, <1>4, <1>5, <1>7 DEF Tools!Sent, Known, InHand
<1>14. ReceiptsAreTheirs'
  <2>1. ASSUME NEW i \in Tools!Keys, receipts'[i] # None
        PROVE  toolsCall'[receipts'[i].call] # None /\ toolsCall'[receipts'[i].call].key = i
    BY <1>10, <1>11, <1>13, <2>1 DEF ToolsInv, ReceiptsAreTheirs
  <2>2. ASSUME NEW m \in Tools!Calls, Tools!Sent(m)', ~Known(m)'
        PROVE  receipts'[toolsCall'[m].key] # None /\ receipts'[toolsCall'[m].key].call = m
    <3>1. toolsCall[m] # None /\ toolsCall[m].key \in Tools!Keys /\ Tools!Sent(m) /\ ~Known(m) /\ m # n
      BY <1>13, <2>2 DEF Tools!Sent, ToolsInv, ToolShape, Tools!Call
    <3>2. receipts[toolsCall[m].key] # None /\ receipts[toolsCall[m].key].call = m
      BY <3>1 DEF ToolsInv, ReceiptsAreTheirs
    <3> QED
      BY <1>1, <1>10, <1>13, <3>1, <3>2
  <2> QED
    BY <2>1, <2>2 DEF ReceiptsAreTheirs
<1>15. Tools!NoCallRepeat'
  <2> SUFFICES ASSUME NEW m \in Tools!Calls, NEW j \in 1..(m - 1), Tools!Sent(m)', Tools!Sent(j)',
                      toolsCall'[m].key = toolsCall'[j].key
               PROVE  Known(j)'
    BY DEF Tools!NoCallRepeat, Known
  <2> QED
    BY <1>12, <1>13 DEF ToolsInv, Tools!NoCallRepeat, Known, Tools!Sent
<1>16. InHandIsShown'
  BY <1>8, <1>12, <1>13 DEF InHandIsShown, ToolsInv
<1> QED
  BY <1>9, <1>14, <1>15, <1>16 DEF ToolsInv

LEMMA ToolsInitInv == Tools!Init => ToolsInv
BY ToolsAssumption
DEF Tools!Init, ToolsInv, ToolShape, ToolPanels, Tools!Fresh, ReceiptsAreTheirs, InHandIsShown, InHand, Known,
    Tools!NoCallRepeat, Tools!Sent, Tools!Definitions

LEMMA ToolsNext == ASSUME ToolsInv, Tools!Next \/ UNCHANGED toolsVars PROVE ToolsInv'
<1>1. CASE UNCHANGED toolsVars
  BY <1>1, ToolsFrame DEF toolsVars
<1> QED
  BY <1>1, ToolsShow, ToolsStartOver, ToolsServed, ToolsConfirm, ToolsSend, ToolsAnswer, ToolsAcknowledge
  DEF Tools!Next, Tools!Step

\* What leaves was on screen: only the step that sends a call does that.
LEMMA ToolsLeave ==
  ASSUME ToolsInv, Tools!Next, NEW n \in Tools!Calls,
         toolsCall[n] # None, toolsCall[n].pc = "hash", toolsCall'[n].pc = "sent"
  PROVE  mcp.inspecting = toolsCall[n].key /\ mcp.flight = n
<1>1. toolsCall \in [Tools!Calls -> Tools!Call \cup {None}] /\ toolsCall[n] \in Tools!Call
  BY DEF ToolsInv, ToolShape
<1>2. ASSUME NEW m \in Tools!Calls, Tools!send(m) PROVE InHand(n)
  <2>1. m = n
    BY <1>1, <1>2 DEF Tools!send
  <2> QED
    BY <1>1, <1>2, <2>1 DEF Tools!send, Tools!StillReviewed, InHand, Tools!Call
<1>3. ASSUME NEW m \in Tools!Calls, Tools!answer(m) \/ Tools!hostCalls(m) \/ Tools!confirmCall(m) PROVE FALSE
  <2>1. CASE m = n
    BY <1>1, <1>3, <2>1 DEF Tools!answer, Tools!hostCalls, Tools!confirmCall, ToolsInv, InHandIsShown
  <2>2. CASE m # n
    BY <1>1, <1>3, <2>2 DEF Tools!answer, Tools!hostCalls, Tools!confirmCall
  <2> QED
    BY <2>1, <2>2
<1>4. ~Tools!acknowledgeInstruction
  <2>1. SUFFICES ASSUME Tools!acknowledgeInstruction PROVE FALSE
    OBVIOUS
  <2>2. toolsCall' = [toolsCall EXCEPT ![mcp.unconfirmed.call].acknowledged = TRUE]
    BY <2>1 DEF Tools!acknowledgeInstruction
  <2>3. toolsCall'[n].pc = toolsCall[n].pc
    BY <1>1, <2>2 DEF Tools!Call
  <2> QED
    BY <2>3
<1>5. ~(Tools!loaded \/ Tools!reviewCall \/ Tools!acknowledge \/ Tools!administer)
  BY <1>1 DEF Tools!loaded, Tools!reviewCall, Tools!acknowledge, Tools!administer
<1>6. ~(\/ Tools!reset \/ Tools!reloadPage \/ Tools!closeInspection \/ Tools!administered
        \/ \E k \in Tools!Keys : Tools!inspect(k))
  <2>1. SUFFICES ASSUME \/ Tools!reset \/ Tools!reloadPage \/ Tools!closeInspection \/ Tools!administered
                        \/ \E k \in Tools!Keys : Tools!inspect(k)
                 PROVE  FALSE
    OBVIOUS
  <2>2. \/ toolsCall' = toolsCall
        \/ toolsCall'[n] = [toolsCall[n] EXCEPT !.fresh = FALSE, !.inView = FALSE]
        \/ toolsCall'[n] = [toolsCall[n] EXCEPT !.inView = FALSE]
        \/ toolsCall'[n] = [toolsCall[n] EXCEPT !.pc = "ended"]
    BY Zenon, <2>1 DEF Tools!reset, Tools!reloadPage, Tools!closeInspection, Tools!administered, Tools!inspect, Tools!OutOfView
  <2> QED
    BY <1>1, <2>2 DEF Tools!Call
<1> QED
  BY <1>2, <1>3, <1>4, <1>5, <1>6 DEF Tools!Next, Tools!Step, ToolsInv, InHandIsShown

-----------------------------------------------------------------------------
(* Commands on dedicated runners. *)

\* Steps that add no command and end no intent.
LEMMA JobsQuiet ==
  ASSUME JobsInv, subs' \in Seq(JobSubs), Len(subs') = Len(subs), jobsIntent' = jobsIntent,
         \A n \in 1..Len(subs) :
            /\ subs'[n].id = subs[n].id /\ subs'[n].runner = subs[n].runner /\ subs'[n].cmd = subs[n].cmd
            /\ subs[n].pc = "heard" => subs'[n].pc = "heard"
  PROVE  IntentIsOfTheLast' /\ Jobs!SameUntilHeard'
<1>1. Len(subs) \in Nat /\ \A n \in 1..Len(subs) : subs[n] \in JobSubs
  BY DEF JobsInv, JobsShape
<1>2. IntentIsOfTheLast'
  <2>1. CASE Len(subs) > 0
    <3>1. Len(subs) \in 1..Len(subs)
      BY <1>1, <2>1
    <3> QED
      BY <1>1, <2>1, <3>1 DEF JobsInv, IntentIsOfTheLast, HeardBy
  <2> QED
    BY <1>1, <2>1 DEF IntentIsOfTheLast
<1>3. Jobs!SameUntilHeard'
  <2>1. SUFFICES ASSUME NEW n \in 2..Len(subs), subs'[n].runner = subs'[n - 1].runner,
                        subs'[n].cmd = subs'[n - 1].cmd, subs'[n].id # subs'[n - 1].id
                 PROVE  \E m \in 1..(n - 1) : subs'[m].id = subs'[n - 1].id /\ subs'[m].pc = "heard"
    BY DEF Jobs!SameUntilHeard
  <2>2. n \in 1..Len(subs) /\ n - 1 \in 1..Len(subs) /\ \A m \in 1..(n - 1) : m \in 1..Len(subs)
    BY <1>1
  <2>3. PICK m \in 1..(n - 1) : subs[m].id = subs[n - 1].id /\ subs[m].pc = "heard"
    BY <2>1, <2>2 DEF JobsInv, Jobs!SameUntilHeard
  <2> QED
    BY <2>2, <2>3
<1> QED
  BY <1>2, <1>3

LEMMA JobsFrame == ASSUME JobsInv, UNCHANGED <<jobsJobs, jobsIntent, subs, jobsView>> PROVE JobsInv'
BY DEF JobsInv, JobsShape, IntentIsOfTheLast, HeardBy, Jobs!SameUntilHeard

\* What a window shows, or what the host keeps, and neither a command nor an intent.
LEMMA JobsApart ==
  ASSUME JobsInv, UNCHANGED <<jobsIntent, subs>>, jobsJobs' \in Seq(JobRecords), jobsView' \in [Windows -> JobViews]
  PROVE  JobsInv'
BY DEF JobsInv, JobsShape, IntentIsOfTheLast, HeardBy, Jobs!SameUntilHeard

LEMMA JobsSelect ==
  ASSUME JobsInv, NEW w \in Windows, NEW r \in Runners, Jobs!setSelected(w, r)
  PROVE  JobsInv'
<1>1. subs \in Seq(JobSubs) /\ Len(subs) \in Nat /\ DOMAIN subs = 1..Len(subs) /\ \A n \in 1..Len(subs) : subs[n] \in JobSubs
  BY DEF JobsInv, JobsShape
<1>2. Jobs!Opened(r) \in JobViews
  BY DEF Jobs!Opened, JobViews
<1>3. jobsView' \in [Windows -> JobViews]
  BY <1>2 DEF Jobs!setSelected, JobsInv, JobsShape
<1>4. PICK after : after = [n \in 1..Len(subs) |-> IF subs[n].by = w THEN [subs[n] EXCEPT !.fresh = FALSE] ELSE subs[n]]
  OBVIOUS
<1>5. subs' = after
  BY <1>1, <1>4 DEF Jobs!setSelected
<1>6. \A n \in 1..Len(subs) : /\ after[n] \in JobSubs /\ after[n].id = subs[n].id /\ after[n].runner = subs[n].runner
                              /\ after[n].cmd = subs[n].cmd /\ after[n].pc = subs[n].pc
  BY <1>1, <1>4 DEF JobSubs
<1>7. after \in Seq(JobSubs) /\ Len(after) = Len(subs)
  BY <1>1, <1>4, <1>6
<1> QED
  BY <1>1, <1>3, <1>5, <1>6, <1>7, JobsQuiet DEF JobsInv, JobsShape, Jobs!setSelected

LEMMA JobsRead ==
  ASSUME JobsInv, NEW w \in Windows, Jobs!poll(w) \/ Jobs!load(w)
  PROVE  JobsInv'
<1>1. jobsView \in [Windows -> JobViews] /\ jobsView[w] \in JobViews /\ jobsJobs \in Seq(JobRecords)
  BY DEF JobsInv, JobsShape
<1>2. PICK here : here = Jobs!JobsOf(jobsView[w].runner)
  OBVIOUS
<1>3. here \subseteq Nat
  BY <1>1, <1>2 DEF Jobs!JobsOf
<1>4. jobsView' \in [Windows -> JobViews]
  BY <1>1, <1>2, <1>3, Zenon DEF Jobs!poll, Jobs!load, JobViews
<1> QED
  BY <1>1, <1>4, JobsApart DEF Jobs!poll, Jobs!load

LEMMA JobsRun ==
  ASSUME JobsInv, NEW w \in Windows, NEW c \in RunnerCommands, Jobs!runJob(w, c)
  PROVE  JobsInv'
<1>1. /\ subs \in Seq(JobSubs) /\ Len(subs) \in Nat /\ \A n \in 1..Len(subs) : subs[n] \in JobSubs
      /\ jobsView \in [Windows -> JobViews] /\ jobsView[w] \in JobViews
      /\ jobsIntent \in JobIntents \cup {None}
  BY DEF JobsInv, JobsShape
<1>2. PICK r \in Runners : r = jobsView[w].runner
  BY <1>1 DEF JobViews
<1>3. PICK k : k = Jobs!obtain(r, c)
  OBVIOUS
<1>4. k \in Nat
  BY <1>1, <1>3 DEF Jobs!obtain, Jobs!Same, JobIntents
<1>5. PICK sub : sub = [by |-> w, runner |-> r, cmd |-> c, id |-> k, fresh |-> TRUE,
                        wire |-> "sent", status |-> None, pc |-> "open"]
  OBVIOUS
<1>6. sub \in JobSubs /\ sub.id = k /\ sub.runner = r /\ sub.cmd = c
  BY <1>4, <1>5 DEF JobSubs
<1>7. PICK kept : kept = [id |-> k, runner |-> r, cmd |-> c]
  OBVIOUS
<1>8. kept \in JobIntents /\ kept.id = k /\ kept.runner = r /\ kept.cmd = c /\ kept # None
  BY <1>4, <1>7, JobsAssumption DEF JobIntents
<1>9. subs' = Append(subs, sub) /\ jobsIntent' = kept /\ UNCHANGED jobsJobs
  BY <1>2, <1>3, <1>5, <1>7 DEF Jobs!runJob
<1>10. jobsView' \in [Windows -> JobViews]
  BY <1>1 DEF Jobs!runJob, JobViews
<1>11. /\ subs' \in Seq(JobSubs) /\ Len(subs') = Len(subs) + 1 /\ subs'[Len(subs) + 1] = sub
       /\ \A n \in 1..Len(subs) : subs'[n] = subs[n]
  BY <1>1, <1>6, <1>9
<1>12. JobsShape'
  BY <1>8, <1>9, <1>10, <1>11 DEF JobsInv, JobsShape
<1>13. IntentIsOfTheLast'
  BY <1>1, <1>6, <1>8, <1>9, <1>11 DEF IntentIsOfTheLast
<1>14. Jobs!SameUntilHeard'
  <2>1. SUFFICES ASSUME NEW n \in 2..(Len(subs) + 1), subs'[n].runner = subs'[n - 1].runner,
                        subs'[n].cmd = subs'[n - 1].cmd, subs'[n].id # subs'[n - 1].id
                 PROVE  \E m \in 1..(n - 1) : subs'[m].id = subs'[n - 1].id /\ subs'[m].pc = "heard"
    BY <1>1, <1>11 DEF Jobs!SameUntilHeard
  <2>2. n - 1 \in 1..Len(subs) /\ \A m \in 1..(n - 1) : m \in 1..Len(subs)
    BY <1>1
  <2>3. CASE n \in 2..Len(subs)
    <3>1. n \in 1..Len(subs)
      BY <2>3
    <3>2. PICK m \in 1..(n - 1) : subs[m].id = subs[n - 1].id /\ subs[m].pc = "heard"
      BY <1>11, <2>1, <2>2, <2>3, <3>1 DEF JobsInv, Jobs!SameUntilHeard
    <3> QED
      BY <1>11, <2>2, <3>2
  <2>4. CASE n = Len(subs) + 1
    <3>1. Len(subs) > 0 /\ n - 1 = Len(subs)
      BY <1>1, <2>4
    <3>2. subs[Len(subs)].runner = r /\ subs[Len(subs)].cmd = c /\ subs[Len(subs)].id # k
      BY <1>1, <1>6, <1>11, <2>1, <2>2, <2>4, <3>1
    <3>3. jobsIntent = None
      BY <1>3, <3>1, <3>2 DEF JobsInv, IntentIsOfTheLast, Jobs!obtain, Jobs!Same
    <3>4. HeardBy(Len(subs), subs[Len(subs)].id)
      BY <3>1, <3>3 DEF JobsInv, IntentIsOfTheLast
    <3> QED
      BY <1>1, <1>11, <2>2, <3>1, <3>4 DEF HeardBy
  <2> QED
    BY <1>1, <2>3, <2>4
<1> QED
  BY <1>12, <1>13, <1>14 DEF JobsInv

LEMMA JobsAnswered ==
  ASSUME JobsInv, NEW n \in DOMAIN subs, Jobs!answered(n)
  PROVE  JobsInv'
<1>1. /\ subs \in Seq(JobSubs) /\ Len(subs) \in Nat /\ DOMAIN subs = 1..Len(subs)
      /\ \A m \in 1..Len(subs) : subs[m] \in JobSubs
      /\ jobsView \in [Windows -> JobViews] /\ jobsIntent \in JobIntents \cup {None}
  BY DEF JobsInv, JobsShape
<1>2. PICK p : p = (IF Jobs!Finished(subs[n]) /\ subs[n].status = "over" THEN "heard" ELSE "ended")
  OBVIOUS
<1>3. subs' = [subs EXCEPT ![n].pc = p] /\ p \in {"ended", "heard"} /\ subs[n].pc = "open" /\ UNCHANGED jobsJobs
  BY <1>2 DEF Jobs!answered
<1>4. /\ subs' \in Seq(JobSubs) /\ Len(subs') = Len(subs)
      /\ \A m \in 1..Len(subs) :
           /\ subs'[m].id = subs[m].id /\ subs'[m].runner = subs[m].runner /\ subs'[m].cmd = subs[m].cmd
           /\ subs[m].pc = "heard" => subs'[m].pc = "heard"
      /\ subs'[n].pc = p
  <2>1. PICK sub : sub = [subs[n] EXCEPT !.pc = p]
    OBVIOUS
  <2>2. /\ sub \in JobSubs /\ sub.id = subs[n].id /\ sub.runner = subs[n].runner
        /\ sub.cmd = subs[n].cmd /\ sub.pc = p
    BY <1>1, <1>3, <2>1 DEF JobSubs
  <2>3. subs' = [subs EXCEPT ![n] = sub]
    BY <1>3, <2>1
  <2> QED
    BY <1>1, <1>3, <2>2, <2>3
<1>5. jobsView' \in [Windows -> JobViews]
  <2>1. subs[n].by \in Windows /\ jobsView[subs[n].by] \in JobViews
    BY <1>1 DEF JobSubs
  <2> QED
    BY <1>1, <2>1 DEF Jobs!answered, JobViews
<1>6. CASE jobsIntent' = jobsIntent
  BY <1>1, <1>3, <1>4, <1>5, <1>6, JobsQuiet DEF JobsInv, JobsShape
<1>7. CASE jobsIntent' # jobsIntent
  <2>1. jobsIntent' = None /\ Jobs!Finished(subs[n]) /\ jobsIntent # None /\ jobsIntent.id = subs[n].id
    BY <1>7 DEF Jobs!answered, Jobs!clearMediaIntent
  <2>2. p = "heard"
    BY <1>2, <2>1 DEF Jobs!Finished
  <2>3. Len(subs) > 0 /\ subs[Len(subs)].id = subs[n].id /\ Len(subs) \in 1..Len(subs)
    BY <1>1, <2>1 DEF JobsInv, IntentIsOfTheLast
  <2>4. IntentIsOfTheLast'
    BY <1>1, <1>4, <2>1, <2>2, <2>3 DEF IntentIsOfTheLast, HeardBy
  <2>5. Jobs!SameUntilHeard'
    <3>1. SUFFICES ASSUME NEW i \in 2..Len(subs), subs'[i].runner = subs'[i - 1].runner,
                          subs'[i].cmd = subs'[i - 1].cmd, subs'[i].id # subs'[i - 1].id
                   PROVE  \E m \in 1..(i - 1) : subs'[m].id = subs'[i - 1].id /\ subs'[m].pc = "heard"
      BY <1>4 DEF Jobs!SameUntilHeard
    <3>2. i \in 1..Len(subs) /\ i - 1 \in 1..Len(subs) /\ \A m \in 1..(i - 1) : m \in 1..Len(subs)
      BY <1>1
    <3>3. PICK m \in 1..(i - 1) : subs[m].id = subs[i - 1].id /\ subs[m].pc = "heard"
      BY <1>4, <3>1, <3>2 DEF JobsInv, Jobs!SameUntilHeard
    <3> QED
      BY <1>4, <3>2, <3>3
  <2> QED
    BY <1>3, <1>4, <1>5, <2>1, <2>4, <2>5 DEF JobsInv, JobsShape
<1> QED
  BY <1>6, <1>7

LEMMA JobsServed ==
  ASSUME JobsInv, NEW n \in DOMAIN subs, Jobs!hostRuns(n) \/ Jobs!answerLost(n)
  PROVE  JobsInv'
<1>1. /\ subs \in Seq(JobSubs) /\ Len(subs) \in Nat /\ DOMAIN subs = 1..Len(subs)
      /\ \A m \in 1..Len(subs) : subs[m] \in JobSubs
      /\ jobsJobs \in Seq(JobRecords) /\ \A i \in DOMAIN jobsJobs : jobsJobs[i] \in JobRecords
  BY DEF JobsInv, JobsShape
<1>2. PICK x \in {"answered", "refused", "lost"}, st \in {None} \cup JobStatus :
        subs' = [subs EXCEPT ![n] = [subs[n] EXCEPT !.wire = x, !.status = st]]
  <2>1. subs[n] = [subs[n] EXCEPT !.status = subs[n].status] /\ subs[n].status \in {None} \cup JobStatus
    BY <1>1 DEF JobSubs
  <2>2. \A x : [subs[n] EXCEPT !.wire = x] = [subs[n] EXCEPT !.wire = x, !.status = subs[n].status]
    BY <1>1 DEF JobSubs
  <2>3. \A i \in Jobs!Prior(subs[n]) : jobsJobs[i].status \in JobStatus
    BY <1>1 DEF Jobs!Prior, JobRecords
  <2>4. CASE Jobs!answerLost(n)
    <3>1. subs' = [subs EXCEPT ![n].wire = "lost"]
      BY <2>4 DEF Jobs!answerLost
    <3> QED
      BY Zenon, <1>1, <2>1, <2>2, <3>1
  <2>5. CASE Jobs!hostRuns(n) /\ subs' = [subs EXCEPT ![n].wire = "refused"]
    BY Zenon, <1>1, <2>1, <2>2, <2>5
  <2>6. CASE \E i \in Jobs!Prior(subs[n]) :
               subs' = [subs EXCEPT ![n].wire = "answered", ![n].status = jobsJobs[i].status]
    BY Zenon, <1>1, <2>3, <2>6
  <2>7. CASE subs' = [subs EXCEPT ![n].wire = "answered", ![n].status = "running"]
    BY <1>1, <2>7 DEF JobStatus
  <2> QED
    BY <2>4, <2>5, <2>6, <2>7, Zenon DEF Jobs!hostRuns
<1>3. PICK sub : sub = [subs[n] EXCEPT !.wire = x, !.status = st]
  OBVIOUS
<1>4. sub \in JobSubs /\ sub.id = subs[n].id /\ sub.runner = subs[n].runner /\ sub.cmd = subs[n].cmd /\ sub.pc = subs[n].pc
  BY <1>1, <1>3 DEF JobSubs
<1>5. subs' = [subs EXCEPT ![n] = sub]
  BY <1>2, <1>3
<1>6. /\ subs' \in Seq(JobSubs) /\ Len(subs') = Len(subs)
      /\ \A m \in 1..Len(subs) :
           /\ subs'[m].id = subs[m].id /\ subs'[m].runner = subs[m].runner /\ subs'[m].cmd = subs[m].cmd
           /\ subs[m].pc = "heard" => subs'[m].pc = "heard"
  BY <1>1, <1>4, <1>5
<1>7. jobsJobs' \in Seq(JobRecords)
  <2>1. CASE jobsJobs' = jobsJobs
    BY <1>1, <2>1
  <2>2. CASE jobsJobs' # jobsJobs
    <3>1. jobsJobs' = Append(jobsJobs, [id |-> subs[n].id, runner |-> subs[n].runner, cmd |-> subs[n].cmd,
                                        status |-> "running", worker |-> TRUE])
      BY Zenon, <2>2 DEF Jobs!hostRuns, Jobs!answerLost
    <3>2. [id |-> subs[n].id, runner |-> subs[n].runner, cmd |-> subs[n].cmd,
           status |-> "running", worker |-> TRUE] \in JobRecords
      BY <1>1 DEF JobSubs, JobRecords, JobStatus
    <3> QED
      BY <1>1, <3>1, <3>2
  <2> QED
    BY <2>1, <2>2
<1>8. UNCHANGED <<jobsIntent, jobsView>>
  BY Zenon DEF Jobs!hostRuns, Jobs!answerLost
<1> QED
  BY <1>6, <1>7, <1>8, JobsQuiet DEF JobsInv, JobsShape

LEMMA JobsHost ==
  ASSUME JobsInv, \/ \E i \in DOMAIN jobsJobs : Jobs!jobEnds(i)
                  \/ \E r \in Runners : Jobs!stop(r)
  PROVE  JobsInv'
<1>1. /\ jobsJobs \in Seq(JobRecords) /\ Len(jobsJobs) \in Nat /\ DOMAIN jobsJobs = 1..Len(jobsJobs)
      /\ \A i \in 1..Len(jobsJobs) : jobsJobs[i] \in JobRecords
      /\ jobsView \in [Windows -> JobViews]
  BY DEF JobsInv, JobsShape
<1>2. \A j \in JobRecords : Jobs!Stopped(j) \in JobRecords
  BY DEF Jobs!Stopped, JobRecords, JobStatus
<1>3. jobsJobs' \in Seq(JobRecords) /\ UNCHANGED <<jobsIntent, subs, jobsView>>
  <2>1. CASE \E i \in DOMAIN jobsJobs : Jobs!jobEnds(i)
    <3>1. PICK i \in 1..Len(jobsJobs) : Jobs!jobEnds(i)
      BY <1>1, <2>1
    <3>2. PICK j : j = [jobsJobs[i] EXCEPT !.status = "over", !.worker = FALSE]
      OBVIOUS
    <3>3. j \in JobRecords
      BY <1>1, <3>2 DEF JobRecords, JobStatus
    <3>4. jobsJobs' = [jobsJobs EXCEPT ![i] = j]
      BY Zenon, <3>1, <3>2 DEF Jobs!jobEnds
    <3> QED
      BY <1>1, <3>1, <3>3, <3>4 DEF Jobs!jobEnds
  <2>2. CASE \E r \in Runners : Jobs!stop(r)
    <3>1. PICK r \in Runners : Jobs!stop(r)
      BY <2>2
    <3>2. PICK after : after = [i \in 1..Len(jobsJobs) |-> IF jobsJobs[i].runner = r THEN Jobs!Stopped(jobsJobs[i]) ELSE jobsJobs[i]]
      OBVIOUS
    <3>3. \A i \in 1..Len(jobsJobs) : after[i] \in JobRecords
      BY <1>1, <1>2, <3>2
    <3>4. after \in Seq(JobRecords)
      BY <1>1, <3>2, <3>3
    <3> QED
      BY <1>1, <3>1, <3>2, <3>4 DEF Jobs!stop
  <2> QED
    BY <2>1, <2>2
<1> QED
  BY <1>1, <1>3, JobsApart

LEMMA JobsRestart == ASSUME JobsInv, Jobs!restart PROVE JobsInv'
<1>1. /\ jobsJobs \in Seq(JobRecords) /\ Len(jobsJobs) \in Nat /\ DOMAIN jobsJobs = 1..Len(jobsJobs)
      /\ \A i \in 1..Len(jobsJobs) : jobsJobs[i] \in JobRecords
      /\ subs \in Seq(JobSubs) /\ Len(subs) \in Nat /\ DOMAIN subs = 1..Len(subs)
      /\ \A m \in 1..Len(subs) : subs[m] \in JobSubs
  BY DEF JobsInv, JobsShape
<1>2. \A j \in JobRecords : [Jobs!Stopped(j) EXCEPT !.worker = FALSE] \in JobRecords
  BY DEF Jobs!Stopped, JobRecords, JobStatus
<1>3. PICK after : after = [i \in 1..Len(jobsJobs) |-> [Jobs!Stopped(jobsJobs[i]) EXCEPT !.worker = FALSE]]
  OBVIOUS
<1>4. \A i \in 1..Len(jobsJobs) : after[i] \in JobRecords
  BY <1>1, <1>2, <1>3
<1>5. jobsJobs' = after /\ after \in Seq(JobRecords)
  BY <1>1, <1>3, <1>4 DEF Jobs!restart
<1>6. PICK lost : lost = [n \in 1..Len(subs) |-> IF subs[n].wire = "sent" THEN [subs[n] EXCEPT !.wire = "lost"] ELSE subs[n]]
  OBVIOUS
<1>7. \A n \in 1..Len(subs) : /\ lost[n] \in JobSubs /\ lost[n].id = subs[n].id /\ lost[n].runner = subs[n].runner
                              /\ lost[n].cmd = subs[n].cmd /\ lost[n].pc = subs[n].pc
  BY <1>1, <1>6 DEF JobSubs
<1>8. subs' = lost /\ lost \in Seq(JobSubs) /\ Len(lost) = Len(subs)
  BY <1>1, <1>6, <1>7 DEF Jobs!restart
<1>9. UNCHANGED <<jobsIntent, jobsView>>
  BY DEF Jobs!restart
<1> QED
  BY <1>1, <1>5, <1>7, <1>8, <1>9, JobsQuiet DEF JobsInv, JobsShape

LEMMA JobsInitInv == Jobs!Init => JobsInv
<1> SUFFICES ASSUME Jobs!Init PROVE JobsInv
  OBVIOUS
<1>1. (CHOOSE r \in Runners : TRUE) \in Runners
  BY JobsAssumption
<1>2. jobsView \in [Windows -> JobViews]
  BY <1>1 DEF Jobs!Init, Jobs!Opened, JobViews
<1> QED
  BY <1>2 DEF Jobs!Init, JobsInv, JobsShape, IntentIsOfTheLast, Jobs!SameUntilHeard

LEMMA JobsNext == ASSUME JobsInv, Jobs!Next \/ UNCHANGED jobsVars PROVE JobsInv'
BY JobsFrame, JobsSelect, JobsRead, JobsRun, JobsAnswered, JobsServed, JobsHost, JobsRestart
DEF Jobs!Next, Jobs!Step, jobsVars

-----------------------------------------------------------------------------
(* The update of the application. *)

LEMMA UpdateViewIs ==
  ASSUME NEW o \in UpdateOperations
  PROVE  Update!View(o) \in UpdateViews /\ Update!View(o).phase = o.phase /\ Update!View(o).version = o.version
BY DEF Update!View, UpdateViews

LEMMA UpdateViewNumbers == ASSUME NEW v \in UpdateViews PROVE v.version \in Nat
BY UpdateViewIs DEF UpdateViews, Update!Lost, UpdateOperations

LEMMA UpdateFrame == ASSUME UpdateInv, UNCHANGED updateVars PROVE UpdateInv'
BY DEF updateVars, UpdateInv, UpdateShape, OperationKnown, CallsInOrder, OneActionWaits, ButtonIsCurrent,
       Acts, Told, Ready, Reflects

\* Neither the window nor its calls change, and what is ready stays so.
LEMMA UpdateOperationMoves ==
  ASSUME UpdateInv, UNCHANGED <<updatePage, wire, answers>>,
         operation' \in UpdateOperations, job' # None => job' \in [kind : UpdateActions, of : Nat],
         installed' \in Nat, latest' \in Nat, updateUsed' \in [windows : Nat, clicks : Nat, failures : Nat],
         updateUsed'.windows = updateUsed.windows,
         OperationKnown', \A k, n : Ready(k, n) => Ready(k, n)'
  PROVE  UpdateInv'
<1>1. UpdateShape' /\ CallsInOrder'
  BY DEF UpdateInv, UpdateShape, CallsInOrder
<1>2. OneActionWaits'
  BY DEF UpdateInv, OneActionWaits, Acts, Told
<1>3. \A v : Reflects(v) => Reflects(v)'
  BY DEF Reflects
<1>4. ButtonIsCurrent'
  BY <1>3 DEF UpdateInv, ButtonIsCurrent, Told
<1> QED
  BY <1>1, <1>2, <1>4 DEF UpdateInv

LEMMA UpdateJobSteps ==
  ASSUME UpdateInv, \/ Update!jobFails \/ Update!checkEnds \/ Update!chunk \/ Update!verify
                    \/ Update!downloadEnds \/ Update!installEnds
  PROVE  UpdateInv'
<1>1. /\ operation \in UpdateOperations /\ job # None /\ job \in [kind : UpdateActions, of : Nat]
      /\ installed \in Nat /\ latest \in Nat /\ updateUsed \in [windows : Nat, clicks : Nat, failures : Nat]
  BY DEF UpdateInv, UpdateShape, Update!jobFails, Update!checkEnds, Update!chunk, Update!verify,
         Update!downloadEnds, Update!installEnds
<1>2. /\ UNCHANGED <<updatePage, wire, answers>> /\ installed' \in Nat /\ latest' \in Nat
      /\ updateUsed' \in [windows : Nat, clicks : Nat, failures : Nat] /\ updateUsed'.windows = updateUsed.windows
      /\ job' = None \/ job' = job
  BY <1>1 DEF Update!jobFails, Update!checkEnds, Update!chunk, Update!verify, Update!downloadEnds, Update!installEnds
<1>3. \A k, n : Ready(k, n) => Ready(k, n)'
  BY <1>1 DEF Ready
<1>4. operation' \in UpdateOperations /\ OperationKnown'
  <2>1. OperationKnown /\ Chunks \in Nat
    BY UpdateAssumption DEF UpdateInv
  <2>2. CASE Update!jobFails
    BY <1>1, <2>1, <2>2 DEF Update!jobFails, Update!failed, UpdateOperations, OperationKnown, Update!Phases
  <2>3. CASE Update!checkEnds
    BY <1>1, <2>1, <2>3 DEF Update!checkEnds, UpdateOperations, OperationKnown, Update!Phases
  <2>4. CASE Update!chunk
    <3>1. PICK known \in Nat : operation' = [operation EXCEPT !.downloaded = @ + 1, !.total = known]
      BY Zenon, <2>1, <2>4 DEF Update!chunk
    <3>2. PICK d \in Nat : d = operation.downloaded + 1
      BY <1>1 DEF UpdateOperations
    <3>3. operation' = [operation EXCEPT !.downloaded = d, !.total = known] /\ operation.phase = "downloading" /\ job' = job
      BY <2>4, <3>1, <3>2 DEF Update!chunk
    <3>4. operation' \in UpdateOperations /\ operation'.phase = "downloading" /\ operation'.version = operation.version
      BY <1>1, <3>3 DEF UpdateOperations
    <3> QED
      BY <2>1, <3>3, <3>4 DEF OperationKnown
  <2>5. CASE Update!verify
    BY <1>1, <2>1, <2>5 DEF Update!verify, UpdateOperations, OperationKnown, Update!Phases
  <2>6. CASE Update!downloadEnds
    BY <1>1, <2>1, <2>6 DEF Update!downloadEnds, UpdateOperations, OperationKnown, Update!Phases
  <2>7. CASE Update!installEnds
    BY <1>1, <2>1, <2>7 DEF Update!installEnds, UpdateOperations, OperationKnown, Update!Phases
  <2> QED
    BY <2>2, <2>3, <2>4, <2>5, <2>6, <2>7
<1> QED
  BY <1>1, <1>2, <1>3, <1>4, UpdateOperationMoves

LEMMA UpdatePublish == ASSUME UpdateInv, Update!publish PROVE UpdateInv'
BY UpdateOperationMoves DEF Update!publish, UpdateInv, UpdateShape, OperationKnown, Ready

LEMMA UpdateFreshIs == Update!Fresh \in UpdateOperations /\ Update!Fresh.phase = "idle"
BY DEF Update!Fresh, UpdateOperations, Update!Phases

LEMMA UpdateRestarts == ASSUME UpdateInv, Update!restarts PROVE UpdateInv'
<1>1. /\ operation' = Update!Fresh /\ job' = None /\ updatePage' = None /\ wire' = <<>> /\ answers' = <<>>
      /\ UNCHANGED <<installed, latest, updateUsed>>
  BY DEF Update!restarts
<1> QED
  BY <1>1, UpdateFreshIs DEF UpdateInv, UpdateShape, OperationKnown, CallsInOrder, OneActionWaits, ButtonIsCurrent

\* What an action begins.
LEMMA UpdateStart ==
  ASSUME UpdateInv, NEW a \in UpdateActions, Update!start(a), a = "download" => operation.phase = "available"
  PROVE  /\ operation' \in UpdateOperations /\ job' \in [kind : UpdateActions, of : Nat] /\ OperationKnown'
         /\ job'.kind = a
         /\ a = "download" => job'.of = operation.update
         /\ a = "install" => job'.of = operation.bytes
<1>1. operation \in UpdateOperations /\ OperationKnown
  BY DEF UpdateInv, UpdateShape
<1>2. PICK o : o = operation
  OBVIOUS
<1>3. PICK j : j = job'
  OBVIOUS
<1>4. j = [kind |-> a, of |-> CASE a = "download" -> operation.update [] a = "install" -> operation.bytes [] OTHER -> 0]
  BY <1>3 DEF Update!start
<1>5. /\ j \in [kind : UpdateActions, of : Nat] /\ j.kind = a
      /\ a = "download" => j.of = operation.update
      /\ a = "install" => j.of = operation.bytes
  <2>1. CASE a = "download"
    BY <1>1, <1>4, <2>1 DEF UpdateOperations
  <2>2. CASE a = "install"
    BY <1>1, <1>4, <2>2 DEF UpdateOperations
  <2>3. CASE a \in {"check", "restart"}
    BY <1>4, <2>3
  <2> QED
    BY <2>1, <2>2, <2>3 DEF UpdateActions
<1>6. /\ operation' \in UpdateOperations
      /\ operation'.phase \notin {"available", "downloaded"}
      /\ a = "download" => operation'.version = operation.version
  <2>1. operation' = Update!begin(operation, a)
    BY DEF Update!start
  <2>2. CASE a = "check"
    BY <2>1, <2>2 DEF Update!begin, Update!Fresh, UpdateOperations, Update!Phases
  <2>3. CASE a = "download"
    BY <1>1, <2>1, <2>3 DEF Update!begin, UpdateOperations, Update!Phases
  <2>4. CASE a = "install"
    BY <1>1, <2>1, <2>4 DEF Update!begin, UpdateOperations, Update!Phases
  <2>5. CASE a = "restart"
    BY <1>1, <2>1, <2>5 DEF Update!begin, UpdateOperations, Update!Phases
  <2> QED
    BY <2>2, <2>3, <2>4, <2>5 DEF UpdateActions
<1>7. OperationKnown'
  BY <1>1, <1>3, <1>5, <1>6 DEF OperationKnown
<1> QED
  BY <1>3, <1>5, <1>6, <1>7

LEMMA UpdateServesAction ==
  ASSUME UpdateInv, Update!serveAction
  PROVE  /\ UpdateInv'
         /\ job' # job => /\ job'.kind = Head(wire).kind
                          /\ job'.kind \in {"download", "install"} => Head(wire).seen = job'.of
<1>1. /\ wire \in Seq(UpdateCalls) /\ answers \in Seq(UpdateAnswers) /\ wire # <<>> /\ Len(wire) \in Nat
      /\ Len(answers) \in Nat /\ \A i \in 1..Len(wire) : wire[i] \in UpdateCalls
      /\ wire' = Tail(wire) /\ UNCHANGED <<installed, latest, updatePage, updateUsed>>
  BY DEF UpdateInv, UpdateShape, Update!serveAction
<1>2. PICK m \in UpdateCalls : m = Head(wire) /\ m = wire[1]
  BY <1>1
<1>3. /\ 1 \in 1..Len(wire) /\ Acts(1) /\ Len(wire') = Len(wire) - 1 /\ wire' \in Seq(UpdateCalls)
      /\ \A i \in 1..Len(wire') : wire'[i] = wire[i + 1] /\ i + 1 \in 1..Len(wire)
  BY <1>1, <1>2 DEF Update!serveAction, Acts
<1>4. \A i \in 1..Len(wire') : ~Acts(i)'
  BY <1>1, <1>3 DEF UpdateInv, OneActionWaits, Acts
<1>5. m.kind \in UpdateActions
  BY <1>2, <1>3 DEF Acts, UpdateCalls
<1>6. PICK ok \in BOOLEAN : answers' = Update!Answer(m, [kind |-> "done", ok |-> ok])
  BY <1>2 DEF Update!serveAction
<1>7. PICK told : told = [kind |-> "done", ok |-> ok]
  OBVIOUS
<1>8. told \in UpdateAnswers /\ told.kind = "done"
  BY <1>7 DEF UpdateAnswers
<1>9. Ready(m.kind, m.seen)
  BY <1>2, <1>3 DEF UpdateInv, OneActionWaits
<1>10. CallsInOrder'
  BY <1>1, <1>3 DEF UpdateInv, CallsInOrder
<1>11. OneActionWaits'
  BY <1>4 DEF OneActionWaits
<1>12. ButtonIsCurrent'
  <2>1. SUFFICES ASSUME updatePage # None PROVE ButtonIsCurrent'
    BY <1>1 DEF ButtonIsCurrent
  <2>2. CASE m.window = updatePage.window
    <3>1. updatePage.sending /\ ~updatePage.enabled /\ \A k \in 1..Len(answers) : ~Told(k)
      BY <1>2, <1>3, <2>1, <2>2 DEF UpdateInv, OneActionWaits, ButtonIsCurrent
    <3>2. answers' = Append(answers, told)
      BY <1>6, <1>7, <2>1, <2>2 DEF Update!Answer
    <3>3. /\ Len(answers') = Len(answers) + 1 /\ answers'[Len(answers) + 1].kind = "done"
          /\ \A k \in 1..Len(answers) : answers'[k] = answers[k]
      BY <1>1, <1>8, <3>2
    <3>4. PICK last : last = Len(answers) + 1
      OBVIOUS
    <3>5. last \in 1..Len(answers') /\ Told(last)' /\ \A i \in 1..Len(answers') : last \in i..Len(answers')
      BY <1>1, <3>3, <3>4 DEF Told
    <3>6. \A i \in 1..Len(answers') : Told(i)' => i = last
      BY <1>1, <3>1, <3>3, <3>4 DEF Told
    <3> QED
      BY <1>1, <3>1, <3>5, <3>6 DEF ButtonIsCurrent
  <2>3. CASE m.window # updatePage.window
    <3>1. answers = <<>> /\ ~updatePage.enabled /\ answers' = answers
      BY <1>2, <1>3, <1>6, <2>1, <2>3 DEF UpdateInv, OneActionWaits, Update!Answer
    <3>2. 1..Len(answers') = {}
      BY <3>1
    <3> QED
      BY <1>1, <3>1, <3>2 DEF ButtonIsCurrent
  <2> QED
    BY <2>2, <2>3
<1>13. answers' \in Seq(UpdateAnswers)
  BY <1>1, <1>6, <1>7, <1>8 DEF Update!Answer
<1>14. CASE UNCHANGED <<operation, job>>
  <2>1. UpdateShape' /\ OperationKnown'
    BY <1>1, <1>3, <1>13, <1>14 DEF UpdateInv, UpdateShape, OperationKnown
  <2> QED
    BY <1>10, <1>11, <1>12, <1>14, <2>1 DEF UpdateInv
<1>15. CASE Update!Allowed(operation, m.kind) /\ Update!start(m.kind)
  <2>1. m.kind = "download" => operation.phase = "available"
    BY <1>15 DEF Update!Allowed
  <2>2. /\ operation' \in UpdateOperations /\ job' \in [kind : UpdateActions, of : Nat] /\ OperationKnown'
        /\ job'.kind = m.kind
        /\ m.kind = "download" => job'.of = operation.update
        /\ m.kind = "install" => job'.of = operation.bytes
    BY <1>5, <1>15, <2>1, UpdateStart
  <2>3. job'.kind \in {"download", "install"} => m.seen = job'.of
    BY <1>9, <2>2 DEF Ready
  <2>4. UpdateShape'
    BY <1>1, <1>3, <1>13, <2>2 DEF UpdateInv, UpdateShape
  <2> QED
    BY <1>2, <1>10, <1>11, <1>12, <2>2, <2>3, <2>4 DEF UpdateInv
<1> QED
  BY <1>2, <1>14, <1>15 DEF Update!serveAction

LEMMA UpdateServesState == ASSUME UpdateInv, Update!serveState PROVE UpdateInv'
<1>1. /\ wire \in Seq(UpdateCalls) /\ answers \in Seq(UpdateAnswers) /\ wire # <<>> /\ Len(wire) \in Nat
      /\ Len(answers) \in Nat /\ \A i \in 1..Len(wire) : wire[i] \in UpdateCalls
      /\ operation \in UpdateOperations /\ updateUsed \in [windows : Nat, clicks : Nat, failures : Nat]
      /\ wire' = Tail(wire) /\ UNCHANGED <<operation, job, installed, latest, updatePage>>
  BY DEF UpdateInv, UpdateShape, Update!serveState
<1>2. PICK m \in UpdateCalls : m = Head(wire) /\ m = wire[1]
  BY <1>1
<1>3. /\ 1 \in 1..Len(wire) /\ Len(wire') = Len(wire) - 1 /\ wire' \in Seq(UpdateCalls)
      /\ \A i \in 1..Len(wire') : wire'[i] = wire[i + 1] /\ i + 1 \in 1..Len(wire) /\ i + 1 > 1
  BY <1>1, <1>2
<1>4. PICK v \in UpdateViews : /\ answers' = Update!Answer(m, [kind |-> "state", view |-> v])
                               /\ v = Update!View(operation) \/ v = Update!Lost
  BY <1>1, <1>2, UpdateViewIs DEF Update!serveState, UpdateViews
<1>5. Reflects(v)
  BY <1>1, <1>4, UpdateViewIs DEF Reflects, Ready, UpdateInv, OperationKnown, Update!Lost
<1>6. PICK said : said = [kind |-> "state", view |-> v]
  OBVIOUS
<1>7. said \in UpdateAnswers /\ said.kind = "state" /\ said.view = v
  BY <1>6 DEF UpdateAnswers
<1>8. updateUsed' \in [windows : Nat, clicks : Nat, failures : Nat] /\ updateUsed'.windows = updateUsed.windows
  BY <1>1 DEF Update!serveState
<1>9. UpdateShape' /\ OperationKnown' /\ CallsInOrder'
  BY <1>1, <1>3, <1>4, <1>6, <1>7, <1>8 DEF UpdateInv, UpdateShape, OperationKnown, CallsInOrder, Update!Answer
<1>10. CASE updatePage = None \/ m.window # updatePage.window
  <2>1. answers' = answers
    BY <1>4, <1>10 DEF Update!Answer
  <2>2. OneActionWaits'
    <3>1. \A i \in 1..Len(wire') : (Acts(i))' <=> Acts(i + 1)
      BY <1>3 DEF Acts
    <3>2. \A k \in 1..Len(answers) : (Told(k))' <=> Told(k)
      BY <2>1 DEF Told
    <3>3. ASSUME NEW i \in 1..Len(wire'), (Acts(i))'
          PROVE  /\ Ready(wire[i + 1].kind, wire[i + 1].seen)
                 /\ \A j \in 1..Len(wire') : (Acts(j))' => i = j
                 /\ updatePage # None => IF wire[i + 1].window = updatePage.window
                                          THEN updatePage.sending /\ \A k \in 1..Len(answers) : ~Told(k)
                                          ELSE answers = <<>> /\ ~updatePage.enabled
      BY <1>1, <1>3, <3>1, <3>3 DEF UpdateInv, OneActionWaits
    <3> QED
      BY <1>1, <1>3, <2>1, <3>2, <3>3, Zenon DEF OneActionWaits, Ready
  <2>3. ButtonIsCurrent'
    BY <1>1, <2>1 DEF UpdateInv, ButtonIsCurrent, Told, Ready, Reflects
  <2> QED
    BY <1>9, <2>2, <2>3 DEF UpdateInv
<1>11. CASE updatePage # None /\ m.window = updatePage.window
  <2>1. answers' = Append(answers, said)
    BY <1>4, <1>6, <1>11 DEF Update!Answer
  <2>2. /\ Len(answers') = Len(answers) + 1 /\ answers'[Len(answers) + 1] = said
        /\ \A k \in 1..Len(answers) : answers'[k] = answers[k]
    BY <1>1, <1>7, <2>1
  <2>3. \A k \in 1..Len(answers') : Told(k)' <=> (k \in 1..Len(answers) /\ Told(k))
    BY <1>1, <1>7, <2>2 DEF Told
  <2>4. \A i \in 1..Len(wire') : Acts(i)' => Acts(i + 1) /\ wire[i + 1].window = updatePage.window
    <3>1. SUFFICES ASSUME NEW i \in 1..Len(wire'), Acts(i)' PROVE wire[i + 1].window = updatePage.window
      BY <1>3 DEF Acts
    <3>2. wire[1].window <= wire[i + 1].window /\ wire[i + 1].window <= updateUsed.windows
      BY <1>3, <3>1 DEF UpdateInv, CallsInOrder
    <3>3. updatePage.window = updateUsed.windows /\ updateUsed.windows \in Nat /\ wire[i + 1].window \in Nat
      BY <1>1, <1>3, <1>11 DEF UpdateInv, CallsInOrder, UpdateCalls
    <3> QED
      BY <1>2, <1>11, <3>2, <3>3
  <2>5. OneActionWaits'
    <3>1. SUFFICES ASSUME NEW i \in 1..Len(wire'), Acts(i)'
                   PROVE  /\ Ready(wire[i].kind, wire[i].seen)'
                          /\ \A j \in 1..Len(wire') : Acts(j)' => i = j
                          /\ updatePage.sending /\ \A k \in 1..Len(answers') : ~Told(k)'
      BY <1>1, <1>3, <1>11, <2>4 DEF OneActionWaits
    <3>2. Acts(i + 1) /\ wire[i + 1].window = updatePage.window /\ i + 1 \in 1..Len(wire)
      BY <1>3, <2>4, <3>1
    <3>3. /\ Ready(wire[i + 1].kind, wire[i + 1].seen)
          /\ \A j \in 1..Len(wire) : Acts(j) => i + 1 = j
          /\ updatePage.sending /\ \A k \in 1..Len(answers) : ~Told(k)
      BY <1>11, <3>2 DEF UpdateInv, OneActionWaits
    <3>4. \A j \in 1..Len(wire') : Acts(j)' => i = j
      BY <1>1, <1>3, <3>3 DEF Acts
    <3>5. \A k \in 1..Len(answers') : ~Told(k)'
      BY <1>1, <2>2, <2>3, <3>3
    <3> QED
      BY <1>1, <1>3, <3>3, <3>4, <3>5 DEF Ready
  <2>6. ButtonIsCurrent'
    <3>1. \A i \in 1..Len(answers') : (\A j \in i..Len(answers') : ~Told(j)') => Reflects(answers'[i].view)
      <4>1. SUFFICES ASSUME NEW i \in 1..Len(answers'), \A j \in i..Len(answers') : ~Told(j)'
                     PROVE  Reflects(answers'[i].view)
        OBVIOUS
      <4>2. CASE i = Len(answers) + 1
        <5>1. answers'[i].view = v
          BY <1>7, <2>2, <4>2
        <5> QED
          BY <1>5, <5>1
      <4>3. CASE i \in 1..Len(answers)
        <5>1. \A j \in i..Len(answers) : ~Told(j)
          BY <1>1, <2>2, <2>3, <4>1, <4>3
        <5> QED
          BY <1>11, <2>2, <4>3, <5>1 DEF UpdateInv, ButtonIsCurrent
      <4> QED
        BY <1>1, <2>2, <4>2, <4>3
    <3>2. \A i \in 1..Len(answers') : Told(i)' => i \in 1..Len(answers) /\ Told(i)
      BY <1>1, <2>2, <2>3
    <3>3. \A x : Reflects(x)' <=> Reflects(x)
      BY <1>1 DEF Reflects, Ready
    <3> QED
      BY <1>1, <1>11, <3>1, <3>2, <3>3 DEF UpdateInv, ButtonIsCurrent
  <2> QED
    BY <1>9, <2>5, <2>6 DEF UpdateInv
<1> QED
  BY <1>10, <1>11

LEMMA UpdateCloses == ASSUME UpdateInv, Update!close PROVE UpdateInv'
<1>1. updatePage' = None /\ answers' = <<>> /\ UNCHANGED <<operation, job, installed, latest, wire, updateUsed>>
  BY DEF Update!close
<1>2. UpdateShape' /\ OperationKnown' /\ CallsInOrder' /\ ButtonIsCurrent'
  BY <1>1 DEF UpdateInv, UpdateShape, OperationKnown, CallsInOrder, ButtonIsCurrent
<1>3. OneActionWaits'
  BY <1>1 DEF UpdateInv, OneActionWaits, Acts, Ready
<1> QED
  BY <1>2, <1>3 DEF UpdateInv

\* A call of the window that is open is the last one.
LEMMA UpdateQueues ==
  ASSUME wire \in Seq(UpdateCalls), updateUsed.windows \in Nat, CallsInOrder, NEW m \in UpdateCalls,
         m.window = updateUsed.windows, wire' = Append(wire, m), updateUsed'.windows = updateUsed.windows,
         updatePage # None, updatePage'.window = updatePage.window
  PROVE  CallsInOrder'
<1>1. Len(wire) \in Nat /\ \A i \in 1..Len(wire) : wire[i] \in UpdateCalls
  OBVIOUS
<1>2. /\ Len(wire') = Len(wire) + 1 /\ wire'[Len(wire) + 1] = m
      /\ \A i \in 1..Len(wire) : wire'[i] = wire[i]
  OBVIOUS
<1>3. \A i \in 1..Len(wire) : wire[i].window \in Nat /\ wire[i].window <= updateUsed.windows
  BY <1>1 DEF CallsInOrder, UpdateCalls
<1>4. \A i \in 1..Len(wire') : wire'[i].window <= updateUsed.windows
  BY <1>1, <1>2, <1>3
<1>5. ASSUME NEW i \in 1..Len(wire'), NEW j \in 1..Len(wire'), i < j PROVE wire'[i].window <= wire'[j].window
  <2>1. i \in 1..Len(wire)
    BY <1>1, <1>2, <1>5
  <2>2. CASE j \in 1..Len(wire)
    BY <1>2, <1>5, <2>1, <2>2 DEF CallsInOrder
  <2>3. CASE j = Len(wire) + 1
    BY <1>2, <1>3, <2>1, <2>3
  <2> QED
    BY <1>1, <1>2, <2>2, <2>3
<1> QED
  BY <1>4, <1>5 DEF CallsInOrder

\* Another call of the window for the state, and nothing else that matters.
LEMMA UpdateAsks ==
  ASSUME UpdateInv, updatePage # None, updatePage' \in UpdatePages, updatePage'.window = updatePage.window,
         updatePage'.sending = updatePage.sending, updatePage'.view = updatePage.view,
         updatePage'.action = updatePage.action, updatePage'.enabled => updatePage.enabled,
         wire' = Append(wire, Update!Ask(updatePage.window)),
         UNCHANGED <<operation, job, installed, latest, answers>>,
         updateUsed' \in [windows : Nat, clicks : Nat, failures : Nat], updateUsed'.windows = updateUsed.windows
  PROVE  UpdateInv'
<1>1. /\ wire \in Seq(UpdateCalls) /\ Len(wire) \in Nat /\ \A i \in 1..Len(wire) : wire[i] \in UpdateCalls
      /\ updatePage \in UpdatePages /\ updateUsed.windows \in Nat /\ updatePage.window = updateUsed.windows
  BY DEF UpdateInv, UpdateShape, CallsInOrder
<1>2. PICK m : m = Update!Ask(updatePage.window)
  OBVIOUS
<1>3. m \in UpdateCalls /\ m.kind = "state" /\ m.window = updateUsed.windows
  BY <1>1, <1>2 DEF Update!Ask, UpdateCalls, UpdatePages
<1>4. /\ wire' \in Seq(UpdateCalls) /\ Len(wire') = Len(wire) + 1 /\ wire'[Len(wire) + 1] = m
      /\ \A i \in 1..Len(wire) : wire'[i] = wire[i]
  BY <1>1, <1>2, <1>3
<1>5. \A i \in 1..Len(wire') : Acts(i)' => i \in 1..Len(wire) /\ Acts(i)
  BY <1>1, <1>3, <1>4 DEF Acts
<1>6. UpdateShape' /\ OperationKnown'
  BY <1>4 DEF UpdateInv, UpdateShape, OperationKnown
<1>7. CallsInOrder'
  BY <1>1, <1>2, <1>3, UpdateQueues DEF UpdateInv
<1>8. OneActionWaits'
  BY <1>4, <1>5 DEF UpdateInv, OneActionWaits, Told, Ready
<1>9. ButtonIsCurrent'
  BY DEF UpdateInv, ButtonIsCurrent, Told, Ready, Reflects
<1> QED
  BY <1>6, <1>7, <1>8, <1>9 DEF UpdateInv

LEMMA UpdateClears ==
  ASSUME NEW p \in UpdatePages
  PROVE  /\ Update!Cleared(p) \in UpdatePages /\ Update!Cleared(p).window = p.window
         /\ Update!Cleared(p).sending = p.sending /\ Update!Cleared(p).view = p.view
         /\ Update!Cleared(p).action = p.action /\ Update!Cleared(p).enabled = p.enabled
<1>1. PICK t \in Int : t = p.timers - 1
  BY DEF UpdatePages
<1>2. Update!Cleared(p) = IF p.held THEN [p EXCEPT !.timers = t, !.held = FALSE] ELSE p
  BY <1>1 DEF Update!Cleared
<1> QED
  BY <1>2 DEF UpdatePages

LEMMA UpdateTicks == ASSUME UpdateInv, Update!tick PROVE UpdateInv'
<1>1. /\ updatePage # None /\ updatePage \in UpdatePages /\ wire' = Append(wire, Update!Ask(updatePage.window))
      /\ UNCHANGED <<operation, job, installed, latest, answers, updateUsed>>
      /\ updateUsed \in [windows : Nat, clicks : Nat, failures : Nat]
  BY DEF UpdateInv, UpdateShape, Update!tick
<1>2. PICK p : p = [updatePage EXCEPT !.timers = @ - 1]
  OBVIOUS
<1>6. PICK t \in Int : t = updatePage.timers - 1
  BY <1>1 DEF UpdatePages
<1>3. /\ p \in UpdatePages /\ p.window = updatePage.window /\ p.sending = updatePage.sending
      /\ p.view = updatePage.view /\ p.action = updatePage.action /\ p.enabled = updatePage.enabled
  BY <1>1, <1>2, <1>6 DEF UpdatePages
<1>4. updatePage' = [updatePage EXCEPT !.timers = @ - 1, !.held = FALSE] \/ updatePage' = Update!Cleared(p)
  BY <1>2 DEF Update!tick
<1>5. /\ updatePage' \in UpdatePages /\ updatePage'.window = updatePage.window
      /\ updatePage'.sending = updatePage.sending /\ updatePage'.view = updatePage.view
      /\ updatePage'.action = updatePage.action /\ updatePage'.enabled = updatePage.enabled
  <2>1. CASE updatePage' = [updatePage EXCEPT !.timers = @ - 1, !.held = FALSE]
    BY <1>1, <1>6, <2>1 DEF UpdatePages
  <2>2. CASE updatePage' = Update!Cleared(p)
    BY <1>3, <2>2, UpdateClears
  <2> QED
    BY <1>4, <2>1, <2>2
<1> QED
  BY <1>1, <1>5, UpdateAsks

LEMMA UpdateRenders == ASSUME UpdateInv, Update!render PROVE UpdateInv'
<1>1. /\ updatePage # None /\ updatePage \in UpdatePages /\ answers # <<>> /\ answers \in Seq(UpdateAnswers)
      /\ Len(answers) \in Nat /\ Head(answers).kind = "state"
      /\ \A i \in 1..Len(answers) : answers[i] \in UpdateAnswers
      /\ answers' = Tail(answers) /\ UNCHANGED <<operation, job, installed, latest, wire, updateUsed>>
  BY DEF UpdateInv, UpdateShape, Update!render
<1>2. PICK v : v = Head(answers).view
  OBVIOUS
<1>3. v = answers[1].view /\ v \in UpdateViews /\ 1 \in 1..Len(answers) /\ ~Told(1)
  <2>1. Head(answers) = answers[1] /\ 1 \in 1..Len(answers)
    BY <1>1
  <2> QED
    BY <1>1, <1>2, <2>1 DEF UpdateAnswers, Told
<1>4. PICK a : a = (IF v = Update!Lost THEN "reconnect" ELSE Update!Offered(v.phase))
  OBVIOUS
<1>5. /\ a \in UpdateActions \cup {"reconnect", None}
      /\ a = "download" => v.phase = "available"
      /\ a = "install" => v.phase = "downloaded"
  <2>1. Update!Offered(v.phase) \in UpdateActions \cup {None}
    BY DEF Update!Offered, Update!Offers, UpdateActions
  <2>2. Update!Offered(v.phase) = "download" => v.phase = "available"
    BY UpdateAssumption DEF Update!Offered, Update!Offers
  <2>3. Update!Offered(v.phase) = "install" => v.phase = "downloaded"
    BY UpdateAssumption DEF Update!Offered, Update!Offers
  <2> QED
    BY <1>4, <2>1, <2>2, <2>3
<1>6. PICK e \in BOOLEAN : e = Update!Enabled(updatePage, a)
  BY DEF Update!Enabled
<1>7. updatePage' = Update!Armed([updatePage EXCEPT !.view = v, !.action = a, !.enabled = e])
  BY <1>2, <1>4, <1>6 DEF Update!render, Update!Rendered
<1>8. PICK p : p = [updatePage EXCEPT !.view = v, !.action = a, !.enabled = e]
  OBVIOUS
<1>9. /\ p \in UpdatePages /\ p.window = updatePage.window /\ p.sending = updatePage.sending
      /\ p.view = v /\ p.action = a /\ p.enabled = e
  BY <1>1, <1>3, <1>5, <1>8 DEF UpdatePages
<1>10. /\ updatePage' \in UpdatePages /\ updatePage'.window = updatePage.window
       /\ updatePage'.sending = updatePage.sending
       /\ updatePage'.view = v /\ updatePage'.action = a /\ updatePage'.enabled = e
  <2>1. PICK t \in Int : t = p.timers + 1
    BY <1>9 DEF UpdatePages
  <2>2. updatePage' = [p EXCEPT !.timers = t, !.held = TRUE]
    BY <1>7, <1>8, <2>1 DEF Update!Armed
  <2> QED
    BY <1>9, <2>2 DEF UpdatePages
<1>11. e => ~updatePage.sending
  BY <1>6 DEF Update!Enabled
<1>12. /\ Len(answers') = Len(answers) - 1 /\ answers' \in Seq(UpdateAnswers)
       /\ \A i \in 1..Len(answers') : answers'[i] = answers[i + 1] /\ i + 1 \in 1..Len(answers)
  BY <1>1
<1>13. UpdateShape' /\ OperationKnown' /\ CallsInOrder'
  BY <1>1, <1>10, <1>12 DEF UpdateInv, UpdateShape, OperationKnown, CallsInOrder
<1>14. OneActionWaits'
  <2>1. SUFFICES ASSUME NEW i \in 1..Len(wire), Acts(i)
                 PROVE  /\ Ready(wire[i].kind, wire[i].seen)'
                        /\ \A j \in 1..Len(wire) : Acts(j) => i = j
                        /\ wire[i].window = updatePage.window
                        /\ updatePage.sending /\ \A k \in 1..Len(answers') : ~Told(k)'
    BY <1>1, <1>10 DEF OneActionWaits, Acts, Ready
  <2>2. /\ Ready(wire[i].kind, wire[i].seen)
        /\ \A j \in 1..Len(wire) : Acts(j) => i = j
        /\ wire[i].window = updatePage.window /\ updatePage.sending
        /\ \A k \in 1..Len(answers) : ~Told(k)
    BY <1>1, <2>1 DEF UpdateInv, OneActionWaits
  <2> QED
    BY <1>1, <1>12, <2>2 DEF Told, Ready
<1>15. ButtonIsCurrent'
  <2>1. \A i \in 1..Len(answers') : Told(i)' <=> Told(i + 1)
    BY <1>12 DEF Told
  <2>2. \A i \in 1..Len(answers') : (\A j \in i..Len(answers') : ~Told(j)') => Reflects(answers'[i].view)
    <3>1. SUFFICES ASSUME NEW i \in 1..Len(answers'), \A j \in i..Len(answers') : ~Told(j)'
                   PROVE  Reflects(answers'[i].view)
      OBVIOUS
    <3>2. ASSUME NEW j \in (i + 1)..Len(answers) PROVE ~Told(j)
      <4>1. j - 1 \in i..Len(answers') /\ j - 1 \in 1..Len(answers') /\ (j - 1) + 1 = j
        BY <1>1, <1>12
      <4> QED
        BY <2>1, <3>1, <4>1
    <3> QED
      BY <1>1, <1>12, <3>2 DEF UpdateInv, ButtonIsCurrent
  <2>3. \A i, j \in 1..Len(answers') : Told(i)' /\ Told(j)' => i = j
    <3>1. SUFFICES ASSUME NEW i \in 1..Len(answers'), NEW j \in 1..Len(answers'), Told(i)', Told(j)' PROVE i = j
      OBVIOUS
    <3>2. i + 1 = j + 1
      BY <1>1, <1>12, <2>1, <3>1 DEF UpdateInv, ButtonIsCurrent
    <3> QED
      BY <3>2
  <2>4. \A i \in 1..Len(answers') : Told(i)' => updatePage.sending
    BY <1>1, <1>12, <2>1 DEF UpdateInv, ButtonIsCurrent
  <2>5. e => Reflects(v)
    <3>1. SUFFICES ASSUME ~updatePage.sending PROVE Reflects(v)
      BY <1>11
    <3>2. \A j \in 1..Len(answers) : ~Told(j)
      BY <1>1, <3>1 DEF UpdateInv, ButtonIsCurrent
    <3> QED
      BY <1>1, <1>3, <3>2 DEF UpdateInv, ButtonIsCurrent
  <2>6. \A x : Reflects(x)' <=> Reflects(x)
    BY <1>1 DEF Reflects, Ready
  <2> QED
    BY <1>3, <1>5, <1>10, <1>11, <2>2, <2>3, <2>4, <2>5, <2>6 DEF ButtonIsCurrent
<1> QED
  BY <1>13, <1>14, <1>15 DEF UpdateInv

\* While the button is enabled no action waits, whoever sent it.
LEMMA UpdateNoneWaits ==
  ASSUME UpdateInv, updatePage # None, updatePage.enabled \/ \E k \in 1..Len(answers) : Told(k)
  PROVE  \A i \in 1..Len(wire) : ~Acts(i)
<1>1. \A k \in 1..Len(answers) : answers # <<>>
  BY DEF UpdateInv, UpdateShape
<1> QED
  BY <1>1 DEF UpdateInv, OneActionWaits, ButtonIsCurrent

LEMMA UpdateClicks == ASSUME UpdateInv, Update!click PROVE UpdateInv'
<1>1. /\ updatePage # None /\ updatePage \in UpdatePages /\ updatePage.enabled /\ ~updatePage.sending
      /\ updatePage.view \in UpdateViews /\ updatePage.action # None /\ Reflects(updatePage.view)
      /\ updatePage.action = "download" => updatePage.view.phase = "available"
      /\ updatePage.action = "install" => updatePage.view.phase = "downloaded"
      /\ \A i \in 1..Len(wire) : ~Acts(i)
      /\ \A k \in 1..Len(answers) : ~Told(k)
      /\ UNCHANGED <<operation, job, installed, latest, answers>>
  BY UpdateNoneWaits DEF UpdateInv, UpdateShape, ButtonIsCurrent, Update!click
<1>2. updateUsed' \in [windows : Nat, clicks : Nat, failures : Nat] /\ updateUsed'.windows = updateUsed.windows
  BY DEF UpdateInv, UpdateShape, Update!click
<1>3. /\ wire \in Seq(UpdateCalls) /\ Len(wire) \in Nat /\ \A i \in 1..Len(wire) : wire[i] \in UpdateCalls
      /\ updatePage.window = updateUsed.windows /\ updateUsed.windows \in Nat
  BY <1>1 DEF UpdateInv, UpdateShape, CallsInOrder
<1>4. CASE updatePage.action = "reconnect"
  <2>1. PICK p : p = [updatePage EXCEPT !.enabled = FALSE, !.error = FALSE]
    OBVIOUS
  <2>2. /\ p \in UpdatePages /\ p.window = updatePage.window /\ p.sending = updatePage.sending
        /\ p.view = updatePage.view /\ p.action = updatePage.action /\ p.enabled = FALSE
    BY <1>1, <2>1 DEF UpdatePages
  <2>3. updatePage' = Update!Cleared(p) /\ wire' = Append(wire, Update!Ask(updatePage.window))
    BY <1>4, <2>1 DEF Update!click
  <2> QED
    BY <1>1, <1>2, <2>2, <2>3, UpdateAsks, UpdateClears
<1>5. CASE updatePage.action # "reconnect"
  <2>1. PICK m : m = [kind |-> updatePage.action, window |-> updatePage.window, seen |-> updatePage.view.version]
    OBVIOUS
  <2>2. m \in UpdateCalls /\ m.window = updatePage.window /\ m.kind # "state" /\ Ready(m.kind, m.seen)
    BY <1>1, <1>5, <2>1, UpdateViewNumbers DEF UpdateCalls, UpdatePages, UpdateActions, Reflects, Ready
  <2>3. wire' = Append(wire, m) /\ updatePage' = [updatePage EXCEPT !.sending = TRUE, !.enabled = FALSE, !.error = FALSE]
    BY <1>5, <2>1 DEF Update!click
  <2>4. /\ updatePage' \in UpdatePages /\ updatePage'.window = updatePage.window /\ updatePage'.sending
        /\ ~updatePage'.enabled
    BY <1>1, <2>3 DEF UpdatePages
  <2>5. /\ wire' \in Seq(UpdateCalls) /\ Len(wire') = Len(wire) + 1 /\ wire'[Len(wire) + 1] = m
        /\ \A i \in 1..Len(wire) : wire'[i] = wire[i]
    BY <1>3, <2>2, <2>3
  <2>6. \A i \in 1..Len(wire') : Acts(i)' <=> i = Len(wire) + 1
    BY <1>1, <1>3, <2>2, <2>5 DEF Acts
  <2>7. UpdateShape' /\ OperationKnown'
    BY <1>1, <1>2, <2>4, <2>5 DEF UpdateInv, UpdateShape, OperationKnown
  <2>8. CallsInOrder'
    BY <1>1, <1>2, <1>3, <2>2, <2>3, <2>4, UpdateQueues DEF UpdateInv
  <2>9. OneActionWaits'
    BY <1>1, <2>2, <2>4, <2>5, <2>6 DEF OneActionWaits, Told, Ready
  <2>10. ButtonIsCurrent'
    BY <1>1, <2>4 DEF UpdateInv, ButtonIsCurrent, Told, Ready, Reflects
  <2> QED
    BY <2>7, <2>8, <2>9, <2>10 DEF UpdateInv
<1> QED
  BY <1>4, <1>5

LEMMA UpdateSettles == ASSUME UpdateInv, Update!settled PROVE UpdateInv'
<1>1. /\ updatePage # None /\ updatePage \in UpdatePages /\ answers # <<>> /\ answers \in Seq(UpdateAnswers)
      /\ Len(answers) \in Nat /\ Head(answers).kind = "done"
      /\ wire \in Seq(UpdateCalls) /\ Len(wire) \in Nat /\ \A i \in 1..Len(wire) : wire[i] \in UpdateCalls
      /\ updatePage.window = updateUsed.windows /\ updateUsed.windows \in Nat
      /\ answers' = Tail(answers) /\ UNCHANGED <<operation, job, installed, latest, updateUsed>>
      /\ wire' = Append(wire, Update!Ask(updatePage.window))
  BY DEF UpdateInv, UpdateShape, CallsInOrder, Update!settled
<1>2. Head(answers) = answers[1] /\ 1 \in 1..Len(answers) /\ Told(1)
  BY <1>1 DEF Told
<1>3. \A i \in 1..Len(wire) : ~Acts(i)
  BY <1>1, <1>2, UpdateNoneWaits
<1>4. updatePage.sending /\ ~updatePage.enabled
  BY <1>1, <1>2 DEF UpdateInv, ButtonIsCurrent
<1>5. /\ Len(answers') = Len(answers) - 1 /\ answers' \in Seq(UpdateAnswers)
      /\ \A i \in 1..Len(answers') : answers'[i] = answers[i + 1] /\ i + 1 \in 1..Len(answers)
  BY <1>1
<1>6. \A i \in 1..Len(answers') : ~Told(i)'
  <2>1. \A i \in 1..Len(answers') : Told(i)' <=> Told(i + 1)
    BY <1>5 DEF Told
  <2>2. \A i \in 1..Len(answers) : Told(i) => i = 1
    BY <1>1, <1>2 DEF UpdateInv, ButtonIsCurrent
  <2> QED
    BY <1>1, <1>5, <2>1, <2>2
<1>7. PICK er \in BOOLEAN : updatePage' = Update!Cleared([updatePage EXCEPT !.sending = FALSE, !.error = er])
  <2>1. Head(answers) \in [kind : {"done"}, ok : BOOLEAN]
    BY <1>1, <1>2 DEF UpdateAnswers
  <2>2. (~Head(answers).ok) \in BOOLEAN
    BY <2>1
  <2> QED
    BY Zenon, <2>2 DEF Update!settled
<1>8. PICK p : p = [updatePage EXCEPT !.sending = FALSE, !.error = er]
  OBVIOUS
<1>9. /\ p \in UpdatePages /\ p.window = updatePage.window /\ p.enabled = updatePage.enabled
  BY <1>1, <1>8 DEF UpdatePages
<1>10. /\ updatePage' \in UpdatePages /\ updatePage'.window = updatePage.window /\ ~updatePage'.enabled
  BY <1>4, <1>7, <1>8, <1>9, UpdateClears
<1>11. PICK m : m = Update!Ask(updatePage.window)
  OBVIOUS
<1>12. m \in UpdateCalls /\ m.kind = "state" /\ m.window = updateUsed.windows
  BY <1>1, <1>11 DEF Update!Ask, UpdateCalls, UpdatePages
<1>13. /\ wire' \in Seq(UpdateCalls) /\ Len(wire') = Len(wire) + 1 /\ wire'[Len(wire) + 1] = m
       /\ \A i \in 1..Len(wire) : wire'[i] = wire[i]
  BY <1>1, <1>11, <1>12
<1>14. \A i \in 1..Len(wire') : ~Acts(i)'
  BY <1>1, <1>3, <1>12, <1>13 DEF Acts
<1>15. UpdateShape' /\ OperationKnown'
  BY <1>1, <1>5, <1>10, <1>13 DEF UpdateInv, UpdateShape, OperationKnown
<1>16. CallsInOrder'
  BY <1>1, <1>10, <1>11, <1>12, UpdateQueues DEF UpdateInv
<1>17. OneActionWaits'
  BY <1>14 DEF OneActionWaits
<1>18. ButtonIsCurrent'
  <2>1. \A i \in 1..Len(answers') : (\A j \in i..Len(answers') : ~Told(j)') => Reflects(answers'[i].view)
    <3>1. SUFFICES ASSUME NEW i \in 1..Len(answers') PROVE Reflects(answers[i + 1].view)
      BY <1>5
    <3>2. \A j \in (i + 1)..Len(answers) : ~Told(j)
      <4>1. \A j \in 1..Len(answers) : Told(j) => 1 = j
        BY <1>1, <1>2 DEF UpdateInv, ButtonIsCurrent
      <4>2. \A j \in (i + 1)..Len(answers) : j \in 1..Len(answers) /\ 1 # j
        BY <1>1, <1>5
      <4> QED
        BY <4>1, <4>2
    <3> QED
      BY <1>1, <1>5, <3>2 DEF UpdateInv, ButtonIsCurrent
  <2>2. \A x : Reflects(x)' <=> Reflects(x)
    BY <1>1 DEF Reflects, Ready
  <2> QED
    BY <1>6, <1>10, <2>1, <2>2 DEF ButtonIsCurrent
<1> QED
  BY <1>15, <1>16, <1>17, <1>18 DEF UpdateInv

LEMMA UpdateOpens ==
  ASSUME UpdateInv, Update!open
  PROVE  UpdateInv' /\ (job' # job => job'.kind = "check")
<1>1. /\ operation' \in UpdateOperations
      /\ job' # None => job' \in [kind : UpdateActions, of : Nat]
      /\ OperationKnown' /\ \A k, n : Ready(k, n) => Ready(k, n)'
      /\ job' # job => job'.kind = "check"
  <2>1. CASE Update!Unstarted(operation)
    <3>1. Update!start("check") /\ operation.phase = "idle"
      BY <2>1 DEF Update!open, Update!Unstarted
    <3>2. /\ operation' \in UpdateOperations /\ job' \in [kind : UpdateActions, of : Nat] /\ OperationKnown'
          /\ job'.kind = "check"
      BY <3>1, UpdateStart DEF UpdateActions
    <3> QED
      BY <3>1, <3>2 DEF Ready
  <2>2. CASE ~Update!Unstarted(operation)
    <3>1. UNCHANGED <<operation, job>>
      BY <2>2 DEF Update!open
    <3> QED
      BY <3>1 DEF UpdateInv, UpdateShape, OperationKnown, Ready
  <2> QED
    BY <2>1, <2>2
<1>2. UNCHANGED <<installed, latest>> /\ installed \in Nat /\ latest \in Nat
  BY DEF UpdateInv, UpdateShape, Update!open
<1>3. CASE UNCHANGED <<updatePage, wire, answers, updateUsed>>
  <2>1. updateUsed' \in [windows : Nat, clicks : Nat, failures : Nat] /\ updateUsed'.windows = updateUsed.windows
    BY <1>3 DEF UpdateInv, UpdateShape
  <2> QED
    BY <1>1, <1>2, <1>3, <2>1, UpdateOperationMoves
<1>4. CASE /\ updateUsed' = [updateUsed EXCEPT !.windows = @ + 1]
           /\ updatePage' = [window |-> updateUsed.windows + 1, view |-> None, action |-> None, enabled |-> FALSE,
                             sending |-> FALSE, error |-> FALSE, timers |-> 0, held |-> FALSE]
           /\ wire' = Append(wire, Update!Ask(updateUsed.windows + 1)) /\ answers' = <<>>
  <2>1. /\ wire \in Seq(UpdateCalls) /\ Len(wire) \in Nat /\ \A i \in 1..Len(wire) : wire[i] \in UpdateCalls
        /\ updateUsed \in [windows : Nat, clicks : Nat, failures : Nat]
    BY DEF UpdateInv, UpdateShape
  <2>2. /\ updateUsed' \in [windows : Nat, clicks : Nat, failures : Nat] /\ updateUsed'.windows = updateUsed.windows + 1
        /\ updateUsed.windows \in Nat
    BY <1>4, <2>1
  <2>3. updatePage' \in UpdatePages /\ updatePage'.window = updateUsed.windows + 1 /\ ~updatePage'.enabled
    BY <1>4, <2>2 DEF UpdatePages
  <2>4. PICK m : m = Update!Ask(updateUsed.windows + 1)
    OBVIOUS
  <2>5. m \in UpdateCalls /\ m.kind = "state" /\ m.window = updateUsed.windows + 1
    BY <2>2, <2>4 DEF Update!Ask, UpdateCalls
  <2>6. /\ wire' \in Seq(UpdateCalls) /\ Len(wire') = Len(wire) + 1 /\ wire'[Len(wire) + 1] = m
        /\ \A i \in 1..Len(wire) : wire'[i] = wire[i]
    BY <1>4, <2>1, <2>4, <2>5
  <2>7. \A i \in 1..Len(wire') : Acts(i)' => i \in 1..Len(wire) /\ Acts(i)
    BY <2>1, <2>5, <2>6 DEF Acts
  <2>8. UpdateShape'
    <3>1. answers' \in Seq(UpdateAnswers)
      BY <1>4
    <3> QED
      BY <1>1, <1>2, <2>2, <2>3, <2>6, <3>1 DEF UpdateShape
  <2>9. \A i \in 1..Len(wire) : wire[i].window <= updateUsed.windows /\ wire[i].window \in Nat
    BY <2>1 DEF UpdateInv, CallsInOrder, UpdateCalls
  <2>10. CallsInOrder'
    <3>1. \A i \in 1..Len(wire') : wire'[i].window <= updateUsed.windows + 1
      BY <2>1, <2>2, <2>5, <2>6, <2>9
    <3>2. ASSUME NEW i \in 1..Len(wire'), NEW j \in 1..Len(wire'), i < j PROVE wire'[i].window <= wire'[j].window
      <4>1. i \in 1..Len(wire)
        BY <2>1, <2>6, <3>2
      <4>2. CASE j \in 1..Len(wire)
        BY <2>6, <3>2, <4>1, <4>2 DEF UpdateInv, CallsInOrder
      <4>3. CASE j = Len(wire) + 1
        BY <2>2, <2>5, <2>6, <2>9, <4>1, <4>3
      <4> QED
        BY <2>1, <2>6, <4>2, <4>3
    <3> QED
      BY <2>2, <2>3, <3>1, <3>2 DEF CallsInOrder
  <2>11. OneActionWaits'
    <3>1. \A i \in 1..Len(wire) : wire[i].window # updatePage'.window
      BY <2>2, <2>3, <2>9
    <3> QED
      BY <1>1, <1>4, <2>3, <2>6, <2>7, <3>1 DEF UpdateInv, OneActionWaits
  <2>12. ButtonIsCurrent'
    <3>1. 1..Len(answers') = {}
      BY <1>4
    <3> QED
      BY <2>3, <3>1 DEF ButtonIsCurrent
  <2> QED
    BY <1>1, <2>8, <2>10, <2>11, <2>12 DEF UpdateInv
<1> QED
  BY <1>1, <1>3, <1>4 DEF Update!open

LEMMA UpdateInitInv == Update!Init => UpdateInv
<1> SUFFICES ASSUME Update!Init PROVE UpdateInv
  OBVIOUS
<1>1. /\ operation = Update!Fresh /\ job = None /\ updatePage = None /\ wire = <<>> /\ answers = <<>>
      /\ installed = 1 /\ latest = 1 /\ updateUsed = [windows |-> 0, clicks |-> 0, failures |-> 0]
  BY DEF Update!Init
<1>2. UpdateShape /\ OperationKnown
  BY <1>1, UpdateFreshIs DEF UpdateShape, OperationKnown
<1>3. CallsInOrder /\ OneActionWaits /\ ButtonIsCurrent
  BY <1>1 DEF CallsInOrder, OneActionWaits, ButtonIsCurrent
<1> QED
  BY <1>2, <1>3 DEF UpdateInv

LEMMA UpdateNext == ASSUME UpdateInv, Update!Next \/ UNCHANGED updateVars PROVE UpdateInv'
BY UpdateFrame, UpdateJobSteps, UpdatePublish, UpdateRestarts, UpdateServesAction, UpdateServesState, UpdateCloses,
   UpdateTicks, UpdateRenders, UpdateClicks, UpdateSettles, UpdateOpens
DEF Update!Next, Update!Window, Update!Application

\* What a download or an installation is begun of.
LEMMA UpdateBegins ==
  ASSUME UpdateInv, Update!Next, job' # job, job' # None, job'.kind \in {"download", "install"}
  PROVE  Head(wire).kind = job'.kind /\ Head(wire).seen = job'.of
<1>1. CASE Update!serveAction
  BY <1>1, UpdateServesAction
<1>2. CASE Update!open
  BY <1>2, UpdateOpens
<1>3. CASE \/ Update!jobFails \/ Update!checkEnds \/ Update!chunk \/ Update!verify
           \/ Update!downloadEnds \/ Update!installEnds \/ Update!restarts
  BY <1>3 DEF Update!jobFails, Update!checkEnds, Update!chunk, Update!verify, Update!downloadEnds, Update!installEnds, Update!restarts
<1>4. CASE \/ Update!serveState \/ Update!tick \/ Update!render \/ Update!settled \/ Update!close \/ Update!click
           \/ Update!publish
  BY <1>4 DEF Update!serveState, Update!tick, Update!render, Update!settled, Update!close, Update!click, Update!publish
<1> QED
  BY <1>1, <1>2, <1>3, <1>4 DEF Update!Next, Update!Window, Update!Application

-----------------------------------------------------------------------------
(* The policy of the sessions. *)

LEMMA PolicyInitInv == ASSUME Policy!Init PROVE PolicyInv
<1>1. Policy!Some \in PolicyLimits
  BY PolicyAssumption DEF Policy!Some
<1> QED
  BY <1>1, PolicyAssumption
  DEF Policy!Init, Policy!Asked, PolicyInv, PolicyShape, DraftIsOfPolicy, PolicyRecords, PolicyReads

LEMMA PolicySpends ==
  ASSUME PolicyInv, NEW what \in {"edits", "saves", "others", "upsets"}, Policy!Spend(what)
  PROVE  policyUsed' \in [edits : Nat, saves : Nat, others : Nat, upsets : Nat] /\ policyUsed' # policyUsed
<1>1. policyUsed \in [edits : Nat, saves : Nat, others : Nat, upsets : Nat]
  BY DEF PolicyInv, PolicyShape
<1>2. PICK k \in Nat : k = policyUsed[what]
  BY <1>1
<1>3. policyUsed' = [policyUsed EXCEPT ![what] = k + 1]
  BY <1>2 DEF Policy!Spend
<1>4. policyUsed'[what] = k + 1
  BY <1>1, <1>3
<1> QED
  BY <1>1, <1>2, <1>3, <1>4

LEMMA PolicyReading ==
  ASSUME PolicyInv, Policy!hostReads \/ Policy!readEnds \/ Policy!readFails \/ Policy!refresh
  PROVE  PolicyInv'
<1> USE DEF PolicyInv, PolicyShape, DraftIsOfPolicy
<1>1. CASE Policy!hostReads
  <2>1. read' \in PolicyReads
    BY <1>1 DEF Policy!hostReads, PolicyReads
  <2> QED
    BY <1>1, <2>1 DEF Policy!hostReads, Policy!form
<1>2. CASE Policy!readEnds
  <2>1. PICK got \in PolicyRecords : got = read.answer
    BY <1>2 DEF Policy!readEnds, PolicyReads
  <2>2. got.revision \in Nat /\ got # None
    BY PolicyAssumption DEF PolicyRecords
  <2>3. /\ policy' = got /\ draft' = (IF policyDirty THEN draft ELSE got) /\ read' = None
        /\ policyConflict' = (policyDirty /\ (policyConflict \/ policy = None \/ policy.revision # got.revision))
        /\ UNCHANGED <<policyHost, policyDirty, busy, locked, save, reviewed, policyUsed>>
    BY <1>2, <2>1 DEF Policy!readEnds, Policy!Changed
  <2>4. CASE policyDirty
    BY <2>2, <2>3, <2>4
  <2>5. CASE ~policyDirty
    BY <2>2, <2>3, <2>5
  <2> QED
    BY <2>4, <2>5
<1>3. CASE Policy!readFails
  BY <1>3, PolicySpends DEF Policy!readFails, Policy!form
<1>4. CASE Policy!refresh
  <2>1. read' \in PolicyReads
    BY <1>4 DEF Policy!refresh, Policy!Asked, PolicyReads
  <2> QED
    BY <1>4, <2>1, PolicySpends DEF Policy!refresh, Policy!form
<1> QED
  BY <1>1, <1>2, <1>3, <1>4

LEMMA PolicyEditing ==
  ASSUME PolicyInv, Policy!keepDraft \/ Policy!useCurrent \/ Policy!saveDraft \/ \E l \in PolicyLimits : Policy!edit(l)
  PROVE  PolicyInv'
<1> USE DEF PolicyInv, PolicyShape, DraftIsOfPolicy, Policy!Enabled
<1>1. CASE Policy!keepDraft
  BY <1>1 DEF Policy!keepDraft
<1>2. CASE Policy!useCurrent
  BY <1>2 DEF Policy!useCurrent
<1>3. CASE Policy!saveDraft
  <2>1. draft \in PolicyRecords /\ policy \in PolicyRecords /\ ~policyConflict
    BY <1>3 DEF Policy!saveDraft
  <2>2. PICK r \in Nat : r = policy.revision
    BY <2>1 DEF PolicyRecords
  <2>3. PICK sent \in PolicyRecords : sent = [draft EXCEPT !.revision = r]
    BY <2>1, <2>2 DEF PolicyRecords
  <2>8. sent.revision = r
    BY <2>1, <2>3 DEF PolicyRecords
  <2>4. PICK from \in Nat : from = draft.revision
    BY <2>1 DEF PolicyRecords
  <2>5. save' = [sent |-> sent, from |-> from, fresh |-> TRUE, wire |-> "sent"]
    BY <1>3, <2>2, <2>3, <2>4 DEF Policy!saveDraft
  <2>6. save' \in PolicySaves /\ save'.sent.revision = r /\ save'.from = from
    BY <2>3, <2>5, <2>8 DEF PolicySaves
  <2>7. r \in reviewed \cup {from}
    BY <2>1, <2>2, <2>4, PolicyAssumption
  <2> QED
    BY <1>3, <2>6, <2>7, PolicySpends DEF Policy!saveDraft
<1>4. CASE \E l \in PolicyLimits : Policy!edit(l)
  <2>1. PICK l \in PolicyLimits : Policy!edit(l)
    BY <1>4
  <2>2. draft \in PolicyRecords
    BY <2>1 DEF Policy!edit
  <2>3. draft' \in PolicyRecords /\ draft'.revision = draft.revision
    BY <2>1, <2>2 DEF Policy!edit, PolicyRecords
  <2> QED
    BY <2>1, <2>2, <2>3, PolicySpends, PolicyAssumption DEF Policy!edit
<1> QED
  BY <1>1, <1>2, <1>3, <1>4

\* The wire of a save, or who waits for it, and neither what it sends nor for what.
LEMMA PolicySaveGoesOn ==
  ASSUME PolicyInv, save # None,
         \/ \E end \in {"done", "refused", "lost"} : save' = [save EXCEPT !.wire = end]
         \/ save' = [save EXCEPT !.fresh = FALSE]
  PROVE  save' \in PolicySaves /\ save'.sent = save.sent /\ save'.from = save.from
BY DEF PolicyInv, PolicyShape, PolicySaves

LEMMA PolicySaving ==
  ASSUME PolicyInv, Policy!hostSaves \/ Policy!saveLost \/ Policy!saved
  PROVE  PolicyInv'
<1> USE DEF PolicyInv, PolicyShape, DraftIsOfPolicy
<1>1. CASE Policy!hostSaves
  <2>1. save \in PolicySaves /\ save.sent \in PolicyRecords
    BY <1>1 DEF Policy!hostSaves, PolicySaves
  <2>2. save' \in PolicySaves /\ save'.sent = save.sent /\ save'.from = save.from
    BY <1>1, PolicySaveGoesOn DEF Policy!hostSaves
  <2>3. policyHost' \in PolicyRecords
    BY <1>1, <2>1 DEF Policy!hostSaves, PolicyRecords
  <2> QED
    BY <1>1, <2>1, <2>2, <2>3, PolicyAssumption DEF Policy!hostSaves, Policy!form
<1>2. CASE Policy!saveLost
  <2>1. save' \in PolicySaves /\ save'.sent = save.sent /\ save'.from = save.from
    BY <1>2, PolicySaveGoesOn DEF Policy!saveLost
  <2> QED
    BY <1>2, <2>1, PolicySpends, PolicyAssumption DEF Policy!saveLost, Policy!form
<1>3. CASE Policy!saved
  <2>1. save \in PolicySaves
    BY <1>3 DEF Policy!saved
  <2>2. PICK sent \in PolicyRecords : sent = save.sent
    BY <2>1 DEF PolicySaves
  <2>3. PICK k \in Nat : k = sent.revision + 1
    BY <2>2 DEF PolicyRecords
  <2>4. PICK stored \in PolicyRecords : stored = [sent EXCEPT !.revision = sent.revision + 1]
    BY <2>2, <2>3 DEF PolicyRecords
  <2>5. PICK done \in BOOLEAN : done = (save.fresh /\ save.wire = "done")
    OBVIOUS
  <2>6. /\ policy' = (IF done THEN stored ELSE policy) /\ draft' = (IF done THEN stored ELSE draft)
        /\ policyDirty' = (policyDirty /\ ~done) /\ busy' = (busy /\ ~save.fresh)
        /\ read' \in {Policy!Asked, read} /\ save' = None
        /\ UNCHANGED <<policyHost, policyConflict, locked, reviewed, policyUsed>>
    BY <1>3, <2>2, <2>4, <2>5 DEF Policy!saved
  <2>7. Policy!Asked \in PolicyReads
    BY DEF Policy!Asked, PolicyReads
  <2>8. CASE done
    BY <2>4, <2>6, <2>7, <2>8, PolicyAssumption
  <2>9. CASE ~done
    BY <2>6, <2>7, <2>9
  <2> QED
    BY <2>8, <2>9
<1> QED
  BY <1>1, <1>2, <1>3

LEMMA PolicyAround ==
  ASSUME PolicyInv, Policy!lock \/ Policy!unlock \/ \E l \in PolicyLimits : Policy!othersSave(l)
  PROVE  PolicyInv'
<1> USE DEF PolicyInv, PolicyShape, DraftIsOfPolicy
<1>1. CASE Policy!lock
  <2>1. save # None => save' \in PolicySaves /\ save'.sent = save.sent /\ save'.from = save.from
    BY <1>1, PolicySaveGoesOn DEF Policy!lock
  <2>2. save = None => save' = None
    BY <1>1 DEF Policy!lock
  <2> QED
    BY <1>1, <2>1, <2>2, PolicySpends DEF Policy!lock
<1>2. CASE Policy!unlock
  <2>1. read' \in PolicyReads
    BY <1>2 DEF Policy!unlock, Policy!Asked, PolicyReads
  <2> QED
    BY <1>2, <2>1 DEF Policy!unlock
<1>3. CASE \E l \in PolicyLimits : Policy!othersSave(l)
  <2>1. policyHost' \in PolicyRecords
    BY <1>3 DEF Policy!othersSave, PolicyRecords
  <2> QED
    BY <1>3, <2>1, PolicySpends DEF Policy!othersSave, Policy!form
<1> QED
  BY <1>1, <1>2, <1>3

LEMMA PolicyNext == ASSUME PolicyInv, Policy!Next \/ UNCHANGED policyVars PROVE PolicyInv'
<1>1. CASE UNCHANGED policyVars
  BY <1>1 DEF policyVars, PolicyInv, PolicyShape, DraftIsOfPolicy
<1> QED
  BY <1>1, PolicyReading, PolicyEditing, PolicySaving, PolicyAround DEF Policy!Next, Policy!Answers

LEMMA PolicyReplaced ==
  ASSUME PolicyInv, Policy!Next \/ UNCHANGED policyVars, save # None, save.wire = "sent",
         policyHost' # policyHost, policyUsed' = policyUsed
  PROVE  policyHost.revision \in reviewed \cup {save.from}
<1>1. Policy!hostSaves
  <2>1. ~\E l \in PolicyLimits : Policy!othersSave(l)
    BY PolicySpends DEF Policy!othersSave
  <2> QED
    BY <2>1 DEF Policy!Next, Policy!Answers, policyVars, Policy!form, Policy!readEnds, Policy!readFails, Policy!hostReads,
            Policy!refresh, Policy!edit, Policy!keepDraft, Policy!useCurrent, Policy!saveDraft, Policy!saveLost,
            Policy!saved, Policy!lock, Policy!unlock
<1>2. save.sent.revision = policyHost.revision
  BY <1>1 DEF Policy!hostSaves, Policy!Current
<1> QED
  BY <1>2 DEF PolicyInv, DraftIsOfPolicy

-----------------------------------------------------------------------------
(* The sources of skills. *)

LEMMA SkillsInitInv == ASSUME Skills!Init PROVE SkillsInv
<1>1. project \in ManagedProjects
  BY SkillsAssumption DEF Skills!Init
<1>2. disk \in [SkillKeys -> Nat] /\ versions \in [SkillKeys -> SUBSET Nat]
  BY DEF Skills!Init, Skills!Sources, SkillKeys
<1> QED
  BY <1>1, <1>2 DEF Skills!Init, Skills!Acts, SkillsInv, SkillsShape, FormWasShown, ExpectedWasShown

LEMMA SkillActsAre ==
  ASSUME SkillsInv, NEW n \in 1..MaxSkillActs, skillsActs[n] # None
  PROVE  /\ skillsActs[n] \in SkillSave
         /\ skillsActs[n].project \in ManagedProjects /\ skillsActs[n].name \in SkillNames
         /\ skillsActs[n].expected \in Nat /\ skillsActs[n].markdown \in Nat /\ skillsActs[n].got \in Nat
         /\ Skills!Of(n) = <<skillsActs[n].project, skillsActs[n].name>> /\ Skills!Of(n) \in SkillKeys
         /\ None \notin SkillSave /\ None \notin Nat
BY SkillsAssumption DEF SkillsInv, SkillsShape, SkillSave, SkillKeys, Skills!Of

\* The form: its fields change, what was shown stays.
LEMMA SkillsForm ==
  ASSUME SkillsInv, UNCHANGED <<disk, versions, skillsActs, shown, project>>,
         {markdown', digest', texts'} \subseteq Nat, history' \subseteq Nat,
         digest' \in {digest, 0} \/ (skillsConflict # None /\ digest' = skillsConflict),
         skillsConflict' \in {skillsConflict, None}
  PROVE  SkillsInv'
<1>1. WasShown(project, digest)' <=> \E f \in SkillNames : <<<<project, f>>, digest'>> \in shown
  BY DEF WasShown
<1>2. FormWasShown'
  BY DEF SkillsInv, FormWasShown, WasShown
<1> QED
  BY <1>2 DEF SkillsInv, SkillsShape, ExpectedWasShown, WasShown

LEMMA SkillsEditing ==
  ASSUME SkillsInv,
         \/ Skills!edit \/ Skills!restore
         \/ \E load_ \in BOOLEAN : Skills!useCurrent(load_)
         \/ \E f \in SkillNames : Skills!rename(f)
  PROVE  SkillsInv'
<1> USE DEF SkillsInv, SkillsShape
<1>1. CASE Skills!edit
  BY <1>1, SkillsForm DEF Skills!edit
<1>2. CASE Skills!restore
  BY <1>2, SkillsForm DEF Skills!restore
<1>3. CASE \E load_ \in BOOLEAN : Skills!useCurrent(load_)
  BY <1>3, SkillsForm DEF Skills!useCurrent
<1>4. CASE \E f \in SkillNames : Skills!rename(f)
  BY <1>4, SkillsForm DEF Skills!rename
<1> QED
  BY <1>1, <1>2, <1>3, <1>4

LEMMA SkillsProject ==
  ASSUME SkillsInv, NEW p \in ManagedProjects, Skills!setProject(p)
  PROVE  SkillsInv'
<1>1. skillsActs' = [n \in 1..MaxSkillActs |-> IF skillsActs[n] = None THEN None ELSE [skillsActs[n] EXCEPT !.fresh = FALSE]]
  BY DEF Skills!setProject, Skills!Acts
<1>2. \A n \in 1..MaxSkillActs : skillsActs[n] # None =>
        /\ skillsActs'[n] \in SkillSave /\ ~skillsActs'[n].fresh
        /\ skillsActs'[n].project = skillsActs[n].project /\ skillsActs'[n].name = skillsActs[n].name
        /\ skillsActs'[n].expected = skillsActs[n].expected /\ skillsActs'[n].pc = skillsActs[n].pc
  <2>1. SUFFICES ASSUME NEW n \in 1..MaxSkillActs, skillsActs[n] # None
        PROVE  /\ skillsActs'[n] \in SkillSave /\ ~skillsActs'[n].fresh
               /\ skillsActs'[n].project = skillsActs[n].project /\ skillsActs'[n].name = skillsActs[n].name
               /\ skillsActs'[n].expected = skillsActs[n].expected /\ skillsActs'[n].pc = skillsActs[n].pc
    OBVIOUS
  <2>2. PICK a \in SkillSave : a = skillsActs[n]
    BY <2>1, SkillActsAre
  <2>3. skillsActs'[n] = [a EXCEPT !.fresh = FALSE]
    BY <1>1, <2>1, <2>2
  <2> QED
    BY <2>2, <2>3 DEF SkillSave
<1>3. \A n \in 1..MaxSkillActs : skillsActs[n] = None => skillsActs'[n] = None
  BY <1>1
<1>4. skillsActs' \in [1..MaxSkillActs -> SkillSave \cup {None}]
  BY <1>1, <1>2, <1>3
<1>5. SkillsShape' /\ FormWasShown'
  BY <1>4 DEF SkillsInv, SkillsShape, FormWasShown, Skills!setProject
<1>6. ExpectedWasShown'
  <2>1. UNCHANGED <<versions, shown>>
    BY DEF Skills!setProject
  <2> QED
    BY <1>2, <1>3, <2>1 DEF SkillsInv, ExpectedWasShown, WasShown
<1> QED
  BY <1>5, <1>6 DEF SkillsInv

LEMMA SkillsBegin ==
  ASSUME SkillsInv, NEW n \in 1..MaxSkillActs, NEW kind \in {"inspect", "save"}, NEW f \in SkillNames,
         Skills!begin(n, kind, f)
  PROVE  SkillsInv'
<1>1. PICK sent : sent = Skills!Sent(kind, f)
  OBVIOUS
<1>2. /\ sent \in SkillSave /\ sent.project = project /\ sent.expected = digest /\ sent.pc = "sent"
  BY <1>1 DEF Skills!Sent, SkillSave, SkillsInv, SkillsShape
<1>3. skillsActs' = [skillsActs EXCEPT ![n] = sent] /\ UNCHANGED <<disk, versions, project, markdown, digest, history, skillsConflict, shown, texts>>
  BY <1>1 DEF Skills!begin, Skills!form
<1>4. SkillsShape' /\ FormWasShown'
  BY <1>2, <1>3 DEF SkillsInv, SkillsShape, FormWasShown, WasShown
<1>5. \A m \in 1..MaxSkillActs : skillsActs'[m] = IF m = n THEN sent ELSE skillsActs[m]
  BY <1>3 DEF SkillsInv, SkillsShape
<1>6. ExpectedWasShown'
  BY <1>2, <1>3, <1>5 DEF SkillsInv, ExpectedWasShown, FormWasShown, WasShown
<1> QED
  BY <1>4, <1>6 DEF SkillsInv

\* A step of an action that ends up neither fresh when it was not nor checked: what is
\* kept and what was shown only grows.
LEMMA SkillsActGoesOn ==
  ASSUME SkillsInv, NEW n \in 1..MaxSkillActs, skillsActs[n] # None, NEW after \in SkillSave,
         skillsActs' = [skillsActs EXCEPT ![n] = after],
         after.fresh = skillsActs[n].fresh, after.project = skillsActs[n].project, after.name = skillsActs[n].name,
         after.expected = skillsActs[n].expected, project' = project, shown \subseteq shown',
         after.pc = "checked" /\ after.expected # 0 => after.expected \in versions'[Skills!Of(n)],
         \A s \in SkillKeys : versions[s] \subseteq versions'[s]
  PROVE  /\ skillsActs' \in [1..MaxSkillActs -> SkillSave \cup {None}]
         /\ ExpectedWasShown'
<1>1. \A m \in 1..MaxSkillActs : skillsActs'[m] = IF m = n THEN after ELSE skillsActs[m]
  BY DEF SkillsInv, SkillsShape
<1>2. SUFFICES ASSUME NEW m \in 1..MaxSkillActs, skillsActs'[m] # None
      PROVE  /\ skillsActs'[m].fresh => skillsActs'[m].project = project
             /\ skillsActs'[m].expected # 0 => \E f \in SkillNames : <<<<skillsActs'[m].project, f>>, skillsActs'[m].expected>> \in shown'
             /\ skillsActs'[m].pc = "checked" /\ skillsActs'[m].expected # 0 =>
                  skillsActs'[m].expected \in versions'[<<skillsActs'[m].project, skillsActs'[m].name>>]
  <2>1. skillsActs' \in [1..MaxSkillActs -> SkillSave \cup {None}]
    BY DEF SkillsInv, SkillsShape
  <2> QED
    BY <2>1 DEF ExpectedWasShown, WasShown
<1>3. CASE m = n
  <2>1. skillsActs'[m] = after
    BY <1>1, <1>3
  <2>2. Skills!Of(n) = <<after.project, after.name>>
    BY SkillActsAre
  <2> QED
    BY <2>1, <2>2 DEF SkillsInv, ExpectedWasShown, WasShown
<1>4. CASE m # n
  <2>1. skillsActs'[m] = skillsActs[m] /\ skillsActs[m] # None
    BY <1>1, <1>2, <1>4
  <2>2. <<skillsActs[m].project, skillsActs[m].name>> \in SkillKeys
    BY <2>1, SkillActsAre
  <2> QED
    BY <2>1, <2>2 DEF SkillsInv, ExpectedWasShown, WasShown
<1> QED
  BY <1>3, <1>4

LEMMA SkillsHost ==
  ASSUME SkillsInv, NEW n \in 1..MaxSkillActs,
         Skills!hostReads(n) \/ Skills!hostChecks(n) \/ Skills!hostReplaces(n) \/ Skills!answerLost(n)
  PROVE  SkillsInv'
<1>1. skillsActs[n] # None
  BY DEF Skills!hostReads, Skills!hostChecks, Skills!hostReplaces, Skills!answerLost
<1>2. PICK a \in SkillSave : a = skillsActs[n]
  BY <1>1, SkillActsAre
<1>3. PICK o \in SkillKeys : o = Skills!Of(n) /\ o = <<a.project, a.name>>
  BY <1>1, <1>2, SkillActsAre
<1>4. disk[o] \in Nat /\ versions[o] \subseteq Nat /\ a.markdown \in Nat /\ a.expected \in Nat
  BY <1>3 DEF SkillsInv, SkillsShape, SkillSave
<1>5. UNCHANGED <<project, markdown, digest, history, skillsConflict, shown, texts>>
  BY DEF Skills!hostReads, Skills!hostChecks, Skills!hostReplaces, Skills!answerLost, Skills!form
<1>6. FormWasShown'
  BY <1>5 DEF SkillsInv, FormWasShown, WasShown
<1>7. CASE Skills!hostReads(n)
  <2>1. PICK after : after = [a EXCEPT !.pc = IF disk[o] = 0 THEN "ended" ELSE "read", !.got = disk[o]]
    OBVIOUS
  <2>2. /\ after \in SkillSave /\ after.fresh = a.fresh /\ after.project = a.project /\ after.name = a.name
        /\ after.expected = a.expected /\ after.pc # "checked"
    BY <1>4, <2>1 DEF SkillSave
  <2>3. skillsActs' = [skillsActs EXCEPT ![n] = after]
    BY <1>2, <1>3, <1>7, <2>1 DEF Skills!hostReads
  <2>4. UNCHANGED <<disk, versions>>
    BY <1>7 DEF Skills!hostReads
  <2>5. skillsActs' \in [1..MaxSkillActs -> SkillSave \cup {None}] /\ ExpectedWasShown'
    BY <1>1, <1>2, <1>5, <2>2, <2>3, <2>4, SkillsActGoesOn
  <2> QED
    BY <1>5, <1>6, <2>4, <2>5 DEF SkillsInv, SkillsShape
<1>8. CASE Skills!hostChecks(n)
  <2>1. PICK after : after = [a EXCEPT !.pc = IF disk[o] = a.expected THEN "checked" ELSE "refused"]
    OBVIOUS
  <2>2. /\ after \in SkillSave /\ after.fresh = a.fresh /\ after.project = a.project /\ after.name = a.name
        /\ after.expected = a.expected /\ (after.pc = "checked" => disk[o] = a.expected)
    BY <2>1 DEF SkillSave
  <2>3. skillsActs' = [skillsActs EXCEPT ![n] = after]
    BY <1>2, <1>3, <1>8, <2>1 DEF Skills!hostChecks, Skills!Unchanged
  <2>4. PICK kept \in SUBSET Nat : kept = {disk[o], a.markdown} \ {0}
    BY <1>4
  <2>5. disk' = disk /\ versions' = IF disk[o] = a.expected THEN [versions EXCEPT ![o] = versions[o] \cup kept] ELSE versions
    BY <1>2, <1>3, <1>8, <2>4 DEF Skills!hostChecks, Skills!Unchanged, Skills!Kept
  <2>6. versions' \in [SkillKeys -> SUBSET Nat] /\ \A s \in SkillKeys : versions[s] \subseteq versions'[s]
    BY <1>4, <2>4, <2>5 DEF SkillsInv, SkillsShape
  <2>7. after.pc = "checked" /\ after.expected # 0 => after.expected \in versions'[o]
    BY <2>2, <2>4, <2>5 DEF SkillsInv, SkillsShape
  <2>8. skillsActs' \in [1..MaxSkillActs -> SkillSave \cup {None}] /\ ExpectedWasShown'
    BY <1>1, <1>2, <1>3, <1>5, <2>2, <2>3, <2>6, <2>7, SkillsActGoesOn
  <2> QED
    BY <1>5, <1>6, <2>5, <2>6, <2>8 DEF SkillsInv, SkillsShape
<1>9. CASE Skills!hostReplaces(n) \/ Skills!answerLost(n)
  <2>1. PICK pc \in {"saved", "refused"} : skillsActs' = [skillsActs EXCEPT ![n].pc = pc]
    BY <1>9 DEF Skills!hostReplaces, Skills!answerLost
  <2>2. PICK after : after = [a EXCEPT !.pc = pc]
    OBVIOUS
  <2>3. /\ after \in SkillSave /\ after.fresh = a.fresh /\ after.project = a.project /\ after.name = a.name
        /\ after.expected = a.expected /\ after.pc # "checked"
    BY <2>2 DEF SkillSave
  <2>4. skillsActs' = [skillsActs EXCEPT ![n] = after]
    BY <1>2, <2>1, <2>2
  <2>5. versions' = versions /\ disk' \in [SkillKeys -> Nat]
    BY <1>2, <1>3, <1>4, <1>9 DEF Skills!hostReplaces, Skills!answerLost, SkillsInv, SkillsShape
  <2>6. skillsActs' \in [1..MaxSkillActs -> SkillSave \cup {None}] /\ ExpectedWasShown'
    BY <1>1, <1>2, <1>5, <2>3, <2>4, <2>5, SkillsActGoesOn
  <2> QED
    BY <1>5, <1>6, <2>5, <2>6 DEF SkillsInv, SkillsShape
<1> QED
  BY <1>7, <1>8, <1>9

LEMMA SkillsAnswers ==
  ASSUME SkillsInv, NEW n \in 1..MaxSkillActs,
         Skills!inspected(n) \/ Skills!reread(n) \/ \E unlisted \in BOOLEAN : Skills!saved(n, unlisted)
  PROVE  SkillsInv'
<1>1. skillsActs[n] # None
  BY DEF Skills!inspected, Skills!reread, Skills!saved
<1>2. PICK a \in SkillSave : a = skillsActs[n]
  BY <1>1, SkillActsAre
<1>3. PICK o \in SkillKeys : o = Skills!Of(n) /\ o = <<a.project, a.name>>
  BY <1>1, <1>2, SkillActsAre
<1>4. /\ versions[o] \subseteq Nat /\ a.markdown \in Nat /\ a.got \in Nat /\ a.project \in ManagedProjects /\ a.name \in SkillNames
      /\ a.fresh => a.project = project
  BY <1>1, <1>2, <1>3 DEF SkillsInv, SkillsShape, SkillSave, ExpectedWasShown
<1>5. /\ UNCHANGED <<disk, versions, project, texts>> /\ shown \subseteq shown'
      /\ \E pc \in {"ended", "reread"} : skillsActs' = [skillsActs EXCEPT ![n].pc = pc]
  BY DEF Skills!inspected, Skills!reread, Skills!saved
<1>6. PICK pc \in {"ended", "reread"} : skillsActs' = [skillsActs EXCEPT ![n].pc = pc]
  BY <1>5
<1>7. PICK after : after = [a EXCEPT !.pc = pc]
  OBVIOUS
<1>8. /\ after \in SkillSave /\ after.fresh = a.fresh /\ after.project = a.project /\ after.name = a.name
      /\ after.expected = a.expected /\ after.pc # "checked"
  BY <1>7 DEF SkillSave
<1>9. skillsActs' = [skillsActs EXCEPT ![n] = after]
  BY <1>2, <1>6, <1>7
<1>10. skillsActs' \in [1..MaxSkillActs -> SkillSave \cup {None}] /\ ExpectedWasShown'
  BY <1>1, <1>2, <1>5, <1>8, <1>9, SkillsActGoesOn
<1>11. /\ {markdown', digest'} \subseteq Nat /\ history' \subseteq Nat /\ skillsConflict' \in Nat \cup {None}
  BY <1>2, <1>3, <1>4 DEF SkillsInv, SkillsShape, Skills!inspected, Skills!reread, Skills!saved
<1>12. /\ digest' = digest \/ (project = a.project /\ <<<<a.project, a.name>>, digest'>> \in shown')
       /\ skillsConflict' \in {skillsConflict, None} \/ (project = a.project /\ <<<<a.project, a.name>>, skillsConflict'>> \in shown')
  BY <1>2, <1>3, <1>4 DEF Skills!inspected, Skills!reread, Skills!saved
<1>13. FormWasShown'
  BY <1>4, <1>5, <1>12 DEF SkillsInv, FormWasShown, WasShown
<1> QED
  BY <1>5, <1>10, <1>11, <1>13 DEF SkillsInv, SkillsShape

LEMMA SkillsOthers ==
  ASSUME SkillsInv, NEW s \in SkillKeys, Skills!otherPrograms(s)
  PROVE  SkillsInv'
<1>1. texts' \in Nat /\ disk' \in [SkillKeys -> Nat]
  BY DEF SkillsInv, SkillsShape, Skills!otherPrograms
<1> QED
  BY <1>1 DEF SkillsInv, SkillsShape, FormWasShown, ExpectedWasShown, WasShown, Skills!otherPrograms, Skills!form

LEMMA SkillsNext == ASSUME SkillsInv, Skills!Next \/ UNCHANGED skillsVars PROVE SkillsInv'
<1>1. CASE UNCHANGED skillsVars
  BY <1>1 DEF skillsVars, SkillsInv, SkillsShape, FormWasShown, ExpectedWasShown, WasShown
<1> QED
  BY <1>1, SkillsEditing, SkillsProject, SkillsBegin, SkillsHost, SkillsAnswers, SkillsOthers
  DEF Skills!Next, Skills!Step, Skills!Acts, Skills!Sources, SkillKeys

LEMMA SkillsReplaced ==
  ASSUME SkillsInv, Skills!Next \/ UNCHANGED skillsVars, NEW n \in 1..MaxSkillActs,
         skillsActs[n] # None, skillsActs[n].pc = "checked", skillsActs'[n].pc = "saved", disk[Skills!Of(n)] # 0
  PROVE  /\ \E f \in SkillNames : <<<<skillsActs[n].project, f>>, disk[Skills!Of(n)]>> \in shown
         /\ disk[Skills!Of(n)] \in versions[Skills!Of(n)]
<1>1. skillsActs \in [1..MaxSkillActs -> SkillSave \cup {None}] /\ skillsActs[n] \in SkillSave
  BY SkillActsAre DEF SkillsInv, SkillsShape
<1>2. \E m \in 1..MaxSkillActs : Skills!hostReplaces(m) /\ m = n
  <2>1. \A m \in 1..MaxSkillActs : Skills!hostReplaces(m) => m = n
    BY <1>1 DEF Skills!hostReplaces
  <2>2. ~\E p \in ManagedProjects : Skills!setProject(p)
    <3>1. SUFFICES ASSUME NEW p \in ManagedProjects, Skills!setProject(p) PROVE FALSE
      OBVIOUS
    <3>2. skillsActs'[n] = [skillsActs[n] EXCEPT !.fresh = FALSE]
      BY <3>1 DEF Skills!setProject, Skills!Acts
    <3> QED
      BY <1>1, <3>2 DEF SkillSave
  <2>3. ~(skillsActs' = skillsActs)
    OBVIOUS
  <2>4. \A m \in 1..MaxSkillActs, kind \in {"inspect", "save"}, f \in SkillNames : ~Skills!begin(m, kind, f)
    BY <1>1 DEF Skills!begin, Skills!Unused, Skills!Sent
  <2>5. \A m \in 1..MaxSkillActs : ~(Skills!hostReads(m) \/ Skills!hostChecks(m) \/ Skills!answerLost(m))
    BY <1>1 DEF Skills!hostReads, Skills!hostChecks, Skills!answerLost, SkillSave
  <2>6. \A m \in 1..MaxSkillActs : ~(Skills!inspected(m) \/ Skills!reread(m))
    BY <1>1 DEF Skills!inspected, Skills!reread, SkillSave
  <2>7. \A m \in 1..MaxSkillActs, unlisted \in BOOLEAN : ~Skills!saved(m, unlisted)
    BY <1>1 DEF Skills!saved, SkillSave
  <2> QED
    BY <2>1, <2>2, <2>3, <2>4, <2>5, <2>6, <2>7
    DEF Skills!Next, Skills!Step, Skills!Acts, skillsVars, Skills!edit, Skills!restore, Skills!useCurrent,
        Skills!rename, Skills!otherPrograms
<1>3. disk[Skills!Of(n)] = skillsActs[n].expected
  <2>1. skillsActs' = [skillsActs EXCEPT ![n].pc = IF Skills!Unchanged(n) THEN "saved" ELSE "refused"]
    BY <1>2 DEF Skills!hostReplaces
  <2>2. Skills!Unchanged(n)
    BY <1>1, <2>1 DEF SkillSave
  <2> QED
    BY <2>2 DEF Skills!Unchanged
<1> QED
  BY <1>3, SkillActsAre DEF SkillsInv, ExpectedWasShown, WasShown

-----------------------------------------------------------------------------
(* The forms of schedules. *)

LEMMA SchedulesInitInv == ASSUME Schedules!Init PROVE ActsAreHere
BY DEF Schedules!Init, Schedules!Keys, ActsAreHere

\* How far an action is, and neither its project nor whether it is cut off.
LEMMA SchedulesStep ==
  ASSUME ActsAreHere, NEW n \in 1..MaxScheduleActs, Schedules!Step(n) \/ Schedules!previewFails(n) \/ Schedules!answerLost(n)
  PROVE  ActsAreHere'
<1>1. schedulesActs[n] # None /\ scope' = scope
  BY DEF Schedules!Step, Schedules!previewFails, Schedules!answerLost, Schedules!previewed, Schedules!hostWrites,
         Schedules!written, Schedules!hostListsAgain, Schedules!listed, Schedules!form
<1>2. PICK q : q = schedulesActs[n]
  OBVIOUS
<1>3. DOMAIN q = ScheduleActFields /\ (q.fresh => q.scope = scope)
  BY <1>1, <1>2 DEF ActsAreHere
<1>4. PICK after : schedulesActs' = [schedulesActs EXCEPT ![n] = after]
                   /\ \/ \E pc, key : after = [q EXCEPT !.pc = pc, !.key = key]
                      \/ \E pc : after = [q EXCEPT !.pc = pc]
                      \/ \E end : after = [q EXCEPT !.wire = end]
                      \/ \E got : after = [q EXCEPT !.rows = got]
  <2>1. CASE Schedules!previewed(n)
    <3>1. PICK key : key = IF q.of = Schedules!New THEN Schedules!KeyOf(n, q.text) ELSE q.of.id
      OBVIOUS
    <3>2. PICK ends, goes : ends = [q EXCEPT !.pc = "ended"] /\ goes = [q EXCEPT !.pc = "write", !.key = key]
      OBVIOUS
    <3>3. \E after \in {ends, goes} : schedulesActs' = [schedulesActs EXCEPT ![n] = after]
      BY <1>2, <2>1, <3>1, <3>2 DEF Schedules!previewed
    <3> QED
      BY Zenon, <3>2, <3>3
  <2>2. CASE Schedules!hostListsAgain(n)
    <3>1. PICK got : got = Schedules!RowsOf(q.scope)
      OBVIOUS
    <3>2. PICK reads_ : reads_ = [q EXCEPT !.rows = got]
      OBVIOUS
    <3>3. schedulesActs' = [schedulesActs EXCEPT ![n] = reads_]
      BY <1>2, <2>2, <3>1, <3>2 DEF Schedules!hostListsAgain
    <3> QED
      BY Zenon, <3>2, <3>3
  <2>3. CASE Schedules!hostWrites(n) \/ Schedules!answerLost(n)
    <3>1. PICK end : schedulesActs' = [schedulesActs EXCEPT ![n].wire = end]
      BY <1>2, <2>3 DEF Schedules!hostWrites, Schedules!answerLost
    <3>2. PICK after : after = [q EXCEPT !.wire = end]
      OBVIOUS
    <3> QED
      BY Zenon, <1>2, <3>1, <3>2
  <2>4. CASE Schedules!written(n) \/ Schedules!listed(n) \/ Schedules!previewFails(n)
    <3>1. PICK pc : schedulesActs' = [schedulesActs EXCEPT ![n].pc = pc]
      BY <1>2, <2>4 DEF Schedules!written, Schedules!listed, Schedules!previewFails
    <3>2. PICK after : after = [q EXCEPT !.pc = pc]
      OBVIOUS
    <3> QED
      BY Zenon, <1>2, <3>1, <3>2
  <2> QED
    BY Zenon, <2>1, <2>2, <2>3, <2>4 DEF Schedules!Step
<1>5. DOMAIN after = ScheduleActFields /\ after.fresh = q.fresh /\ after.scope = q.scope
  BY Zenon, <1>3, <1>4 DEF ScheduleActFields
<1> QED
  BY Zenon, <1>1, <1>3, <1>4, <1>5 DEF ActsAreHere

LEMMA SchedulesForm ==
  ASSUME ActsAreHere,
         \/ Schedules!startPoll \/ Schedules!hostLists \/ Schedules!pollEnds \/ Schedules!cancel
         \/ \E row : Schedules!edit(row)
         \/ \E t \in ScheduleTexts : Schedules!type(t)
         \/ \E k \in Schedules!Keys, t \in ScheduleTexts : Schedules!otherEdits(k, t)
         \/ UNCHANGED schedulesVars
  PROVE  UNCHANGED <<schedulesActs, scope>>
BY Zenon DEF Schedules!startPoll, Schedules!hostLists, Schedules!pollEnds, Schedules!cancel, Schedules!edit, Schedules!type,
       Schedules!otherEdits, Schedules!form, schedulesVars

LEMMA SchedulesProject ==
  ASSUME ActsAreHere, NEW s \in ManagedProjects, Schedules!setScope(s)
  PROVE  ActsAreHere'
<1>1. schedulesActs' = [n \in 1..MaxScheduleActs |-> IF schedulesActs[n] = None THEN None ELSE [schedulesActs[n] EXCEPT !.fresh = FALSE]]
  BY DEF Schedules!setScope, Schedules!Keys
<1> QED
  BY <1>1 DEF ActsAreHere, ScheduleActFields

LEMMA SchedulesSave ==
  ASSUME ActsAreHere, NEW n \in 1..MaxScheduleActs, Schedules!save(n)
  PROVE  ActsAreHere'
<1>1. PICK q : q = [of |-> editing, text |-> text, scope |-> scope, fresh |-> TRUE,
                    pc |-> "preview", key |-> 0, wire |-> "sent", rows |-> None]
  OBVIOUS
<1>2. DOMAIN q = ScheduleActFields /\ q.scope = scope
  BY <1>1 DEF ScheduleActFields
<1>3. schedulesActs' = [schedulesActs EXCEPT ![n] = q] /\ scope' = scope
  BY <1>1 DEF Schedules!save, Schedules!form
<1> QED
  BY <1>2, <1>3 DEF ActsAreHere

LEMMA SchedulesNext == ASSUME ActsAreHere, Schedules!Next \/ UNCHANGED schedulesVars PROVE ActsAreHere'
<1>1. CASE UNCHANGED <<schedulesActs, scope>>
  BY <1>1 DEF ActsAreHere
<1> QED
  BY <1>1, SchedulesStep, SchedulesForm, SchedulesProject, SchedulesSave DEF Schedules!Next, Schedules!Keys

LEMMA SchedulesWritten ==
  ASSUME ActsAreHere, Schedules!Next \/ UNCHANGED schedulesVars, NEW n \in 1..MaxScheduleActs, schedulesActs[n] # None
  PROVE  /\ schedulesActs[n].pc = "preview" /\ schedulesActs'[n].pc = "write" => schedulesActs[n].scope = scope
         /\ schedulesActs[n].of # Schedules!New /\ schedulesActs[n].wire = "sent" /\ schedulesActs'[n].wire = "done" =>
                sched[schedulesActs[n].key].revision = schedulesActs[n].of.revision
<1>1. DOMAIN schedulesActs = 1..MaxScheduleActs /\ DOMAIN schedulesActs[n] = ScheduleActFields
      /\ (schedulesActs[n].fresh => schedulesActs[n].scope = scope)
  BY DEF ActsAreHere
<1>2. ASSUME UNCHANGED <<schedulesActs, scope>>
      PROVE  schedulesActs'[n].pc = schedulesActs[n].pc /\ schedulesActs'[n].wire = schedulesActs[n].wire
  BY <1>2
<1>3. ASSUME NEW s \in ManagedProjects, Schedules!setScope(s)
      PROVE  schedulesActs'[n].pc = schedulesActs[n].pc /\ schedulesActs'[n].wire = schedulesActs[n].wire
  BY <1>1, <1>3 DEF Schedules!setScope, Schedules!Keys, ScheduleActFields
<1>4. ASSUME NEW m \in 1..MaxScheduleActs, Schedules!save(m)
      PROVE  schedulesActs'[n].pc = schedulesActs[n].pc /\ schedulesActs'[n].wire = schedulesActs[n].wire
  BY <1>1, <1>4 DEF Schedules!save, Schedules!Unused
<1>5. ASSUME NEW m \in 1..MaxScheduleActs, m # n, Schedules!Step(m) \/ Schedules!previewFails(m) \/ Schedules!answerLost(m)
      PROVE  schedulesActs'[n].pc = schedulesActs[n].pc /\ schedulesActs'[n].wire = schedulesActs[n].wire
  BY <1>1, <1>5 DEF Schedules!Step, Schedules!previewFails, Schedules!answerLost, Schedules!previewed, Schedules!hostWrites,
         Schedules!written, Schedules!hostListsAgain, Schedules!listed
<1>6. ASSUME Schedules!previewed(n)
      PROVE  /\ schedulesActs'[n].wire = schedulesActs[n].wire
             /\ schedulesActs'[n].pc = "write" => schedulesActs[n].scope = scope
  <2>1. PICK q : q = schedulesActs[n]
    OBVIOUS
  <2>2. PICK key : key = IF q.of = Schedules!New THEN Schedules!KeyOf(n, q.text) ELSE q.of.id
    OBVIOUS
  <2>3. IF ~q.fresh THEN schedulesActs' = [schedulesActs EXCEPT ![n].pc = "ended"]
        ELSE schedulesActs' = [schedulesActs EXCEPT ![n].pc = "write", ![n].key = key]
    BY <1>6, <2>1, <2>2 DEF Schedules!previewed, Schedules!Stays
  <2> QED
    BY <1>1, <2>1, <2>3 DEF ScheduleActFields
<1>7. ASSUME Schedules!hostWrites(n)
      PROVE  /\ schedulesActs'[n].pc = schedulesActs[n].pc
             /\ schedulesActs[n].of # Schedules!New /\ schedulesActs'[n].wire = "done" =>
                  sched[schedulesActs[n].key].revision = schedulesActs[n].of.revision
  BY <1>1, <1>7 DEF Schedules!hostWrites, Schedules!Edits, ScheduleActFields
<1>8. ASSUME \/ Schedules!written(n) \/ Schedules!hostListsAgain(n) \/ Schedules!listed(n)
             \/ Schedules!previewFails(n) \/ Schedules!answerLost(n)
      PROVE  /\ schedulesActs'[n].pc # "write" \/ schedulesActs'[n].pc = schedulesActs[n].pc
             /\ schedulesActs'[n].wire # "done" \/ schedulesActs'[n].wire = schedulesActs[n].wire
  BY <1>1, <1>8 DEF Schedules!written, Schedules!hostListsAgain, Schedules!listed, Schedules!previewFails,
         Schedules!answerLost, ScheduleActFields
<1>9. CASE \E m \in 1..MaxScheduleActs : Schedules!Step(m) \/ Schedules!previewFails(m) \/ Schedules!answerLost(m)
  BY <1>5, <1>6, <1>7, <1>8, <1>9 DEF Schedules!Step
<1>10. CASE UNCHANGED <<schedulesActs, scope>> \/ \E s \in ManagedProjects : Schedules!setScope(s)
  BY <1>2, <1>3, <1>10
<1>11. CASE \E m \in 1..MaxScheduleActs : Schedules!save(m)
  BY <1>4, <1>11
<1> QED
  BY <1>9, <1>10, <1>11, SchedulesForm DEF Schedules!Next, Schedules!Keys

-----------------------------------------------------------------------------
(* The managed browser. *)

LEMMA BrowserInitInv == ASSUME Browser!Init PROVE BrowserInv
<1>1. DOMAIN browserHost = BrowserTabs /\ \A t \in BrowserTabs : DOMAIN browserHost[t] = {"state", "rev"}
  <2>1. browserHost \in [BrowserTabs -> {Browser!NoTab, [state |-> "human", rev |-> 0]}]
    BY DEF Browser!Init
  <2> QED
    BY <2>1 DEF Browser!NoTab
<1>2. browserUi = [tabs |-> [t \in BrowserTabs |-> Browser!NoTab], selected |-> None, context |-> None, frame |-> None,
           ws |-> "none", attempts |-> 0, inbox |-> {}, control |-> TRUE, grant |-> None,
           busy |-> FALSE, active |-> TRUE, paused |-> FALSE]
  BY DEF Browser!Init
<1>3. DOMAIN browserUi = BrowserFields /\ browserUi.inbox = {} /\ browserUi.context = None /\ browserUi.frame = None
  BY <1>2 DEF BrowserFields
<1> QED
  BY <1>1, <1>3 DEF BrowserInv, BrowserShape, HeardIsSelected, Browser!ObservedIsSelected

LEMMA BrowserKept == BrowserInv <=> /\ BrowserKeeps(browserUi)
                                    /\ DOMAIN browserHost = BrowserTabs
                                    /\ \A t \in BrowserTabs : DOMAIN browserHost[t] = {"state", "rev"}
BY DEF BrowserInv, BrowserShape, HeardIsSelected, Browser!ObservedIsSelected, BrowserKeeps

\* A render that selects another tab, or that follows a change of the foreground or of the
\* lock, ends the stream: what is left of it does not count.
LEMMA BrowserRenders ==
  ASSUME BrowserInv, NEW u, DOMAIN u = BrowserFields, Browser!Render(u), u.inbox \subseteq browserUi.inbox,
         \/ u.frame = browserUi.frame
         \/ u.frame = browserUi.selected /\ u.active /\ ~u.paused,
         u.context = None \/ (u.context = browserUi.context /\ ~u.paused)
  PROVE  BrowserKeeps(browserUi')
<1>0. /\ DOMAIN browserUi = BrowserFields
      /\ \A m \in u.inbox : DOMAIN m = {"tab", "row", "may", "live"} /\ (m.live => m.tab = browserUi.selected)
      /\ browserUi.frame # None => browserUi.frame = browserUi.selected /\ browserUi.active /\ ~browserUi.paused
      /\ browserUi.context # None => browserUi.context = browserUi.selected
  BY DEF BrowserInv, BrowserShape, HeardIsSelected, Browser!ObservedIsSelected
<1>1. PICK over : over = Browser!Restarted(u)
  OBVIOUS
<1>2. PICK silent : silent = {[m EXCEPT !.live = FALSE] : m \in u.inbox}
  OBVIOUS
<1>3. \A m \in silent : DOMAIN m = {"tab", "row", "may", "live"} /\ ~m.live
  BY <1>0, <1>2
<1>4. /\ DOMAIN over = BrowserFields /\ over.inbox = silent /\ over.frame = None
      /\ over.context = u.context /\ over.selected = u.selected /\ over.paused = u.paused
  BY <1>1, <1>2 DEF Browser!Restarted, BrowserFields
<1>5. PICK v : v = IF u.selected = browserUi.selected /\ u.active = browserUi.active /\ u.paused = browserUi.paused
                   THEN u ELSE over
  OBVIOUS
<1>6. browserUi' = Browser!Cleared(v)
  BY <1>1, <1>5 DEF Browser!Render
<1>7. /\ DOMAIN v = BrowserFields /\ v.selected = u.selected /\ v.paused = u.paused /\ v.context = u.context
      /\ \A m \in v.inbox : DOMAIN m = {"tab", "row", "may", "live"} /\ (m.live => m.tab = v.selected)
      /\ v.frame # None => v.frame = v.selected /\ v.active /\ ~v.paused
  BY <1>0, <1>3, <1>4, <1>5
<1>8. \/ browserUi' = v /\ u.selected = browserUi.selected
      \/ browserUi' = [v EXCEPT !.context = None]
  BY <1>6, <1>7 DEF Browser!Cleared
<1>9. CASE browserUi' = v /\ u.selected = browserUi.selected
  BY <1>0, <1>7, <1>9 DEF BrowserKeeps
<1>10. CASE browserUi' = [v EXCEPT !.context = None]
  BY <1>7, <1>10 DEF BrowserKeeps, BrowserFields
<1> QED
  BY <1>8, <1>9, <1>10

LEMMA BrowserLoads ==
  ASSUME BrowserInv, NEW l \in browserLoads, Browser!loadArrives(l)
  PROVE  BrowserInv'
<1>1. PICK listed : listed = Browser!Listed(browserUi, l.rows)
  OBVIOUS
<1>2. PICK tabs_, chosen : listed = [browserUi EXCEPT !.tabs = tabs_, !.selected = chosen]
  BY Zenon, <1>1 DEF Browser!Listed
<1>3. PICK u : u = IF browserUi.active THEN listed ELSE browserUi
  OBVIOUS
<1>4. PICK v : v = IF l.then = None THEN u ELSE [u EXCEPT !.selected = l.then]
  OBVIOUS
<1>5. PICK w : w = Browser!Rested(v, ~l.poll)
  OBVIOUS
<1>6. DOMAIN browserUi = BrowserFields /\ (browserUi.context # None => ~browserUi.paused)
  BY BrowserKept DEF BrowserKeeps
<1>7. /\ DOMAIN listed = BrowserFields /\ listed.frame = browserUi.frame /\ listed.context = browserUi.context
      /\ listed.inbox = browserUi.inbox /\ listed.paused = browserUi.paused
  BY <1>2, <1>6 DEF BrowserFields
<1>8. /\ DOMAIN u = BrowserFields /\ u.frame = browserUi.frame /\ u.context = browserUi.context
      /\ u.inbox = browserUi.inbox /\ u.paused = browserUi.paused
  BY <1>3, <1>6, <1>7
<1>9. /\ DOMAIN v = BrowserFields /\ v.frame = browserUi.frame /\ v.context = browserUi.context
      /\ v.inbox = browserUi.inbox /\ v.paused = browserUi.paused
  BY <1>4, <1>8 DEF BrowserFields
<1>10. /\ DOMAIN w = BrowserFields /\ w.frame = browserUi.frame /\ w.context = browserUi.context
       /\ w.inbox = browserUi.inbox /\ w.paused = browserUi.paused
  BY <1>5, <1>9 DEF Browser!Rested, BrowserFields
<1>11. Browser!Render(w) /\ UNCHANGED browserHost
  BY <1>1, <1>3, <1>4, <1>5 DEF Browser!loadArrives
<1>12. BrowserKeeps(browserUi')
  BY <1>6, <1>10, <1>11, BrowserRenders
<1> QED
  BY <1>11, <1>12, BrowserKept DEF BrowserKeeps, BrowserInv, BrowserShape, HeardIsSelected, Browser!ObservedIsSelected

LEMMA BrowserStreams ==
  ASSUME BrowserInv, \/ Browser!connect \/ Browser!streams \/ Browser!streamCloses \/ Browser!reconnect \/ Browser!retry
                     \/ \E m \in browserUi.inbox : Browser!streamArrives(m)
  PROVE  BrowserInv'
<1>1. BrowserKeeps(browserUi) /\ DOMAIN browserUi = BrowserFields
  BY BrowserKept DEF BrowserKeeps
<1>2. UNCHANGED browserHost
  BY Zenon DEF Browser!connect, Browser!streams, Browser!streamCloses, Browser!reconnect, Browser!retry, Browser!streamArrives
<1>3. ASSUME Browser!connect \/ Browser!reconnect PROVE BrowserKeeps(browserUi')
  <2>1. PICK ws : browserUi' = [browserUi EXCEPT !.ws = ws]
    BY Zenon, <1>3 DEF Browser!connect, Browser!reconnect
  <2> QED
    BY <1>1, <2>1 DEF BrowserKeeps, BrowserFields
<1>4. ASSUME Browser!streams PROVE BrowserKeeps(browserUi')
  <2>1. PICK m : m = [tab |-> browserUi.selected, row |-> browserHost[browserUi.selected], may |-> may, live |-> TRUE]
    OBVIOUS
  <2>2. browserUi' = [browserUi EXCEPT !.inbox = browserUi.inbox \cup {m}]
    BY <1>4, <2>1 DEF Browser!streams
  <2>3. DOMAIN m = {"tab", "row", "may", "live"} /\ m.tab = browserUi.selected
    BY <2>1
  <2> QED
    BY <1>1, <2>2, <2>3 DEF BrowserKeeps, BrowserFields
<1>5. ASSUME Browser!streamCloses PROVE BrowserKeeps(browserUi')
  <2>1. PICK left : left = {m \in browserUi.inbox : ~m.live}
    OBVIOUS
  <2>2. PICK ws, tries : browserUi' = [browserUi EXCEPT !.frame = None, !.inbox = left, !.ws = ws, !.attempts = tries]
    BY <1>5, <2>1, Zenon DEF Browser!streamCloses
  <2> QED
    BY <1>1, <2>1, <2>2 DEF BrowserKeeps, BrowserFields
<1>6. ASSUME Browser!retry PROVE BrowserKeeps(browserUi')
  <2>1. PICK silent : silent = {[m EXCEPT !.live = FALSE] : m \in browserUi.inbox}
    OBVIOUS
  <2>2. \A m \in silent : DOMAIN m = {"tab", "row", "may", "live"} /\ ~m.live
    BY <1>1, <2>1 DEF BrowserKeeps
  <2>3. PICK over : over = Browser!Restarted(browserUi)
    OBVIOUS
  <2>4. /\ DOMAIN over = BrowserFields /\ over.frame = None /\ over.inbox = silent
        /\ over.context = browserUi.context /\ over.selected = browserUi.selected /\ over.paused = browserUi.paused
    BY <1>1, <2>1, <2>3 DEF Browser!Restarted, BrowserFields
  <2>5. browserUi' = [over EXCEPT !.busy = TRUE]
    BY <1>6, <2>3 DEF Browser!retry
  <2> QED
    BY <1>1, <2>2, <2>4, <2>5 DEF BrowserKeeps, BrowserFields
<1>7. ASSUME NEW m \in browserUi.inbox, Browser!streamArrives(m) PROVE BrowserKeeps(browserUi')
  <2>1. PICK left : left = browserUi.inbox \ {m}
    OBVIOUS
  <2>2. PICK u : u = [browserUi EXCEPT !.inbox = left]
    OBVIOUS
  <2>3. PICK rows_ : rows_ = [browserUi.tabs EXCEPT ![m.tab] = m.row]
    OBVIOUS
  <2>4. PICK v : v = [u EXCEPT !.frame = m.tab, !.tabs = rows_, !.control = m.may]
    OBVIOUS
  <2>5. /\ DOMAIN u = BrowserFields /\ u.frame = browserUi.frame /\ u.context = browserUi.context
        /\ u.inbox = left /\ u.paused = browserUi.paused /\ u.active = browserUi.active /\ u.tabs = browserUi.tabs
    BY <1>1, <2>2 DEF BrowserFields
  <2>6. /\ DOMAIN v = BrowserFields /\ v.frame = m.tab /\ v.context = browserUi.context
        /\ v.inbox = left /\ v.paused = browserUi.paused /\ v.active = browserUi.active
    BY <2>4, <2>5 DEF BrowserFields
  <2>7. Browser!Render(IF m.live /\ browserUi.active /\ ~browserUi.paused THEN v ELSE u)
    BY Zenon, <1>7, <2>1, <2>2, <2>3, <2>4, <2>5 DEF Browser!streamArrives
  <2>8. left \subseteq browserUi.inbox /\ (browserUi.context # None => ~browserUi.paused)
        /\ (m.live => m.tab = browserUi.selected)
    BY <1>1, <2>1 DEF BrowserKeeps
  <2>9. CASE m.live /\ browserUi.active /\ ~browserUi.paused
    BY <2>6, <2>7, <2>8, <2>9, BrowserRenders
  <2>10. CASE ~(m.live /\ browserUi.active /\ ~browserUi.paused)
    BY <2>5, <2>7, <2>8, <2>10, BrowserRenders
  <2> QED
    BY <2>9, <2>10
<1>8. BrowserKeeps(browserUi')
  BY <1>3, <1>4, <1>5, <1>6, <1>7 DEF BrowserInv, BrowserShape, HeardIsSelected, Browser!ObservedIsSelected, BrowserKeeps
<1> QED
  BY <1>2, <1>8, BrowserKept DEF BrowserKeeps, BrowserInv, BrowserShape, HeardIsSelected, Browser!ObservedIsSelected

LEMMA BrowserAround ==
  ASSUME BrowserInv, \/ Browser!foreground \/ Browser!lock \/ Browser!unlock \/ Browser!resume
                     \/ \E t \in BrowserTabs : Browser!select(t)
  PROVE  BrowserInv'
<1>1. BrowserKeeps(browserUi) /\ DOMAIN browserUi = BrowserFields
  BY BrowserKept DEF BrowserKeeps
<1>2. UNCHANGED browserHost
  BY DEF Browser!foreground, Browser!lock, Browser!unlock, Browser!resume, Browser!select
<1>3. PICK u : /\ Browser!Render(u)
               /\ \/ \E on : u = [browserUi EXCEPT !.active = on]
                  \/ u = [browserUi EXCEPT !.active = FALSE, !.paused = TRUE, !.control = FALSE, !.context = None, !.grant = None]
                  \/ u = [browserUi EXCEPT !.paused = FALSE]
                  \/ \E t : u = [browserUi EXCEPT !.selected = t]
  <2>2. PICK off, on : off = [browserUi EXCEPT !.active = FALSE] /\ on = [browserUi EXCEPT !.active = TRUE]
    OBVIOUS
  <2>3. CASE Browser!foreground \/ Browser!unlock
    <3>1. Browser!Render(off) \/ Browser!Render(on)
      BY <2>2, <2>3 DEF Browser!foreground, Browser!unlock
    <3> QED
      BY <2>2, <3>1
  <2>4. CASE Browser!lock
    BY <2>4 DEF Browser!lock
  <2>5. CASE Browser!resume
    BY <2>5 DEF Browser!resume
  <2>6. CASE \E t \in BrowserTabs : Browser!select(t)
    BY <2>6 DEF Browser!select
  <2> QED
    BY <2>3, <2>4, <2>5, <2>6
<1>4. /\ DOMAIN u = BrowserFields /\ u.frame = browserUi.frame /\ u.inbox = browserUi.inbox
      /\ u.context = None \/ (u.context = browserUi.context /\ (browserUi.context # None => ~u.paused))
  BY <1>1, <1>3 DEF BrowserKeeps, BrowserFields
<1>5. BrowserKeeps(browserUi')
  BY <1>3, <1>4, BrowserRenders
<1> QED
  BY <1>2, <1>5, BrowserKept DEF BrowserKeeps, BrowserInv, BrowserShape, HeardIsSelected, Browser!ObservedIsSelected

LEMMA BrowserUserActs ==
  ASSUME BrowserInv,
         \/ Browser!openGrant \/ Browser!observe \/ \E kind \in Browser!Kinds : Browser!begin(kind)
         \/ \E o \in observes : Browser!hostReads(o) \/ Browser!contextArrives(o)
         \/ \E l \in browserLoads : Browser!loadFails(l)
         \/ \E j \in browserJobs : Browser!jobEnds(j)
  PROVE  BrowserInv'
<1>1. BrowserKeeps(browserUi) /\ DOMAIN browserUi = BrowserFields
  BY BrowserKept DEF BrowserKeeps
<1>2. UNCHANGED browserHost
  BY DEF Browser!openGrant, Browser!observe, Browser!begin, Browser!hostReads, Browser!contextArrives, Browser!loadFails,
         Browser!jobEnds
<1>3. PICK seen : seen = [browserUi EXCEPT !.context = browserUi.selected]
  OBVIOUS
<1>4. /\ DOMAIN seen = BrowserFields /\ seen.context = browserUi.selected /\ seen.selected = browserUi.selected
      /\ seen.frame = browserUi.frame /\ seen.inbox = browserUi.inbox
      /\ seen.active = browserUi.active /\ seen.paused = browserUi.paused
  BY <1>1, <1>3 DEF BrowserFields
<1>5. ASSUME NEW run PROVE \/ Browser!Rested(browserUi, run) = browserUi
                          \/ Browser!Rested(browserUi, run) = [browserUi EXCEPT !.busy = FALSE]
  BY DEF Browser!Rested
<1>6. \/ browserUi' = browserUi
      \/ \E g : browserUi' = [browserUi EXCEPT !.grant = g]
      \/ \E b : browserUi' = [browserUi EXCEPT !.busy = b]
      \/ browserUi' = [browserUi EXCEPT !.context = None]
      \/ browserUi' = [seen EXCEPT !.busy = FALSE] /\ ~browserUi.paused
  <2>1. CASE Browser!openGrant
    BY <2>1 DEF Browser!openGrant
  <2>2. CASE Browser!observe \/ \E kind \in Browser!Kinds : Browser!begin(kind)
    BY <2>2 DEF Browser!observe, Browser!begin, Browser!Begins
  <2>3. CASE \E o \in observes : Browser!hostReads(o)
    BY <1>5, <2>3 DEF Browser!hostReads
  <2>4. CASE \E o \in observes : Browser!contextArrives(o)
    <3>1. PICK o \in observes : Browser!contextArrives(o)
      BY <2>4
    <3>2. CASE Browser!Wanted(o)
      <4>1. browserUi' = Browser!Rested(seen, TRUE) /\ ~browserUi.paused
        BY <1>3, <3>1, <3>2 DEF Browser!contextArrives, Browser!Wanted
      <4> QED
        BY <4>1 DEF Browser!Rested
    <3>3. CASE ~Browser!Wanted(o)
      BY <1>5, <3>1, <3>3 DEF Browser!contextArrives
    <3> QED
      BY <3>2, <3>3
  <2>5. CASE \E l \in browserLoads : Browser!loadFails(l)
    BY <1>5, <2>5 DEF Browser!loadFails
  <2>6. CASE \E j \in browserJobs : Browser!jobEnds(j)
    BY <1>5, <2>6 DEF Browser!jobEnds
  <2> QED
    BY <2>1, <2>2, <2>3, <2>4, <2>5, <2>6
<1>7. BrowserKeeps(browserUi')
  BY <1>1, <1>4, <1>6 DEF BrowserKeeps, BrowserFields
<1> QED
  BY <1>2, <1>7, BrowserKept DEF BrowserKeeps, BrowserInv, BrowserShape, HeardIsSelected, Browser!ObservedIsSelected

\* What the host makes of a tab leaves it a tab.
LEMMA BrowserHost ==
  ASSUME BrowserInv, Browser!hostChanges \/ \E j \in browserJobs : Browser!hostDoes(j) \/ Browser!hostRefuses(j)
  PROVE  BrowserInv'
<1>1. DOMAIN browserHost = BrowserTabs /\ \A t \in BrowserTabs : DOMAIN browserHost[t] = {"state", "rev"}
  BY DEF BrowserInv, BrowserShape
<1>2. UNCHANGED browserUi
  BY DEF Browser!hostChanges, Browser!hostDoes, Browser!hostRefuses
<1>3. \/ UNCHANGED browserHost
      \/ \E t, state : browserHost' = [browserHost EXCEPT ![t].state = state]
      \/ \E t : browserHost' = [browserHost EXCEPT ![t].rev = browserHost[t].rev + 1]
  <2>1. CASE Browser!hostChanges
    BY <2>1 DEF Browser!hostChanges
  <2>2. CASE \E j \in browserJobs : Browser!hostDoes(j) \/ Browser!hostRefuses(j)
    BY <2>2 DEF Browser!hostDoes, Browser!hostRefuses
  <2> QED
    BY <2>1, <2>2
<1>4. DOMAIN browserHost' = BrowserTabs /\ \A t \in BrowserTabs : DOMAIN browserHost'[t] = {"state", "rev"}
  BY <1>1, <1>3
<1> QED
  BY <1>2, <1>4 DEF BrowserInv, BrowserShape, HeardIsSelected, Browser!ObservedIsSelected

\* The steps that change neither the panel nor the host's tabs.
LEMMA BrowserCalls ==
  ASSUME BrowserInv, Browser!poll \/ UNCHANGED browserVars \/ \E l \in browserLoads : Browser!hostLists(l)
  PROVE  BrowserInv'
<1>1. UNCHANGED <<browserHost, browserUi>>
  BY DEF Browser!poll, browserVars, Browser!hostLists
<1> QED
  BY <1>1 DEF BrowserInv, BrowserShape, HeardIsSelected, Browser!ObservedIsSelected

LEMMA BrowserNext == ASSUME BrowserInv, Browser!Next \/ UNCHANGED browserVars PROVE BrowserInv'
BY BrowserHost, BrowserLoads, BrowserStreams, BrowserAround, BrowserUserActs, BrowserCalls
DEF Browser!Next, Browser!LoadStep, Browser!JobStep

-----------------------------------------------------------------------------
(* Cloud machines. *)

LEMMA CloudInitInv == ASSUME Cloud!Init PROVE CloudInv
<1>1. PICK p \in CloudProjects : p = CHOOSE q \in CloudProjects : TRUE
  BY CloudAssumption
<1>2. plan = [account |-> None, project |-> p, place |-> None, text |-> 0]
  BY <1>1 DEF Cloud!Init, Cloud!Initial
<1>3. plan \in CloudPlans
  BY <1>2 DEF CloudPlans
<1>4. previews = <<>> /\ machines = <<>> /\ cloudLoads = <<>>
  BY DEF Cloud!Init
<1>5. Len(<<>>) = 0 /\ \A S : <<>> \in Seq(S)
  OBVIOUS
<1>6. CloudShape
  BY <1>3, <1>4, <1>5 DEF Cloud!Init, CloudShape
<1>7. DOMAIN machines = {}
  BY <1>4
<1> QED
  BY <1>4, <1>5, <1>6, <1>7
  DEF Cloud!Init, CloudInv, ReviewsAreFaithful, OwnRequestIds, LastIsHere, Cloud!CatalogIsHere, Cloud!OneMachinePerForm

LEMMA CloudSpends ==
  ASSUME CloudInv, NEW what \in {"acts", "texts", "upsets", "works"}, Cloud!Spend(what)
  PROVE  cloudUsed' \in [acts : Nat, texts : Nat, upsets : Nat, works : Nat]
<1>1. cloudUsed \in [acts : Nat, texts : Nat, upsets : Nat, works : Nat]
  BY DEF CloudInv, CloudShape
<1>2. PICK k \in Nat : k = cloudUsed[what] + 1
  BY <1>1
<1>3. cloudUsed' = [cloudUsed EXCEPT ![what] = k]
  BY <1>2 DEF Cloud!Spend
<1> QED
  BY <1>1, <1>3

\* What the host keeps of the reviews stays, or is forgotten.
LEMMA FaithfulStays ==
  ASSUME CloudInv, NEW r, Faithful(r), Len(previews') \in Nat, Len(previews) <= Len(previews'),
         \A n \in 1..Len(previews) : \/ previews'[n] = None
                                     \/ /\ previews[n] # None /\ previews'[n].plan = previews[n].plan
                                        /\ previews'[n].revision = previews[n].revision
  PROVE  /\ r.n \in 1..Len(previews')
         /\ previews'[r.n] = None \/ (previews'[r.n].plan = r.plan /\ previews'[r.n].revision = r.revision)
<1>1. Len(previews) \in Nat
  BY DEF CloudInv, CloudShape
<1>2. PICK n \in 1..Len(previews) : n = r.n
  BY DEF Faithful
<1>3. previews[n] = None \/ (previews[n].plan = r.plan /\ previews[n].revision = r.revision)
  BY <1>2 DEF Faithful
<1> QED
  BY <1>1, <1>2, <1>3

LEMMA CloudStays ==
  ASSUME CloudInv, CloudFormStays, UNCHANGED machines,
         cloudUsed' \in [acts : Nat, texts : Nat, upsets : Nat, works : Nat]
  PROVE  CloudShape' /\ OwnRequestIds' /\ LastIsHere' /\ Cloud!CatalogIsHere' /\ Cloud!OneMachinePerForm'
BY DEF CloudInv, CloudFormStays, CloudShape, OwnRequestIds, LastIsHere, Cloud!CatalogIsHere, Cloud!OneMachinePerForm, Cloud!Where

\* The list and the cleanup, which no review depends on.
LEMMA CloudApart ==
  ASSUME CloudInv, CloudFormStays, UNCHANGED <<machines, act>>, review' \in {review, None},
         cloudUsed' \in [acts : Nat, texts : Nat, upsets : Nat, works : Nat]
  PROVE  CloudInv'
<1>1. ReviewsAreFaithful'
  BY DEF CloudInv, CloudFormStays, ReviewsAreFaithful, Faithful
<1> QED
  BY <1>1, CloudStays DEF CloudInv

LEMMA CloudListing ==
  ASSUME CloudInv, \/ Cloud!backToForm \/ Cloud!cancelCleanup \/ Cloud!ask \/ Cloud!polled \/ Cloud!pollFails
                   \/ \E n \in DOMAIN cloudRows : Cloud!openCleanup(n)
                   \/ UNCHANGED cloudVars
  PROVE  CloudInv'
<1>1. CloudFormStays /\ UNCHANGED <<machines, act>> /\ review' \in {review, None}
  BY DEF Cloud!backToForm, Cloud!cancelCleanup, Cloud!ask, Cloud!polled, Cloud!pollFails, Cloud!openCleanup, cloudVars,
         Cloud!host, Cloud!form, CloudFormStays
<1>2. cloudUsed' = cloudUsed \/ Cloud!Spend("upsets")
  BY DEF Cloud!backToForm, Cloud!cancelCleanup, Cloud!ask, Cloud!polled, Cloud!pollFails, Cloud!openCleanup, cloudVars
<1>3. cloudUsed' \in [acts : Nat, texts : Nat, upsets : Nat, works : Nat]
  BY <1>2, CloudSpends DEF CloudInv, CloudShape
<1> QED
  BY <1>1, <1>3, CloudApart

\* The form changes: what is reviewed no longer is, and another catalogue is asked for
\* when it is of another account or place.
LEMMA CloudBecomes ==
  ASSUME CloudInv, NEW p \in CloudPlans, Cloud!Become(p), review' = None, id' \in Nat,
         UNCHANGED <<cloudRevision, previews, machines, act>>,
         cloudUsed' \in [acts : Nat, texts : Nat, upsets : Nat, works : Nat]
  PROVE  CloudInv'
<1>1. plan' = p /\ Cloud!Reload(p)
  BY DEF Cloud!Become
<1>2. PICK here \in CloudWheres : here = [account |-> p.account, place |-> p.place]
  BY DEF CloudPlans, CloudWheres
<1>3. Cloud!Where(p) = here /\ Cloud!Where(plan)' = here
  BY <1>1, <1>2 DEF Cloud!Where
<1>4. cloudLoads \in Seq(CloudWheres \cup {None}) /\ Len(cloudLoads) \in Nat /\ loading \in BOOLEAN
  BY DEF CloudInv, CloudShape
<1>5. /\ cloudLoads' \in Seq(CloudWheres \cup {None}) /\ loading' \in BOOLEAN
      /\ Len(cloudLoads') > 0 => cloudLoads'[Len(cloudLoads')] \in {None, here}
      /\ loading' \/ catalog' \in {None, here}
  <2>1. CASE Cloud!Where(p) = Cloud!Where(plan)
    BY <1>1, <1>3, <1>4, <2>1 DEF Cloud!Reload, CloudInv, LastIsHere, Cloud!CatalogIsHere
  <2>2. ASSUME Cloud!Where(p) # Cloud!Where(plan), NEW asked \in {None, here}, cloudLoads' = Append(cloudLoads, asked)
        PROVE  cloudLoads' \in Seq(CloudWheres \cup {None}) /\ cloudLoads'[Len(cloudLoads')] = asked
    <3>1. asked \in CloudWheres \cup {None}
      BY <1>2, <2>2
    <3> QED
      BY <1>4, <2>2, <3>1
  <2>3. CASE Cloud!Where(p) # Cloud!Where(plan) /\ p.account = None
    BY <1>1, <1>4, <2>2, <2>3 DEF Cloud!Reload
  <2>4. CASE Cloud!Where(p) # Cloud!Where(plan) /\ p.account # None
    BY <1>1, <1>3, <1>4, <2>2, <2>4 DEF Cloud!Reload
  <2> QED
    BY <2>1, <2>3, <2>4
<1>6. LastIsHere' /\ Cloud!CatalogIsHere'
  BY <1>3, <1>5 DEF LastIsHere, Cloud!CatalogIsHere
<1>7. CloudShape' /\ OwnRequestIds' /\ Cloud!OneMachinePerForm'
  BY <1>1, <1>5 DEF CloudInv, CloudShape, OwnRequestIds, Cloud!OneMachinePerForm
<1>8. ReviewsAreFaithful'
  BY DEF CloudInv, ReviewsAreFaithful, Faithful
<1> QED
  BY <1>6, <1>7, <1>8 DEF CloudInv

LEMMA CloudForm ==
  ASSUME CloudInv, \/ Cloud!change \/ \E a \in CloudAccounts \cup {None} : Cloud!chooseAccount(a)
                   \/ \E p \in CloudPlaces : Cloud!choosePlace(p)
  PROVE  CloudInv'
<1>1. plan \in CloudPlans /\ id \in Nat /\ cloudUsed \in [acts : Nat, texts : Nat, upsets : Nat, works : Nat]
  BY DEF CloudInv, CloudShape
<1>2. CASE Cloud!change
  <2>1. PICK t \in Nat : t = cloudUsed.texts + 1
    BY <1>1
  <2>2. PICK p \in CloudPlans : p = [plan EXCEPT !.text = t]
    BY <1>1 DEF CloudPlans
  <2>3. /\ Cloud!Become(p) /\ review' = None /\ id' = id + 1 /\ UNCHANGED <<cloudRevision, previews, machines, act>>
        /\ Cloud!Spend("texts")
    BY <1>2, <2>1, <2>2 DEF Cloud!change, Cloud!Edited, Cloud!host
  <2> QED
    BY <1>1, <2>3, CloudBecomes, CloudSpends
<1>3. CASE \E a \in CloudAccounts \cup {None} : Cloud!chooseAccount(a)
  <2>1. PICK a \in CloudAccounts \cup {None} : Cloud!chooseAccount(a)
    BY <1>3
  <2>2. PICK p : p = Cloud!Initial(a, plan.project)
    OBVIOUS
  <2>3. p \in CloudPlans
    BY <1>1, <2>2 DEF Cloud!Initial, CloudPlans
  <2>4. Cloud!Become(p) /\ review' = None /\ id' = id + 1 /\ UNCHANGED <<cloudRevision, previews, machines, act, cloudUsed>>
    BY <2>1, <2>2 DEF Cloud!chooseAccount, Cloud!Edited, Cloud!host
  <2> QED
    BY <1>1, <2>3, <2>4, CloudBecomes
<1>4. CASE \E p \in CloudPlaces : Cloud!choosePlace(p)
  <2>1. PICK place \in CloudPlaces : Cloud!choosePlace(place)
    BY <1>4
  <2>2. PICK p \in CloudPlans : p = [plan EXCEPT !.place = place]
    BY <1>1 DEF CloudPlans
  <2>3. Cloud!Become(p) /\ review' = None /\ id' = id + 1 /\ UNCHANGED <<cloudRevision, previews, machines, act, cloudUsed>>
    BY <2>1, <2>2 DEF Cloud!choosePlace, Cloud!Edited, Cloud!host
  <2> QED
    BY <1>1, <2>3, CloudBecomes
<1> QED
  BY <1>2, <1>3, <1>4

LEMMA CloudProject ==
  ASSUME CloudInv, NEW q \in CloudProjects, Cloud!projectChanges(q)
  PROVE  CloudInv'
<1>1. plan \in CloudPlans
  BY DEF CloudInv, CloudShape
<1>2. plan' \in CloudPlans /\ plan'.account = plan.account /\ plan'.place = plan.place
  BY <1>1 DEF Cloud!projectChanges, CloudPlans
<1>3. Cloud!Where(plan)' = Cloud!Where(plan)
  BY <1>2 DEF Cloud!Where
<1>4. UNCHANGED <<cloudRevision, previews, machines, id, catalog, cloudLoads, loading, act>> /\ review' = None
  BY DEF Cloud!projectChanges, Cloud!host
<1>5. cloudUsed' \in [acts : Nat, texts : Nat, upsets : Nat, works : Nat]
  BY CloudSpends DEF Cloud!projectChanges
<1>6. ReviewsAreFaithful'
  BY <1>4 DEF CloudInv, ReviewsAreFaithful, Faithful
<1>7. CloudShape' /\ OwnRequestIds' /\ Cloud!OneMachinePerForm'
  BY <1>2, <1>4, <1>5 DEF CloudInv, CloudShape, OwnRequestIds, Cloud!OneMachinePerForm
<1>8. LastIsHere' /\ Cloud!CatalogIsHere'
  BY <1>3, <1>4 DEF CloudInv, LastIsHere, Cloud!CatalogIsHere
<1> QED
  BY <1>6, <1>7, <1>8 DEF CloudInv

LEMMA CloudCatalog ==
  ASSUME CloudInv, NEW n \in DOMAIN cloudLoads, Cloud!catalogArrives(n)
  PROVE  CloudInv'
<1>1. cloudLoads \in Seq(CloudWheres \cup {None}) /\ Len(cloudLoads) \in Nat /\ DOMAIN cloudLoads = 1..Len(cloudLoads)
  BY DEF CloudInv, CloudShape
<1>2. /\ UNCHANGED <<cloudRevision, previews, machines, plan, id, review, act, cloudUsed>>
      /\ cloudLoads' = [cloudLoads EXCEPT ![n] = None]
      /\ IF n = Len(cloudLoads) THEN catalog' \in {cloudLoads[n], None} /\ loading' = FALSE
         ELSE UNCHANGED <<catalog, loading>>
  BY DEF Cloud!catalogArrives, Cloud!Last, Cloud!host
<1>3. cloudLoads' \in Seq(CloudWheres \cup {None}) /\ Len(cloudLoads') = Len(cloudLoads)
  BY <1>1, <1>2
<1>4. LastIsHere'
  BY <1>1, <1>2, <1>3 DEF CloudInv, LastIsHere, Cloud!Where
<1>5. Cloud!CatalogIsHere'
  BY <1>1, <1>2 DEF CloudInv, LastIsHere, Cloud!CatalogIsHere, Cloud!Where
<1>6. ReviewsAreFaithful'
  BY <1>2 DEF CloudInv, ReviewsAreFaithful, Faithful
<1>7. CloudShape' /\ OwnRequestIds' /\ Cloud!OneMachinePerForm'
  BY <1>2, <1>3 DEF CloudInv, CloudShape, OwnRequestIds, Cloud!OneMachinePerForm
<1> QED
  BY <1>4, <1>5, <1>6, <1>7 DEF CloudInv

LEMMA CloudRequests ==
  ASSUME CloudInv, \/ Cloud!askReview \/ Cloud!launch \/ Cloud!confirmCleanup \/ Cloud!lost \/ Cloud!refuseReview
                   \/ Cloud!settled \/ Cloud!checkAccount \/ Cloud!hostLists \/ Cloud!listed
  PROVE  CloudInv'
<1>1. UNCHANGED <<cloudRevision, previews, machines, plan, catalog, cloudLoads, loading>>
  BY DEF Cloud!askReview, Cloud!launch, Cloud!confirmCleanup, Cloud!lost, Cloud!refuseReview, Cloud!settled,
         Cloud!checkAccount, Cloud!hostLists, Cloud!listed, Cloud!host, Cloud!form
<1>2. cloudUsed' \in [acts : Nat, texts : Nat, upsets : Nat, works : Nat]
  <2>1. cloudUsed' = cloudUsed \/ Cloud!Spend("acts") \/ Cloud!Spend("upsets")
    BY DEF Cloud!askReview, Cloud!launch, Cloud!confirmCleanup, Cloud!lost, Cloud!refuseReview, Cloud!settled,
           Cloud!checkAccount, Cloud!hostLists, Cloud!listed, Cloud!Begin
  <2> QED
    BY <2>1, CloudSpends DEF CloudInv, CloudShape
<1>3. id' \in Nat
  <2>1. id' = id \/ id' = id + 1
    BY DEF Cloud!askReview, Cloud!launch, Cloud!confirmCleanup, Cloud!lost, Cloud!refuseReview, Cloud!settled,
           Cloud!checkAccount, Cloud!hostLists, Cloud!listed, Cloud!form
  <2> QED
    BY <2>1 DEF CloudInv, CloudShape
<1>4. CloudShape' /\ OwnRequestIds' /\ LastIsHere' /\ Cloud!CatalogIsHere' /\ Cloud!OneMachinePerForm'
  BY <1>1, <1>2, <1>3 DEF CloudInv, CloudShape, OwnRequestIds, LastIsHere, Cloud!CatalogIsHere, Cloud!OneMachinePerForm, Cloud!Where
<1>5. \A r : Faithful(r)' <=> Faithful(r)
  BY <1>1 DEF Faithful
<1>6. ASSUME review' = review \/ review' = None, act' = None PROVE ReviewsAreFaithful'
  BY <1>1, <1>6 DEF CloudInv, ReviewsAreFaithful, Faithful
<1>7. ASSUME review' = review, act' # None, {"kind", "pc"} \subseteq DOMAIN act', act'.pc \notin {"sent", "checked", "done"} \/ act'.kind = "cleanup",
             act'.pc # "checked"
      PROVE  ReviewsAreFaithful'
  BY <1>1, <1>7 DEF CloudInv, ReviewsAreFaithful, Faithful
<1>8. CASE Cloud!askReview
  <2>1. PICK q : q = [kind |-> "review", pc |-> "sent", plan |-> plan, req |-> id, form |-> id, revision |-> None]
    OBVIOUS
  <2>2. act' = q /\ review' = review /\ plan.account # None
    BY <1>8, <2>1 DEF Cloud!askReview, Cloud!Begin, Cloud!RequestId
  <2>3. /\ q \in CloudAsked /\ q.req = q.form /\ q.plan.account \in CloudAccounts /\ {"kind", "pc"} \subseteq DOMAIN q
        /\ q.pc = "sent" /\ q.kind = "review"
    BY <2>1, <2>2 DEF CloudInv, CloudShape, CloudAsked, CloudPlans
  <2>4. ReviewsAreFaithful'
    BY <1>1, <2>2, <2>3 DEF CloudInv, ReviewsAreFaithful, Faithful
  <2> QED
    BY <1>4, <2>4 DEF CloudInv
<1>9. CASE Cloud!launch
  <2>1. PICK q : q = [kind |-> "launch", pc |-> "sent", n |-> review.n, seen |-> review]
    OBVIOUS
  <2>2. act' = q /\ review' = review /\ review # None
    BY <1>9, <2>1 DEF Cloud!launch, Cloud!Begin
  <2>3. q.kind = "launch" /\ q.pc = "sent" /\ q.n = q.seen.n /\ q.seen = review /\ {"kind", "pc"} \subseteq DOMAIN q
    BY <2>1
  <2>4. ReviewsAreFaithful'
    BY <1>1, <2>2, <2>3 DEF CloudInv, ReviewsAreFaithful, Faithful
  <2> QED
    BY <1>4, <2>4 DEF CloudInv
<1>10. CASE Cloud!confirmCleanup
  <2>1. act' = [kind |-> "cleanup", pc |-> "sent", n |-> cleanup] /\ review' = review
    BY <1>10 DEF Cloud!confirmCleanup, Cloud!Begin
  <2>2. act'.kind = "cleanup" /\ act'.pc = "sent" /\ {"kind", "pc"} \subseteq DOMAIN act'
    BY <2>1
  <2>3. ReviewsAreFaithful'
    BY <1>1, <2>1, <2>2 DEF CloudInv, ReviewsAreFaithful, Faithful
  <2> QED
    BY <1>4, <2>3 DEF CloudInv
<1>11. CASE Cloud!lost \/ Cloud!refuseReview \/ Cloud!listed
  <2>1. review' = review /\ act' = None
    BY <1>11 DEF Cloud!lost, Cloud!refuseReview, Cloud!listed
  <2> QED
    BY <1>4, <1>6, <2>1 DEF CloudInv
<1>12. CASE Cloud!settled
  <2>1. act # None /\ act.pc = "done" /\ act' = [kind |-> act.kind, pc |-> "list"]
    BY <1>12 DEF Cloud!settled
  <2>2. \/ review' \in {review, None}
        \/ act.kind = "review" /\ review' = [n |-> act.n, plan |-> act.plan, revision |-> act.revision]
    BY <1>12 DEF Cloud!settled
  <2>3. review' # None => Faithful(review')
    BY <2>1, <2>2 DEF CloudInv, ReviewsAreFaithful
  <2>4. act'.pc = "list" /\ {"kind", "pc"} \subseteq DOMAIN act'
    BY <2>1
  <2>5. ReviewsAreFaithful'
    BY <1>1, <2>3, <2>4 DEF ReviewsAreFaithful, Faithful
  <2> QED
    BY <1>4, <2>5 DEF CloudInv
<1>13. CASE Cloud!checkAccount
  <2>1. act \in CloudAsked /\ act.req = act.form /\ act.plan.account \in CloudAccounts /\ act # None
    BY <1>13 DEF Cloud!checkAccount, CloudInv, ReviewsAreFaithful
  <2>2. PICK k \in Nat : k = cloudRevision[act.plan.account]
    BY <2>1 DEF CloudInv, CloudShape
  <2>3. PICK q : q = [act EXCEPT !.pc = "checked", !.revision = k]
    OBVIOUS
  <2>4. act' = q /\ review' = review
    BY <1>13, <2>2, <2>3 DEF Cloud!checkAccount
  <2>5. /\ q \in CloudAsked /\ q.req = q.form /\ q.plan.account \in CloudAccounts /\ {"kind", "pc"} \subseteq DOMAIN q
        /\ q.pc = "checked" /\ q.kind = "review" /\ q.revision \in Nat
    BY <2>1, <2>2, <2>3 DEF CloudAsked
  <2>6. ReviewsAreFaithful'
    BY <1>1, <2>4, <2>5 DEF CloudInv, ReviewsAreFaithful, Faithful
  <2> QED
    BY <1>4, <2>6 DEF CloudInv
<1>14. CASE Cloud!hostLists
  <2>1. review' = review
    BY <1>14 DEF Cloud!hostLists
  <2>2. CASE act' = act
    BY <1>1, <1>4, <2>1, <2>2 DEF CloudInv, ReviewsAreFaithful, Faithful
  <2>3. CASE act' # act
    <3>1. PICK rows_ : act' = [kind |-> act.kind, pc |-> "listed", rows |-> rows_]
      BY <1>14, <2>3 DEF Cloud!hostLists
    <3>2. act'.pc = "listed" /\ {"kind", "pc"} \subseteq DOMAIN act'
      BY <3>1
    <3>3. ReviewsAreFaithful'
      BY <1>1, <2>1, <3>2 DEF CloudInv, ReviewsAreFaithful, Faithful
    <3> QED
      BY <1>4, <3>3 DEF CloudInv
  <2> QED
    BY <2>2, <2>3
<1> QED
  BY <1>8, <1>9, <1>10, <1>11, <1>12, <1>13, <1>14

LEMMA CloudReviewKept ==
  ASSUME CloudInv, Cloud!keepReview
  PROVE  CloudInv'
<1>1. /\ act # None /\ act \in CloudAsked /\ act.req = act.form /\ act.revision \in Nat
      /\ act.plan \in CloudPlans /\ act.req \in Nat /\ act.form \in Nat
  BY DEF Cloud!keepReview, CloudInv, ReviewsAreFaithful, CloudAsked
<1>2. PICK p : p = [plan |-> act.plan, req |-> act.req, form |-> act.form, revision |-> act.revision, live |-> TRUE]
  OBVIOUS
<1>3. p \in CloudPreviews /\ p.plan = act.plan /\ p.revision = act.revision /\ p.req = p.form
  BY <1>1, <1>2 DEF CloudPreviews, CloudPlans
<1>4. PICK kept : kept = [n \in DOMAIN previews |-> Cloud!Kept(previews[n])]
  OBVIOUS
<1>5. previews \in Seq(CloudPreviews \cup {None}) /\ Len(previews) \in Nat /\ DOMAIN previews = 1..Len(previews)
  BY DEF CloudInv, CloudShape
<1>6. \A n \in 1..Len(previews) : kept[n] \in {None, previews[n]} /\ previews[n] \in CloudPreviews \cup {None}
  BY <1>4, <1>5 DEF Cloud!Kept
<1>7. kept \in Seq(CloudPreviews \cup {None}) /\ Len(kept) = Len(previews)
  <2>1. kept \in [1..Len(previews) -> CloudPreviews \cup {None}]
    BY <1>4, <1>5, <1>6
  <2> QED
    BY <1>5, <2>1
<1>8. previews' = Append(kept, p)
  BY <1>2, <1>4 DEF Cloud!keepReview
<1>9. /\ previews' \in Seq(CloudPreviews \cup {None}) /\ Len(previews') = Len(previews) + 1
      /\ previews'[Len(previews) + 1] = p
      /\ \A n \in 1..Len(previews) : previews'[n] = kept[n]
  BY <1>3, <1>5, <1>7, <1>8
<1>10. \A r : Faithful(r) => Faithful(r)'
  <2>1. SUFFICES ASSUME NEW r, Faithful(r) PROVE Faithful(r)'
    OBVIOUS
  <2>2. /\ r.n \in 1..Len(previews')
        /\ previews'[r.n] = None \/ (previews'[r.n].plan = r.plan /\ previews'[r.n].revision = r.revision)
    BY <1>5, <1>6, <1>9, <2>1, FaithfulStays
  <2> QED
    BY <2>1, <2>2 DEF Faithful
<1>11. PICK k \in Nat : k = Len(previews')
  BY <1>5, <1>9
<1>12. act' = [kind |-> "review", pc |-> "done", n |-> k, plan |-> act.plan, revision |-> act.revision]
  BY <1>11 DEF Cloud!keepReview
<1>13. PICK r : r = [n |-> k, plan |-> act.plan, revision |-> act.revision]
  OBVIOUS
<1>14. r \in CloudReviews /\ r.n = k /\ r.plan = p.plan /\ r.revision = p.revision
  BY <1>1, <1>3, <1>13 DEF CloudReviews
<1>15. Faithful(r)'
  <2>1. k \in 1..Len(previews') /\ previews'[k] = p
    BY <1>5, <1>9, <1>11
  <2> QED
    BY <1>14, <2>1 DEF Faithful
<1>16. /\ act'.kind = "review" /\ act'.pc = "done" /\ {"kind", "pc"} \subseteq DOMAIN act'
       /\ [n |-> act'.n, plan |-> act'.plan, revision |-> act'.revision] = r
  BY <1>12, <1>13
<1>17. review' = review /\ UNCHANGED <<cloudRevision, machines, plan, id, catalog, cloudLoads, loading, cloudUsed>>
  BY DEF Cloud!keepReview, Cloud!form
<1>18. ReviewsAreFaithful'
  <2>1. review' # None => Faithful(review)'
    BY <1>10, <1>17 DEF CloudInv, ReviewsAreFaithful
  <2> QED
    BY <1>15, <1>16, <2>1 DEF ReviewsAreFaithful
<1>19. OwnRequestIds'
  <2>1. SUFFICES ASSUME NEW n \in 1..Len(previews'), previews'[n] # None PROVE previews'[n].req = previews'[n].form
    BY <1>17 DEF CloudInv, OwnRequestIds
  <2>2. n \in 1..Len(previews) \/ n = Len(previews) + 1
    BY <1>5, <1>9
  <2> QED
    BY <1>3, <1>6, <1>9, <2>1, <2>2 DEF CloudInv, OwnRequestIds
<1>20. CloudShape' /\ LastIsHere' /\ Cloud!CatalogIsHere' /\ Cloud!OneMachinePerForm'
  BY <1>9, <1>17 DEF CloudInv, CloudShape, LastIsHere, Cloud!CatalogIsHere, Cloud!OneMachinePerForm, Cloud!Where
<1> QED
  BY <1>18, <1>19, <1>20 DEF CloudInv

\* A launch makes at most one machine, of the review that was on screen.
LEMMA CloudLaunches ==
  ASSUME CloudInv, Cloud!hostLaunches
  PROVE  /\ CloudInv'
         /\ \A n \in DOMAIN machines' \ DOMAIN machines :
               /\ act.seen.plan = machines'[n].plan
               /\ act.seen.revision = cloudRevision[machines'[n].plan.account]
<1>1. /\ act # None /\ act.kind = "launch" /\ act.pc = "sent" /\ {"kind", "pc"} \subseteq DOMAIN act
      /\ act.n = act.seen.n /\ Faithful(act.seen)
  BY DEF Cloud!hostLaunches, CloudInv, ReviewsAreFaithful
<1>2. PICK k \in 1..Len(previews) : k = act.n
  BY <1>1 DEF Faithful
<1>3. PICK p : p = previews[k]
  OBVIOUS
<1>4. p \in CloudPreviews \cup {None}
  BY <1>2, <1>3 DEF CloudInv, CloudShape
<1>5. p # None => p.plan = act.seen.plan /\ p.revision = act.seen.revision /\ p.req = p.form
  BY <1>1, <1>2, <1>3 DEF Faithful, CloudInv, OwnRequestIds
<1>6. machines \in Seq(CloudMachines) /\ Len(machines) \in Nat /\ DOMAIN machines = 1..Len(machines)
  BY DEF CloudInv, CloudShape
<1>7. UNCHANGED <<cloudRevision, previews, plan, id, catalog, cloudLoads, loading, review, cloudUsed>>
  BY DEF Cloud!hostLaunches, Cloud!form
<1>8. PICK same : same = {n \in DOMAIN machines : p # None /\ machines[n].req = p.req}
  OBVIOUS
<1>9. PICK made : made = [plan |-> p.plan, req |-> p.req, form |-> p.form, status |-> "queued"]
  OBVIOUS
<1>10. /\ act' \in {None, [act EXCEPT !.pc = "done"]}
       /\ \/ machines' = machines
          \/ same = {} /\ Cloud!Valid(p) /\ machines' = Append(machines, made)
  BY <1>2, <1>3, <1>8, <1>9 DEF Cloud!hostLaunches
<1>11. ReviewsAreFaithful'
  <2>1. \A r : Faithful(r)' <=> Faithful(r)
    BY <1>7 DEF Faithful
  <2>2. act' # None => act'.kind = "launch" /\ act'.pc = "done" /\ {"kind", "pc"} \subseteq DOMAIN act'
    BY <1>1, <1>10
  <2> QED
    BY <1>7, <2>2 DEF CloudInv, ReviewsAreFaithful, Faithful
<1>12. CASE machines' = machines
  BY <1>7, <1>11, <1>12 DEF CloudInv, CloudShape, OwnRequestIds, LastIsHere, Cloud!CatalogIsHere, Cloud!OneMachinePerForm, Cloud!Where
<1>13. CASE same = {} /\ Cloud!Valid(p) /\ machines' = Append(machines, made)
  <2>1. p # None /\ p \in CloudPreviews /\ p.revision = cloudRevision[p.plan.account]
    BY <1>4, <1>13 DEF Cloud!Valid
  <2>2. made \in CloudMachines /\ made.plan = p.plan /\ made.req = p.req /\ made.form = p.form
    BY <1>9, <2>1 DEF CloudMachines, CloudPreviews, CloudPlans, Cloud!Statuses
  <2>3. /\ machines' \in Seq(CloudMachines) /\ Len(machines') = Len(machines) + 1 /\ DOMAIN machines' = 1..(Len(machines) + 1)
        /\ machines'[Len(machines) + 1] = made
        /\ \A n \in 1..Len(machines) : machines'[n] = machines[n]
    BY <1>6, <1>13, <2>2
  <2>4. \A n \in 1..Len(machines) : machines[n].form # made.form
    BY <1>5, <1>6, <1>8, <1>13, <2>1, <2>2 DEF CloudInv, OwnRequestIds
  <2>5. \A n \in DOMAIN machines' : n \in 1..Len(machines) \/ n = Len(machines) + 1
    BY <1>6, <2>3
  <2>6. OwnRequestIds'
    BY <1>5, <1>7, <2>1, <2>2, <2>3, <2>5 DEF CloudInv, OwnRequestIds
  <2>7. Cloud!OneMachinePerForm'
    BY <1>6, <2>3, <2>4, <2>5 DEF CloudInv, Cloud!OneMachinePerForm
  <2>8. CloudShape' /\ LastIsHere' /\ Cloud!CatalogIsHere'
    BY <1>7, <2>3 DEF CloudInv, CloudShape, LastIsHere, Cloud!CatalogIsHere, Cloud!Where
  <2>9. CloudInv'
    BY <1>11, <2>6, <2>7, <2>8 DEF CloudInv
  <2> QED
    BY <1>5, <1>6, <2>1, <2>2, <2>3, <2>5, <2>9
<1> QED
  BY <1>10, <1>12, <1>13

\* The machines' statuses, and the accounts' credentials.
LEMMA CloudWorks ==
  ASSUME CloudInv, Cloud!hostCleans \/ \E n \in DOMAIN machines : Cloud!hostWorks(n)
  PROVE  CloudInv' /\ DOMAIN machines' = DOMAIN machines
<1>1. machines \in Seq(CloudMachines) /\ Len(machines) \in Nat /\ DOMAIN machines = 1..Len(machines)
  BY DEF CloudInv, CloudShape
<1>2. ASSUME NEW n, NEW s \in Cloud!Statuses, machines' = [machines EXCEPT ![n].status = s]
      PROVE  /\ machines' \in Seq(CloudMachines) /\ DOMAIN machines' = DOMAIN machines /\ Len(machines') = Len(machines)
             /\ \A m \in 1..Len(machines) : machines'[m].req = machines[m].req /\ machines'[m].form = machines[m].form
  <2>1. CASE n \in 1..Len(machines)
    <3>1. PICK was \in CloudMachines : was = machines[n]
      BY <1>1, <2>1
    <3>2. PICK after \in CloudMachines : after = [was EXCEPT !.status = s]
      BY DEF CloudMachines
    <3>3. after.req = was.req /\ after.form = was.form
      BY <3>2 DEF CloudMachines
    <3>4. machines' = [machines EXCEPT ![n] = after]
      BY <1>2, <3>1, <3>2
    <3> QED
      BY <1>1, <2>1, <3>1, <3>3, <3>4
  <2>2. CASE n \notin 1..Len(machines)
    <3>1. machines' = machines
      BY <1>1, <1>2, <2>2
    <3> QED
      BY <1>1, <3>1
  <2> QED
    BY <2>1, <2>2
<1>3. /\ machines' \in Seq(CloudMachines) /\ DOMAIN machines' = DOMAIN machines /\ Len(machines') = Len(machines)
      /\ \A m \in 1..Len(machines) : machines'[m].req = machines[m].req /\ machines'[m].form = machines[m].form
  <2>1. CASE Cloud!hostCleans
    <3>1. PICK n : n = act.n
      OBVIOUS
    <3>2. PICK s : s = IF machines[n].status = "deleted" THEN machines[n].status ELSE "cleaning"
      OBVIOUS
    <3>3. machines' = [machines EXCEPT ![n].status = s]
      BY <2>1, <3>1, <3>2 DEF Cloud!hostCleans
    <3>4. s \in Cloud!Statuses
      BY <3>2 DEF Cloud!Statuses
    <3> QED
      BY <1>2, <3>3, <3>4
  <2>2. CASE \E n \in DOMAIN machines : Cloud!hostWorks(n)
    <3>1. PICK n \in DOMAIN machines : Cloud!hostWorks(n)
      BY <2>2
    <3>2. machines[n] \in CloudMachines
      BY <1>1, <3>1
    <3>3. PICK was \in Cloud!Statuses : was = machines[n].status
      BY <3>2 DEF CloudMachines
    <3>4. Cloud!Moves[was] \subseteq Cloud!Statuses
      BY DEF Cloud!Moves, Cloud!Statuses
    <3>5. PICK s \in Cloud!Moves[was] : machines' = [machines EXCEPT ![n].status = s]
      BY <3>1, <3>3 DEF Cloud!hostWorks
    <3> QED
      BY <1>2, <3>4, <3>5
  <2> QED
    BY <2>1, <2>2
<1>4. UNCHANGED <<cloudRevision, previews, plan, id, catalog, cloudLoads, loading, review>>
  BY DEF Cloud!hostCleans, Cloud!hostWorks, Cloud!form
<1>5. cloudUsed' \in [acts : Nat, texts : Nat, upsets : Nat, works : Nat]
  <2>1. cloudUsed' = cloudUsed \/ Cloud!Spend("works")
    BY DEF Cloud!hostCleans, Cloud!hostWorks
  <2> QED
    BY <2>1, CloudSpends DEF CloudInv, CloudShape
<1>6. ReviewsAreFaithful'
  <2>1. act' = act \/ (act # None /\ act.kind = "cleanup" /\ act' = [act EXCEPT !.pc = "done"])
    BY DEF Cloud!hostCleans, Cloud!hostWorks
  <2>2. act' # act => act'.kind = "cleanup" /\ act'.pc = "done" /\ {"kind", "pc"} \subseteq DOMAIN act'
    BY <2>1 DEF CloudInv, ReviewsAreFaithful
  <2> QED
    BY <1>4, <2>2 DEF CloudInv, ReviewsAreFaithful, Faithful
<1>7. OwnRequestIds' /\ Cloud!OneMachinePerForm'
  BY <1>1, <1>3, <1>4 DEF CloudInv, OwnRequestIds, Cloud!OneMachinePerForm
<1>8. CloudShape' /\ LastIsHere' /\ Cloud!CatalogIsHere'
  BY <1>3, <1>4, <1>5 DEF CloudInv, CloudShape, LastIsHere, Cloud!CatalogIsHere, Cloud!Where
<1> QED
  BY <1>3, <1>6, <1>7, <1>8 DEF CloudInv

LEMMA CloudOthers ==
  ASSUME CloudInv, Cloud!expire \/ \E a \in CloudAccounts : Cloud!otherCredentials(a)
  PROVE  CloudInv'
<1>1. previews \in Seq(CloudPreviews \cup {None}) /\ Len(previews) \in Nat /\ DOMAIN previews = 1..Len(previews)
  BY DEF CloudInv, CloudShape
<1>2. UNCHANGED <<machines, plan, id, catalog, cloudLoads, loading, review, act>>
  BY DEF Cloud!expire, Cloud!otherCredentials, Cloud!form
<1>3. cloudUsed' \in [acts : Nat, texts : Nat, upsets : Nat, works : Nat]
  BY CloudSpends DEF Cloud!expire, Cloud!otherCredentials
<1>4. cloudRevision' \in [CloudAccounts -> Nat]
  BY DEF Cloud!expire, Cloud!otherCredentials, CloudInv, CloudShape
<1>5. /\ previews' \in Seq(CloudPreviews \cup {None}) /\ Len(previews') = Len(previews)
      /\ \A n \in 1..Len(previews) : \/ previews'[n] = previews[n]
                                     \/ /\ previews[n] # None /\ previews'[n] # None /\ previews'[n].plan = previews[n].plan
                                        /\ previews'[n].revision = previews[n].revision
                                        /\ previews'[n].req = previews[n].req /\ previews'[n].form = previews[n].form
  <2>1. CASE UNCHANGED previews
    BY <1>1, <2>1
  <2>2. CASE Cloud!expire
    <3>1. PICK n \in 1..Len(previews) : previews[n] # None /\ previews' = [previews EXCEPT ![n].live = FALSE]
      BY <1>1, <2>2 DEF Cloud!expire, Cloud!Kept
    <3>2. PICK was \in CloudPreviews : was = previews[n]
      BY <1>1, <3>1
    <3>3. PICK after \in CloudPreviews : after = [was EXCEPT !.live = FALSE]
      BY DEF CloudPreviews
    <3>4. after.plan = was.plan /\ after.revision = was.revision /\ after.req = was.req /\ after.form = was.form /\ after # None
      BY <3>3, CloudAssumption DEF CloudPreviews
    <3>5. previews' = [previews EXCEPT ![n] = after]
      BY <3>1, <3>2, <3>3
    <3>6. previews'[n] = after /\ previews' \in Seq(CloudPreviews \cup {None}) /\ Len(previews') = Len(previews)
      <4>1. PICK all \in Seq(CloudPreviews \cup {None}) : all = previews
        BY <1>1
      <4>2. PICK later : later = [all EXCEPT ![n] = after]
        OBVIOUS
      <4>3. after \in CloudPreviews \cup {None} /\ n \in 1..Len(all)
        BY <3>1, <3>3, <4>1
      <4>4. later \in Seq(CloudPreviews \cup {None}) /\ Len(later) = Len(all) /\ later[n] = after
        BY <4>2, <4>3
      <4> QED
        BY <3>5, <4>1, <4>2, <4>4
    <3>7. \A m \in 1..Len(previews) : m # n => previews'[m] = previews[m]
      BY <1>1, <3>5
    <3> QED
      BY <3>1, <3>2, <3>4, <3>6, <3>7
  <2> QED
    BY <2>1, <2>2 DEF Cloud!otherCredentials
<1>6. \A r : Faithful(r) => Faithful(r)'
  <2>1. SUFFICES ASSUME NEW r, Faithful(r) PROVE Faithful(r)'
    OBVIOUS
  <2>2. \A n \in 1..Len(previews) : \/ previews'[n] = None
                                    \/ /\ previews[n] # None /\ previews'[n].plan = previews[n].plan
                                       /\ previews'[n].revision = previews[n].revision
    BY <1>5
  <2>3. /\ r.n \in 1..Len(previews')
        /\ previews'[r.n] = None \/ (previews'[r.n].plan = r.plan /\ previews'[r.n].revision = r.revision)
    BY <1>1, <1>5, <2>1, <2>2, FaithfulStays
  <2> QED
    BY <2>1, <2>3 DEF Faithful
<1>7. ReviewsAreFaithful'
  <2>1. review' # None => Faithful(review)'
    BY <1>2, <1>6 DEF CloudInv, ReviewsAreFaithful
  <2>2. act # None /\ act.kind = "review" /\ act.pc = "done" =>
          Faithful([n |-> act.n, plan |-> act.plan, revision |-> act.revision])'
    <3>1. PICK r : r = [n |-> act.n, plan |-> act.plan, revision |-> act.revision]
      OBVIOUS
    <3>2. act # None /\ act.kind = "review" /\ act.pc = "done" => Faithful(r)'
      BY <1>6, <3>1 DEF CloudInv, ReviewsAreFaithful
    <3>3. [n |-> act.n, plan |-> act.plan, revision |-> act.revision]' = r
      BY <1>2, <3>1
    <3> QED
      BY <3>2, <3>3 DEF Faithful
  <2>3. act # None /\ act.kind = "launch" /\ act.pc = "sent" => Faithful(act.seen)'
    <3>1. PICK r : r = act.seen
      OBVIOUS
    <3>2. act # None /\ act.kind = "launch" /\ act.pc = "sent" => Faithful(r)'
      BY <1>6, <3>1 DEF CloudInv, ReviewsAreFaithful
    <3> QED
      BY <1>2, <3>1, <3>2 DEF Faithful
  <2> QED
    BY <1>2, <2>1, <2>2, <2>3 DEF CloudInv, ReviewsAreFaithful
<1>8. OwnRequestIds'
  BY <1>2, <1>5 DEF CloudInv, OwnRequestIds
<1>9. CloudShape' /\ LastIsHere' /\ Cloud!CatalogIsHere' /\ Cloud!OneMachinePerForm'
  BY <1>2, <1>3, <1>4, <1>5 DEF CloudInv, CloudShape, LastIsHere, Cloud!CatalogIsHere, Cloud!OneMachinePerForm, Cloud!Where
<1> QED
  BY <1>7, <1>8, <1>9 DEF CloudInv

LEMMA CloudSteps ==
  ASSUME Cloud!Next \/ UNCHANGED cloudVars
  PROVE  \/ Cloud!hostLaunches
         \/ Cloud!hostCleans \/ \E n \in DOMAIN machines : Cloud!hostWorks(n)
         \/ Cloud!keepReview
         \/ Cloud!expire \/ \E a \in CloudAccounts : Cloud!otherCredentials(a)
         \/ \/ Cloud!askReview \/ Cloud!launch \/ Cloud!confirmCleanup \/ Cloud!lost \/ Cloud!refuseReview
            \/ Cloud!settled \/ Cloud!checkAccount \/ Cloud!hostLists \/ Cloud!listed
         \/ \/ Cloud!change \/ \E a \in CloudAccounts \cup {None} : Cloud!chooseAccount(a)
            \/ \E p \in CloudPlaces : Cloud!choosePlace(p)
         \/ \E q \in CloudProjects : Cloud!projectChanges(q)
         \/ \E n \in DOMAIN cloudLoads : Cloud!catalogArrives(n)
         \/ \/ Cloud!backToForm \/ Cloud!cancelCleanup \/ Cloud!ask \/ Cloud!polled \/ Cloud!pollFails
            \/ \E n \in DOMAIN cloudRows : Cloud!openCleanup(n)
            \/ UNCHANGED cloudVars
BY DEF Cloud!Next, Cloud!User, Cloud!Others, Cloud!Host

LEMMA CloudNext == ASSUME CloudInv, Cloud!Next \/ UNCHANGED cloudVars PROVE CloudInv'
BY CloudSteps, CloudLaunches, CloudWorks, CloudReviewKept, CloudOthers, CloudRequests, CloudForm, CloudProject,
   CloudCatalog, CloudListing

LEMMA CloudCreates ==
  ASSUME CloudInv, Cloud!Next \/ UNCHANGED cloudVars, NEW n \in DOMAIN machines' \ DOMAIN machines
  PROVE  /\ act.seen.plan = machines'[n].plan
         /\ act.seen.revision = cloudRevision[machines'[n].plan.account]
<1>1. machines' # machines
  OBVIOUS
<1>2. Cloud!hostLaunches
  BY <1>1, CloudSteps, CloudWorks
  DEF Cloud!keepReview, Cloud!expire, Cloud!otherCredentials, Cloud!askReview, Cloud!launch, Cloud!confirmCleanup,
      Cloud!lost, Cloud!refuseReview, Cloud!settled, Cloud!checkAccount, Cloud!hostLists, Cloud!listed, Cloud!change,
      Cloud!chooseAccount, Cloud!choosePlace, Cloud!projectChanges, Cloud!catalogArrives, Cloud!backToForm,
      Cloud!cancelCleanup, Cloud!ask, Cloud!polled, Cloud!pollFails, Cloud!openCleanup, cloudVars, Cloud!host
<1> QED
  BY <1>2, CloudLaunches

-----------------------------------------------------------------------------
(* The forms of the settings. *)

LEMMA SettingsInitInv == ASSUME Settings!Init PROVE SettingsInv
<1> USE DEF Settings!Init, Settings!Opened, Settings!Fresh, Settings!Read
<1>1. /\ \A f \in Settings!Forms : form[f] # None => form[f] = [seen |-> None, text |-> 0, kept |-> 0]
      /\ \A f \in Settings!Forms : edits[f] = 0 /\ saving[f] = None
  OBVIOUS
<1>2. [seen |-> None, text |-> 0, kept |-> 0] \in FormStates
  BY DEF FormStates
<1>3. form \in [Settings!Forms -> FormStates \cup {None}]
  BY <1>2
<1>4. settingsLoads \subseteq FormReads
  BY DEF FormReads
<1>5. SettingsShape
  BY <1>3, <1>4 DEF SettingsShape
<1>6. EditsAreKnown
  BY <1>1 DEF EditsAreKnown
<1>7. ReadsAreHere
  BY DEF ReadsAreHere, Settings!RowsAreOfCategory
<1>8. "account" \in Settings!Forms
  BY DEF Settings!Forms, Settings!Added
<1> QED
  BY <1>1, <1>5, <1>6, <1>7, <1>8
  DEF SettingsInv, SavesAreFromSeen, SavesAreOfEdits, AccountsAreOfForms, Settings!OneAccountPerForm

\* Reading again: what is under way is of no use any more.
LEMMA SettingsReload ==
  ASSUME SettingsInv, NEW c \in Settings!Categories, Settings!reload(c)
  PROVE  /\ settingsLoads' \subseteq FormReads /\ \A l \in settingsLoads' : l.live => l.of = c
         /\ settingsCounts' \in [loads : Nat, saves : Nat, others : Nat]
<1>1. settingsCounts' \in [loads : Nat, saves : Nat, others : Nat]
  BY DEF Settings!reload, SettingsInv, SettingsShape
<1>2. PICK k \in Nat : k = settingsCounts'.loads
  BY <1>1
<1>3. PICK asked : asked = [of |-> c, live |-> TRUE, at |-> None, n |-> k]
  OBVIOUS
<1>5. asked \in FormReads /\ asked.of = c /\ asked = Settings!Read(c, k)
  BY <1>2, <1>3 DEF Settings!Read, FormReads
<1>4. \A l \in Settings!Cancelled : l \in FormReads /\ ~l.live
  <2>1. SUFFICES ASSUME NEW l \in settingsLoads, NEW off, off = [l EXCEPT !.live = FALSE] PROVE off \in FormReads /\ ~off.live
    BY DEF Settings!Cancelled
  <2>2. l \in FormReads
    BY DEF SettingsInv, SettingsShape
  <2> QED
    BY <2>1, <2>2 DEF FormReads
<1> QED
  BY <1>1, <1>2, <1>4, <1>5 DEF Settings!reload

\* The edits of forms that are gone are forgotten.
LEMMA SettingsDiscards ==
  ASSUME SettingsInv, Settings!discard
  PROVE  /\ edits' \in [Settings!Forms -> Nat]
         /\ \A f \in Settings!Forms : IF form[f] = None THEN edits'[f] = 0 ELSE edits'[f] = edits[f]
BY DEF Settings!discard, Settings!Connected, SettingsInv, SettingsShape

\* Steps that leave the accounts and the saves alone.
LEMMA SettingsSavesStay ==
  ASSUME SettingsInv, UNCHANGED <<saving, accounts>>,
         \/ UNCHANGED <<creation, generatedId>>
         \/ creation' = creation + 1 /\ generatedId' = 0
  PROVE  SavesAreFromSeen' /\ AccountsAreOfForms' /\ creation' \in Nat /\ generatedId' \in Nat
<1>1. creation \in Nat /\ generatedId \in Nat /\ AccountsAreOfForms /\ SavesAreFromSeen
  BY DEF SettingsInv, SettingsShape
<1>2. SavesAreFromSeen'
  BY <1>1 DEF SavesAreFromSeen
<1>3. CASE UNCHANGED <<creation, generatedId>>
  BY <1>1, <1>2, <1>3 DEF AccountsAreOfForms, Settings!OneAccountPerForm
<1>4. CASE creation' = creation + 1 /\ generatedId' = 0
  <2>1. \A a \in accounts : a.creation \in Nat /\ a.creation <= creation
    BY <1>1 DEF AccountsAreOfForms
  <2>2. saving["account"] # None => saving["account"].of \in Nat /\ saving["account"].of <= creation
    <3>1. "account" \in Settings!Forms
      BY DEF Settings!Forms, Settings!Added
    <3>2. saving["account"] \in FormSaves \cup {None}
      BY <3>1 DEF SettingsInv, SettingsShape
    <3> QED
      BY <1>1, <3>2 DEF AccountsAreOfForms, FormSaves
  <2> QED
    BY <1>1, <1>2, <1>4, <2>1, <2>2 DEF AccountsAreOfForms, Settings!OneAccountPerForm
<1> QED
  BY <1>3, <1>4

LEMMA SettingsLeaves ==
  ASSUME SettingsInv, NEW c \in Settings!Categories, Settings!leave(c)
  PROVE  SettingsInv'
<1>1. /\ category' = c /\ edits' = [f \in Settings!Forms |-> 0] /\ settingsDirty' = FALSE
      /\ form' = Settings!Opened(c) /\ settingsRows' = None /\ Settings!reload(c)
      /\ UNCHANGED <<saving, settingsHost, accounts, settingsRevision>>
      /\ UNCHANGED <<creation, generatedId>> \/ (creation' = creation + 1 /\ generatedId' = 0)
  BY DEF Settings!leave, Settings!Reset
<1>2. PICK new : new = Settings!Fresh(None)
  OBVIOUS
<1>9. new \in FormStates /\ new.text = 0 /\ new.kept = 0
  BY <1>2 DEF Settings!Fresh, FormStates
<1>3. form' \in [Settings!Forms -> FormStates \cup {None}] /\ \A f \in Settings!Forms : form'[f] \in {new, None}
  BY <1>1, <1>2, <1>9 DEF Settings!Opened
<1>4. SavesAreFromSeen' /\ AccountsAreOfForms' /\ creation' \in Nat /\ generatedId' \in Nat
  BY <1>1, SettingsSavesStay
<1>5. SettingsShape'
  BY <1>1, <1>3, <1>4, SettingsReload DEF SettingsInv, SettingsShape
<1>6. ReadsAreHere'
  BY <1>1, SettingsReload DEF ReadsAreHere, Settings!RowsAreOfCategory
<1>7. EditsAreKnown'
  BY <1>1, <1>3, <1>9 DEF EditsAreKnown, SettingsInv, SettingsShape
<1>8. SavesAreOfEdits'
  <2>1. SUFFICES ASSUME NEW f \in Settings!Forms, saving[f] # None
                 PROVE  /\ saving[f].text > 0 /\ saving[f].text <= settingsRevision /\ saving[f].snapshot \in {0, saving[f].text}
                        /\ form'[f] # None => form'[f].text < saving[f].text
    <3>1. \A f \in Settings!Forms : saving[f] # None => saving[f].text \in Nat
      BY DEF SettingsInv, SettingsShape, FormSaves
    <3>2. \A f \in Settings!Forms : form'[f] # None => form'[f].text = 0
      BY <1>3, <1>9
    <3> QED
      BY <1>1, <3>1, <3>2 DEF SavesAreOfEdits
  <2>2. saving[f].text \in Nat
    BY <2>1 DEF SettingsInv, SettingsShape, FormSaves
  <2> QED
    BY <1>3, <1>9, <2>1, <2>2 DEF SettingsInv, SavesAreOfEdits
<1> QED
  BY <1>4, <1>5, <1>6, <1>7, <1>8 DEF SettingsInv

LEMMA SettingsLists ==
  ASSUME SettingsInv, \/ Settings!refresh
                      \/ \E l \in settingsLoads : Settings!hostReads(l) \/ Settings!loaded(l)
  PROVE  SettingsInv'
<1>1. CASE Settings!refresh
  <2>1. /\ Settings!reload(category) /\ Settings!discard /\ settingsDirty' = (\E f \in Settings!Forms : edits'[f] > 0)
        /\ UNCHANGED <<category, form, settingsRows, saving, settingsHost, accounts, creation, generatedId, settingsRevision>>
    BY <1>1 DEF Settings!refresh
  <2>2. category \in Settings!Categories
    BY DEF SettingsInv, SettingsShape
  <2>3. SettingsShape' /\ ReadsAreHere'
    BY <2>1, <2>2, SettingsReload, SettingsDiscards DEF SettingsInv, SettingsShape, ReadsAreHere, Settings!RowsAreOfCategory
  <2>4. EditsAreKnown' /\ SavesAreOfEdits'
    BY <2>1, SettingsDiscards DEF SettingsInv, EditsAreKnown, SavesAreOfEdits
  <2> QED
    BY <2>1, <2>3, <2>4, SettingsSavesStay DEF SettingsInv
<1>2. CASE \E l \in settingsLoads : Settings!hostReads(l) \/ Settings!loaded(l)
  <2>1. PICK l \in settingsLoads : Settings!hostReads(l) \/ Settings!loaded(l)
    BY <1>2
  <2>2. UNCHANGED <<category, form, edits, settingsDirty, saving, settingsHost, accounts, creation, generatedId,
                    settingsRevision, settingsCounts>>
    BY <2>1 DEF Settings!hostReads, Settings!loaded
  <2>3. l \in FormReads
    BY <2>1 DEF SettingsInv, SettingsShape
  <2>4. SettingsShape' /\ ReadsAreHere'
    <3>1. CASE Settings!hostReads(l)
      <4>1. PICK got : got = [l EXCEPT !.at = settingsHost]
        OBVIOUS
      <4>2. got \in FormReads /\ got.live = l.live /\ got.of = l.of
        BY <2>3, <4>1 DEF SettingsInv, SettingsShape, FormReads
      <4>3. settingsLoads' = (settingsLoads \ {l}) \cup {got} /\ settingsRows' = settingsRows
        BY <3>1, <4>1 DEF Settings!hostReads
      <4> QED
        BY <2>1, <2>2, <4>2, <4>3 DEF SettingsInv, SettingsShape, ReadsAreHere, Settings!RowsAreOfCategory
    <3>2. CASE Settings!loaded(l)
      <4>1. l.at \in [Settings!Edited -> Nat]
        BY <2>3, <3>2 DEF Settings!loaded, FormReads
      <4>2. PICK now_ : now_ = [of |-> l.of, at |-> l.at]
        OBVIOUS
      <4>3. settingsLoads' = settingsLoads \ {l} /\ settingsRows' = (IF l.live THEN now_ ELSE settingsRows)
        BY <3>2, <4>2 DEF Settings!loaded, Settings!Taken
      <4>4. now_.of = l.of /\ now_.at = l.at
        BY <4>2
      <4>5. settingsRows' # None => settingsRows'.at \in [Settings!Edited -> Nat]
        BY <4>1, <4>3, <4>4 DEF SettingsInv, SettingsShape
      <4>6. settingsRows' # None => settingsRows'.of = category
        BY <2>1, <4>3, <4>4 DEF SettingsInv, ReadsAreHere, Settings!RowsAreOfCategory
      <4> QED
        BY <2>2, <4>3, <4>5, <4>6 DEF SettingsInv, SettingsShape, ReadsAreHere, Settings!RowsAreOfCategory
    <3> QED
      BY <2>1, <3>1, <3>2
  <2>5. EditsAreKnown' /\ SavesAreOfEdits'
    BY <2>2 DEF SettingsInv, EditsAreKnown, SavesAreOfEdits
  <2> QED
    BY <2>2, <2>4, <2>5, SettingsSavesStay DEF SettingsInv
<1> QED
  BY <1>1, <1>2

LEMMA SettingsOpens ==
  ASSUME SettingsInv, NEW f \in Settings!Forms, Settings!open(f) \/ Settings!cancel(f)
  PROVE  SettingsInv'
<1>1. PICK after : form' = [form EXCEPT ![f] = after] /\ (after = None \/ (after = Settings!Fresh(settingsRows.at[f]) /\ Settings!open(f)))
  BY DEF Settings!open, Settings!cancel
<1>2. /\ Settings!discard /\ settingsDirty' = (\E g \in Settings!Forms : edits'[g] > 0)
      /\ UNCHANGED <<category, settingsRows, settingsLoads, saving, settingsHost, accounts, creation, generatedId,
                     settingsRevision, settingsCounts>>
  BY DEF Settings!open, Settings!cancel
<1>3. after # None => after \in FormStates /\ after.text = 0 /\ after.kept = 0 /\ form[f] = None
  <2>1. SUFFICES ASSUME after = Settings!Fresh(settingsRows.at[f]), Settings!open(f)
                 PROVE  after \in FormStates /\ after.text = 0 /\ after.kept = 0 /\ form[f] = None
    BY <1>1
  <2>2. PICK seen : seen = settingsRows.at[f]
    OBVIOUS
  <2>3. seen \in Nat
    BY <2>1, <2>2 DEF Settings!open, SettingsInv, SettingsShape
  <2>4. form[f] = None
    BY <2>1 DEF Settings!open
  <2> QED
    BY <2>1, <2>2, <2>3, <2>4 DEF Settings!Fresh, FormStates
<1>4. /\ form' \in [Settings!Forms -> FormStates \cup {None}] /\ form'[f] = after
      /\ \A g \in Settings!Forms : g # f => form'[g] = form[g]
  BY <1>1, <1>3 DEF SettingsInv, SettingsShape
<1>5. SettingsShape' /\ ReadsAreHere'
  BY <1>2, <1>4, SettingsDiscards DEF SettingsInv, SettingsShape, ReadsAreHere, Settings!RowsAreOfCategory
<1>6. EditsAreKnown'
  BY <1>2, <1>3, <1>4, SettingsDiscards DEF SettingsInv, SettingsShape, EditsAreKnown
<1>7. SavesAreOfEdits'
  <2>1. \A g \in Settings!Forms : saving[g] # None => saving[g].text \in Nat
    BY DEF SettingsInv, SettingsShape, FormSaves
  <2> QED
    BY <1>2, <1>3, <1>4, <2>1, SettingsDiscards DEF SettingsInv, SavesAreOfEdits
<1> QED
  BY <1>2, <1>5, <1>6, <1>7, SettingsSavesStay DEF SettingsInv

LEMMA SettingsEdits ==
  ASSUME SettingsInv, NEW f \in Settings!Forms, Settings!edit(f)
  PROVE  SettingsInv'
<1>1. PICK was \in FormStates : was = form[f]
  BY DEF Settings!edit, Settings!Enabled, SettingsInv, SettingsShape
<1>2. PICK k \in Nat : k = settingsRevision + 1
  BY DEF SettingsInv, SettingsShape
<1>3. PICK after : after = [was EXCEPT !.text = k]
  OBVIOUS
<1>4. after \in FormStates /\ after.text = k /\ after # None
  BY <1>2, <1>3, SettingsAssumption DEF FormStates
<1>5. /\ settingsRevision' = k /\ edits' = [edits EXCEPT ![f] = k] /\ form' = [form EXCEPT ![f] = after]
      /\ settingsDirty' = TRUE
      /\ UNCHANGED <<category, settingsRows, settingsLoads, saving, settingsHost, accounts, creation, generatedId,
                     settingsCounts>>
  BY <1>1, <1>2, <1>3 DEF Settings!edit
<1>6. /\ form' \in [Settings!Forms -> FormStates \cup {None}] /\ form'[f] = after
      /\ \A g \in Settings!Forms : g # f => form'[g] = form[g]
      /\ edits' \in [Settings!Forms -> Nat] /\ edits'[f] = k
      /\ \A g \in Settings!Forms : g # f => edits'[g] = edits[g]
  BY <1>4, <1>5 DEF SettingsInv, SettingsShape
<1>7. SettingsShape' /\ ReadsAreHere'
  BY <1>5, <1>6 DEF SettingsInv, SettingsShape, ReadsAreHere, Settings!RowsAreOfCategory
<1>8. settingsRevision \in Nat /\ \A g \in Settings!Forms : form[g] # None => form[g].text \in Nat /\ form[g].kept \in Nat
  BY DEF SettingsInv, SettingsShape, FormStates
<1>9. EditsAreKnown'
  BY <1>2, <1>4, <1>5, <1>6, <1>8 DEF SettingsInv, EditsAreKnown
<1>10. SavesAreOfEdits'
  <2>1. \A g \in Settings!Forms : saving[g] # None => saving[g].text \in Nat
    BY DEF SettingsInv, SettingsShape, FormSaves
  <2> QED
    BY <1>2, <1>4, <1>5, <1>6, <1>8, <2>1 DEF SettingsInv, SavesAreOfEdits
<1> QED
  BY <1>5, <1>7, <1>9, <1>10, SettingsSavesStay DEF SettingsInv

\* The revision sent is that of the form; an account that is tried again has its id.
LEMMA SettingsBegins ==
  ASSUME SettingsInv, NEW f \in Settings!Forms, Settings!save(f)
  PROVE  SettingsInv'
<1>1. PICK was \in FormStates : was = form[f] /\ was.text > 0
  BY DEF Settings!save, SettingsInv, SettingsShape
<1>2. PICK new \in Nat : new = (IF f = "account" THEN (IF generatedId = 0 THEN settingsCounts.saves + 1 ELSE generatedId) ELSE 0)
  BY DEF SettingsInv, SettingsShape
<1>3. PICK q : q = [seen |-> was.seen, base |-> was.seen, text |-> was.text, snapshot |-> edits[f], of |-> creation,
                    id |-> new, answer |-> None]
  OBVIOUS
<1>4. /\ saving' = [saving EXCEPT ![f] = q] /\ generatedId' = (IF f = "account" THEN new ELSE generatedId)
      /\ settingsCounts' = [settingsCounts EXCEPT !.saves = @ + 1]
      /\ UNCHANGED <<category, form, edits, settingsDirty, settingsRows, settingsLoads, settingsHost, accounts, creation,
                     settingsRevision>>
  BY <1>1, <1>2, <1>3 DEF Settings!save, Settings!original, Settings!beginSave, Settings!AccountId
<1>5. /\ q \in FormSaves /\ q # None /\ q.base = q.seen /\ q.text = was.text /\ q.snapshot = edits[f] /\ q.of = creation
      /\ q.id = new
  BY <1>1, <1>2, <1>3, SettingsAssumption DEF FormSaves, FormStates, SettingsInv, SettingsShape
<1>6. /\ saving' \in [Settings!Forms -> FormSaves \cup {None}] /\ saving'[f] = q
      /\ \A g \in Settings!Forms : g # f => saving'[g] = saving[g]
  BY <1>4, <1>5 DEF SettingsInv, SettingsShape
<1>7. SettingsShape' /\ ReadsAreHere' /\ EditsAreKnown'
  BY <1>2, <1>4, <1>6 DEF SettingsInv, SettingsShape, ReadsAreHere, Settings!RowsAreOfCategory, EditsAreKnown
<1>8. SavesAreFromSeen'
  BY <1>5, <1>6 DEF SettingsInv, SavesAreFromSeen
<1>9. SavesAreOfEdits'
  <2>1. was.text <= settingsRevision /\ edits[f] \in {0, was.text}
    BY <1>1, SettingsAssumption DEF SettingsInv, SettingsShape, EditsAreKnown
  <2> QED
    BY <1>1, <1>4, <1>5, <1>6, <2>1 DEF SettingsInv, SavesAreOfEdits
<1>10. AccountsAreOfForms'
  <2>1. creation \in Nat /\ generatedId \in Nat /\ AccountsAreOfForms /\ "account" \in Settings!Forms
    BY DEF SettingsInv, SettingsShape, Settings!Forms, Settings!Added
  <2>2. CASE f # "account"
    BY <1>4, <1>6, <2>1, <2>2 DEF AccountsAreOfForms, Settings!OneAccountPerForm
  <2>3. CASE f = "account"
    <3>1. new # 0 /\ (generatedId # 0 => new = generatedId)
      BY <1>2, <2>3 DEF SettingsInv, SettingsShape
    <3>2. \A a \in accounts : a.creation = creation => a.id = new
      BY <2>1, <3>1 DEF AccountsAreOfForms
    <3> QED
      BY <1>4, <1>5, <1>6, <2>1, <2>3, <3>1, <3>2 DEF AccountsAreOfForms, Settings!OneAccountPerForm
  <2> QED
    BY <2>2, <2>3
<1> QED
  BY <1>7, <1>8, <1>9, <1>10 DEF SettingsInv

\* The host takes a save only of the revision it has.
LEMMA SettingsSaves ==
  ASSUME SettingsInv, NEW f \in Settings!Forms, Settings!hostSaves(f)
  PROVE  /\ SettingsInv'
         /\ f \in Settings!Edited /\ settingsHost'[f] # settingsHost[f] => saving[f].seen = settingsHost[f]
<1>1. PICK q \in FormSaves : q = saving[f]
  BY DEF Settings!hostSaves, SettingsInv, SettingsShape
<1>2. PICK got \in {"ok", "failed"} : saving' = [saving EXCEPT ![f].answer = got]
  BY DEF Settings!hostSaves
<1>3. PICK after : after = [q EXCEPT !.answer = got]
  OBVIOUS
<1>4. /\ after \in FormSaves /\ after # None /\ after.base = q.base /\ after.seen = q.seen /\ after.text = q.text
      /\ after.snapshot = q.snapshot /\ after.of = q.of /\ after.id = q.id
  BY <1>2, <1>3, SettingsAssumption DEF FormSaves
<1>5. saving' = [saving EXCEPT ![f] = after]
  BY <1>1, <1>2, <1>3
<1>6. /\ saving' \in [Settings!Forms -> FormSaves \cup {None}] /\ saving'[f] = after
      /\ \A g \in Settings!Forms : g # f => saving'[g] = saving[g]
  BY <1>4, <1>5 DEF SettingsInv, SettingsShape
<1>7. /\ UNCHANGED <<category, form, edits, settingsDirty, settingsRows, settingsLoads, creation, generatedId,
                     settingsRevision, settingsCounts>>
      /\ accounts' = IF f = "account" THEN accounts \cup {[creation |-> q.of, id |-> q.id]} ELSE accounts
      /\ settingsHost' = IF f \in Settings!Edited /\ (f \in Settings!Edited => q.base = settingsHost[f])
                         THEN [settingsHost EXCEPT ![f] = @ + 1] ELSE settingsHost
  BY <1>1 DEF Settings!hostSaves
<1>8. settingsHost' \in [Settings!Edited -> Nat]
  BY <1>7 DEF SettingsInv, SettingsShape
<1>9. SettingsShape' /\ ReadsAreHere' /\ EditsAreKnown'
  BY <1>6, <1>7, <1>8 DEF SettingsInv, SettingsShape, ReadsAreHere, Settings!RowsAreOfCategory, EditsAreKnown
<1>10. saving[f] # None
  BY DEF Settings!hostSaves
<1>11. SavesAreFromSeen'
  BY <1>1, <1>4, <1>6, <1>10 DEF SettingsInv, SavesAreFromSeen
<1>12. SavesAreOfEdits'
  BY <1>1, <1>4, <1>6, <1>7, <1>10 DEF SettingsInv, SavesAreOfEdits
<1>13. AccountsAreOfForms'
  <2>1. creation \in Nat /\ generatedId \in Nat /\ AccountsAreOfForms /\ "account" \in Settings!Forms
    BY DEF SettingsInv, SettingsShape, Settings!Forms, Settings!Added
  <2>2. CASE f # "account"
    BY <1>6, <1>7, <2>1, <2>2 DEF AccountsAreOfForms, Settings!OneAccountPerForm
  <2>3. CASE f = "account"
    <3>1. PICK new : new = [creation |-> q.of, id |-> q.id]
      OBVIOUS
    <3>2. accounts' = accounts \cup {new} /\ new.creation = q.of /\ new.id = q.id /\ new \in [creation : Nat, id : Nat]
      BY <1>1, <1>7, <2>3, <3>1 DEF FormSaves
    <3>3. /\ q.of <= creation /\ (q.of = creation => q.id = generatedId /\ generatedId # 0)
          /\ \A a \in accounts : a.creation = q.of => a.id = q.id
      BY <1>1, <1>10, <2>1, <2>3 DEF AccountsAreOfForms
    <3>4. \A a \in accounts' : a \in accounts \/ a = new
      BY <3>2
    <3>5. \A a \in accounts' : a.creation <= creation /\ (a.creation = creation => a.id = generatedId /\ generatedId # 0)
      BY <2>1, <3>2, <3>3, <3>4 DEF AccountsAreOfForms
    <3>6. \A a \in accounts' : a.creation = q.of => a.id = q.id
      BY <3>2, <3>3, <3>4
    <3>7. Settings!OneAccountPerForm'
      BY <2>1, <3>2, <3>3, <3>4 DEF AccountsAreOfForms, Settings!OneAccountPerForm
    <3> QED
      BY <1>4, <1>6, <1>7, <2>1, <2>3, <3>2, <3>3, <3>5, <3>6, <3>7 DEF AccountsAreOfForms
  <2> QED
    BY <2>2, <2>3
<1>14. f \in Settings!Edited /\ settingsHost'[f] # settingsHost[f] => saving[f].seen = settingsHost[f]
  BY <1>1, <1>7, <1>10 DEF SettingsInv, SavesAreFromSeen
<1> QED
  BY <1>9, <1>11, <1>12, <1>13, <1>14 DEF SettingsInv

LEMMA SettingsSettles ==
  ASSUME SettingsInv, NEW f \in Settings!Forms, Settings!settle(f)
  PROVE  SettingsInv'
<1>1. PICK q \in FormSaves : q = saving[f] /\ q # None
  BY DEF Settings!settle, SettingsInv, SettingsShape
<1>2. saving' = [saving EXCEPT ![f] = None] /\ UNCHANGED <<category, settingsRows, settingsHost, accounts, settingsRevision>>
  BY DEF Settings!settle
<1>3. /\ saving' \in [Settings!Forms -> FormSaves \cup {None}] /\ saving'[f] = None
      /\ \A g \in Settings!Forms : g # f => saving'[g] = saving[g]
  BY <1>2 DEF SettingsInv, SettingsShape
<1>4. SavesAreFromSeen'
  BY <1>3 DEF SettingsInv, SavesAreFromSeen
<1>5. AccountsAreOfForms' /\ creation' \in Nat /\ generatedId' \in Nat
  <2>1. UNCHANGED <<creation, generatedId>> \/ (creation' = creation + 1 /\ generatedId' = 0)
    BY DEF Settings!settle
  <2>2. creation \in Nat /\ generatedId \in Nat /\ AccountsAreOfForms
    BY DEF SettingsInv, SettingsShape
  <2>3. \A a \in accounts : a.creation \in Nat /\ a.creation <= creation
    BY <2>2 DEF AccountsAreOfForms
  <2>4. "account" \in Settings!Forms
    BY DEF Settings!Forms, Settings!Added
  <2>5. saving["account"] # None => saving["account"].of \in Nat /\ saving["account"].of <= creation
    <3>1. saving["account"] \in FormSaves \cup {None}
      BY <2>4 DEF SettingsInv, SettingsShape
    <3> QED
      BY <2>2, <3>1 DEF AccountsAreOfForms, FormSaves
  <2>6. saving'["account"] \in {None, saving["account"]}
    BY <1>3, <2>4
  <2> QED
    BY <1>2, <2>1, <2>2, <2>3, <2>5, <2>6 DEF AccountsAreOfForms, Settings!OneAccountPerForm
<1>6. CASE UNCHANGED <<form, edits, settingsDirty, settingsLoads, settingsCounts>>
  <2>1. SettingsShape' /\ ReadsAreHere' /\ EditsAreKnown'
    BY <1>2, <1>3, <1>5, <1>6 DEF SettingsInv, SettingsShape, ReadsAreHere, Settings!RowsAreOfCategory, EditsAreKnown
  <2>2. SavesAreOfEdits'
    BY <1>2, <1>3, <1>6 DEF SettingsInv, SavesAreOfEdits
  <2> QED
    BY <1>4, <1>5, <2>1, <2>2 DEF SettingsInv
<1>7. CASE /\ edits' = [g \in Settings!Forms |-> IF form[g] = None \/ (g = f /\ Settings!Clears(f)) THEN 0 ELSE edits[g]]
           /\ settingsDirty' = (\E g \in Settings!Forms : edits'[g] > 0)
           /\ form' = IF f \in Settings!Edited THEN [form EXCEPT ![f] = None]
                      ELSE IF form[f] # None /\ form[f].text >= q.text
                      THEN [form EXCEPT ![f].kept = q.text] ELSE form
           /\ Settings!reload(category)
  <2>1. edits' \in [Settings!Forms -> Nat]
    BY <1>7 DEF SettingsInv, SettingsShape
  <2>2. \A g \in Settings!Forms : edits'[g] = IF form[g] = None \/ (g = f /\ edits[f] = q.snapshot) THEN 0 ELSE edits[g]
    BY <1>1, <1>7 DEF Settings!Clears
  <2>3. PICK after : /\ form' = [form EXCEPT ![f] = after]
                     /\ \/ after = None \/ (after = form[f] /\ after.text < q.text)
                        \/ after = [form[f] EXCEPT !.kept = q.text] /\ form[f] # None /\ form[f].text >= q.text
    <3>1. CASE f \in Settings!Edited
      BY <1>7, <3>1
    <3>2. CASE f \notin Settings!Edited /\ form[f] # None /\ form[f].text >= q.text
      <4>1. PICK after : after = [form[f] EXCEPT !.kept = q.text]
        OBVIOUS
      <4>2. form' = [form EXCEPT ![f] = after]
        BY <1>7, <3>2, <4>1
      <4> QED
        BY <3>2, <4>1, <4>2
    <3>3. CASE f \notin Settings!Edited /\ ~(form[f] # None /\ form[f].text >= q.text)
      <4>1. form' = [form EXCEPT ![f] = form[f]]
        BY <1>7, <3>3 DEF SettingsInv, SettingsShape
      <4>2. form[f] # None => form[f].text \in Nat /\ q.text \in Nat
        BY DEF SettingsInv, SettingsShape, FormStates, FormSaves
      <4>3. form[f] = None \/ form[f].text < q.text
        BY <3>3, <4>2
      <4> QED
        BY <4>1, <4>3
    <3> QED
      BY <3>1, <3>2, <3>3
  <2>4. form[f] # None => form[f] \in FormStates /\ form[f].text \in Nat /\ form[f].kept \in Nat
    BY DEF SettingsInv, SettingsShape, FormStates
  <2>5. q.text \in Nat /\ q.snapshot \in Nat /\ q.text > 0 /\ q.snapshot \in {0, q.text} /\ edits[f] \in Nat
    BY <1>1 DEF SettingsInv, SettingsShape, FormSaves, SavesAreOfEdits
  <2>6. after # None =>
          /\ after \in FormStates /\ form[f] # None /\ after.text = form[f].text
          /\ \/ after.kept = form[f].kept /\ after.text < q.text
             \/ after.kept = q.text /\ after.text >= q.text
    <3>1. ASSUME form[f] # None, NEW k, k = [form[f] EXCEPT !.kept = q.text]
          PROVE  k \in FormStates /\ k.text = form[f].text /\ k.kept = q.text
      BY <2>4, <2>5, <3>1 DEF FormStates
    <3>2. CASE after = form[f] /\ after.text < q.text
      BY <2>4, <3>2
    <3>3. CASE after = [form[f] EXCEPT !.kept = q.text] /\ form[f] # None /\ form[f].text >= q.text
      BY <3>1, <3>3
    <3> QED
      BY <2>3, <3>2, <3>3
  <2>7. /\ form' \in [Settings!Forms -> FormStates \cup {None}] /\ form'[f] = after
        /\ \A g \in Settings!Forms : g # f => form'[g] = form[g]
    BY <2>3, <2>6 DEF SettingsInv, SettingsShape
  <2>8. SettingsShape' /\ ReadsAreHere'
    <3>1. category \in Settings!Categories
      BY DEF SettingsInv, SettingsShape
    <3> QED
      BY <1>2, <1>3, <1>5, <1>7, <2>1, <2>7, <3>1, SettingsReload
      DEF SettingsInv, SettingsShape, ReadsAreHere, Settings!RowsAreOfCategory
  <2>9. \A g \in Settings!Forms : edits'[g] > 0 => settingsDirty'
    BY <1>7
  <2>10. form[f] # None => /\ edits[f] > 0 => edits[f] = form[f].text
                           /\ form[f].text # form[f].kept => edits[f] > 0
                           /\ form[f].text <= settingsRevision
    BY DEF SettingsInv, EditsAreKnown
  <2>11. form[f] # None /\ form[f].text >= q.text => form[f].text = q.text \/ edits[f] > q.text
    BY <1>1 DEF SettingsInv, SavesAreOfEdits
  <2>12. after # None =>
          /\ edits'[f] > 0 => edits'[f] = after.text
          /\ after.text # after.kept => edits'[f] > 0
          /\ after.text <= settingsRevision
    BY <2>2, <2>4, <2>5, <2>6, <2>10, <2>11
  <2>13. EditsAreKnown'
    BY <1>2, <2>2, <2>7, <2>9, <2>12 DEF SettingsInv, EditsAreKnown
  <2>14. SavesAreOfEdits'
    BY <1>2, <1>3, <2>2, <2>7 DEF SettingsInv, SavesAreOfEdits
  <2> QED
    BY <1>4, <1>5, <2>8, <2>13, <2>14 DEF SettingsInv
<1>8. \/ UNCHANGED <<form, edits, settingsDirty, settingsLoads, settingsCounts>>
      \/ /\ edits' = [g \in Settings!Forms |-> IF form[g] = None \/ (g = f /\ Settings!Clears(f)) THEN 0 ELSE edits[g]]
         /\ settingsDirty' = (\E g \in Settings!Forms : edits'[g] > 0)
         /\ form' = IF f \in Settings!Edited THEN [form EXCEPT ![f] = None]
                    ELSE IF form[f] # None /\ form[f].text >= q.text
                    THEN [form EXCEPT ![f].kept = q.text] ELSE form
         /\ Settings!reload(category)
  BY <1>1 DEF Settings!settle
<1> QED
  BY <1>6, <1>7, <1>8

LEMMA SettingsOthers ==
  ASSUME SettingsInv, (\E f \in Settings!Forms : Settings!othersSave(f)) \/ UNCHANGED settingsVars
  PROVE  SettingsInv'
<1>1. /\ UNCHANGED <<category, form, edits, settingsDirty, settingsRows, settingsLoads, saving, accounts, creation,
                     generatedId, settingsRevision>>
      /\ settingsHost' \in [Settings!Edited -> Nat] /\ settingsCounts' \in [loads : Nat, saves : Nat, others : Nat]
  BY DEF Settings!othersSave, settingsVars, SettingsInv, SettingsShape
<1>2. SettingsShape' /\ ReadsAreHere' /\ EditsAreKnown' /\ SavesAreOfEdits'
  BY <1>1 DEF SettingsInv, SettingsShape, ReadsAreHere, Settings!RowsAreOfCategory, EditsAreKnown, SavesAreOfEdits
<1> QED
  BY <1>1, <1>2, SettingsSavesStay DEF SettingsInv

LEMMA SettingsNext == ASSUME SettingsInv, Settings!Next \/ UNCHANGED settingsVars PROVE SettingsInv'
BY SettingsLeaves, SettingsLists, SettingsOpens, SettingsEdits, SettingsBegins, SettingsSaves, SettingsSettles, SettingsOthers
DEF Settings!Next

\* While a form holds an edit that no save has kept, the warning is shown.
LEMMA SettingsCovers == ASSUME SettingsInv PROVE Settings!DirtyCoversEdits
BY DEF SettingsInv, EditsAreKnown, Settings!DirtyCoversEdits, Settings!Unsaved

-----------------------------------------------------------------------------
(* Lifecycle hooks. *)

LEMMA HooksInitReviewed == ASSUME Hooks!Init PROVE ChangesAreReviewed
BY DEF Hooks!Init, Hooks!Writes, ChangesAreReviewed

\* A write whose kind, revision and review stay, whatever becomes of it.
LEMMA HookWriteGoesOn ==
  ASSUME ChangesAreReviewed, NEW n \in 1..MaxHookWrites, NEW after, write' = [write EXCEPT ![n] = after],
         after # None => /\ DOMAIN after = HookWriteFields
                         /\ after.kind # "create" => after.rev = after.seen
  PROVE  ChangesAreReviewed'
<1>1. DOMAIN write' = 1..MaxHookWrites /\ write'[n] = after
      /\ \A m \in 1..MaxHookWrites : m # n => write'[m] = write[m]
  BY DEF ChangesAreReviewed
<1> QED
  BY <1>1 DEF ChangesAreReviewed

LEMMA HooksApplied ==
  ASSUME ChangesAreReviewed, NEW n \in 1..MaxHookWrites, NEW r, Hooks!apply(n, r)
  PROVE  ChangesAreReviewed'
<1>1. PICK q : q = [user |-> panel.catalog.user, kind |-> r.kind, body |-> r.body, hook |-> r.hook, rev |-> r.rev,
                    seen |-> r.rev, before |-> {h \in Hooks!HookIds : panel.catalog.hooks[h] # None},
                    enabled |-> r.kind = "enable", stale |-> FALSE, pc |-> "prepare", wire |-> "none"]
  OBVIOUS
<1>2. write' = [write EXCEPT ![n] = q]
  BY <1>1 DEF Hooks!apply
<1>3. DOMAIN q = HookWriteFields /\ q.rev = q.seen
  BY <1>1 DEF HookWriteFields
<1> QED
  BY <1>2, <1>3, HookWriteGoesOn

LEMMA HooksSent ==
  ASSUME ChangesAreReviewed, NEW n \in 1..MaxHookWrites, Hooks!dispatch(n)
  PROVE  ChangesAreReviewed'
<1>1. PICK w : w = write[n]
  OBVIOUS
<1>2. w # None /\ DOMAIN w = HookWriteFields /\ (w.kind # "create" => w.rev = w.seen)
  BY <1>1 DEF Hooks!dispatch, ChangesAreReviewed
<1>3. PICK k : k = IF w.kind = "create" THEN w.rev ELSE hooks[w.hook].rev
  OBVIOUS
<1>4. k = w.rev
  BY <1>1, <1>3 DEF Hooks!dispatch, Hooks!Unchanged
<1>5. PICK known : known = {h \in Hooks!HookIds : hooks[h] # None /\ hooks[h].body.project = w.body.project}
  OBVIOUS
<1>6. PICK after : after = [w EXCEPT !.pc = "sent", !.wire = "sent", !.rev = k, !.before = known]
  OBVIOUS
<1>7. write' = [write EXCEPT ![n] = after]
  BY <1>1, <1>3, <1>5, <1>6 DEF Hooks!dispatch, ChangesAreReviewed, HookWriteFields
<1>8. DOMAIN after = HookWriteFields /\ after.kind = w.kind /\ after.rev = w.rev /\ after.seen = w.seen
  BY <1>2, <1>4, <1>6 DEF HookWriteFields
<1> QED
  BY <1>2, <1>7, <1>8, HookWriteGoesOn

LEMMA HooksGoOn ==
  ASSUME ChangesAreReviewed, NEW n \in 1..MaxHookWrites,
         Hooks!giveUp(n) \/ Hooks!answer(n) \/ Hooks!hostTakes(n) \/ Hooks!breakLine(n) \/ Hooks!hostDrops(n)
  PROVE  ChangesAreReviewed'
<1>1. PICK w : w = write[n]
  OBVIOUS
<1>2. w # None /\ DOMAIN w = HookWriteFields /\ (w.kind # "create" => w.rev = w.seen)
  BY <1>1 DEF Hooks!giveUp, Hooks!answer, Hooks!hostTakes, Hooks!breakLine, Hooks!hostDrops, ChangesAreReviewed
<1>3. PICK to : write' = [write EXCEPT ![n].pc = to] \/ write' = [write EXCEPT ![n].wire = to]
  BY DEF Hooks!giveUp, Hooks!answer, Hooks!hostTakes, Hooks!breakLine, Hooks!hostDrops
<1>4. PICK goes, ends : goes = [w EXCEPT !.pc = to] /\ ends = [w EXCEPT !.wire = to]
  OBVIOUS
<1>5. /\ DOMAIN goes = HookWriteFields /\ goes.kind = w.kind /\ goes.rev = w.rev /\ goes.seen = w.seen
      /\ DOMAIN ends = HookWriteFields /\ ends.kind = w.kind /\ ends.rev = w.rev /\ ends.seen = w.seen
  BY <1>2, <1>4 DEF HookWriteFields
<1>6. write' = [write EXCEPT ![n] = goes] \/ write' = [write EXCEPT ![n] = ends]
  BY <1>1, <1>3, <1>4
<1> QED
  BY <1>2, <1>5, <1>6, HookWriteGoesOn

LEMMA HooksStopped ==
  ASSUME ChangesAreReviewed, Hooks!Abandon
  PROVE  ChangesAreReviewed'
<1>1. write' = [n \in 1..MaxHookWrites |->
         IF write[n] = None \/ write[n].pc = "ended" THEN write[n]
         ELSE [write[n] EXCEPT !.stale = TRUE, !.pc = IF @ = "sent" THEN "ended" ELSE @]]
  BY Zenon DEF Hooks!Abandon, Hooks!Writes
<1>2. SUFFICES ASSUME NEW n \in 1..MaxHookWrites, write'[n] # None
               PROVE  /\ DOMAIN write'[n] = HookWriteFields
                      /\ write'[n].kind # "create" => write'[n].rev = write'[n].seen
  BY Zenon, <1>1 DEF ChangesAreReviewed
<1>3. PICK w : w = write[n]
  OBVIOUS
<1>4. PICK to : to = IF w.pc = "sent" THEN "ended" ELSE w.pc
  OBVIOUS
<1>5. write'[n] = IF w = None \/ w.pc = "ended" THEN w ELSE [w EXCEPT !.stale = TRUE, !.pc = to]
  BY Zenon, <1>1, <1>3, <1>4
<1>6. w # None => DOMAIN w = HookWriteFields /\ (w.kind # "create" => w.rev = w.seen)
  BY <1>3 DEF ChangesAreReviewed
<1> QED
  BY <1>2, <1>5, <1>6 DEF HookWriteFields

LEMMA HookBeginFits ==
  ASSUME account.user = this
  PROVE  /\ HookNothingRead(Hooks!Begin) /\ HookNothingRead([Hooks!Begin EXCEPT !.pc = 1])
         /\ HookLoadFits(Hooks!Begin) /\ HookLoadFits([Hooks!Begin EXCEPT !.pc = 1])
<1>1. PICK f : f = Hooks!NoHooks
  OBVIOUS
<1>2. DOMAIN f = 0..MaxHookWrites /\ \A h \in 0..MaxHookWrites : f[h] = None
  BY <1>1 DEF Hooks!NoHooks, Hooks!HookIds
<1>3. PICK c : c = [user |-> this, hooks |-> f, read |-> {}]
  OBVIOUS
<1>4. PICK l : l = Hooks!Begin
  OBVIOUS
<1>5. l = [pc |-> 0, policy |-> account.policy, catalog |-> c]
  BY <1>1, <1>3, <1>4 DEF Hooks!Begin
<1>6. HooksKnown(f)
  BY <1>2 DEF HooksKnown
<1> QED
  <2>1. PICK k : k = [l EXCEPT !.pc = 1]
    OBVIOUS
  <2>2. DOMAIN l = {"pc", "catalog", "policy"} /\ l.catalog = c /\ DOMAIN k = {"pc", "catalog", "policy"} /\ k.catalog = c
    BY <1>5, <2>1
  <2>3. DOMAIN c = {"user", "hooks", "read"} /\ c.user = this /\ c.hooks = f
    BY <1>3
  <2> QED
    BY <1>2, <1>4, <1>6, <2>1, <2>2, <2>3 DEF HookLoadFits, HookNothingRead

LEMMA HooksInitInv == ASSUME Hooks!Init PROVE HooksInv
<1>1. PICK b : hooks = [Hooks!NoHooks EXCEPT ![0] = [body |-> b, enabled |-> FALSE, rev |-> 1]]
  BY DEF Hooks!Init
<1>2. /\ DOMAIN hooks = 0..MaxHookWrites /\ \A h \in 0..MaxHookWrites : h # 0 => hooks[h] = None
      /\ DOMAIN hooks[0] = {"body", "enabled", "rev"}
  BY <1>1, HooksAssumption DEF Hooks!NoHooks, Hooks!HookIds
<1>3. DOMAIN account = {"user", "policy"} /\ account.user = this /\ creations = [u \in {this} |-> None]
  BY DEF Hooks!Init
<1>4. HookHostFits
  BY <1>2, <1>3 DEF HookHostFits
<1>5. load = Hooks!Begin /\ HookLoadFits(load)
  BY <1>3, HookBeginFits DEF Hooks!Init
<1>6. HookPanelFits(panel)
  BY DEF Hooks!Init, HookPanelFits
<1>7. write = [n \in 1..MaxHookWrites |-> None]
  BY DEF Hooks!Init, Hooks!Writes
<1>8. creations[this] = None /\ \A m \in 1..MaxHookWrites : write[m] = None
  BY <1>3, <1>7
<1>9. CreationsFit /\ OneAtWork /\ HooksKnown(hooks)
  BY <1>2, <1>8 DEF CreationsFit, OneAtWork, HooksKnown, HookCreated, HookDoubt, HookAtWork
<1> QED
  BY <1>4, <1>5, <1>6, <1>9, HooksInitReviewed DEF HooksInv

LEMMA NobodyAtWork ==
  ASSUME HooksInv, load # None \/ ~panel.busy \/ panel.mode # "open", NEW m \in 1..MaxHookWrites
  PROVE  ~HookAtWork(m)
BY DEF HooksInv, OneAtWork

\* The panel goes on or reads, and writes nothing.
LEMMA HooksPanelGoesOn ==
  ASSUME HooksInv, UNCHANGED <<hooks, account, creations, write>>, HookPanelFits(panel'),
         HookLoadFits(load'),
         \/ load # None \/ ~panel.busy \/ panel.mode # "open"
         \/ load' = load /\ panel'.busy = panel.busy /\ panel'.mode = panel.mode
  PROVE  HooksInv'
<1>1. ChangesAreReviewed' /\ HookHostFits' /\ CreationsFit' /\ HooksKnown(hooks)'
  BY DEF HooksInv, ChangesAreReviewed, HookHostFits, CreationsFit, HooksKnown, HookCreated, HookDoubt
<1>2. HookLoadFits(load)'
  BY DEF HookLoadFits, HooksKnown, HookCreated, HookDoubt
<1>3. OneAtWork'
  BY NobodyAtWork DEF HooksInv, OneAtWork, HookAtWork
<1>4. HookPanelFits(panel)'
  BY DEF HookPanelFits
<1> QED
  BY <1>1, <1>2, <1>3, <1>4 DEF HooksInv

LEMMA HooksReadProject ==
  ASSUME HooksInv, Hooks!readProject
  PROVE  HookLoadFits(load')
<1>1. PICK l : l = load
  OBVIOUS
<1>2. PICK at, seen, f :
        /\ f = [h \in Hooks!HookIds |-> IF hooks[h] # None /\ hooks[h].body.project = l.pc THEN hooks[h]
                                        ELSE l.catalog.hooks[h]]
        /\ \/ load' = [l EXCEPT !.pc = at]
           \/ load' = [l EXCEPT !.pc = at, !.catalog = [l.catalog EXCEPT !.read = seen, !.hooks = f]]
  <2>1. PICK f : f = [h \in Hooks!HookIds |-> IF hooks[h] # None /\ hooks[h].body.project = l.pc THEN hooks[h]
                                        ELSE l.catalog.hooks[h]]
    OBVIOUS
  <2>2. l # None /\ DOMAIN l = {"pc", "catalog", "policy"} /\ DOMAIN l.catalog = {"user", "hooks", "read"}
    BY <1>1 DEF Hooks!readProject, HooksInv, HookLoadFits
  <2>3. PICK at : at = IF l.pc = panel.shown THEN HookProjects + 1 ELSE l.pc + 1
    OBVIOUS
  <2>4. CASE load' = [l EXCEPT !.pc = at, !.catalog.read = @ \cup {l.pc}, !.catalog.hooks = f]
    <3>1. PICK seen : seen = l.catalog.read \cup {l.pc}
      OBVIOUS
    <3>2. load' = [l EXCEPT !.pc = at, !.catalog = [l.catalog EXCEPT !.read = seen, !.hooks = f]]
      BY <2>2, <2>4, <3>1
    <3> QED
      BY <2>1, <3>2, Zenon
  <2>5. CASE \E pc \in {at, HookProjects + 1} : load' = [l EXCEPT !.pc = pc]
    BY Zenon, <2>1, <2>5
  <2> QED
    BY <1>1, <2>1, <2>3, <2>4, <2>5, Zenon DEF Hooks!readProject
<1>3. /\ DOMAIN l = {"pc", "catalog", "policy"} /\ DOMAIN l.catalog = {"user", "hooks", "read"}
      /\ l.catalog.user = this /\ DOMAIN l.catalog.hooks = 0..MaxHookWrites
      /\ HooksKnown(l.catalog.hooks) /\ HooksKnown(hooks)
  BY <1>1 DEF Hooks!readProject, HooksInv, HookLoadFits
<1>4. DOMAIN f = 0..MaxHookWrites /\ \A h \in 0..MaxHookWrites : f[h] = hooks[h] \/ f[h] = l.catalog.hooks[h]
  BY <1>2 DEF Hooks!HookIds
<1>5. HooksKnown(f)
  BY <1>3, <1>4 DEF HooksKnown
<1>6. PICK c : c = [l.catalog EXCEPT !.read = seen, !.hooks = f]
  OBVIOUS
<1>7. DOMAIN c = {"user", "hooks", "read"} /\ c.user = this /\ c.hooks = f
  BY <1>3, <1>6
<1>8. CASE load' = [l EXCEPT !.pc = at]
  BY <1>3, <1>8 DEF HookLoadFits
<1>9. CASE load' = [l EXCEPT !.pc = at, !.catalog = c]
  BY <1>3, <1>4, <1>5, <1>7, <1>9 DEF HookLoadFits
<1> QED
  BY <1>2, <1>6, <1>8, <1>9

LEMMA HooksSettleRead ==
  ASSUME HooksInv, Hooks!settleRead
  PROVE  HooksInv'
<1>1. PICK l : l = load
  OBVIOUS
<1>2. /\ l # None /\ l.catalog.user = this /\ HooksKnown(l.catalog.hooks) /\ account.user = this
      /\ DOMAIN creations = {this} /\ load' = None /\ UNCHANGED <<hooks, account, write>>
  BY <1>1 DEF Hooks!settleRead, HooksInv, HookLoadFits, HookHostFits
<1>3. /\ DOMAIN panel' = {"mode", "busy", "shown", "catalog", "review"} /\ panel'.review = panel.review
      /\ panel'.catalog = panel.catalog \/ panel'.catalog = l.catalog
  BY <1>1 DEF Hooks!settleRead, HooksInv, HookPanelFits
<1>4. HookPanelFits(panel)' /\ HookLoadFits(load)'
  BY <1>2, <1>3 DEF HookPanelFits, HooksInv, HookLoadFits
<1>5. PICK q : q = creations[this]
  OBVIOUS
<1>6. \/ creations' = creations
      \/ /\ q # None /\ q.state = "uncertain" /\ Hooks!Cardinality(Hooks!Matches(q, l.catalog)) = 1
         /\ creations' = [creations EXCEPT ![this] = [q EXCEPT !.state = "saved"]]
  <2>1. creations = [creations EXCEPT ![this] = q]
    BY <1>5 DEF HooksInv, HookHostFits
  <2> QED
    BY <1>1, <1>2, <1>5, <2>1 DEF Hooks!settleRead
<1>7. ASSUME q # None, q.state = "uncertain", Hooks!Cardinality(Hooks!Matches(q, l.catalog)) = 1
      PROVE  write[q.write].wire = "taken"
  <2>1. PICK n : n = q.write
    OBVIOUS
  <2>2. n \in 1..MaxHookWrites /\ HookCreated(n) /\ HookDoubt(n) /\ write[n].pc # "prepare"
    <3>1. n \in 1..MaxHookWrites /\ HookCreated(n) /\ HookDoubt(n)
      BY <1>5, <1>7, <2>1 DEF HooksInv, CreationsFit, HookDoubt
    <3>2. write[n].pc # "ended" => q = [state |-> "pending", write |-> n]
      BY <1>5, <3>1 DEF HooksInv, CreationsFit
    <3> QED
      BY <1>7, <3>1, <3>2
  <2>3. PICK h \in Hooks!HookIds : h \in Hooks!Matches(q, l.catalog)
    <3>1. Hooks!Matches(q, l.catalog) # {}
      <4>1. Hooks!Cardinality({}) = 0
        BY FS_EmptySet DEF Hooks!Cardinality, Cardinality
      <4> QED
        BY <1>7, <4>1
    <3> QED
      BY <3>1 DEF Hooks!Matches
  <2>4. l.catalog.hooks[h] # None /\ l.catalog.hooks[h].body = write[n].body /\ h \notin write[n].before
    BY <2>1, <2>3 DEF Hooks!Matches
  <2>5. h \in 0..MaxHookWrites
    BY <2>3 DEF Hooks!HookIds
  <2>6. h = n
    BY <1>2, <2>2, <2>4, <2>5 DEF HooksKnown
  <2> QED
    BY <1>2, <2>1, <2>2, <2>4, <2>5, <2>6 DEF HooksKnown
<1>8. ChangesAreReviewed' /\ (creations' \in [{this} -> HookReceipts \cup {None}] => HookHostFits')
  BY <1>2 DEF HooksInv, HookHostFits, ChangesAreReviewed
<1>9. OneAtWork'
  BY <1>1, <1>2, NobodyAtWork DEF HooksInv, OneAtWork, HookAtWork
<1>10. CASE creations' = creations
  <2>1. CreationsFit' /\ HooksKnown(hooks)' /\ HookHostFits'
    BY <1>2, <1>8, <1>10 DEF HooksInv, HookHostFits, CreationsFit, HooksKnown, HookCreated, HookDoubt
  <2> QED
    BY <1>4, <1>8, <1>9, <2>1 DEF HooksInv
<1>11. CASE /\ q # None /\ q.state = "uncertain" /\ Hooks!Cardinality(Hooks!Matches(q, l.catalog)) = 1
            /\ creations' = [creations EXCEPT ![this] = [q EXCEPT !.state = "saved"]]
  <2>1. q \in HookReceipts /\ q.write \in 1..MaxHookWrites /\ HookCreated(q.write)
    BY <1>5, <1>11 DEF HooksInv, CreationsFit
  <2>2. PICK kept : kept = [q EXCEPT !.state = "saved"]
    OBVIOUS
  <2>3. kept \in HookReceipts /\ kept.state = "saved" /\ kept.write = q.write
    BY <2>1, <2>2 DEF HookReceipts
  <2>4. creations'[this] = kept /\ HookHostFits'
    BY <1>8, <1>11, <2>2, <2>3 DEF HooksInv, HookHostFits
  <2>5. write[q.write].wire = "taken"
    BY <1>7, <1>11
  <2>6. ASSUME NEW m \in 1..MaxHookWrites, HookCreated(m) PROVE write[m].pc = "ended" /\ write[m].wire # "sent"
    <3>1. write[m].pc # "ended" => q = [state |-> "pending", write |-> m]
      BY <1>5, <2>6 DEF HooksInv, CreationsFit
    <3>2. write[m].wire = "sent" => q.write = m
      BY <1>5, <2>6 DEF HooksInv, CreationsFit, HookDoubt
    <3> QED
      BY <1>11, <2>5, <3>1, <3>2
  <2>7. CreationsFit'
    BY <1>2, <2>1, <2>3, <2>4, <2>5, <2>6 DEF HooksInv, CreationsFit, HookCreated
  <2>8. HooksKnown(hooks)'
    BY <1>2, <2>3, <2>4 DEF HooksInv, HooksKnown, HookCreated, HookDoubt
  <2> QED
    BY <1>4, <1>8, <1>9, <2>4, <2>7, <2>8 DEF HooksInv
<1> QED
  BY <1>6, <1>10, <1>11

LEMMA HooksPanel ==
  ASSUME HooksInv, \/ Hooks!reload \/ Hooks!Progress \/ Hooks!review \/ Hooks!cancelReview \/ Hooks!unlock
                   \/ Hooks!reopen \/ UNCHANGED hooksVars
  PROVE  HooksInv'
<1>1. /\ DOMAIN panel = {"mode", "busy", "shown", "catalog", "review"} /\ HookPanelFits(panel)
      /\ account.user = this /\ HookLoadFits(load)
  BY DEF HooksInv, HookPanelFits, HookHostFits
<1>2. HookLoadFits(Hooks!Begin) /\ HookLoadFits([Hooks!Begin EXCEPT !.pc = 1])
  BY <1>1, HookBeginFits
<1>3. CASE Hooks!reload
  <2>1. HookPanelFits(panel')
    BY Zenon, <1>1, <1>3 DEF Hooks!reload, HookPanelFits
  <2> QED
    BY Zenon, <1>2, <1>3, <2>1, HooksPanelGoesOn DEF Hooks!reload
<1>4. CASE Hooks!readAccount
  BY <1>1, <1>2, <1>4, HooksPanelGoesOn DEF Hooks!readAccount
<1>5. CASE Hooks!readProject
  BY <1>1, <1>5, HooksReadProject, HooksPanelGoesOn DEF Hooks!readProject
<1>6. CASE Hooks!unlock \/ Hooks!reopen
  <2>1. HookPanelFits(panel')
    BY <1>1, <1>6 DEF Hooks!unlock, Hooks!reopen, HookPanelFits
  <2> QED
    BY <1>2, <1>6, <2>1, HooksPanelGoesOn DEF Hooks!unlock, Hooks!reopen
<1>7. CASE Hooks!review \/ Hooks!cancelReview
  <2>1. PICK r : /\ panel' = [panel EXCEPT !.review = r]
                 /\ r # None /\ r.kind = "create" => r \in HookReviews
    <3>1. ASSUME NEW b \in Hooks!Body PROVE [kind |-> "create", body |-> b, hook |-> None, rev |-> 0] \in HookReviews
      BY DEF Hooks!Body, Hooks!ProjectIds, HookReviews, HookBodies
    <3> QED
      BY <1>7, <3>1, Zenon DEF Hooks!review, Hooks!openReview, Hooks!cancelReview
  <2>2. HookPanelFits(panel') /\ panel'.busy = panel.busy /\ panel'.mode = panel.mode
    BY <1>1, <2>1 DEF HookPanelFits
  <2>3. UNCHANGED <<hooks, account, creations, write, load>>
    BY <1>7, Zenon DEF Hooks!review, Hooks!openReview, Hooks!cancelReview
  <2> QED
    BY <1>1, <2>2, <2>3, HooksPanelGoesOn
<1>8. CASE UNCHANGED hooksVars
  BY <1>1, <1>8, HooksPanelGoesOn DEF hooksVars
<1> QED
  BY <1>3, <1>4, <1>5, <1>6, <1>7, <1>8, HooksSettleRead DEF Hooks!Progress

\* One write changes.
LEMMA HookWriteIs ==
  ASSUME ChangesAreReviewed, NEW n \in 1..MaxHookWrites, NEW after, write' = [write EXCEPT ![n] = after]
  PROVE  write'[n] = after /\ \A m \in 1..MaxHookWrites : m # n => write'[m] = write[m]
BY DEF ChangesAreReviewed

LEMMA HooksApply ==
  ASSUME HooksInv, NEW n \in 1..MaxHookWrites, NEW r, Hooks!apply(n, r), r.kind = "create" => r \in HookReviews
  PROVE  HooksInv'
<1>1. PICK q : q = [user |-> panel.catalog.user, kind |-> r.kind, body |-> r.body, hook |-> r.hook, rev |-> r.rev,
                    seen |-> r.rev, before |-> {h \in Hooks!HookIds : panel.catalog.hooks[h] # None},
                    enabled |-> r.kind = "enable", stale |-> FALSE, pc |-> "prepare", wire |-> "none"]
  OBVIOUS
<1>2. /\ write[n] = None /\ panel.mode = "open" /\ panel.catalog.user = this /\ load = None /\ ~panel.busy
      /\ write' = [write EXCEPT ![n] = q] /\ panel' = [panel EXCEPT !.busy = TRUE]
      /\ UNCHANGED <<hooks, account, load>>
  BY <1>1 DEF Hooks!apply, HooksInv, HookPanelFits
<1>3. write'[n] = q /\ \A m \in 1..MaxHookWrites : m # n => write'[m] = write[m]
  BY <1>2, HookWriteIs DEF HooksInv
<1>4. q.kind = r.kind /\ q.pc = "prepare" /\ q.wire = "none" /\ q.stale = FALSE
  BY <1>1
<1>5. HookPanelFits(panel)' /\ panel'.busy /\ panel'.mode = "open" /\ HookLoadFits(load)' /\ ChangesAreReviewed'
  BY <1>2, HooksApplied DEF HooksInv, HookPanelFits, HookLoadFits
<1>6. OneAtWork'
  <2>1. \A m \in 1..MaxHookWrites : ~HookAtWork(m)
    BY <1>2, NobodyAtWork
  <2>2. \A m \in 1..MaxHookWrites : HookAtWork(m)' => m = n
    BY <1>3, <2>1 DEF HookAtWork
  <2> QED
    BY <1>2, <1>3, <1>4, <1>5, <2>2 DEF HooksInv, OneAtWork
<1>7. CASE r.kind # "create"
  <2>1. creations' = creations
    BY <1>7 DEF Hooks!apply
  <2>2. \A m \in 1..MaxHookWrites : HookCreated(m)' <=> HookCreated(m) /\ m # n
    BY <1>2, <1>3, <1>4, <1>7 DEF HookCreated
  <2>3. \A m \in 1..MaxHookWrites : HookCreated(m) => m # n /\ write'[m] = write[m]
    BY <1>2, <1>3 DEF HookCreated
  <2>4. CreationsFit'
    BY <2>1, <2>2, <2>3 DEF HooksInv, CreationsFit, HookDoubt
  <2>5. HookHostFits'
    BY <1>2, <2>1 DEF HooksInv, HookHostFits
  <2>6. \A m \in 1..MaxHookWrites : HookDoubt(m)' => HookDoubt(m) /\ write'[m] = write[m]
    BY <2>1, <2>3 DEF HooksInv, CreationsFit, HookDoubt
  <2>7. HooksKnown(hooks)'
    BY <1>2, <2>2, <2>3, <2>6 DEF HooksInv, HooksKnown
  <2> QED
    BY <1>5, <1>6, <2>4, <2>5, <2>7 DEF HooksInv
<1>8. CASE r.kind = "create"
  <2>1. PICK mine : mine = [state |-> "pending", write |-> n]
    OBVIOUS
  <2>2. mine \in HookReceipts /\ mine # None /\ mine.state = "pending" /\ mine.write = n
    BY <2>1, HooksAssumption DEF HookReceipts
  <2>3. creations' = [creations EXCEPT ![this] = mine] /\ ~Hooks!InDoubt(creations[this])
    BY <1>2, <1>8, <2>1 DEF Hooks!apply
  <2>4. creations'[this] = mine /\ HookHostFits'
    BY <1>2, <2>2, <2>3 DEF HooksInv, HookHostFits
  <2>5. q \in HookCreations /\ q # None
    <3>1. r.body \in HookBodies /\ r.hook = None /\ r.rev = 0
      BY <1>8 DEF HookReviews
    <3>2. {h \in Hooks!HookIds : panel.catalog.hooks[h] # None} \in SUBSET (0..MaxHookWrites)
      BY DEF Hooks!HookIds
    <3>3. (r.kind = "enable") = FALSE
      BY <1>8
    <3>4. q \in HookCreations
      BY <1>1, <1>2, <1>8, <3>1, <3>2, <3>3 DEF HookCreations
    <3> QED
      BY <3>4, HooksAssumption
  <2>6. HookCreated(n)' /\ HookDoubt(n)' /\ \A m \in 1..MaxHookWrites : HookDoubt(m)' => m = n
    BY <1>3, <1>4, <1>8, <2>2, <2>4, <2>5 DEF HookCreated, HookDoubt
  <2>7. ASSUME NEW m \in 1..MaxHookWrites, HookCreated(m)
        PROVE  m # n /\ write'[m] = write[m] /\ write[m].pc = "ended" /\ write[m].wire # "sent"
    <3>1. m # n /\ write'[m] = write[m]
      BY <1>2, <1>3, <2>7 DEF HookCreated
    <3>2. ~(creations[this] # None /\ creations[this].state # "saved")
      <4>1. creations[this] # None => creations[this].state \in {"pending", "uncertain", "saved"}
        BY DEF HooksInv, CreationsFit, HookReceipts
      <4> QED
        BY <2>3, <4>1 DEF Hooks!InDoubt
    <3>3. write[m].pc # "ended" => creations[this] = [state |-> "pending", write |-> m]
      BY <2>7 DEF HooksInv, CreationsFit
    <3>4. write[m].wire = "sent" => HookDoubt(m)
      BY <2>7 DEF HooksInv, CreationsFit
    <3>5. [state |-> "pending", write |-> m] # None /\ [state |-> "pending", write |-> m].state # "saved"
      BY HooksAssumption DEF HookReceipts
    <3> QED
      BY <3>1, <3>2, <3>3, <3>4, <3>5 DEF HookDoubt
  <2>8. \A m \in 1..MaxHookWrites : m # n => (HookCreated(m)' <=> HookCreated(m))
    BY <1>3 DEF HookCreated
  <2>9. CreationsFit'
    <3>1. /\ creations'[this] \in HookReceipts /\ creations'[this].write = n
          /\ HookCreated(n)' /\ creations'[this].state # "saved"
      BY <2>2, <2>4, <2>6
    <3>2. /\ write'[n] \in HookCreations /\ write'[n].wire = "none"
          /\ creations'[this] = [state |-> "pending", write |-> n]
      BY <1>3, <1>4, <2>1, <2>4, <2>5
    <3>3. ASSUME NEW m \in 1..MaxHookWrites, m # n, HookCreated(m)'
          PROVE  write'[m] \in HookCreations /\ write'[m].pc = "ended" /\ write'[m].wire # "sent"
      <4>1. HookCreated(m)
        BY <2>8, <3>3
      <4>2. write[m] \in HookCreations
        BY <4>1 DEF HooksInv, CreationsFit
      <4> QED
        BY <2>7, <4>1, <4>2
    <3> QED
      BY <3>1, <3>2, <3>3 DEF CreationsFit
  <2>10. HooksKnown(hooks)'
    <3>1. \A m \in 1..MaxHookWrites : HookDoubt(m)' => write'[m].pc = "prepare"
      BY <1>3, <1>4, <2>6
    <3>2. \A h \in 1..MaxHookWrites : HookCreated(h) /\ write[h].wire = "taken" =>
            HookCreated(h)' /\ write'[h].wire = "taken"
      BY <2>7, <2>8
    <3>3. \A h \in 0..MaxHookWrites : h # 0 => h \in 1..MaxHookWrites
      BY HooksAssumption
    <3> QED
      BY <1>2, <3>1, <3>2, <3>3 DEF HooksInv, HooksKnown
  <2> QED
    BY <1>5, <1>6, <2>4, <2>9, <2>10 DEF HooksInv
<1> QED
  BY <1>7, <1>8

LEMMA HooksDispatch ==
  ASSUME HooksInv, NEW n \in 1..MaxHookWrites, Hooks!dispatch(n)
  PROVE  HooksInv'
<1>1. PICK w : w = write[n]
  OBVIOUS
<1>2. PICK k : k = IF w.kind = "create" THEN w.rev ELSE hooks[w.hook].rev
  OBVIOUS
<1>3. PICK known : known = {h \in Hooks!HookIds : hooks[h] # None /\ hooks[h].body.project = w.body.project}
  OBVIOUS
<1>4. PICK after : after = [w EXCEPT !.pc = "sent", !.wire = "sent", !.rev = k, !.before = known]
  OBVIOUS
<1>5. /\ w # None /\ DOMAIN w = HookWriteFields /\ w.pc = "prepare" /\ ~w.stale
      /\ UNCHANGED <<hooks, account, creations, panel, load>>
  BY <1>1 DEF Hooks!dispatch, HooksInv, ChangesAreReviewed
<1>6. write' = [write EXCEPT ![n] = after]
  BY <1>1, <1>2, <1>3, <1>4 DEF Hooks!dispatch, HooksInv, ChangesAreReviewed, HookWriteFields
<1>7. write'[n] = after /\ \A m \in 1..MaxHookWrites : m # n => write'[m] = write[m]
  BY <1>6, HookWriteIs DEF HooksInv
<1>8. /\ after.kind = w.kind /\ after.pc = "sent" /\ after.wire = "sent" /\ after.body = w.body
      /\ after.stale = w.stale /\ after.before = known
  BY <1>4, <1>5 DEF HookWriteFields
<1>9. HookAtWork(n) /\ load = None
  BY <1>1, <1>5 DEF HookAtWork, HooksInv, OneAtWork
<1>10. ChangesAreReviewed' /\ HookHostFits' /\ HookPanelFits(panel)' /\ HookLoadFits(load)'
  BY <1>5, <1>9, HooksSent DEF HooksInv, HookHostFits, HookPanelFits, HookLoadFits
<1>11. OneAtWork'
  BY <1>1, <1>5, <1>7, <1>8, <1>9 DEF HooksInv, OneAtWork, HookAtWork
<1>12. CASE w.kind # "create"
  <2>1. \A m \in 1..MaxHookWrites : HookCreated(m) => m # n /\ write'[m] = write[m]
    BY <1>1, <1>7, <1>12 DEF HookCreated
  <2>2. \A m \in 1..MaxHookWrites : HookCreated(m)' <=> HookCreated(m)
    BY <1>1, <1>7, <1>8, <1>12 DEF HookCreated
  <2>3. CreationsFit'
    BY <1>5, <2>1, <2>2 DEF HooksInv, CreationsFit, HookDoubt
  <2>4. \A m \in 1..MaxHookWrites : HookDoubt(m)' => HookDoubt(m) /\ write'[m] = write[m]
    BY <1>5, <2>1 DEF HooksInv, CreationsFit, HookDoubt
  <2>5. HooksKnown(hooks)'
    BY <1>5, <2>1, <2>2, <2>4 DEF HooksInv, HooksKnown
  <2> QED
    BY <1>10, <1>11, <2>3, <2>5 DEF HooksInv
<1>13. CASE w.kind = "create"
  <2>1. w \in HookCreations /\ creations[this] = [state |-> "pending", write |-> n]
    BY <1>1, <1>5, <1>13 DEF HooksInv, CreationsFit, HookCreated
  <2>2. k = 0 /\ known \in SUBSET (0..MaxHookWrites)
    BY <1>2, <1>3, <1>13, <2>1 DEF HookCreations, Hooks!HookIds
  <2>3. after \in HookCreations /\ after # None
    <3>1. after = [user |-> w.user, kind |-> w.kind, body |-> w.body, hook |-> w.hook, rev |-> k, seen |-> w.seen,
                   before |-> known, enabled |-> w.enabled, stale |-> w.stale, pc |-> "sent", wire |-> "sent"]
      BY <1>4, <2>1 DEF HookCreations
    <3>2. /\ w.user = this /\ w.kind = "create" /\ w.body \in HookBodies /\ w.hook = None /\ w.seen = 0
          /\ w.enabled = FALSE /\ w.stale \in BOOLEAN
      BY <2>1 DEF HookCreations
    <3>3. after \in HookCreations
      BY <2>2, <3>1, <3>2 DEF HookCreations
    <3> QED
      BY <3>3, HooksAssumption
  <2>4. HookDoubt(n) /\ \A m \in 1..MaxHookWrites : HookDoubt(m) => m = n
    BY <2>1, HooksAssumption DEF HookDoubt, HookReceipts
  <2>5. \A m \in 1..MaxHookWrites : HookCreated(m)' <=> HookCreated(m)
    BY <1>1, <1>5, <1>7, <1>8, <1>13, <2>3 DEF HookCreated
  <2>6. \A m \in 1..MaxHookWrites : HookDoubt(m)' <=> HookDoubt(m)
    BY <1>5 DEF HookDoubt
  <2>7. CreationsFit'
    <3>1. creations'[this].write = n /\ creations'[this].state = "pending" /\ creations' = creations
      BY <1>5, <2>1
    <3>2. /\ write'[n] \in HookCreations /\ creations'[this] = [state |-> "pending", write |-> n] /\ HookDoubt(n)'
          /\ write'[n].pc = "sent"
      BY <1>5, <1>7, <1>8, <2>1, <2>3, <2>4, <2>6
    <3>3. creations'[this] # None => creations'[this] \in HookReceipts /\ HookCreated(n)'
      BY <1>1, <1>5, <1>13, <2>5, <3>1 DEF HooksInv, CreationsFit, HookCreated
    <3>4. ASSUME NEW m \in 1..MaxHookWrites, m # n, HookCreated(m)'
          PROVE  /\ write'[m] \in HookCreations
                 /\ write'[m].pc # "ended" => creations'[this] = [state |-> "pending", write |-> m]
                 /\ write'[m].wire = "sent" => HookDoubt(m)'
                 /\ write'[m].pc = "prepare" => write'[m].wire = "none"
      <4>1. HookCreated(m) /\ write'[m] = write[m]
        BY <1>7, <2>5, <3>4
      <4> QED
        BY <1>5, <2>6, <4>1 DEF HooksInv, CreationsFit
    <3> QED
      BY <3>1, <3>2, <3>3, <3>4 DEF CreationsFit
  <2>8. HooksKnown(hooks)'
    <3>1. ASSUME NEW h \in 0..MaxHookWrites, hooks[h] # None, h # 0
          PROVE  HookCreated(h)' /\ write'[h].wire = "taken"
      <4>1. HookCreated(h) /\ write[h].wire = "taken" /\ h \in 1..MaxHookWrites
        BY <3>1, HooksAssumption DEF HooksInv, HooksKnown
      <4>2. h # n
        BY <1>1, <1>5, <1>13, <4>1 DEF HooksInv, CreationsFit
      <4> QED
        BY <1>7, <2>5, <4>1, <4>2
    <3>2. ASSUME NEW h \in 0..MaxHookWrites, hooks[h] # None, NEW m \in 1..MaxHookWrites, HookDoubt(m)',
                 hooks[h].body = write'[m].body
          PROVE  h \in write'[m].before
      <4>1. m = n
        BY <2>4, <2>6, <3>2
      <4>2. hooks[h].body = w.body
        BY <1>7, <1>8, <3>2, <4>1
      <4>3. h \in known
        BY <1>3, <3>2, <4>2 DEF Hooks!HookIds
      <4> QED
        BY <1>7, <1>8, <4>1, <4>3
    <3> QED
      BY <1>5, <3>1, <3>2 DEF HooksKnown
  <2> QED
    BY <1>10, <1>11, <2>7, <2>8 DEF HooksInv
<1> QED
  BY <1>12, <1>13

\* A creation stays one, whatever becomes of it.
LEMMA HookStays ==
  ASSUME NEW w \in HookCreations, NEW at \in {"prepare", "sent", "ended"}, NEW late \in BOOLEAN,
         NEW to \in {"none", "sent", "taken", "refused", "lost"}
  PROVE  /\ [w EXCEPT !.pc = at] \in HookCreations /\ [w EXCEPT !.stale = late, !.pc = at] \in HookCreations
         /\ [w EXCEPT !.wire = to] \in HookCreations /\ w # None /\ w.user = this
BY HooksAssumption DEF HookCreations

\* A write ends: as the host said, for certain undone, or in doubt.
LEMMA HooksEnd ==
  ASSUME HooksInv, NEW n \in 1..MaxHookWrites, write[n] # None, write[n].pc # "ended", NEW end \in {"done", "failed", "doubt"},
         Hooks!Settled(n, end), write' = [write EXCEPT ![n].pc = "ended"], UNCHANGED <<hooks, account>>,
         end = "done" => write[n].wire = "taken",
         end = "failed" /\ write[n].kind = "create" => write[n].wire # "sent",
         end = "doubt" => write[n].pc = "sent",
         HookPanelFits(panel'), load' = load \/ HookNothingRead(load'),
         ChangesAreReviewed', write[n].stale => UNCHANGED <<panel, load>>
  PROVE  HooksInv'
<1>1. PICK w : w = write[n]
  OBVIOUS
<1>2. PICK after : after = [w EXCEPT !.pc = "ended"]
  OBVIOUS
<1>3. write' = [write EXCEPT ![n] = after] /\ DOMAIN w = HookWriteFields
  BY <1>1, <1>2 DEF HooksInv, ChangesAreReviewed
<1>4. write'[n] = after /\ \A m \in 1..MaxHookWrites : m # n => write'[m] = write[m]
  BY <1>3, HookWriteIs DEF HooksInv
<1>5. /\ after.kind = w.kind /\ after.pc = "ended" /\ after.wire = w.wire /\ after.body = w.body
      /\ after.stale = w.stale /\ after.before = w.before
  BY <1>2, <1>3 DEF HookWriteFields
<1>6. OneAtWork'
  <2>1. ~HookAtWork(n)' /\ \A m \in 1..MaxHookWrites : m # n => (HookAtWork(m)' <=> HookAtWork(m))
    BY <1>4, <1>5 DEF HookAtWork
  <2>2. ~w.stale => \A m \in 1..MaxHookWrites : m # n => ~HookAtWork(m)
    BY <1>1 DEF HooksInv, OneAtWork, HookAtWork
  <2>3. \A m \in 1..MaxHookWrites : write'[m] # None /\ write'[m].stale => write'[m].pc # "sent"
    BY <1>4, <1>5 DEF HooksInv, OneAtWork
  <2> QED
    BY <1>1, <2>1, <2>2, <2>3 DEF HooksInv, OneAtWork
<1>7. HookPanelFits(panel)'
  BY DEF HookPanelFits
<1>8. SUFFICES CreationsFit' /\ HookHostFits' /\ \A f : HooksKnown(f) => HooksKnown(f)'
  <2>1. HookLoadFits(load)'
    BY <1>8 DEF HooksInv, HookLoadFits, HookNothingRead, HooksKnown
  <2> QED
    BY <1>6, <1>7, <1>8, <2>1 DEF HooksInv
<1>9. CASE w.kind # "create"
  <2>1. creations' = creations
    BY <1>1, <1>9 DEF Hooks!Settled
  <2>2. \A m \in 1..MaxHookWrites : HookCreated(m) => m # n /\ write'[m] = write[m]
    BY <1>1, <1>4, <1>9 DEF HookCreated
  <2>3. \A m \in 1..MaxHookWrites : HookCreated(m)' <=> HookCreated(m)
    BY <1>1, <1>4, <1>5, <1>9 DEF HookCreated
  <2>4. CreationsFit'
    BY <2>1, <2>2, <2>3 DEF HooksInv, CreationsFit, HookDoubt
  <2>5. \A m \in 1..MaxHookWrites : HookDoubt(m)' => HookDoubt(m) /\ write'[m] = write[m]
    BY <2>1, <2>2 DEF HooksInv, CreationsFit, HookDoubt
  <2>6. ASSUME NEW f, HooksKnown(f) PROVE HooksKnown(f)'
    <3>1. \A h \in 0..MaxHookWrites : h # 0 => h \in 1..MaxHookWrites
      BY HooksAssumption
    <3> QED
      BY <2>2, <2>3, <2>5, <2>6, <3>1 DEF HooksKnown
  <2> QED
    BY <2>1, <2>4, <2>6 DEF HooksInv, HookHostFits
<1>10. CASE w.kind = "create"
  <2>1. PICK mine : mine = [state |-> "pending", write |-> n]
    OBVIOUS
  <2>2. w \in HookCreations /\ creations[this] = mine /\ HookCreated(n)
    BY <1>1, <1>10, <2>1 DEF HooksInv, CreationsFit, HookCreated
  <2>3. mine # None /\ mine.state = "pending" /\ mine.write = n
    BY <2>1, HooksAssumption DEF HookReceipts
  <2>4. after \in HookCreations /\ after # None /\ w.user = this
    BY <1>2, <2>2, HookStays, HooksAssumption, Zenon
  <2>5. PICK x : /\ creations'[this] = x /\ HookHostFits'
                 /\ x \in HookReceipts \cup {None}
                 /\ x # None => x.write = n /\ x.state \in {"saved", "uncertain"}
                 /\ x # None /\ x.state = "saved" => w.wire = "taken"
                 /\ x # None /\ x.state # "saved" => w.pc = "sent"
                 /\ w.wire = "sent" => x # None /\ x.state = "uncertain"
    <3>1. PICK x : x = CASE end = "done" -> [mine EXCEPT !.state = "saved"]
                         [] end = "failed" -> None
                         [] OTHER -> [state |-> "uncertain", write |-> n]
      OBVIOUS
    <3>2. creations' = [creations EXCEPT ![this] = x]
      BY <1>1, <1>10, <2>1, <2>2, <2>4, <3>1 DEF Hooks!Settled
    <3>3. CASE end = "done"
      <4>1. x = [state |-> "saved", write |-> n]
        BY <2>1, <3>1, <3>3
      <4>2. x \in HookReceipts /\ x.write = n /\ x.state = "saved"
        BY <4>1 DEF HookReceipts
      <4> QED
        BY <1>1, <3>2, <3>3, <4>2 DEF HooksInv, HookHostFits
    <3>4. CASE end = "failed"
      BY <1>1, <1>10, <3>1, <3>2, <3>4 DEF HooksInv, HookHostFits
    <3>5. CASE end = "doubt"
      <4>1. x = [state |-> "uncertain", write |-> n]
        BY <3>1, <3>5
      <4>2. x \in HookReceipts /\ x.write = n /\ x.state = "uncertain" /\ x # None
        BY <4>1, HooksAssumption DEF HookReceipts
      <4> QED
        BY <1>1, <3>2, <3>5, <4>2 DEF HooksInv, HookHostFits
    <3> QED
      BY <3>3, <3>4, <3>5
  <2>6. \A m \in 1..MaxHookWrites : HookCreated(m)' <=> HookCreated(m)
    BY <1>1, <1>4, <1>5, <2>2, <2>4 DEF HookCreated
  <2>7. ASSUME NEW m \in 1..MaxHookWrites, m # n, HookCreated(m)
        PROVE  /\ write'[m] = write[m] /\ write[m] \in HookCreations
               /\ write[m].pc = "ended" /\ write[m].wire # "sent"
    <3>1. write[m].pc # "ended" => creations[this] = [state |-> "pending", write |-> m]
      BY <2>7 DEF HooksInv, CreationsFit
    <3>2. write[m].wire = "sent" => creations[this].write = m
      BY <2>7 DEF HooksInv, CreationsFit, HookDoubt
    <3> QED
      BY <1>4, <2>2, <2>3, <2>7, <3>1, <3>2 DEF HooksInv, CreationsFit
  <2>8. CreationsFit'
    <3>1. creations'[this] # None => /\ creations'[this] \in HookReceipts /\ creations'[this].write = n
                                     /\ HookCreated(n)'
                                     /\ creations'[this].state = "saved" => write'[n].wire = "taken"
      BY <1>4, <1>5, <2>2, <2>5, <2>6
    <3>2. write'[n] \in HookCreations /\ write'[n].pc = "ended" /\ (write'[n].wire = "sent" => HookDoubt(n)')
      BY <1>4, <1>5, <2>4, <2>5 DEF HookDoubt
    <3>3. ASSUME NEW m \in 1..MaxHookWrites, m # n, HookCreated(m)'
          PROVE  write'[m] \in HookCreations /\ write'[m].pc = "ended" /\ write'[m].wire # "sent"
      BY <2>6, <2>7, <3>3
    <3> QED
      BY <3>1, <3>2, <3>3 DEF CreationsFit
  <2>9. ASSUME NEW f, HooksKnown(f) PROVE HooksKnown(f)'
    <3>1. \A h \in 0..MaxHookWrites : h # 0 => h \in 1..MaxHookWrites
      BY HooksAssumption
    <3>2. \A m \in 1..MaxHookWrites : HookDoubt(m)' => m = n /\ HookDoubt(n) /\ write[n].pc # "prepare"
      BY <1>1, <2>2, <2>3, <2>5 DEF HookDoubt
    <3>3. \A m \in 1..MaxHookWrites : HookCreated(m) => write'[m].wire = write[m].wire
      BY <1>1, <1>4, <1>5
    <3>4. write'[n].body = write[n].body /\ write'[n].before = write[n].before
      BY <1>1, <1>4, <1>5
    <3> QED
      BY <2>6, <2>9, <3>1, <3>2, <3>3, <3>4 DEF HooksKnown
  <2> QED
    BY <2>5, <2>8, <2>9
<1> QED
  BY <1>9, <1>10

LEMMA HooksEnds ==
  ASSUME HooksInv, NEW n \in 1..MaxHookWrites, Hooks!giveUp(n) \/ Hooks!answer(n) \/ Hooks!breakLine(n)
  PROVE  HooksInv'
<1>1. ChangesAreReviewed' /\ write' = [write EXCEPT ![n].pc = "ended"] /\ UNCHANGED <<hooks, account>>
  BY HooksGoOn DEF Hooks!giveUp, Hooks!answer, Hooks!breakLine, HooksInv
<1>2. /\ DOMAIN panel = {"mode", "busy", "shown", "catalog", "review"} /\ HookPanelFits(panel)
      /\ HookNothingRead(Hooks!Begin)
  BY HookBeginFits DEF HooksInv, HookPanelFits, HookHostFits
<1>3. write[n] # None /\ write[n].pc # "ended"
  BY DEF Hooks!giveUp, Hooks!answer, Hooks!breakLine
<1>4. CASE Hooks!giveUp(n)
  <2>1. HookPanelFits(panel') /\ (write[n].stale => panel' = panel) /\ load' = load
    BY <1>2, <1>4 DEF Hooks!giveUp, HookPanelFits
  <2>2. write[n].kind = "create" => write[n].wire # "sent"
    BY <1>3, <1>4 DEF Hooks!giveUp, HooksInv, CreationsFit, HookCreated
  <2> QED
    BY <1>1, <1>3, <1>4, <2>1, <2>2, HooksEnd DEF Hooks!giveUp
<1>5. CASE Hooks!answer(n)
  <2>1. HookPanelFits(panel') /\ ~write[n].stale /\ write[n].pc = "sent"
    BY <1>2, <1>5 DEF Hooks!answer, HookPanelFits
  <2>2. PICK end \in {"done", "failed", "doubt"} :
          /\ Hooks!Settled(n, end) /\ (load' = load \/ load' = Hooks!Begin)
          /\ end = "done" => write[n].wire = "taken"
          /\ end = "failed" => write[n].wire # "sent"
    BY <1>5 DEF Hooks!answer
  <2> QED
    BY <1>1, <1>2, <1>3, <2>1, <2>2, HooksEnd
<1>6. CASE Hooks!breakLine(n)
  <2>1. HookPanelFits(panel') /\ ~write[n].stale /\ write[n].pc = "sent" /\ load' = load /\ Hooks!Settled(n, "doubt")
    BY <1>2, <1>6 DEF Hooks!breakLine, HookPanelFits, HooksInv, OneAtWork
  <2> QED
    BY <1>1, <1>3, <2>1, HooksEnd
<1> QED
  BY <1>4, <1>5, <1>6

LEMMA HooksHost ==
  ASSUME HooksInv, HooksMove, UNCHANGED <<creations, panel, load>>, account'.user = account.user,
         DOMAIN account' = DOMAIN account, ChangesAreReviewed',
         \/ write' = write
         \/ \E n \in 1..MaxHookWrites, to \in {"taken", "refused", "lost"} :
              write[n] # None /\ write[n].wire = "sent" /\ write' = [write EXCEPT ![n].wire = to]
  PROVE  HooksInv'
<1>1. ASSUME NEW m \in 1..MaxHookWrites
      PROVE  /\ HookCreated(m)' <=> HookCreated(m)
             /\ HookAtWork(m)' => HookAtWork(m)
             /\ HookDoubt(m)' <=> HookDoubt(m)
             /\ write'[m] # None => write[m] # None /\ write'[m].stale = write[m].stale /\ write'[m].pc = write[m].pc
             /\ HookCreated(m) => /\ write'[m] \in HookCreations /\ write'[m].pc = write[m].pc
                                  /\ write'[m].body = write[m].body /\ write'[m].before = write[m].before
                                  /\ write'[m].wire = write[m].wire \/ (write[m].wire = "sent" /\ write'[m].wire # "sent")
  <2>0. HookDoubt(m)' <=> HookDoubt(m)
    BY DEF HookDoubt
  <2>1. CASE write'[m] = write[m]
    BY <2>0, <2>1 DEF HooksInv, CreationsFit, HookCreated, HookAtWork
  <2>2. CASE write'[m] # write[m]
    <3>1. PICK w : w = write[m]
      OBVIOUS
    <3>2. PICK to \in {"taken", "refused", "lost"} :
            w # None /\ w.wire = "sent" /\ write' = [write EXCEPT ![m].wire = to]
      BY <2>2, <3>1 DEF HooksInv, ChangesAreReviewed
    <3>3. PICK after : after = [w EXCEPT !.wire = to]
      OBVIOUS
    <3>4. write'[m] = after /\ DOMAIN w = HookWriteFields
      BY <3>1, <3>2, <3>3 DEF HooksInv, ChangesAreReviewed
    <3>5. /\ after.kind = w.kind /\ after.pc = w.pc /\ after.stale = w.stale /\ after.wire = to
          /\ after.body = w.body /\ after.before = w.before
      BY <3>3, <3>4 DEF HookWriteFields
    <3>6. w.kind = "create" => after \in HookCreations /\ after # None
      <4>1. w.kind = "create" => w \in HookCreations
        BY <3>1, <3>2 DEF HooksInv, CreationsFit, HookCreated
      <4> QED
        BY <3>3, <4>1, HookStays, HooksAssumption, Zenon
    <3> QED
      BY <2>0, <3>1, <3>2, <3>4, <3>5, <3>6 DEF HookCreated, HookAtWork
  <2> QED
    BY <2>1, <2>2
<1>2. HookHostFits' /\ HookPanelFits(panel)'
  BY DEF HooksMove, HooksInv, HookHostFits, HookPanelFits
<1>3. OneAtWork'
  BY <1>1 DEF HooksInv, OneAtWork
<1>4. CreationsFit'
  <2>1. ASSUME NEW m \in 1..MaxHookWrites, HookCreated(m)'
        PROVE  /\ write'[m] \in HookCreations
               /\ write'[m].pc # "ended" => creations'[this] = [state |-> "pending", write |-> m]
               /\ write'[m].wire = "sent" => HookDoubt(m)'
               /\ write'[m].pc = "prepare" => write'[m].wire = "none"
    <3>1. HookCreated(m)
      BY <1>1, <2>1
    <3>2. /\ write[m].pc # "ended" => creations[this] = [state |-> "pending", write |-> m]
          /\ write[m].wire = "sent" => HookDoubt(m)
          /\ write[m].pc = "prepare" => write[m].wire = "none"
      BY <3>1 DEF HooksInv, CreationsFit
    <3> QED
      BY <1>1, <3>1, <3>2
  <2>2. ASSUME creations'[this] # None, NEW n, n = creations[this].write
        PROVE  /\ creations'[this] \in HookReceipts /\ creations'[this].write = n /\ n \in 1..MaxHookWrites
               /\ HookCreated(n)' /\ (creations'[this].state = "saved" => write'[n].wire = "taken")
    <3>1. /\ creations[this] \in HookReceipts /\ n \in 1..MaxHookWrites /\ HookCreated(n)
          /\ creations[this].state = "saved" => write[n].wire = "taken"
      BY <2>2 DEF HooksInv, CreationsFit
    <3> QED
      BY <1>1, <2>2, <3>1
  <2> QED
    BY <2>1, <2>2 DEF CreationsFit
<1>5. ASSUME NEW f, NEW g, HooksKnown(f),
             \A h \in 0..MaxHookWrites : g[h] # None =>
                \/ f[h] # None /\ g[h].body = f[h].body
                \/ h \in 1..MaxHookWrites /\ HookCreated(h) /\ write[h].wire = "sent" /\ write'[h].wire = "taken"
      PROVE  HooksKnown(g)'
  <2>1. SUFFICES ASSUME NEW h \in 0..MaxHookWrites, g[h] # None
                 PROVE  /\ h # 0 => HookCreated(h)' /\ write'[h].wire = "taken"
                        /\ \A m \in 1..MaxHookWrites : HookDoubt(m)' /\ write'[m].pc # "prepare" /\ m # h
                             /\ g[h].body = write'[m].body => h \in write'[m].before
    BY DEF HooksKnown
  <2>2. h # 0 => h \in 1..MaxHookWrites
    BY HooksAssumption
  <2>3. \A m \in 1..MaxHookWrites : HookDoubt(m) => HookCreated(m)
    BY DEF HookDoubt, HooksInv, CreationsFit
  <2>4. CASE f[h] # None /\ g[h].body = f[h].body
    <3>1. /\ h # 0 => HookCreated(h) /\ write[h].wire = "taken"
          /\ \A m \in 1..MaxHookWrites : HookDoubt(m) /\ write[m].pc # "prepare" /\ m # h
                /\ f[h].body = write[m].body => h \in write[m].before
      BY <1>5, <2>4 DEF HooksKnown
    <3> QED
      BY <1>1, <2>2, <2>3, <2>4, <3>1
  <2>5. CASE h \in 1..MaxHookWrites /\ HookCreated(h) /\ write[h].wire = "sent" /\ write'[h].wire = "taken"
    <3>1. HookDoubt(h) /\ \A m \in 1..MaxHookWrites : HookDoubt(m) => m = h
      BY <2>5 DEF HooksInv, CreationsFit, HookDoubt
    <3> QED
      BY <1>1, <2>5, <3>1
  <2> QED
    BY <1>5, <2>1, <2>4, <2>5
<1>6. HooksKnown(hooks)'
  BY <1>5 DEF HooksMove, HooksInv
<1>7. HookLoadFits(load)'
  BY <1>5 DEF HooksInv, HookLoadFits
<1> QED
  BY <1>2, <1>3, <1>4, <1>6, <1>7 DEF HooksInv

\* One hook is changed or removed.
LEMMA HookMoves ==
  ASSUME HooksInv, NEW h, hooks[h] # None, NEW on, NEW number,
         \/ hooks' = [hooks EXCEPT ![h] = None]
         \/ hooks' = [hooks EXCEPT ![h].enabled = on, ![h].rev = number]
  PROVE  HooksMove
<1>1. HookHostFits /\ DOMAIN hooks = 0..MaxHookWrites
  BY DEF HooksInv, HookHostFits
<1>2. PICK k : k = [hooks[h] EXCEPT !.enabled = on, !.rev = number]
  OBVIOUS
<1>3. CASE hooks' = [hooks EXCEPT ![h] = None]
  BY <1>1, <1>3 DEF HooksMove, HookHostFits
<1>4. CASE hooks' = [hooks EXCEPT ![h].enabled = on, ![h].rev = number]
  <2>1. DOMAIN hooks' = 0..MaxHookWrites /\ \A g \in 0..MaxHookWrites : hooks'[g] = IF g = h THEN k ELSE hooks[g]
    BY <1>1, <1>2, <1>4
  <2>2. h \in 0..MaxHookWrites => DOMAIN k = {"body", "enabled", "rev"} /\ k.body = hooks[h].body
    BY <1>1, <1>2 DEF HookHostFits
  <2> QED
    BY <1>1, <2>1, <2>2 DEF HooksMove, HookHostFits
<1> QED
  BY <1>3, <1>4

LEMMA HooksTake ==
  ASSUME HooksInv, \/ Hooks!others
                   \/ \E n \in 1..MaxHookWrites : Hooks!hostTakes(n) \/ Hooks!hostDrops(n)
  PROVE  HooksInv'
<1>0. HookHostFits /\ DOMAIN hooks = 0..MaxHookWrites
  BY DEF HooksInv, HookHostFits
<1>1. CASE Hooks!others
  <2>1. UNCHANGED <<creations, panel, load, write>> /\ DOMAIN account' = DOMAIN account /\ account'.user = account.user
    BY <1>0, <1>1 DEF Hooks!others, HookHostFits
  <2>2. ASSUME NEW h \in Hooks!HookIds, hooks[h] # None,
               \/ hooks' = [hooks EXCEPT ![h].enabled = ~@, ![h].rev = @ + 1]
               \/ hooks' = [hooks EXCEPT ![h] = None]
        PROVE  HooksMove
    <3>1. PICK on : on = ~hooks[h].enabled
      OBVIOUS
    <3>2. \/ hooks' = [hooks EXCEPT ![h] = None]
          \/ hooks' = [hooks EXCEPT ![h].enabled = on, ![h].rev = hooks[h].rev + 1]
      BY <1>0, <2>2, <3>1 DEF Hooks!HookIds
    <3> QED
      BY <2>2, <3>2, HookMoves
  <2>3. HooksMove
    <3>1. CASE hooks' = hooks
      BY <1>0, <3>1 DEF HooksMove, HookHostFits
    <3> QED
      BY <1>1, <2>2, <3>1 DEF Hooks!others
  <2>4. ChangesAreReviewed'
    BY <2>1 DEF HooksInv, ChangesAreReviewed
  <2> QED
    BY <2>1, <2>3, <2>4, HooksHost
<1>2. ASSUME NEW n \in 1..MaxHookWrites, Hooks!hostTakes(n) \/ Hooks!hostDrops(n)
      PROVE  HooksInv'
  <2>1. ChangesAreReviewed' /\ UNCHANGED <<account, creations, panel, load>>
    BY <1>2, HooksGoOn DEF HooksInv, Hooks!hostTakes, Hooks!hostDrops
  <2>2. PICK w : w = write[n]
    OBVIOUS
  <2>3. w # None /\ w.wire = "sent" /\ DOMAIN w = HookWriteFields
    BY <1>2, <2>2 DEF Hooks!hostTakes, Hooks!hostDrops, HooksInv, ChangesAreReviewed
  <2>4. PICK to \in {"taken", "refused", "lost"} : write' = [write EXCEPT ![n].wire = to]
    BY <1>2 DEF Hooks!hostTakes, Hooks!hostDrops
  <2>5. HooksMove
    <3>1. CASE hooks' = hooks
      BY <1>0, <3>1 DEF HooksMove, HookHostFits
    <3>2. CASE hooks' # hooks /\ w.kind = "create"
      <4>1. /\ hooks' = [hooks EXCEPT ![n] = [body |-> w.body, enabled |-> FALSE, rev |-> 1]]
            /\ write' = [write EXCEPT ![n].wire = "taken"]
        BY <1>2, <2>2, <3>2 DEF Hooks!hostTakes, Hooks!hostDrops, Hooks!Lands
      <4>2. n \in 0..MaxHookWrites /\ write'[n].wire = "taken"
        BY <2>2, <2>3, <4>1, HooksAssumption DEF HooksInv, ChangesAreReviewed, HookWriteFields
      <4>3. HookCreated(n) /\ write[n].wire = "sent"
        BY <2>2, <2>3, <3>2 DEF HookCreated
      <4> QED
        BY <1>0, <4>1, <4>2, <4>3 DEF HooksMove, HookHostFits
    <3>3. CASE hooks' # hooks /\ w.kind # "create"
      <4>1. /\ hooks[w.hook] # None
            /\ \/ hooks' = [hooks EXCEPT ![w.hook] = None]
               \/ hooks' = [hooks EXCEPT ![w.hook].enabled = w.enabled, ![w.hook].rev = @ + 1]
        BY <1>2, <2>2, <3>3 DEF Hooks!hostTakes, Hooks!hostDrops, Hooks!Lands
      <4>2. hooks' = [hooks EXCEPT ![w.hook] = None]
            \/ hooks' = [hooks EXCEPT ![w.hook].enabled = w.enabled, ![w.hook].rev = hooks[w.hook].rev + 1]
        BY <1>0, <4>1
      <4> QED
        BY <4>1, <4>2, HookMoves
    <3> QED
      BY <3>1, <3>2, <3>3
  <2> QED
    BY <2>1, <2>2, <2>3, <2>4, <2>5, HooksHost
<1> QED
  BY <1>1, <1>2

LEMMA HooksStop ==
  ASSUME HooksInv, NEW mode \in {"locked", "closed"}, Hooks!stop(mode)
  PROVE  HooksInv'
<1>1. /\ write' = [n \in 1..MaxHookWrites |->
            IF write[n] = None \/ write[n].pc = "ended" THEN write[n]
            ELSE [write[n] EXCEPT !.stale = TRUE, !.pc = IF @ = "sent" THEN "ended" ELSE @]]
      /\ load' = None /\ UNCHANGED hooks
  BY Zenon DEF Hooks!stop, Hooks!Abandon, Hooks!Writes
<1>2. PICK q : q = creations[this]
  OBVIOUS
<1>3. creations' = [u \in {this} |-> IF q # None /\ q.state = "pending" /\ Hooks!Aborted(write[q.write])
                                     THEN [q EXCEPT !.state = "uncertain"] ELSE q]
  <2>1. creations' = [u \in {this} |->
         IF creations[u] # None /\ creations[u].state = "pending" /\ Hooks!Aborted(write[creations[u].write])
         THEN [creations[u] EXCEPT !.state = "uncertain"] ELSE creations[u]]
    BY Zenon DEF Hooks!stop, Hooks!Abandon
  <2> QED
    BY <1>2, <2>1
<1>4. DOMAIN account' = DOMAIN account /\ account'.user = this
  BY DEF Hooks!stop, HooksInv, HookHostFits
<1>5. ChangesAreReviewed'
  BY HooksStopped DEF Hooks!stop, HooksInv
<1>6. HookPanelFits(panel)' /\ HookLoadFits(load)'
  BY Zenon, <1>1 DEF Hooks!stop, HooksInv, HookPanelFits, HookLoadFits
<1>7. ASSUME NEW m \in 1..MaxHookWrites
      PROVE  /\ ~HookAtWork(m)' /\ (write'[m] # None /\ write'[m].stale => write'[m].pc # "sent")
             /\ HookCreated(m)' <=> HookCreated(m)
             /\ HookCreated(m) =>
                  /\ write'[m] \in HookCreations /\ write'[m].body = write[m].body /\ write'[m].before = write[m].before
                  /\ write'[m].wire = write[m].wire
                  /\ write'[m].pc = IF write[m].pc = "sent" THEN "ended" ELSE write[m].pc
  <2>1. PICK w : w = write[m]
    OBVIOUS
  <2>2. PICK at : at = IF w.pc = "sent" THEN "ended" ELSE w.pc
    OBVIOUS
  <2>3. PICK after : after = [w EXCEPT !.stale = TRUE, !.pc = at]
    OBVIOUS
  <2>4. write'[m] = IF w = None \/ w.pc = "ended" THEN w ELSE after
    BY Zenon, <1>1, <2>1, <2>2, <2>3
  <2>5. w # None => DOMAIN w = HookWriteFields
    BY <2>1 DEF HooksInv, ChangesAreReviewed
  <2>6. w # None => /\ after.stale = TRUE /\ after.pc = at /\ after.kind = w.kind /\ after.wire = w.wire
                    /\ after.body = w.body /\ after.before = w.before
    BY <2>3, <2>5 DEF HookWriteFields
  <2>7. w # None /\ w.kind = "create" => w \in HookCreations /\ after \in HookCreations /\ after # None
    <3>1. w # None /\ w.kind = "create" => w \in HookCreations
      BY <2>1 DEF HooksInv, CreationsFit, HookCreated
    <3>2. w \in HookCreations => at \in {"prepare", "sent", "ended"}
      BY <2>2 DEF HookCreations
    <3> QED
      BY <2>3, <3>1, <3>2, HookStays, HooksAssumption, Zenon
  <2>8. w # None /\ w.stale => w.pc # "sent"
    BY <2>1 DEF HooksInv, OneAtWork
  <2> QED
    BY <2>1, <2>2, <2>4, <2>6, <2>7, <2>8 DEF HookCreated, HookAtWork
<1>8. OneAtWork'
  BY <1>7 DEF OneAtWork
<1>9. q # None => /\ q \in HookReceipts /\ q.write \in 1..MaxHookWrites /\ HookCreated(q.write)
                  /\ q.state = "saved" => write[q.write].wire = "taken"
  BY <1>2 DEF HooksInv, CreationsFit
<1>10. PICK x : x = creations'[this]
  OBVIOUS
<1>11. /\ q = None => x = None
       /\ q # None => /\ x \in HookReceipts /\ x # None /\ x.write = q.write /\ (x.state = "saved" <=> q.state = "saved")
                      /\ x = q \/ write[q.write].pc = "sent"
  <2>1. CASE q # None /\ q.state = "pending" /\ Hooks!Aborted(write[q.write])
    <3>1. x = [q EXCEPT !.state = "uncertain"]
      BY <1>3, <1>10, <2>1
    <3>2. x \in HookReceipts /\ x.write = q.write /\ x.state = "uncertain"
      BY <1>9, <2>1, <3>1 DEF HookReceipts
    <3> QED
      BY <2>1, <3>2, HooksAssumption DEF Hooks!Aborted
  <2>2. CASE ~(q # None /\ q.state = "pending" /\ Hooks!Aborted(write[q.write]))
    <3>1. x = q
      BY <1>3, <1>10, <2>2
    <3> QED
      BY <1>9, <3>1
  <2> QED
    BY <2>1, <2>2
<1>12. \A m \in 1..MaxHookWrites : HookDoubt(m)' <=> HookDoubt(m)
  BY <1>2, <1>10, <1>11 DEF HookDoubt
<1>13. HookHostFits'
  <2>1. creations' \in [{this} -> HookReceipts \cup {None}]
    BY <1>3, <1>10, <1>11
  <2> QED
    BY Zenon, <1>1, <1>4, <2>1 DEF HooksInv, HookHostFits
<1>14. CreationsFit'
  <2>1. ASSUME x # None, NEW n, n = x.write
        PROVE  /\ x \in HookReceipts /\ n \in 1..MaxHookWrites
               /\ HookCreated(n)' /\ (x.state = "saved" => write'[n].wire = "taken")
    BY <1>7, <1>9, <1>11, <2>1
  <2>2. ASSUME NEW m \in 1..MaxHookWrites, HookCreated(m)'
        PROVE  /\ write'[m] \in HookCreations
               /\ write'[m].pc # "ended" => x = [state |-> "pending", write |-> m]
               /\ write'[m].wire = "sent" => HookDoubt(m)'
               /\ write'[m].pc = "prepare" => write'[m].wire = "none"
    <3>1. HookCreated(m)
      BY <1>7, <2>2
    <3>2. /\ write[m].pc # "ended" => q = [state |-> "pending", write |-> m]
          /\ write[m].wire = "sent" => HookDoubt(m)
          /\ write[m].pc = "prepare" => write[m].wire = "none"
      BY <1>2, <3>1 DEF HooksInv, CreationsFit
    <3>3. ASSUME write'[m].pc # "ended" PROVE x = [state |-> "pending", write |-> m]
      <4>1. write[m].pc # "ended" /\ write[m].pc # "sent" /\ q = [state |-> "pending", write |-> m]
        BY <1>7, <3>1, <3>2, <3>3
      <4>2. q # None /\ q.write = m
        BY <4>1, HooksAssumption DEF HookReceipts
      <4> QED
        BY <1>11, <4>1, <4>2
    <3> QED
      BY <1>7, <1>12, <3>1, <3>2, <3>3
  <2> QED
    BY <1>10, <2>1, <2>2 DEF CreationsFit
<1>15. HooksKnown(hooks)'
  <2>1. \A h \in 0..MaxHookWrites : h # 0 => h \in 1..MaxHookWrites
    BY HooksAssumption
  <2>2. \A m \in 1..MaxHookWrites : HookDoubt(m) => HookCreated(m)
    BY DEF HookDoubt, HooksInv, CreationsFit
  <2>3. HooksKnown(hooks)
    BY DEF HooksInv
  <2>4. ASSUME NEW h \in 0..MaxHookWrites, hooks[h] # None, NEW m \in 1..MaxHookWrites,
               HookDoubt(m), write'[m].pc # "prepare", m # h, hooks[h].body = write'[m].body
        PROVE  h \in write'[m].before
    <3>1. write[m].pc # "prepare" /\ write'[m].body = write[m].body /\ write'[m].before = write[m].before
      BY <1>7, <2>2, <2>4
    <3> QED
      BY <2>3, <2>4, <3>1 DEF HooksKnown
  <2>5. \A h \in 0..MaxHookWrites : hooks[h] # None /\ h # 0 => HookCreated(h)' /\ write'[h].wire = "taken"
    BY <1>7, <2>1, <2>3 DEF HooksKnown
  <2> QED
    BY Zenon, <1>1, <1>12, <2>4, <2>5 DEF HooksKnown
<1> QED
  BY <1>5, <1>6, <1>8, <1>13, <1>14, <1>15 DEF HooksInv

LEMMA HooksNext == ASSUME HooksInv, Hooks!Next \/ UNCHANGED hooksVars PROVE HooksInv'
<1>1. CASE \E n \in 1..MaxHookWrites : Hooks!confirm(n) \/ Hooks!disable(n)
  <2>1. PICK n \in 1..MaxHookWrites : \E r : Hooks!apply(n, r) /\ (r.kind = "create" => r \in HookReviews)
    <3>1. CASE \E n \in 1..MaxHookWrites : Hooks!confirm(n)
      BY <3>1 DEF Hooks!confirm, HooksInv, HookPanelFits
    <3>2. ASSUME NEW n \in 1..MaxHookWrites, Hooks!disable(n)
          PROVE  \E r : Hooks!apply(n, r) /\ r.kind # "create"
      <4>1. PICK h \in Hooks!HookIds :
              Hooks!apply(n, [kind |-> "disable", body |-> panel.catalog.hooks[h].body, hook |-> h,
                              rev |-> panel.catalog.hooks[h].rev])
        BY <3>2 DEF Hooks!disable
      <4>2. PICK r : r = [kind |-> "disable", body |-> panel.catalog.hooks[h].body, hook |-> h,
                          rev |-> panel.catalog.hooks[h].rev]
        OBVIOUS
      <4> QED
        BY <4>1, <4>2
    <3> QED
      BY <1>1, <3>1, <3>2
  <2> QED
    BY <2>1, HooksApply
<1>2. CASE \E n \in 1..MaxHookWrites : Hooks!Step(n) \/ Hooks!breakLine(n) \/ Hooks!hostDrops(n)
  BY <1>2, HooksDispatch, HooksEnds, HooksTake DEF Hooks!Step
<1>3. CASE Hooks!stop("locked") \/ Hooks!stop("closed")
  BY <1>3, HooksStop
<1> QED
  BY <1>1, <1>2, <1>3, HooksPanel, HooksTake DEF Hooks!Next, Hooks!Writes

\* Only the two steps that look at the revision send a write or take it.
LEMMA HooksReviewed ==
  ASSUME ChangesAreReviewed, Hooks!Next \/ UNCHANGED hooksVars,
         NEW n \in 1..MaxHookWrites, write[n] # None, write[n].kind # "create"
  PROVE  /\ write[n].pc = "prepare" /\ write'[n].pc = "sent" => hooks[write[n].hook].rev = write[n].seen
         /\ write[n].kind # "remove" /\ write[n].wire = "sent" /\ write'[n].wire = "taken" =>
              hooks[write[n].hook].rev = write[n].seen
<1>1. DOMAIN write[n] = HookWriteFields /\ write[n].rev = write[n].seen
  BY DEF ChangesAreReviewed
<1>2. DOMAIN write = 1..MaxHookWrites
  BY DEF ChangesAreReviewed
<1>3. CASE Hooks!dispatch(n) \/ Hooks!hostTakes(n)
  <2>1. Hooks!dispatch(n) => hooks[write[n].hook].rev = write[n].rev
    BY DEF Hooks!dispatch, Hooks!Unchanged
  <2>2. ASSUME Hooks!hostTakes(n)
        PROVE  /\ write[n].kind # "remove" /\ write'[n].wire = "taken" => hooks[write[n].hook].rev = write[n].rev
               /\ write'[n].pc = write[n].pc
    <3>1. CASE Hooks!Lands(write[n])
      <4>1. write' = [write EXCEPT ![n].wire = "taken"]
        BY <2>2, <3>1 DEF Hooks!hostTakes
      <4>2. write'[n].pc = write[n].pc
        BY <1>1, <1>2, <4>1 DEF HookWriteFields
      <4> QED
        BY <2>2, <3>1, <4>2 DEF Hooks!Lands
    <3>2. CASE ~Hooks!Lands(write[n])
      <4>1. write' = [write EXCEPT ![n].wire = "refused"]
        BY <2>2, <3>2 DEF Hooks!hostTakes
      <4>2. write'[n].pc = write[n].pc /\ write'[n].wire = "refused"
        BY <1>1, <1>2, <4>1 DEF HookWriteFields
      <4> QED
        BY <4>2
    <3> QED
      BY <3>1, <3>2
  <2> QED
    BY <1>1, <1>3, <2>1, <2>2
<1>4. ASSUME NEW m \in 1..MaxHookWrites, m # n,
             \/ Hooks!dispatch(m) \/ Hooks!giveUp(m) \/ Hooks!answer(m) \/ Hooks!hostTakes(m)
             \/ Hooks!breakLine(m) \/ Hooks!hostDrops(m)
      PROVE  write'[n] = write[n]
  <2>1. \E after : write' = [write EXCEPT ![m] = after]
    BY <1>4 DEF Hooks!dispatch, Hooks!giveUp, Hooks!answer, Hooks!hostTakes, Hooks!breakLine, Hooks!hostDrops
  <2> QED
    BY <1>2, <1>4, <2>1
<1>5. ASSUME Hooks!giveUp(n) \/ Hooks!answer(n) \/ Hooks!breakLine(n) \/ Hooks!hostDrops(n)
      PROVE  write'[n].pc \in {write[n].pc, "ended"} /\ write'[n].wire \in {write[n].wire, "lost"}
  <2>1. write' = [write EXCEPT ![n].pc = "ended"] \/ write' = [write EXCEPT ![n].wire = "lost"]
    BY <1>5 DEF Hooks!giveUp, Hooks!answer, Hooks!breakLine, Hooks!hostDrops
  <2> QED
    BY <1>1, <1>2, <2>1 DEF HookWriteFields
<1>6. ASSUME NEW mode, Hooks!stop(mode)
      PROVE  write'[n].pc \in {write[n].pc, "ended"} /\ write'[n].wire = write[n].wire
  <2>1. write'[n] = IF write[n] = None \/ write[n].pc = "ended" THEN write[n]
                    ELSE [write[n] EXCEPT !.stale = TRUE, !.pc = IF @ = "sent" THEN "ended" ELSE @]
    BY Zenon, <1>6 DEF Hooks!stop, Hooks!Abandon, Hooks!Writes
  <2> QED
    BY <1>1, <2>1 DEF HookWriteFields
<1>7. ASSUME NEW m \in 1..MaxHookWrites, Hooks!confirm(m) \/ Hooks!disable(m) PROVE write'[n] = write[n]
  <2>1. write[m] = None /\ \E after : write' = [write EXCEPT ![m] = after]
    BY <1>7 DEF Hooks!confirm, Hooks!disable, Hooks!apply
  <2> QED
    BY <1>2, <2>1
<1>8. CASE \/ Hooks!reload \/ Hooks!Progress \/ Hooks!review \/ Hooks!cancelReview \/ Hooks!unlock \/ Hooks!reopen
           \/ Hooks!others \/ UNCHANGED hooksVars
  <2>1. UNCHANGED write
    BY <1>8, Zenon DEF Hooks!reload, Hooks!Progress, Hooks!readAccount, Hooks!readProject, Hooks!settleRead, Hooks!review,
       Hooks!openReview, Hooks!cancelReview, Hooks!unlock, Hooks!reopen, Hooks!others, hooksVars
  <2> QED
    BY <2>1
<1> QED
  BY <1>3, <1>4, <1>5, <1>6, <1>7, <1>8 DEF Hooks!Next, Hooks!Step, Hooks!Writes

LEMMA HooksSaved == ASSUME HooksInv PROVE Hooks!SavedIsSaved
BY DEF HooksInv, CreationsFit, Hooks!SavedIsSaved

-----------------------------------------------------------------------------
(* The list of every conversation. *)

LEMMA PlaneInitInv == ASSUME Plane!Init PROVE PlaneInv
<1>1. planeHost \in PlaneSnapshots
  BY DEF Plane!Init, PlaneSnapshots, Plane!Statuses
<1>2. reads \subseteq PlaneReadings /\ \A r \in reads : r.answer = None
  BY DEF Plane!Init, PlaneReadings
<1> QED
  BY <1>1, <1>2 DEF Plane!Init, PlaneInv, PlaneShape, ReadsInOrder, LooksInOrder

\* Steps that want no reading of the list that was not wanted.
LEMMA ReadsKeep ==
  ASSUME PlaneInv, planeHost' \in PlaneSnapshots, planeHost.at <= planeHost'.at, list' = list,
         reads' \subseteq PlaneReadings, \A r \in reads' : ~r.stopped => r \in reads
  PROVE  ReadsInOrder'
<1> DEFINE h == planeHost.at
           k == planeHost'.at
<1>1. h \in Nat /\ k \in Nat /\ h <= k
  BY DEF PlaneInv, PlaneShape, PlaneSnapshots
<1>2. list # None => list.at \in Nat
  BY DEF PlaneInv, ReadsInOrder, PlaneSnapshots
<1>3. \A r \in reads : r.answer # None => r.answer.at \in Nat
  BY DEF PlaneInv, ReadsInOrder, PlaneReadings, PlaneSnapshots
<1>4. list # None => list.at <= k
  BY <1>1, <1>2 DEF PlaneInv, ReadsInOrder
<1>5. ASSUME NEW r \in reads', ~r.stopped, r.answer # None
      PROVE  r.answer.at <= k /\ (list # None => list.at <= r.answer.at)
  BY <1>1, <1>3, <1>5 DEF PlaneInv, ReadsInOrder
<1> QED
  BY <1>4, <1>5 DEF PlaneInv, ReadsInOrder

LEMMA LooksKeep ==
  ASSUME PlaneInv, planeHost' \in PlaneSnapshots, planeHost.at <= planeHost'.at, session' \in {session, None},
         looks' \subseteq PlaneLooks, \A r \in looks' : ~r.stopped => r \in looks,
         inspected' = inspected \/ (session' = None /\ \A r \in looks' : r.stopped)
  PROVE  LooksInOrder'
<1> DEFINE h == planeHost.at
           k == planeHost'.at
<1>1. h \in Nat /\ k \in Nat /\ h <= k
  BY DEF PlaneInv, PlaneShape, PlaneSnapshots
<1>2. session # None => session.at \in Nat
  BY DEF PlaneInv, LooksInOrder, PlaneSessions
<1>3. \A r \in looks : r.answer # None => r.answer.at \in Nat
  BY DEF PlaneInv, LooksInOrder, PlaneLooks, PlaneSnapshots
<1>4. session' # None => session'.of = inspected' /\ session'.at <= k
  BY <1>1, <1>2 DEF PlaneInv, LooksInOrder
<1>5. ASSUME NEW r \in looks', ~r.stopped
      PROVE  /\ r.of = inspected'
             /\ r.answer # None => r.answer.at <= k /\ (session' # None => session'.at <= r.answer.at)
  BY <1>1, <1>3, <1>5 DEF PlaneInv, LooksInOrder
<1> QED
  BY <1>4, <1>5 DEF PlaneInv, LooksInOrder

LEMMA PlaneStops ==
  ASSUME PlaneInv
  PROVE  /\ Plane!Stop(reads) \subseteq PlaneReadings /\ \A r \in Plane!Stop(reads) : r.stopped
         /\ Plane!Stop(looks) \subseteq PlaneLooks /\ \A r \in Plane!Stop(looks) : r.stopped
BY DEF PlaneInv, ReadsInOrder, LooksInOrder, PlaneReadings, PlaneLooks, Plane!Stop

LEMMA PlaneCounts ==
  ASSUME PlaneInv, Plane!Begin
  PROVE  planeCounts' \in [reads : Nat, failures : Nat, locks : Nat]
BY DEF PlaneInv, PlaneShape, Plane!Begin

\* What the list does.
LEMMA PlaneLists ==
  ASSUME PlaneInv, Plane!refresh \/ Plane!retry
  PROVE  PlaneInv'
<1>1. planeCounts' \in [reads : Nat, failures : Nat, locks : Nat]
  BY PlaneCounts DEF Plane!refresh, Plane!retry
<1>2. LooksInOrder'
  BY DEF Plane!refresh, Plane!retry, PlaneInv, LooksInOrder
<1>3. PICK one \in PlaneReadings :
        /\ one.answer = None /\ one \in reads'
        /\ \A r \in reads' : r = one \/ (r \in PlaneReadings /\ r.stopped)
  <2>1. PICK one : one = [n |-> planeCounts'.reads, stopped |-> FALSE, answer |-> None]
    OBVIOUS
  <2>2. one \in PlaneReadings /\ one.answer = None
    BY <1>1, <2>1 DEF PlaneReadings
  <2>3.
        \/ reads' = reads \cup {one} /\ \A r \in reads : r \in PlaneReadings /\ r.stopped
        \/ reads' = Plane!Stop(reads) \cup {one}
    <3>1. CASE Plane!refresh
      <4>1. reads' = reads \cup {one} /\ Plane!Live(reads) = {}
        BY <2>1, <3>1 DEF Plane!refresh
      <4> QED
        BY <4>1 DEF Plane!Live, PlaneInv, ReadsInOrder
    <3>2. CASE Plane!retry
      BY <2>1, <3>2 DEF Plane!retry
    <3> QED
      BY <3>1, <3>2
  <2>4. one \in reads' /\ \A r \in reads' : r = one \/ (r \in PlaneReadings /\ r.stopped)
    BY <2>3, PlaneStops
  <2> QED
    BY <2>2, <2>4
<1>4. UNCHANGED <<planeHost, list, inspected>>
  BY DEF Plane!refresh, Plane!retry
<1>5. ReadsInOrder'
  BY <1>3, <1>4 DEF PlaneInv, ReadsInOrder
<1> QED
  BY <1>1, <1>2, <1>4, <1>5 DEF PlaneInv, PlaneShape

LEMMA PlaneIsRead ==
  ASSUME PlaneInv, NEW r \in reads, Plane!hostLists(r)
  PROVE  PlaneInv'
<1>1. PICK s \in BOOLEAN, k \in Nat : r.stopped = s /\ r.n = k
  BY DEF PlaneInv, ReadsInOrder, PlaneReadings
<1>2. PICK one : one = [r EXCEPT !.answer = planeHost]
  OBVIOUS
<1>3. one \in PlaneReadings /\ one.stopped = s /\ one.answer = planeHost
  BY <1>1, <1>2 DEF PlaneInv, PlaneShape, ReadsInOrder, PlaneReadings
<1>4. reads' = (reads \ {r}) \cup {one} /\ UNCHANGED <<planeHost, list, inspected, session, looks, planeCounts>>
  BY <1>2 DEF Plane!hostLists
<1>5. planeHost.at \in Nat
  BY DEF PlaneInv, PlaneShape, PlaneSnapshots
<1>6. \A a, b \in reads' : ~a.stopped /\ ~b.stopped => a = b
  BY <1>1, <1>3, <1>4 DEF PlaneInv, ReadsInOrder
<1>7. ASSUME NEW a \in reads', ~a.stopped, a.answer # None
      PROVE  a.answer.at <= planeHost.at /\ (list # None => list.at <= a.answer.at)
  BY <1>3, <1>4, <1>5, <1>7 DEF PlaneInv, ReadsInOrder
<1> QED
  BY <1>3, <1>4, <1>6, <1>7 DEF PlaneInv, PlaneShape, ReadsInOrder, LooksInOrder

LEMMA PlaneIsShown ==
  ASSUME PlaneInv, NEW r \in reads, Plane!listArrives(r)
  PROVE  /\ PlaneInv'
         /\ list # None => list'.at >= list.at
<1> USE DEF PlaneInv, PlaneShape
<1>1. reads' = reads \ {r} /\ r.answer # None /\ UNCHANGED <<planeHost, inspected, planeCounts>>
  BY DEF Plane!listArrives
<1>2. planeHost.at \in Nat
  BY DEF PlaneSnapshots
<1>3. CASE r.stopped
  <2>1. UNCHANGED <<list, session, looks>>
    BY <1>3 DEF Plane!listArrives, Plane!Wanted
  <2>2. list # None => list.at \in Nat
    BY DEF ReadsInOrder, PlaneSnapshots
  <2> QED
    BY <1>1, <2>1, <2>2 DEF ReadsInOrder, LooksInOrder
<1>4. CASE ~r.stopped
  <2>1. list' = r.answer
    BY <1>4 DEF Plane!listArrives, Plane!Wanted
  <2>2. r.answer \in PlaneSnapshots /\ r.answer.at \in Nat
    BY <1>1 DEF ReadsInOrder, PlaneReadings, PlaneSnapshots
  <2>3. r.answer.at <= planeHost.at /\ (list # None => list.at <= r.answer.at)
    BY <1>1, <1>4 DEF ReadsInOrder
  <2>4. \A q \in reads' : q.stopped
    BY <1>1, <1>4 DEF ReadsInOrder, PlaneReadings
  <2>5. ReadsInOrder'
    BY <1>1, <2>1, <2>2, <2>3, <2>4 DEF ReadsInOrder
  <2>6. LooksInOrder'
    <3>1. session' \in {session, None} /\ looks' \in {looks, Plane!Stop(looks)}
      BY <1>4 DEF Plane!listArrives, Plane!Wanted
    <3> QED
      BY <1>1, <1>2, <3>1, PlaneStops, LooksKeep DEF LooksInOrder
  <2>7. list # None => list.at \in Nat
    BY DEF ReadsInOrder, PlaneSnapshots
  <2> QED
    BY <1>1, <2>1, <2>2, <2>3, <2>5, <2>6, <2>7
<1> QED
  BY <1>3, <1>4

LEMMA PlaneIsLost ==
  ASSUME PlaneInv, NEW r \in reads, Plane!listFails(r)
  PROVE  PlaneInv'
<1>1. reads' = reads \ {r} /\ UNCHANGED <<planeHost, list, inspected, session, looks>>
  BY DEF Plane!listFails
<1>2. planeCounts' \in [reads : Nat, failures : Nat, locks : Nat]
  BY DEF Plane!listFails, PlaneInv, PlaneShape
<1> QED
  BY <1>1, <1>2 DEF PlaneInv, PlaneShape, ReadsInOrder, LooksInOrder

\* What the inspector does.
LEMMA PlaneLooked ==
  ASSUME PlaneInv, Plane!look
  PROVE  PlaneInv'
<1>1. planeCounts' \in [reads : Nat, failures : Nat, locks : Nat]
  BY PlaneCounts DEF Plane!look
<1>2. PICK one : one = [n |-> planeCounts'.reads, of |-> inspected, stopped |-> FALSE, answer |-> None]
  OBVIOUS
<1>3. inspected \in PlaneRows
  BY DEF Plane!look, Plane!Inspecting, Plane!Listed
<1>4. one \in PlaneLooks /\ one.of = inspected /\ one.answer = None
  BY <1>1, <1>2, <1>3 DEF PlaneLooks
<1>5. /\ looks' = looks \cup {one} /\ UNCHANGED <<planeHost, list, reads, inspected, session>>
      /\ \A l \in looks : l.stopped
  BY <1>2 DEF Plane!look, Plane!Live
<1> QED
  BY <1>1, <1>4, <1>5 DEF PlaneInv, PlaneShape, ReadsInOrder, LooksInOrder

LEMMA PlaneIsLookedAt ==
  ASSUME PlaneInv, NEW l \in looks, Plane!hostShows(l)
  PROVE  PlaneInv'
<1>1. PICK s \in BOOLEAN, k \in Nat, o \in PlaneRows : l.stopped = s /\ l.n = k /\ l.of = o
  BY DEF PlaneInv, LooksInOrder, PlaneLooks
<1>2. PICK one : one = [l EXCEPT !.answer = planeHost]
  OBVIOUS
<1>3. one \in PlaneLooks /\ one.stopped = s /\ one.of = o /\ one.answer = planeHost
  BY <1>1, <1>2 DEF PlaneInv, PlaneShape, LooksInOrder, PlaneLooks
<1>4. looks' = (looks \ {l}) \cup {one} /\ UNCHANGED <<planeHost, list, reads, inspected, session, planeCounts>>
  BY <1>2 DEF Plane!hostShows
<1>5. planeHost.at \in Nat
  BY DEF PlaneInv, PlaneShape, PlaneSnapshots
<1>6. \A a, b \in looks' : ~a.stopped /\ ~b.stopped => a = b
  BY <1>1, <1>3, <1>4 DEF PlaneInv, LooksInOrder
<1>7. ASSUME NEW a \in looks', ~a.stopped
      PROVE  /\ a.of = inspected
             /\ a.answer # None => a.answer.at <= planeHost.at /\ (session # None => session.at <= a.answer.at)
  BY <1>1, <1>3, <1>4, <1>5, <1>7 DEF PlaneInv, LooksInOrder
<1> QED
  BY <1>3, <1>4, <1>6, <1>7 DEF PlaneInv, PlaneShape, ReadsInOrder, LooksInOrder

LEMMA PlaneLookIsLost ==
  ASSUME PlaneInv, NEW l \in looks, Plane!lookFails(l)
  PROVE  PlaneInv'
<1>1. looks' = looks \ {l} /\ UNCHANGED <<planeHost, list, reads, inspected, session>>
  BY DEF Plane!lookFails
<1>2. planeCounts' \in [reads : Nat, failures : Nat, locks : Nat]
  BY DEF Plane!lookFails, PlaneInv, PlaneShape
<1> QED
  BY <1>1, <1>2 DEF PlaneInv, PlaneShape, ReadsInOrder, LooksInOrder

LEMMA PlaneLookIsShown ==
  ASSUME PlaneInv, NEW l \in looks, Plane!lookArrives(l)
  PROVE  /\ PlaneInv'
         /\ session' # None /\ session # None => session'.at >= session.at
<1> USE DEF PlaneInv, PlaneShape
<1>1. looks' = looks \ {l} /\ l.answer # None /\ UNCHANGED <<planeHost, list, reads, inspected, planeCounts>>
  BY DEF Plane!lookArrives
<1>2. session # None => session.at \in Nat
  BY DEF LooksInOrder, PlaneSessions
<1>3. CASE l.stopped
  <2>1. session' = session
    BY <1>3 DEF Plane!lookArrives, Plane!Wanted
  <2> QED
    BY <1>1, <1>2, <2>1 DEF ReadsInOrder, LooksInOrder
<1>4. CASE ~l.stopped
  <2>1. session' = [of |-> l.of, status |-> l.answer.rows[l.of], at |-> l.answer.at]
    BY <1>4 DEF Plane!lookArrives, Plane!Wanted
  <2>2. l.of \in PlaneRows /\ l.of = inspected /\ l.answer \in PlaneSnapshots
    BY <1>1, <1>4 DEF LooksInOrder, PlaneLooks
  <2>3. l.answer.at \in Nat /\ l.answer.rows[l.of] \in Plane!Statuses
    BY <2>2 DEF PlaneSnapshots
  <2>4. session' \in PlaneSessions /\ session'.of = inspected /\ session'.at = l.answer.at
    BY <2>1, <2>2, <2>3 DEF PlaneSessions
  <2>5. l.answer.at <= planeHost.at /\ (session # None => session.at <= l.answer.at)
    BY <1>1, <1>4 DEF LooksInOrder
  <2>6. \A q \in looks' : q.stopped
    BY <1>1, <1>4 DEF LooksInOrder, PlaneLooks
  <2>7. LooksInOrder'
    BY <1>1, <2>4, <2>5, <2>6 DEF LooksInOrder
  <2> QED
    BY <1>1, <1>2, <2>3, <2>4, <2>5, <2>7 DEF ReadsInOrder
<1> QED
  BY <1>3, <1>4

LEMMA PlaneMoved ==
  ASSUME PlaneInv, PlaneMoves
  PROVE  /\ PlaneInv'
         /\ list' = list /\ session' \in {session, None}
<1> USE DEF PlaneMoves
<1>1. planeHost' \in PlaneSnapshots /\ planeHost.at <= planeHost'.at
  <2>1. planeHost.at \in Nat /\ planeHost.rows \in [PlaneRows -> Plane!Statuses]
    BY DEF PlaneInv, PlaneShape, PlaneSnapshots
  <2>2. CASE UNCHANGED planeHost
    BY <2>1, <2>2 DEF PlaneInv, PlaneShape
  <2>3. CASE \E r \in PlaneRows : \E s \in Plane!Statuses : Plane!hostChanges(r, s)
    <3>1. PICK r \in PlaneRows, s \in Plane!Statuses : Plane!hostChanges(r, s)
      BY <2>3
    <3>2. PICK rows : rows = [planeHost.rows EXCEPT ![r] = s]
      OBVIOUS
    <3>3. rows \in [PlaneRows -> Plane!Statuses]
      BY <2>1, <3>2
    <3>4. planeHost' = [at |-> planeHost.at + 1, rows |-> rows]
      BY <3>1, <3>2 DEF Plane!hostChanges
    <3> QED
      BY <2>1, <3>3, <3>4 DEF PlaneSnapshots
  <2> QED
    BY <2>2, <2>3 DEF Plane!close, Plane!lock, Plane!hide, Plane!setPage, Plane!openFilter, Plane!setFilter, Plane!inspect
<1>2. planeCounts' \in [reads : Nat, failures : Nat, locks : Nat]
  BY DEF PlaneInv, PlaneShape, Plane!close, Plane!lock, Plane!hide, Plane!setPage, Plane!openFilter, Plane!setFilter,
         Plane!inspect, Plane!hostChanges
<1>3. /\ list' = list /\ reads' \in {reads, Plane!Stop(reads)}
      /\ session' \in {session, None} /\ looks' \in {looks, Plane!Stop(looks)}
      /\ inspected' \in PlaneRows \cup {None}
      /\ inspected' = inspected \/ (session' = None /\ looks' = Plane!Stop(looks))
  BY DEF PlaneInv, PlaneShape, Plane!close, Plane!lock, Plane!hide, Plane!setPage, Plane!openFilter, Plane!setFilter,
         Plane!inspect, Plane!hostChanges
<1>4. reads' \subseteq PlaneReadings /\ \A r \in reads' : ~r.stopped => r \in reads
  BY <1>3, PlaneStops DEF PlaneInv, ReadsInOrder
<1>5. /\ looks' \subseteq PlaneLooks /\ \A r \in looks' : ~r.stopped => r \in looks
      /\ inspected' = inspected \/ (session' = None /\ \A r \in looks' : r.stopped)
  BY <1>3, PlaneStops DEF PlaneInv, LooksInOrder
<1> QED
  BY <1>1, <1>2, <1>3, <1>4, <1>5, ReadsKeep, LooksKeep DEF PlaneInv, PlaneShape

LEMMA PlaneStep ==
  ASSUME PlaneInv, Plane!Next
  PROVE  /\ PlaneInv'
         /\ list # None => list'.at >= list.at
         /\ session' # None =>
              /\ session'.of = inspected'
              /\ session # None /\ session.of = session'.of => session'.at >= session.at
<1>1. list # None => list.at \in Nat
  BY DEF PlaneInv, ReadsInOrder, PlaneSnapshots
<1>2. session # None => session.at \in Nat
  BY DEF PlaneInv, LooksInOrder, PlaneSessions
<1>3. PlaneInv' /\ (list # None => list'.at >= list.at) /\ (session' # None /\ session # None => session'.at >= session.at)
  <2>1. CASE Plane!refresh \/ Plane!retry
    BY <1>1, <1>2, <2>1, PlaneLists DEF Plane!refresh, Plane!retry
  <2>2. CASE Plane!look
    BY <1>1, <1>2, <2>2, PlaneLooked DEF Plane!look
  <2>3. ASSUME NEW r \in reads, Plane!hostLists(r) \/ Plane!listFails(r)
        PROVE  PlaneInv' /\ UNCHANGED <<list, session>>
    BY <2>3, PlaneIsRead, PlaneIsLost DEF Plane!hostLists, Plane!listFails
  <2>4. ASSUME NEW r \in reads, Plane!listArrives(r)
        PROVE  PlaneInv' /\ (list # None => list'.at >= list.at) /\ session' \in {session, None}
    BY <2>4, PlaneIsShown DEF Plane!listArrives
  <2>5. ASSUME NEW l \in looks, Plane!hostShows(l) \/ Plane!lookFails(l)
        PROVE  PlaneInv' /\ UNCHANGED <<list, session>>
    BY <2>5, PlaneIsLookedAt, PlaneLookIsLost DEF Plane!hostShows, Plane!lookFails
  <2>6. ASSUME NEW l \in looks, Plane!lookArrives(l)
        PROVE  PlaneInv' /\ list' = list /\ (session' # None /\ session # None => session'.at >= session.at)
    BY <2>6, PlaneLookIsShown DEF Plane!lookArrives
  <2>7. CASE PlaneMoves
    BY <1>1, <1>2, <2>7, PlaneMoved
  <2> QED
    BY <1>1, <1>2, <2>1, <2>2, <2>3, <2>4, <2>5, <2>6, <2>7 DEF Plane!Next, PlaneMoves
<1>4. session' # None => session'.of = inspected'
  BY <1>3 DEF PlaneInv, LooksInOrder
<1> QED
  BY <1>3, <1>4

LEMMA PlaneNext == ASSUME PlaneInv, Plane!Next \/ UNCHANGED planeVars PROVE PlaneInv'
<1>1. CASE Plane!Next
  BY <1>1, PlaneStep
<1>2. CASE UNCHANGED planeVars
  BY <1>2 DEF planeVars, PlaneInv, PlaneShape, ReadsInOrder, LooksInOrder
<1> QED
  BY <1>1, <1>2

LEMMA PlaneCardinality == ASSUME NEW S PROVE Plane!Cardinality(S) = Cardinality(S)
BY DEF Cardinality, Plane!Cardinality

\* That nothing waits is said of a list that was read, and has nothing that waits.
LEMMA PlaneIsEmpty == ASSUME PlaneInv PROVE Plane!EmptyOnlyIfRead
<1> SUFFICES ASSUME Plane!Queue = "no pending decisions"
             PROVE  list # None /\ \A r \in PlaneRows : list.rows[r] # "attention"
  BY Zenon DEF Plane!EmptyOnlyIfRead
<1>1. list # None /\ Plane!Count("attention") = 0
  BY DEF Plane!Queue
<1> DEFINE waiting == {r \in Plane!Listed(list) : list.rows[r] = "attention"}
<1>2. waiting \subseteq PlaneRows
  BY Zenon DEF Plane!Listed
<1>3. IsFiniteSet(waiting)
  BY Zenon, <1>2, FS_Subset, PlaneAssumption
<1>4. Cardinality(waiting) = 0
  BY Zenon, <1>1, PlaneCardinality DEF Plane!Count
<1>5. waiting = {}
  BY <1>3, <1>4, FS_EmptySet, Zenon
<1> QED
  BY Zenon, <1>1, <1>5 DEF Plane!Listed

-----------------------------------------------------------------------------
(* The picture of the computer. *)

LEMMA ComputerInitInv == ASSUME Computer!Init PROVE ComputerInv
<1>1. link = <<>> /\ viewer = <<>> /\ Len(<<>>) = 0 /\ DOMAIN <<>> = 1..0 /\ SeqOf(<<>>)
  BY DEF Computer!Init, SeqOf
<1>2. computerUi = [active |-> TRUE, blocked |-> FALSE, started |-> FALSE, effect |-> FALSE, renewing |-> FALSE,
           socket |-> 0, connected |-> FALSE, controlling |-> FALSE, pending |-> FALSE, paused |-> FALSE, frame |-> FALSE]
  BY DEF Computer!Init
<1>3. DOMAIN computerUi = ComputerFields
  BY <1>2 DEF ComputerFields
<1> QED
  BY <1>1, <1>2, <1>3 DEF ComputerInv, ComputerShape, NothingUnconnected

\* What the answers say when one more comes, and when the first is heard.
LEMMA SaysMore ==
  ASSUME NEW q, SeqOf(q), NEW m, NEW on, NEW off, NEW flag
  PROVE  Computer!Says(Append(q, m), on, off, flag) <=>
           m \in on \/ (m \notin off /\ Computer!Says(q, on, off, flag))
<1> DEFINE p == Append(q, m)
<1>1. Len(q) \in Nat /\ DOMAIN q = 1..Len(q) /\ DOMAIN p = 1..(Len(q) + 1)
  BY DEF SeqOf
<1>2. p[Len(q) + 1] = m /\ \A n \in 1..Len(q) : p[n] = q[n]
  BY DEF SeqOf
<1> HIDE DEF p
<1>3. CASE m \in on
  BY <1>1, <1>2, <1>3 DEF Computer!Says, p
<1>4. CASE m \notin on /\ m \in off
  BY <1>1, <1>2, <1>4 DEF Computer!Says, p
<1>5. CASE m \notin on /\ m \notin off
  BY <1>1, <1>2, <1>5 DEF Computer!Says, p
<1> QED
  BY <1>3, <1>4, <1>5

LEMMA SaysLess ==
  ASSUME NEW q, SeqOf(q), q # <<>>, NEW on, NEW off, on \cap off = {}, NEW flag, NEW later,
         q[1] \in on => later, q[1] \in off => ~later, q[1] \notin on \cup off => (later <=> flag)
  PROVE  Computer!Says(Tail(q), on, off, later) <=> Computer!Says(q, on, off, flag)
<1> DEFINE p == Tail(q)
<1>1. /\ Len(q) \in Nat \ {0} /\ DOMAIN q = 1..Len(q) /\ DOMAIN p = 1..(Len(q) - 1)
      /\ \A k \in 1..(Len(q) - 1) : p[k] = q[k + 1]
  BY SeqLessFirst DEF SeqOf
<1> HIDE DEF p
<1>2. ASSUME Computer!Says(p, on, off, later) PROVE Computer!Says(q, on, off, flag)
  <2>1. CASE later /\ \A k \in DOMAIN p : p[k] \notin off
    <3>1. \A k \in DOMAIN q : k > 1 => q[k] = p[k - 1] /\ k - 1 \in DOMAIN p
      BY <1>1
    <3>2. CASE q[1] \in on
      BY <1>1, <2>1, <3>1, <3>2 DEF Computer!Says
    <3>3. CASE q[1] \notin on
      BY <1>1, <2>1, <3>1, <3>3 DEF Computer!Says
    <3> QED
      BY <3>2, <3>3
  <2>2. ASSUME NEW n \in DOMAIN p, p[n] \in on, \A k \in DOMAIN p : k > n => p[k] \notin off
        PROVE  Computer!Says(q, on, off, flag)
    <3>1. n + 1 \in DOMAIN q /\ q[n + 1] \in on
      BY <1>1, <2>2
    <3>2. \A k \in DOMAIN q : k > n + 1 => q[k] = p[k - 1] /\ k - 1 \in DOMAIN p /\ k - 1 > n
      BY <1>1
    <3> QED
      BY <2>2, <3>1, <3>2 DEF Computer!Says
  <2> QED
    BY <1>1, <1>2, <2>1, <2>2 DEF Computer!Says
<1>3. ASSUME Computer!Says(q, on, off, flag) PROVE Computer!Says(p, on, off, later)
  <2>0. 1 \in DOMAIN q /\ \A k \in DOMAIN p : k + 1 \in DOMAIN q /\ k \in Nat /\ k > 0 /\ p[k] = q[k + 1]
    BY <1>1
  <2>1. CASE flag /\ \A k \in DOMAIN q : k > 0 => q[k] \notin off
    <3>1. later /\ \A k \in DOMAIN p : p[k] \notin off
      BY <2>0, <2>1
    <3> QED
      BY <3>1 DEF Computer!Says
  <2>2. ASSUME NEW n \in DOMAIN q, q[n] \in on, \A k \in DOMAIN q : k > n => q[k] \notin off
        PROVE  Computer!Says(p, on, off, later)
    <3>1. CASE n = 1
      <4>1. later /\ \A k \in DOMAIN p : p[k] \notin off
        BY <1>1, <2>0, <2>2, <3>1
      <4> QED
        BY <4>1 DEF Computer!Says
    <3>2. CASE n # 1
      <4>1. n - 1 \in DOMAIN p /\ p[n - 1] \in on
        BY <1>1, <2>2, <3>2
      <4>2. \A k \in DOMAIN p : k > n - 1 => p[k] \notin off
        BY <1>1, <2>0, <2>2
      <4> QED
        BY <4>1, <4>2 DEF Computer!Says
    <3> QED
      BY <3>1, <3>2
  <2> QED
    BY <1>3, <2>1, <2>2 DEF Computer!Says
<1> QED
  BY <1>2, <1>3 DEF p

\* Nothing of what comes turns the flag.
LEMMA SaysNothing ==
  ASSUME NEW q, NEW on, NEW off, NEW flag, \A n \in DOMAIN q : q[n] \notin on \cup off
  PROVE  Computer!Says(q, on, off, flag) <=> flag
BY DEF Computer!Says

LEMMA NobodyIs == Computer!Nobody.over = FALSE /\ DOMAIN Computer!Nobody = {"over", "none"}
BY DEF Computer!Nobody

LEMMA SocketInHand ==
  ASSUME ComputerInv, NEW s \in 1..Len(link)
  PROVE  /\ LinkShape(link[s], viewer[s]) /\ KeysAreKnown(viewer[s])
         /\ computerUi.effect /\ computerUi.socket = s => SocketFits(computerUi, link[s], viewer[s])
BY DEF ComputerInv, ComputerShape

\* A step changes one socket or its viewer, and the panel.
LEMMA OneLink ==
  ASSUME ComputerInv, NEW s \in 1..Len(link), NEW l, NEW v,
         link' = [link EXCEPT ![s] = l], viewer' = [viewer EXCEPT ![s] = v],
         LinkShape(l, v), KeysAreKnown(v),
         DOMAIN computerUi' = ComputerFields, computerUi'.socket \in {computerUi.socket, 0},
         NothingUnconnected(computerUi'),
         computerUi'.effect /\ computerUi'.socket = s => SocketFits(computerUi', l, v),
         computerUi'.effect /\ computerUi'.socket \notin {0, s} =>
            SocketFits(computerUi', link[computerUi.socket], viewer[computerUi.socket])
  PROVE  ComputerInv'
<1>1. SeqOf(link) /\ SeqOf(viewer) /\ Len(viewer) = Len(link)
  BY DEF ComputerInv, ComputerShape
<1>2. Changed(link', link, s, l)
  BY <1>1, SeqReplaced, Zenon
<1>3. Changed(viewer', viewer, s, v)
  BY <1>1, SeqReplaced, Zenon
<1>4. ComputerShape'
  BY <1>1, <1>2, <1>3 DEF ComputerInv, ComputerShape, Changed
<1>5. computerUi.socket \in 0..Len(link)
  BY DEF ComputerInv, ComputerShape
<1> QED
  BY <1>2, <1>3, <1>4, <1>5 DEF ComputerInv, Changed

LEMMA NoLink ==
  ASSUME ComputerInv, UNCHANGED <<link, viewer>>,
         DOMAIN computerUi' = ComputerFields, computerUi'.socket \in {computerUi.socket, 0},
         NothingUnconnected(computerUi'),
         computerUi'.effect /\ computerUi'.socket # 0 =>
            SocketFits(computerUi', link[computerUi.socket], viewer[computerUi.socket])
  PROVE  ComputerInv'
BY DEF ComputerInv, ComputerShape

LEMMA NewLink ==
  ASSUME ComputerInv, NEW u, Computer!Opened(u), DOMAIN u = ComputerFields, NothingUnconnected(u),
         ~u.renewing, ~u.connected
  PROVE  ComputerInv'
<1> DEFINE l == [state |-> "opening", up |-> <<>>, down |-> <<>>]
<1>1. /\ computerUi' = [u EXCEPT !.socket = Len(link) + 1]
      /\ link' = Append(link, l) /\ viewer' = Append(viewer, Computer!Nobody)
  BY DEF Computer!Opened
<1>2. SeqOf(link) /\ SeqOf(viewer) /\ Len(viewer) = Len(link)
  BY DEF ComputerInv, ComputerShape
<1>3. LinkShape(l, Computer!Nobody) /\ l.state = "opening" /\ l.up = <<>>
  BY DEF LinkShape, SeqOf
<1> HIDE DEF l
<1>4. /\ SeqOf(link') /\ Len(link') = Len(link) + 1 /\ Len(link) \in Nat /\ link'[Len(link) + 1] = l
      /\ \A t \in 1..Len(link) : link'[t] = link[t]
  BY <1>1, <1>2, SeqAppended
<1>5. /\ SeqOf(viewer') /\ Len(viewer') = Len(link) + 1 /\ viewer'[Len(link) + 1] = Computer!Nobody
      /\ \A t \in 1..Len(link) : viewer'[t] = viewer[t]
  BY <1>1, <1>2, SeqAppended
<1>6. /\ DOMAIN computerUi' = ComputerFields /\ computerUi'.socket = Len(link) + 1
      /\ computerUi'.connected = u.connected /\ computerUi'.started = u.started
      /\ computerUi'.controlling = u.controlling /\ computerUi'.frame = u.frame
      /\ computerUi'.renewing = u.renewing
  BY <1>1 DEF ComputerFields
<1>7. NothingUnconnected(computerUi')
  BY <1>6 DEF NothingUnconnected
<1>8. SocketFits(computerUi', l, Computer!Nobody)
  BY <1>3, <1>6 DEF SocketFits, Unheard, Serving
<1>9. KeysAreKnown(Computer!Nobody)
  BY DEF KeysAreKnown
<1>10. ComputerShape'
  BY <1>2, <1>3, <1>4, <1>5, <1>6, <1>9 DEF ComputerInv, ComputerShape
<1> QED
  BY <1>4, <1>5, <1>6, <1>7, <1>8, <1>10 DEF ComputerInv

LEMMA AppendsOne == ASSUME NEW q, SeqOf(q) PROVE q \o <<>> = q /\ \A a : q \o <<a>> = Append(q, a)
<1>1. q \in Seq({q[k] : k \in 1..Len(q)})
  BY DEF SeqOf
<1>2. q \o <<>> = q
  BY <1>1
<1>3. ASSUME NEW a PROVE q \o <<a>> = Append(q, a)
  <2>1. PICK T : T = {q[k] : k \in 1..Len(q)} \cup {a}
    OBVIOUS
  <2>2. q \in Seq(T) /\ a \in T
    BY <1>1, <2>1
  <2> QED
    BY <2>2
<1> QED
  BY <1>2, <1>3

\* What the panel sends is there for the host, if the socket is open.
LEMMA SentIs ==
  ASSUME ComputerInv, NEW s \in 1..Len(link), NEW ms \in Seq(Ups)
  PROVE  \E l : /\ Computer!Sent(s, ms) = [link EXCEPT ![s] = l] /\ LinkShape(l, viewer[s])
                /\ l.state = link[s].state /\ l.down = link[s].down
                /\ link[s].state # "open" => l = link[s]
                /\ \A n \in DOMAIN link[s].up : n \in DOMAIN l.up /\ l.up[n] = link[s].up[n]
<1>1. LinkShape(link[s], viewer[s]) /\ SeqOf(link)
  BY SocketInHand DEF ComputerInv, ComputerShape
<1>2. CASE link[s].state = "open"
  <2>1. PICK up : up = link[s].up \o ms
    OBVIOUS
  <2>2. up \in Seq(Ups) /\ \A n \in DOMAIN link[s].up : n \in DOMAIN up /\ up[n] = link[s].up[n]
    BY <1>1, <2>1 DEF LinkShape
  <2>3. PICK l : l = [link[s] EXCEPT !.up = up]
    OBVIOUS
  <2>4. DOMAIN l = {"state", "up", "down"} /\ l.up = up /\ l.state = link[s].state /\ l.down = link[s].down
    BY <1>1, <2>3 DEF LinkShape
  <2>5. LinkShape(l, viewer[s])
    BY <1>1, <1>2, <2>2, <2>4 DEF LinkShape
  <2>6. Computer!Sent(s, ms) = [link EXCEPT ![s] = l]
    BY <1>2, <2>1, <2>3 DEF Computer!Sent
  <2> QED
    BY <1>2, <2>2, <2>4, <2>5, <2>6
<1>3. CASE link[s].state # "open"
  <2>1. Computer!Sent(s, ms) = link
    BY <1>3 DEF Computer!Sent
  <2>2. [link EXCEPT ![s] = link[s]] = link
    BY <1>1 DEF SeqOf
  <2> QED
    BY <1>1, <2>1, <2>2
<1> QED
  BY <1>2, <1>3

LEMMA ClosedIs ==
  ASSUME NEW links, SeqOf(links), NEW s \in 1..Len(links), NEW v, LinkShape(links[s], v)
  PROVE  \E l : /\ Computer!CloseOf(links, s) = [links EXCEPT ![s] = l] /\ LinkShape(l, v) /\ l.state = "closed"
<1>1. PICK l : l = [links[s] EXCEPT !.state = "closed"]
  OBVIOUS
<1>2. l.state = "closed" /\ LinkShape(l, v)
  BY <1>1 DEF LinkShape
<1>3. s # 0 /\ Computer!CloseOf(links, s) = [links EXCEPT ![s] = l]
  BY <1>1 DEF Computer!CloseOf, SeqOf
<1> QED
  BY <1>2, <1>3

\* The viewer of a socket that the panel writes to stays.
LEMMA ViewerStays ==
  ASSUME ComputerInv, NEW s \in 1..Len(link), UNCHANGED viewer
  PROVE  viewer' = [viewer EXCEPT ![s] = viewer[s]]
BY DEF ComputerInv, ComputerShape, SeqOf

\* A socket takes what the panel sends; whatever it said before, it says.
LEMMA PanelSends ==
  ASSUME ComputerInv, NEW ms \in Seq(Ups), link' = Computer!Sent(computerUi.socket, ms), UNCHANGED viewer,
         computerUi' = computerUi \/ computerUi' = Computer!Awaiting(computerUi), computerUi.connected
  PROVE  ComputerInv'
<1> DEFINE s == computerUi.socket
<1>1. /\ DOMAIN computerUi' = ComputerFields /\ computerUi'.socket = s
      /\ computerUi'.connected = computerUi.connected /\ computerUi'.started = computerUi.started
      /\ computerUi'.controlling = computerUi.controlling /\ computerUi'.paused = computerUi.paused
      /\ computerUi'.effect = computerUi.effect /\ computerUi'.frame = computerUi.frame
      /\ computerUi'.active = computerUi.active /\ computerUi'.blocked = computerUi.blocked
      /\ computerUi'.renewing = computerUi.renewing
  BY DEF Computer!Awaiting, ComputerInv, ComputerShape, ComputerFields
<1>2. NothingUnconnected(computerUi')
  BY <1>1 DEF NothingUnconnected, ComputerInv
<1>3. CASE s = 0
  <2>1. link' = link
    BY <1>3 DEF Computer!Sent
  <2> QED
    BY <1>1, <1>2, <1>3, <2>1, NoLink
<1>4. CASE s # 0
  <2>1. s \in 1..Len(link)
    BY <1>4 DEF ComputerInv, ComputerShape, SeqOf
  <2>2. PICK l : /\ Computer!Sent(s, ms) = [link EXCEPT ![s] = l] /\ LinkShape(l, viewer[s])
                 /\ l.state = link[s].state /\ l.down = link[s].down
                 /\ link[s].state # "open" => l = link[s]
                 /\ \A n \in DOMAIN link[s].up : n \in DOMAIN l.up /\ l.up[n] = link[s].up[n]
    BY <2>1, SentIs
  <2>3. KeysAreKnown(viewer[s]) /\ (computerUi.effect => SocketFits(computerUi, link[s], viewer[s]))
    BY <2>1, SocketInHand
  <2>4. computerUi'.effect => SocketFits(computerUi', l, viewer[s])
    BY <1>1, <2>2, <2>3 DEF SocketFits, Serving, Computer!Watched
  <2> QED
    BY <1>1, <1>2, <2>1, <2>2, <2>3, <2>4, ViewerStays, OneLink
<1> QED
  BY <1>3, <1>4

\* The cleanup of the effect.
LEMMA PanelCleans ==
  ASSUME ComputerInv, NEW u, computerUi' = Computer!CleanOf(u), DOMAIN u = ComputerFields, NothingUnconnected(u),
         Computer!Cleaned, UNCHANGED viewer
  PROVE  ComputerInv'
<1> DEFINE s == computerUi.socket
<1>1. /\ DOMAIN computerUi' = ComputerFields /\ computerUi'.socket = 0 /\ computerUi'.effect = FALSE
      /\ computerUi'.connected = u.connected /\ computerUi'.started = u.started
      /\ computerUi'.controlling = u.controlling /\ computerUi'.frame = u.frame /\ computerUi'.renewing = FALSE
  BY DEF Computer!CleanOf, ComputerFields
<1>2. NothingUnconnected(computerUi')
  BY <1>1 DEF NothingUnconnected
<1>3. CASE s = 0
  <2>1. link' = link
    BY <1>3 DEF Computer!Sent, Computer!Cleaned, Computer!CloseOf
  <2> QED
    BY <1>1, <1>2, <2>1, NoLink
<1>4. CASE s # 0
  <2>1. s \in 1..Len(link) /\ SeqOf(link)
    BY <1>4 DEF ComputerInv, ComputerShape, SeqOf
  <2>2. PICK l : Computer!Sent(s, <<"release", "pause">>) = [link EXCEPT ![s] = l] /\ LinkShape(l, viewer[s])
    <3>1. <<"release", "pause">> \in Seq(Ups)
      BY DEF Ups
    <3> QED
      BY <2>1, <3>1, SentIs
  <2>3. PICK links : links = [link EXCEPT ![s] = l]
    OBVIOUS
  <2>4. Changed(links, link, s, l)
    BY <2>1, <2>3, SeqReplaced, Zenon
  <2>5. PICK c : Computer!CloseOf(links, s) = [links EXCEPT ![s] = c] /\ LinkShape(c, viewer[s])
    <3>1. SeqOf(links) /\ s \in 1..Len(links) /\ LinkShape(links[s], viewer[s])
      BY <2>1, <2>2, <2>4 DEF Changed
    <3> QED
      BY <3>1, ClosedIs, Zenon
  <2>6. link' = [link EXCEPT ![s] = c]
    BY <2>1, <2>2, <2>3, <2>5 DEF Computer!Cleaned, SeqOf
  <2> QED
    BY <1>1, <1>2, <2>1, <2>5, <2>6, ViewerStays, OneLink, SocketInHand
<1> QED
  BY <1>3, <1>4

LEMMA PanelShape ==
  ASSUME ComputerInv
  PROVE  DOMAIN computerUi = ComputerFields /\ NothingUnconnected(computerUi) /\ computerUi.socket \in 0..Len(link)
BY DEF ComputerInv, ComputerShape

LEMMA StopsAre ==
  ASSUME NEW u, DOMAIN u = ComputerFields, u.renewing => u.effect
  PROVE  /\ DOMAIN Computer!StopOf(u) = ComputerFields /\ NothingUnconnected(Computer!StopOf(u))
         /\ Computer!StopOf(u).socket = u.socket /\ Computer!StopOf(u).started = FALSE
         /\ Computer!StopOf(u).blocked = u.blocked
BY DEF Computer!StopOf, NothingUnconnected, ComputerFields

LEMMA PanelClicks ==
  ASSUME ComputerInv, Computer!watch \/ Computer!toggleControl \/ Computer!togglePause \/ Computer!key
  PROVE  ComputerInv'
<1>1. CASE Computer!watch
  <2>1. PICK u : u = [computerUi EXCEPT !.blocked = FALSE, !.started = TRUE, !.effect = TRUE]
    OBVIOUS
  <2>2. DOMAIN u = ComputerFields /\ NothingUnconnected(u) /\ ~u.renewing /\ ~u.connected
    BY <1>1, <2>1, PanelShape DEF ComputerFields, NothingUnconnected, Computer!watch
  <2>3. Computer!Opened(u)
    BY <1>1, <2>1 DEF Computer!watch
  <2> QED
    BY <2>2, <2>3, NewLink
<1>2. CASE Computer!toggleControl
  <2>1. PICK ms \in Seq(Ups) : link' = Computer!Sent(computerUi.socket, ms)
    <3>1. <<IF computerUi.controlling THEN "watch" ELSE "control">> \in Seq(Ups)
      BY DEF Ups
    <3> QED
      BY <1>2, <3>1 DEF Computer!toggleControl
  <2>2. computerUi.connected /\ computerUi' = Computer!Awaiting(computerUi) /\ UNCHANGED viewer
    BY <1>2 DEF Computer!toggleControl
  <2> QED
    BY <2>1, <2>2, PanelSends
<1>3. CASE Computer!togglePause
  <2>1. PICK ms \in Seq(Ups) : link' = Computer!Sent(computerUi.socket, ms)
    <3>1. <<IF computerUi.paused THEN "resume" ELSE "pause">> \in Seq(Ups)
      BY DEF Ups
    <3> QED
      BY <1>3, <3>1 DEF Computer!togglePause
  <2>2. computerUi.connected /\ computerUi' = computerUi /\ UNCHANGED viewer
    BY <1>3 DEF Computer!togglePause
  <2> QED
    BY <2>1, <2>2, PanelSends
<1>4. CASE Computer!key
  <2>1. PICK ms \in Seq(Ups) : link' = Computer!Sent(computerUi.socket, ms)
    <3>1. \A m \in {"key", "release"} : <<m>> \in Seq(Ups)
      BY DEF Ups
    <3> QED
      BY <1>4, <3>1 DEF Computer!key
  <2>2. computerUi.connected /\ computerUi' = computerUi /\ UNCHANGED viewer
    BY <1>4, PanelShape DEF Computer!key, NothingUnconnected
  <2> QED
    BY <2>1, <2>2, PanelSends
<1> QED
  BY <1>1, <1>2, <1>3, <1>4

LEMMA PanelEnds ==
  ASSUME ComputerInv, Computer!stop \/ Computer!cleanUp
  PROVE  ComputerInv'
<1>1. PICK u : computerUi' = Computer!CleanOf(u) /\ DOMAIN u = ComputerFields /\ NothingUnconnected(u)
  <2>1. CASE computerUi' = Computer!CleanOf(Computer!StopOf(computerUi))
    BY <2>1, PanelShape, StopsAre DEF NothingUnconnected
  <2>2. CASE ~computerUi.connected /\ computerUi' = Computer!CleanOf([computerUi EXCEPT !.started = FALSE])
    <3>1. PICK u : u = [computerUi EXCEPT !.started = FALSE]
      OBVIOUS
    <3>2. DOMAIN u = ComputerFields /\ NothingUnconnected(u)
      BY <2>2, <3>1, PanelShape DEF ComputerFields, NothingUnconnected
    <3> QED
      BY <2>2, <3>1, <3>2
  <2>3. CASE computerUi' = Computer!CleanOf(computerUi)
    BY <2>3, PanelShape
  <2> QED
    BY <2>1, <2>2, <2>3 DEF Computer!stop, Computer!cleanUp
<1>2. Computer!Cleaned /\ UNCHANGED viewer
  BY DEF Computer!stop, Computer!cleanUp
<1> QED
  BY <1>1, <1>2, PanelCleans

LEMMA PanelIsLocked ==
  ASSUME ComputerInv, Computer!lock
  PROVE  ComputerInv'
<1>1. PICK u : u = [computerUi EXCEPT !.blocked = TRUE]
  OBVIOUS
<1>2. DOMAIN u = ComputerFields /\ u.socket = computerUi.socket /\ (u.renewing => u.effect)
  BY <1>1, PanelShape DEF ComputerFields, NothingUnconnected
<1>3. computerUi' = Computer!StopOf(u) /\ link' = Computer!CloseOf(link, computerUi.socket) /\ UNCHANGED viewer
  BY <1>1 DEF Computer!lock
<1>4. DOMAIN computerUi' = ComputerFields /\ NothingUnconnected(computerUi') /\ computerUi'.socket = computerUi.socket
  BY <1>2, <1>3, StopsAre
<1>5. CASE computerUi.socket = 0
  BY <1>3, <1>4, <1>5, NoLink DEF Computer!CloseOf
<1>6. CASE computerUi.socket # 0
  <2>1. PICK s : s = computerUi.socket
    OBVIOUS
  <2>2. s \in 1..Len(link) /\ SeqOf(link)
    BY <1>6, <2>1 DEF ComputerInv, ComputerShape, SeqOf
  <2>3. LinkShape(link[s], viewer[s]) /\ KeysAreKnown(viewer[s])
    BY <2>2, SocketInHand
  <2>4. PICK c : Computer!CloseOf(link, s) = [link EXCEPT ![s] = c] /\ LinkShape(c, viewer[s]) /\ c.state = "closed"
    BY <2>2, <2>3, ClosedIs, Zenon
  <2>5. SocketFits(computerUi', c, viewer[s])
    BY <2>4 DEF SocketFits, Serving
  <2> QED
    BY <1>3, <1>4, <2>1, <2>2, <2>3, <2>4, <2>5, ViewerStays, OneLink
<1> QED
  BY <1>5, <1>6

LEMMA PanelIsLeft ==
  ASSUME ComputerInv, Computer!blur \/ Computer!focus
  PROVE  ComputerInv'
<1>1. PICK on : computerUi' = [computerUi EXCEPT !.active = on] /\ (on => ~computerUi.effect)
  BY DEF Computer!blur, Computer!focus
<1>2. /\ DOMAIN computerUi' = ComputerFields /\ computerUi'.socket = computerUi.socket /\ computerUi'.active = on
      /\ computerUi'.effect = computerUi.effect /\ computerUi'.started = computerUi.started
      /\ computerUi'.connected = computerUi.connected /\ computerUi'.controlling = computerUi.controlling
      /\ computerUi'.frame = computerUi.frame /\ computerUi'.renewing = computerUi.renewing
  BY <1>1, PanelShape DEF ComputerFields
<1>3. NothingUnconnected(computerUi') /\ UNCHANGED <<link, viewer>>
  BY <1>2, PanelShape DEF NothingUnconnected, Computer!blur, Computer!focus
<1>4. ASSUME computerUi'.effect, computerUi'.socket # 0
      PROVE  SocketFits(computerUi', link[computerUi.socket], viewer[computerUi.socket])
  BY <1>1, <1>2, <1>4 DEF ComputerInv, SocketFits, Computer!Watched
<1> QED
  BY <1>2, <1>3, <1>4, NoLink

LEMMA ShownIs ==
  ASSUME NEW u, DOMAIN u = ComputerFields,
         NEW m \in {"frame", "paused", "resumed", "hello", "control", "watch", "denied"},
         NEW w, w = Computer!Shown(u, m)
  PROVE  /\ DOMAIN w = ComputerFields /\ w.socket = u.socket /\ w.effect = u.effect /\ w.started = u.started
         /\ w.connected = u.connected /\ w.active = u.active /\ w.blocked = u.blocked /\ w.renewing = u.renewing
         /\ Computer!Watched(u) =>
              /\ m \in Ctrl => w.controlling
              /\ m \in NoCtrl => ~w.controlling
              /\ m \notin Ctrl \cup NoCtrl => w.controlling = u.controlling
              /\ m \in {"paused"} => w.paused
              /\ m \in {"resumed"} => ~w.paused
              /\ m \notin {"paused", "resumed"} => w.paused = u.paused
<1>1. CASE ~Computer!Watched(u)
  BY <1>1 DEF Computer!Shown
<1>2. CASE Computer!Watched(u) /\ m = "frame"
  BY <1>2 DEF Computer!Shown, ComputerFields, Ctrl, NoCtrl
<1>3. CASE Computer!Watched(u) /\ m = "paused"
  BY <1>3 DEF Computer!Shown, ComputerFields, Ctrl, NoCtrl
<1>4. CASE Computer!Watched(u) /\ m = "resumed"
  BY <1>4 DEF Computer!Shown, ComputerFields, Ctrl, NoCtrl
<1>5. CASE Computer!Watched(u) /\ m \in {"hello", "control", "watch", "denied"}
  BY <1>5 DEF Computer!Shown, ComputerFields, Ctrl, NoCtrl
<1> QED
  BY <1>1, <1>2, <1>3, <1>4, <1>5

\* The first message of the socket in hand goes.
LEMMA ArrivedIs ==
  ASSUME ComputerInv, Computer!Heard, NEW s, s = computerUi.socket
  PROVE  /\ s \in 1..Len(link) /\ computerUi.effect /\ Head(link[s].down) = link[s].down[1] /\ SeqOf(link)
         /\ LinkShape(link[s], viewer[s]) /\ KeysAreKnown(viewer[s]) /\ SocketFits(computerUi, link[s], viewer[s])
         /\ link[s].down # <<>> /\ link[s].state # "opening" /\ SeqOf(link[s].down)
         /\ \E l : /\ Computer!Arrived = [link EXCEPT ![s] = l] /\ LinkShape(l, viewer[s])
                   /\ l.state = link[s].state /\ l.up = link[s].up /\ l.down = Tail(link[s].down)
<1>1. s \in 1..Len(link) /\ computerUi.effect /\ link[s].down # <<>> /\ SeqOf(link)
  BY DEF Computer!Heard, ComputerInv, ComputerShape, SeqOf
<1>2. LinkShape(link[s], viewer[s]) /\ KeysAreKnown(viewer[s]) /\ SocketFits(computerUi, link[s], viewer[s])
  BY <1>1, SocketInHand
<1>3. link[s].state # "opening" /\ SeqOf(link[s].down)
  BY <1>1, <1>2 DEF LinkShape
<1>4. PICK l : l = [link[s] EXCEPT !.down = Tail(@)]
  OBVIOUS
<1>5. Computer!Arrived = [link EXCEPT ![s] = l]
  BY <1>4 DEF Computer!Arrived
<1>6. PICK rest : rest = Tail(link[s].down)
  OBVIOUS
<1>7. SeqOf(rest) /\ Head(link[s].down) = link[s].down[1]
  BY <1>1, <1>3, <1>6, SeqLessFirst
<1>8. l.state = link[s].state /\ l.up = link[s].up /\ l.down = rest /\ DOMAIN l = {"state", "up", "down"}
  BY <1>2, <1>4, <1>6 DEF LinkShape
<1>9. LinkShape(l, viewer[s])
  BY <1>2, <1>3, <1>7, <1>8 DEF LinkShape
<1> QED
  BY <1>1, <1>2, <1>3, <1>5, <1>6, <1>7, <1>8, <1>9

LEMMA PanelHears ==
  ASSUME ComputerInv, Computer!hear, Head(link[computerUi.socket].down) # "open"
  PROVE  ComputerInv'
<1>1. PICK s : s = computerUi.socket
  OBVIOUS
<1> DEFINE d == link[s].down
           v == viewer[s]
<1>2. /\ Computer!Heard /\ link[s].state # "closed" /\ UNCHANGED viewer
      /\ computerUi' = Computer!Shown(computerUi, Head(d)) /\ link' = Computer!Arrived
  BY <1>1 DEF Computer!hear
<1>3. /\ s \in 1..Len(link) /\ computerUi.effect /\ Head(d) = d[1] /\ SeqOf(link)
      /\ LinkShape(link[s], v) /\ KeysAreKnown(v) /\ SocketFits(computerUi, link[s], v)
      /\ d # <<>> /\ link[s].state # "opening" /\ SeqOf(d)
  BY <1>1, <1>2, ArrivedIs
<1>4. PICK l : /\ Computer!Arrived = [link EXCEPT ![s] = l] /\ LinkShape(l, v)
               /\ l.state = link[s].state /\ l.up = link[s].up /\ l.down = Tail(d)
  BY <1>1, <1>2, ArrivedIs
<1>5. computerUi.started /\ link[s].state = "open"
  BY <1>2, <1>3 DEF LinkShape, SocketFits
<1>6. computerUi.connected /\ ~computerUi.renewing
  BY <1>1, <1>2, <1>3 DEF SocketFits, Unheard
<1>7. PICK m \in {"frame", "paused", "resumed", "hello", "control", "watch", "denied"} : m = d[1]
  BY <1>1, <1>3 DEF Computer!hear
<1>8. /\ DOMAIN computerUi' = ComputerFields /\ computerUi'.socket = s /\ computerUi'.effect
      /\ computerUi'.started /\ computerUi'.connected /\ ~computerUi'.renewing
      /\ computerUi'.active = computerUi.active /\ computerUi'.blocked = computerUi.blocked
      /\ Computer!Watched(computerUi) =>
            /\ m \in Ctrl => computerUi'.controlling
            /\ m \in NoCtrl => ~computerUi'.controlling
            /\ m \notin Ctrl \cup NoCtrl => computerUi'.controlling = computerUi.controlling
            /\ m \in {"paused"} => computerUi'.paused
            /\ m \in {"resumed"} => ~computerUi'.paused
            /\ m \notin {"paused", "resumed"} => computerUi'.paused = computerUi.paused
  BY <1>1, <1>2, <1>3, <1>5, <1>6, <1>7, PanelShape, ShownIs
<1>9. NothingUnconnected(computerUi')
  BY <1>8 DEF NothingUnconnected
<1>10. SocketFits(computerUi', l, v)
  <2>0. l.state # "opening"
    BY <1>3, <1>4
  <2>1. SUFFICES ASSUME Serving(l, v), Computer!Watched(computerUi')
                 PROVE  /\ Computer!Says(l.down, Ctrl, NoCtrl, computerUi'.controlling) <=> ~v.viewOnly
                        /\ Computer!Says(l.down, {"paused"}, {"resumed"}, computerUi'.paused) =>
                             ~v.resume \/ \E n \in DOMAIN l.up : l.up[n] = "pause"
    BY <1>8, <2>0 DEF SocketFits
  <2>2. Serving(link[s], v) /\ Computer!Watched(computerUi)
    BY <1>4, <1>8, <2>1 DEF Serving, Computer!Watched
  <2>3. Ctrl \cap NoCtrl = {}
    BY DEF Ctrl, NoCtrl
  <2>4. Computer!Says(Tail(d), Ctrl, NoCtrl, computerUi'.controlling)
           <=> Computer!Says(d, Ctrl, NoCtrl, computerUi.controlling)
    BY <1>3, <1>7, <1>8, <2>2, <2>3, SaysLess
  <2>5. Computer!Says(Tail(d), {"paused"}, {"resumed"}, computerUi'.paused)
           <=> Computer!Says(d, {"paused"}, {"resumed"}, computerUi.paused)
    <3>1. {"paused"} \cap {"resumed"} = {}
      OBVIOUS
    <3> QED
      BY <1>3, <1>7, <1>8, <2>2, <3>1, SaysLess
  <2>6. /\ Computer!Says(d, Ctrl, NoCtrl, computerUi.controlling) <=> ~v.viewOnly
        /\ Computer!Says(d, {"paused"}, {"resumed"}, computerUi.paused) =>
             ~v.resume \/ \E n \in DOMAIN link[s].up : link[s].up[n] = "pause"
    BY <1>3, <1>6, <2>2 DEF SocketFits
  <2> QED
    BY <1>4, <2>4, <2>5, <2>6
<1> HIDE DEF d, v
<1> QED
  BY <1>1, <1>2, <1>3, <1>4, <1>8, <1>9, <1>10, ViewerStays, OneLink DEF v

\* A socket opens under a panel that watches: the panel greets the host.
LEMMA PanelIsConnected ==
  ASSUME ComputerInv, Computer!hear, Head(link[computerUi.socket].down) = "open", computerUi.active
  PROVE  ComputerInv'
<1>1. PICK s : s = computerUi.socket
  OBVIOUS
<1> DEFINE d == link[s].down
           v == viewer[s]
<1>2. Computer!Heard /\ link[s].state # "closed" /\ UNCHANGED viewer
  BY <1>1 DEF Computer!hear
<1>3. /\ s \in 1..Len(link) /\ computerUi.effect /\ Head(d) = d[1] /\ SeqOf(link)
      /\ LinkShape(link[s], v) /\ KeysAreKnown(v) /\ SocketFits(computerUi, link[s], v)
      /\ d # <<>> /\ link[s].state # "opening" /\ SeqOf(d)
  BY <1>1, <1>2, ArrivedIs
<1>4. PICK l : /\ Computer!Arrived = [link EXCEPT ![s] = l] /\ LinkShape(l, v)
               /\ l.state = link[s].state /\ l.up = link[s].up /\ l.down = Tail(d)
  BY <1>1, <1>2, ArrivedIs
<1>5. PICK hi \in Seq(Ups) : /\ hi = Computer!Greetings(computerUi)
                             /\ computerUi.paused => 2 \in DOMAIN hi /\ hi[2] = "pause"
  <2>1. CASE computerUi.paused
    <3>1. <<"watch", "pause">> \in Seq(Ups)
      BY DEF Ups
    <3>2. PICK hi : hi = <<"watch", "pause">>
      OBVIOUS
    <3>3. hi \in Seq(Ups) /\ 2 \in DOMAIN hi /\ hi[2] = "pause"
      BY <3>1, <3>2
    <3>4. hi = Computer!Greetings(computerUi)
      BY <2>1, <3>2 DEF Computer!Greetings
    <3> QED
      BY <3>3, <3>4
  <2>2. CASE ~computerUi.paused
    <3>1. <<"watch">> \in Seq(Ups)
      BY DEF Ups
    <3> QED
      BY <2>2, <3>1 DEF Computer!Greetings
  <2> QED
    BY <2>1, <2>2
<1>6. PICK up : up = l.up \o hi
  OBVIOUS
<1>7. /\ up \in Seq(Ups) /\ \A n \in DOMAIN l.up : n \in DOMAIN up /\ up[n] = l.up[n]
      /\ l.up = <<>> => up = hi
  BY <1>4, <1>6 DEF LinkShape
<1>8. PICK k : k = [l EXCEPT !.up = up]
  OBVIOUS
<1>9. /\ k.state = l.state /\ k.up = up /\ k.down = l.down /\ DOMAIN k = {"state", "up", "down"}
      /\ LinkShape(k, v)
  BY <1>3, <1>4, <1>7, <1>8 DEF LinkShape
<1>10. link' = [link EXCEPT ![s] = k]
  BY <1>1, <1>3, <1>4, <1>5, <1>6, <1>8 DEF Computer!hear, SeqOf
<1>11. computerUi' = [computerUi EXCEPT !.connected = TRUE]
  BY <1>1, <1>2 DEF Computer!hear
<1>12. computerUi.started /\ ~computerUi.renewing
  BY <1>2, <1>3 DEF LinkShape, SocketFits
<1>13. /\ DOMAIN computerUi' = ComputerFields /\ computerUi'.socket = s /\ computerUi'.effect /\ computerUi'.connected
       /\ computerUi'.started /\ computerUi'.active = computerUi.active /\ computerUi'.blocked = computerUi.blocked
       /\ computerUi'.controlling = computerUi.controlling /\ computerUi'.paused = computerUi.paused
       /\ ~computerUi'.renewing
  BY <1>1, <1>3, <1>11, <1>12, PanelShape DEF ComputerFields
<1>14. NothingUnconnected(computerUi')
  BY <1>13 DEF NothingUnconnected
<1>15. SocketFits(computerUi', k, v)
  <2>0. k.state # "opening"
    BY <1>3, <1>4, <1>9
  <2>1. SUFFICES ASSUME Serving(k, v), Computer!Watched(computerUi')
                 PROVE  /\ Computer!Says(k.down, Ctrl, NoCtrl, computerUi'.controlling) <=> ~v.viewOnly
                        /\ Computer!Says(k.down, {"paused"}, {"resumed"}, computerUi'.paused) =>
                             ~v.resume \/ \E n \in DOMAIN k.up : k.up[n] = "pause"
    BY <1>13, <2>0 DEF SocketFits
  <2>2. Serving(link[s], v) /\ Computer!Watched(computerUi)
    BY <1>4, <1>9, <1>13, <2>1 DEF Serving, Computer!Watched
  <2>3. Computer!Says(Tail(d), Ctrl, NoCtrl, computerUi.controlling)
           <=> Computer!Says(d, Ctrl, NoCtrl, computerUi.controlling)
    <3>1. Ctrl \cap NoCtrl = {} /\ d[1] \notin Ctrl \cup NoCtrl
      BY <1>1, <1>3 DEF Ctrl, NoCtrl
    <3> QED
      BY <1>3, <3>1, SaysLess
  <2>4. Computer!Says(Tail(d), {"paused"}, {"resumed"}, computerUi.paused)
           <=> Computer!Says(d, {"paused"}, {"resumed"}, computerUi.paused)
    <3>1. {"paused"} \cap {"resumed"} = {} /\ d[1] \notin {"paused", "resumed"}
      BY <1>1, <1>3
    <3> QED
      BY <1>3, <3>1, SaysLess
  <2>5. Computer!Says(d, Ctrl, NoCtrl, computerUi.controlling) <=> ~v.viewOnly
    BY <1>3, <2>2 DEF SocketFits
  <2>6. CASE computerUi.connected
    <3>1. Computer!Says(d, {"paused"}, {"resumed"}, computerUi.paused) =>
             ~v.resume \/ \E n \in DOMAIN link[s].up : link[s].up[n] = "pause"
      BY <1>3, <2>2, <2>6 DEF SocketFits
    <3> QED
      BY <1>4, <1>7, <1>9, <1>13, <2>3, <2>4, <2>5, <3>1
  <2>7. CASE ~computerUi.connected
    <3>1. Unheard(link[s])
      BY <1>2, <1>3, <2>7 DEF SocketFits
    <3>2. link[s].up = <<>> /\ \A n \in DOMAIN d : d[n] \notin {"paused", "resumed"}
      BY <1>3, <3>1 DEF Unheard, Early
    <3>3. Computer!Says(d, {"paused"}, {"resumed"}, computerUi.paused) => computerUi.paused
      BY <3>2, SaysNothing
    <3> QED
      BY <1>4, <1>5, <1>7, <1>9, <1>13, <2>3, <2>4, <2>5, <3>2, <3>3
  <2> QED
    BY <2>6, <2>7
<1> HIDE DEF d, v
<1> QED
  BY <1>1, <1>2, <1>3, <1>9, <1>10, <1>13, <1>14, <1>15, ViewerStays, OneLink DEF v

\* The socket goes: it opened too late, or the host or the network ended it.
LEMMA PanelLosesIt ==
  ASSUME ComputerInv, Computer!Heard, link' = Computer!CloseOf(Computer!Arrived, computerUi.socket), UNCHANGED viewer,
         DOMAIN computerUi' = ComputerFields, NothingUnconnected(computerUi'), computerUi'.socket = computerUi.socket
  PROVE  ComputerInv'
<1>1. PICK s : s = computerUi.socket
  OBVIOUS
<1>2. s \in 1..Len(link) /\ SeqOf(link) /\ KeysAreKnown(viewer[s])
  BY <1>1, ArrivedIs
<1>3. PICK l : Computer!Arrived = [link EXCEPT ![s] = l] /\ LinkShape(l, viewer[s])
  BY <1>1, ArrivedIs
<1>4. PICK links : links = [link EXCEPT ![s] = l]
  OBVIOUS
<1>5. Changed(links, link, s, l)
  BY <1>2, <1>4, SeqReplaced, Zenon
<1>6. PICK c : /\ Computer!CloseOf(links, s) = [links EXCEPT ![s] = c] /\ LinkShape(c, viewer[s])
               /\ c.state = "closed"
  <2>1. SeqOf(links) /\ s \in 1..Len(links) /\ LinkShape(links[s], viewer[s])
    BY <1>2, <1>3, <1>5 DEF Changed
  <2>2. PICK v : v = viewer[s]
    OBVIOUS
  <2>3. LinkShape(links[s], v)
    BY <2>1, <2>2
  <2>4. \E c : /\ Computer!CloseOf(links, s) = [links EXCEPT ![s] = c] /\ LinkShape(c, v)
               /\ c.state = "closed"
    BY <2>1, <2>3, ClosedIs, Zenon
  <2> QED
    BY <2>2, <2>4
<1>7. link' = [link EXCEPT ![s] = c]
  BY <1>1, <1>2, <1>3, <1>4, <1>6 DEF SeqOf
<1>8. SocketFits(computerUi', c, viewer[s])
  BY <1>6 DEF SocketFits, Serving
<1> QED
  BY <1>1, <1>2, <1>6, <1>7, <1>8, ViewerStays, OneLink

LEMMA PanelListens ==
  ASSUME ComputerInv, Computer!hear \/ Computer!closed
  PROVE  ComputerInv'
<1>1. CASE Computer!hear /\ Head(link[computerUi.socket].down) = "open" /\ ~computerUi.active
  BY <1>1, PanelShape, PanelLosesIt DEF Computer!hear
<1>2. CASE Computer!closed
  <2>1. PICK u : u = [computerUi EXCEPT !.connected = FALSE, !.controlling = FALSE, !.pending = FALSE, !.frame = FALSE]
    OBVIOUS
  <2>2. /\ DOMAIN u = ComputerFields /\ NothingUnconnected(u) /\ u.socket = computerUi.socket /\ u.effect
        /\ DOMAIN [u EXCEPT !.renewing = TRUE] = ComputerFields /\ NothingUnconnected([u EXCEPT !.renewing = TRUE])
        /\ [u EXCEPT !.renewing = TRUE].socket = u.socket
    BY <1>2, <2>1, PanelShape DEF ComputerFields, NothingUnconnected, Computer!closed, Computer!Heard
  <2>3. computerUi' \in {u, [u EXCEPT !.renewing = TRUE], Computer!StopOf(u)}
    BY <1>2, <2>1 DEF Computer!closed
  <2>4. DOMAIN computerUi' = ComputerFields /\ NothingUnconnected(computerUi') /\ computerUi'.socket = computerUi.socket
    BY <2>2, <2>3, StopsAre
  <2> QED
    BY <1>2, <2>4, PanelLosesIt DEF Computer!closed
<1> QED
  BY <1>1, <1>2, PanelHears, PanelIsConnected DEF Computer!hear

LEMMA PanelRenews ==
  ASSUME ComputerInv, Computer!renewed
  PROVE  ComputerInv'
<1>1. PICK u : u = [computerUi EXCEPT !.renewing = FALSE]
  OBVIOUS
<1>2. /\ DOMAIN u = ComputerFields /\ NothingUnconnected(u) /\ u.socket = computerUi.socket /\ u.effect = computerUi.effect
      /\ u.started = computerUi.started /\ u.connected = computerUi.connected /\ u.active = computerUi.active
      /\ u.blocked = computerUi.blocked /\ u.controlling = computerUi.controlling /\ u.paused = computerUi.paused
      /\ ~u.renewing
  BY <1>1, PanelShape DEF ComputerFields, NothingUnconnected
<1>3. CASE Computer!Opened(u)
  <2>1. ~u.connected
    BY <1>2, PanelShape DEF Computer!renewed, NothingUnconnected
  <2> QED
    BY <1>2, <1>3, <2>1, NewLink
<1>4. CASE computerUi' = u /\ UNCHANGED <<link, viewer>>
  <2>1. ASSUME u.effect, u.socket # 0 PROVE SocketFits(u, link[computerUi.socket], viewer[computerUi.socket])
    BY <1>2, <2>1 DEF ComputerInv, SocketFits, Computer!Watched
  <2> QED
    BY <1>2, <1>4, <2>1, NoLink
<1> QED
  BY <1>1, <1>3, <1>4 DEF Computer!renewed

\* A step of the host on one socket; the panel does not change.
LEMMA HostStep ==
  ASSUME ComputerInv, UNCHANGED computerUi, NEW s \in 1..Len(link), NEW l, NEW v,
         link' = [link EXCEPT ![s] = l], viewer' = [viewer EXCEPT ![s] = v],
         LinkShape(l, v), KeysAreKnown(v),
         computerUi.effect /\ computerUi.socket = s => SocketFits(computerUi, l, v)
  PROVE  ComputerInv'
<1>1. computerUi.socket \in 0..Len(link) /\ DOMAIN computerUi = ComputerFields /\ NothingUnconnected(computerUi)
  BY PanelShape
<1>2. computerUi.effect /\ computerUi.socket \notin {0, s} =>
        SocketFits(computerUi, link[computerUi.socket], viewer[computerUi.socket])
  BY DEF ComputerInv
<1> QED
  BY <1>1, <1>2, OneLink

LEMMA LinksAre ==
  ASSUME ComputerInv
  PROVE  /\ Computer!Sockets = 1..Len(link) /\ DOMAIN link = 1..Len(link) /\ DOMAIN viewer = 1..Len(link)
         /\ Len(link) \in Nat
BY DEF ComputerInv, ComputerShape, Computer!Sockets, SeqOf

LEMMA HostAttaches ==
  ASSUME ComputerInv, NEW s \in 1..Len(link), Computer!attach(s)
  PROVE  ComputerInv'
<1>1. LinkShape(link[s], viewer[s]) /\ link[s].state = "opening" /\ viewer[s] = Computer!Nobody
  BY SocketInHand DEF Computer!attach
<1>2. PICK l : l = [link[s] EXCEPT !.state = "open", !.down = <<"open", "hello">>]
  OBVIOUS
<1>3. PICK d : d = <<"open", "hello">>
  OBVIOUS
<1>4. d # <<>> /\ DOMAIN d = {1, 2} /\ d[1] = "open" /\ d[2] = "hello" /\ SeqOf(d)
  <2>1. d \in Seq({"open", "hello"})
    BY <1>3
  <2>2. SeqOf(d)
    BY <2>1, SeqIsOf
  <2> QED
    BY <1>3, <2>2
<1>5. DOMAIN l = {"state", "up", "down"} /\ l.state = "open" /\ l.down = d /\ l.up = <<>>
  BY <1>1, <1>2, <1>3 DEF LinkShape
<1>6. PICK v : v = Computer!Fresh
  OBVIOUS
<1>7. /\ DOMAIN v = ViewerFields /\ ~v.over /\ v.viewOnly /\ v.resume /\ ~v.stop /\ ~v.held
      /\ v # Computer!Nobody
  BY <1>6, NobodyIs DEF Computer!Fresh, ViewerFields
<1>8. LinkShape(l, v) /\ KeysAreKnown(v)
  BY <1>1, <1>4, <1>5, <1>7 DEF LinkShape, KeysAreKnown
<1>9. link' = [link EXCEPT ![s] = l] /\ viewer' = [viewer EXCEPT ![s] = v] /\ UNCHANGED computerUi
  BY <1>2, <1>6, LinksAre DEF Computer!attach
<1>10. ASSUME computerUi.effect, computerUi.socket = s PROVE SocketFits(computerUi, l, v)
  <2>1. computerUi.started
    BY <1>10 DEF Computer!attach
  <2>2. ~computerUi.connected => Unheard(l)
    BY <1>4, <1>5 DEF Unheard, Early
  <2>3. Computer!Says(d, Ctrl, NoCtrl, computerUi.controlling) <=> ~v.viewOnly
    BY <1>4, <1>7 DEF Computer!Says, Ctrl, NoCtrl
  <2>4. ~computerUi.connected /\ ~computerUi.renewing
    <3>1. SocketFits(computerUi, link[s], viewer[s])
      BY <1>10, SocketInHand
    <3> QED
      BY <1>1, <3>1 DEF SocketFits
  <2> QED
    BY <1>5, <2>1, <2>2, <2>3, <2>4 DEF SocketFits
<1> QED
  BY <1>8, <1>9, <1>10, HostStep

LEMMA ServedIs ==
  ASSUME NEW v, DOMAIN v = ViewerFields, ~v.over, KeysAreKnown(v), v # Computer!Nobody, NEW m \in Ups
  PROVE  \E w, a : /\ Computer!Served(v, m) = [to |-> w, answer |-> a]
                   /\ DOMAIN w = ViewerFields /\ ~w.over /\ w.stop = v.stop /\ KeysAreKnown(w)
                   /\ \/ a = <<>> /\ Unanswered(m, v, w)
                      \/ \E x : a = <<x>> /\ Answered(m, v, w, x)
<1>0. \A w : DOMAIN w = ViewerFields => w # Computer!Nobody
  BY NobodyIs DEF ViewerFields
<1>1. CASE m \in Computer!Protected /\ ~mayControl
  <2>1. PICK w : w = [v EXCEPT !.viewOnly = TRUE]
    OBVIOUS
  <2>2. Computer!Served(v, m) = [to |-> w, answer |-> <<"denied">>]
    BY <1>1, <2>1 DEF Computer!Served, Computer!Protected
  <2>3. DOMAIN w = ViewerFields /\ ~w.over /\ w.stop = v.stop /\ KeysAreKnown(w)
    BY <1>0, <2>1 DEF ViewerFields, KeysAreKnown
  <2>4. Answered(m, v, w, "denied")
    BY <1>1, <2>1 DEF Answered, ViewerFields, Ctrl, NoCtrl, Computer!Protected
  <2> QED
    BY <2>2, <2>3, <2>4, Zenon
<1>2. CASE m = "control" /\ mayControl
  <2>1. PICK w : w = [v EXCEPT !.viewOnly = FALSE]
    OBVIOUS
  <2>2. Computer!Served(v, m) = [to |-> w, answer |-> <<"control">>]
    BY <1>2, <2>1 DEF Computer!Served
  <2>3. DOMAIN w = ViewerFields /\ ~w.over /\ w.stop = v.stop /\ KeysAreKnown(w)
    BY <1>0, <2>1 DEF ViewerFields, KeysAreKnown
  <2>4. Answered(m, v, w, "control")
    BY <1>2, <2>1 DEF Answered, ViewerFields, Ctrl, NoCtrl
  <2> QED
    BY <2>2, <2>3, <2>4, Zenon
<1>3. CASE m = "watch"
  <2>1. PICK w : w = [v EXCEPT !.viewOnly = TRUE]
    OBVIOUS
  <2>2. Computer!Served(v, m) = [to |-> w, answer |-> <<"watch">>]
    BY <1>3, <2>1 DEF Computer!Served, Computer!Protected
  <2>3. DOMAIN w = ViewerFields /\ ~w.over /\ w.stop = v.stop /\ KeysAreKnown(w)
    BY <1>0, <2>1 DEF ViewerFields, KeysAreKnown
  <2>4. Answered(m, v, w, "watch")
    BY <1>3, <2>1 DEF Answered, ViewerFields, Ctrl, NoCtrl
  <2> QED
    BY <2>2, <2>3, <2>4, Zenon
<1>4. CASE m = "pause"
  <2>1. PICK w : w = [v EXCEPT !.resume = FALSE]
    OBVIOUS
  <2>2. PICK a : a = IF v.resume THEN <<"paused">> ELSE <<>>
    OBVIOUS
  <2>3. Computer!Served(v, m) = [to |-> w, answer |-> a]
    BY <1>4, <2>1, <2>2 DEF Computer!Served, Computer!Protected
  <2>4. DOMAIN w = ViewerFields /\ ~w.over /\ w.stop = v.stop /\ KeysAreKnown(w)
    BY <1>0, <2>1 DEF ViewerFields, KeysAreKnown
  <2>5. Answered(m, v, w, "paused") /\ Unanswered(m, v, w)
    BY <1>4, <2>1 DEF Answered, Unanswered, ViewerFields, Ctrl, NoCtrl
  <2>6. a = <<>> \/ a = <<"paused">>
    BY <2>2
  <2> QED
    BY <2>3, <2>4, <2>5, <2>6, Zenon
<1>5. CASE m = "resume"
  <2>1. PICK w : w = [v EXCEPT !.resume = TRUE]
    OBVIOUS
  <2>2. PICK a : a = IF v.resume THEN <<>> ELSE <<"resumed">>
    OBVIOUS
  <2>3. Computer!Served(v, m) = [to |-> w, answer |-> a]
    BY <1>5, <2>1, <2>2 DEF Computer!Served, Computer!Protected
  <2>4. DOMAIN w = ViewerFields /\ ~w.over /\ w.stop = v.stop /\ KeysAreKnown(w)
    BY <1>0, <2>1 DEF ViewerFields, KeysAreKnown
  <2>5. Answered(m, v, w, "resumed") /\ (v.resume => Unanswered(m, v, w))
    BY <1>5, <2>1 DEF Answered, Unanswered, ViewerFields, Ctrl, NoCtrl
  <2>6. (a = <<>> /\ v.resume) \/ a = <<"resumed">>
    BY <2>2
  <2> QED
    BY <2>3, <2>4, <2>5, <2>6, Zenon
<1>6. CASE m = "key" /\ mayControl /\ v.viewOnly
  <2>1. Computer!Served(v, m) = [to |-> v, answer |-> <<"denied">>]
    BY <1>6 DEF Computer!Served, Computer!Protected
  <2>2. Answered(m, v, v, "denied")
    BY <1>6 DEF Answered, Ctrl, NoCtrl
  <2> QED
    BY <2>1, <2>2, Zenon
<1>7. CASE m = "key" /\ mayControl /\ ~v.viewOnly
  <2>1. PICK w : w = Computer!Applied(v)
    OBVIOUS
  <2>2. Computer!Served(v, m) = [to |-> w, answer |-> <<>>]
    BY <1>7, <2>1 DEF Computer!Served, Computer!Protected
  <2>3. DOMAIN w = ViewerFields /\ ~w.over /\ w.stop = v.stop /\ KeysAreKnown(w)
    BY <1>0, <2>1 DEF ViewerFields, KeysAreKnown, Computer!Applied
  <2>4. Unanswered(m, v, w)
    BY <1>7, <2>1 DEF Unanswered, ViewerFields, Computer!Applied
  <2> QED
    BY <2>2, <2>3, <2>4, Zenon
<1>8. CASE m = "release" /\ mayControl
  <2>1. PICK w : w = [v EXCEPT !.held = FALSE]
    OBVIOUS
  <2>2. Computer!Served(v, m) = [to |-> w, answer |-> <<>>]
    BY <1>8, <2>1 DEF Computer!Served, Computer!Protected
  <2>3. DOMAIN w = ViewerFields /\ ~w.over /\ w.stop = v.stop /\ KeysAreKnown(w)
    BY <1>0, <2>1 DEF ViewerFields, KeysAreKnown
  <2>4. Unanswered(m, v, w)
    BY <1>8, <2>1 DEF Unanswered, ViewerFields
  <2> QED
    BY <2>2, <2>3, <2>4, Zenon
<1> QED
  BY <1>1, <1>2, <1>3, <1>4, <1>5, <1>6, <1>7, <1>8 DEF Ups, Computer!Protected

LEMMA PauseStillWaits ==
  ASSUME NEW up \in Seq(Ups), up # <<>>
  PROVE  /\ Tail(up) \in Seq(Ups) /\ Head(up) \in Ups
         /\ PauseWaits(up) => Head(up) = "pause" \/ PauseWaits(Tail(up))
<1>1. Tail(up) \in Seq(Ups) /\ Head(up) \in Ups /\ Head(up) = up[1] /\ Len(up) \in Nat \ {0}
  OBVIOUS
<1>2. ASSUME NEW n \in DOMAIN up, up[n] = "pause", n # 1
      PROVE  n - 1 \in DOMAIN Tail(up) /\ Tail(up)[n - 1] = up[n]
  BY <1>2
<1> QED
  BY <1>1, <1>2 DEF PauseWaits

LEMMA HostServes ==
  ASSUME ComputerInv, NEW s \in 1..Len(link), Computer!serve(s)
  PROVE  ComputerInv'
<1>1. PICK v : v = viewer[s]
  OBVIOUS
<1>2. PICK k : k = link[s]
  OBVIOUS
<1>3. PICK m : m = Head(k.up)
  OBVIOUS
<1>4. PICK r : r = Computer!Served(v, m)
  OBVIOUS
<1>5. PICK d : d = IF k.state = "open" THEN k.down \o r.answer ELSE k.down
  OBVIOUS
<1>6. PICK l : l = [k EXCEPT !.up = Tail(@), !.down = d]
  OBVIOUS
<1>7. /\ LinkShape(k, v) /\ KeysAreKnown(v)
      /\ computerUi.effect /\ computerUi.socket = s => SocketFits(computerUi, k, v)
  BY <1>1, <1>2, SocketInHand
<1>8. /\ v # Computer!Nobody /\ ~v.over /\ ~v.stop /\ k.up # <<>> /\ DOMAIN v = ViewerFields
      /\ k.up \in Seq(Ups) /\ SeqOf(k.down) /\ k.state \in {"open", "closed"}
  BY <1>1, <1>2, <1>7 DEF Computer!serve, Computer!Live, LinkShape
<1>9. /\ link' = [link EXCEPT ![s] = l] /\ viewer' = [viewer EXCEPT ![s] = r.to] /\ UNCHANGED computerUi
  BY <1>1, <1>2, <1>3, <1>4, <1>5, <1>6, LinksAre DEF Computer!serve
<1>10. Tail(k.up) \in Seq(Ups) /\ m \in Ups /\ (PauseWaits(k.up) => m = "pause" \/ PauseWaits(Tail(k.up)))
  BY <1>3, <1>8, PauseStillWaits
<1>11. PICK w, a : /\ r = [to |-> w, answer |-> a]
                   /\ DOMAIN w = ViewerFields /\ ~w.over /\ w.stop = v.stop /\ KeysAreKnown(w)
                   /\ \/ a = <<>> /\ Unanswered(m, v, w)
                      \/ \E x : a = <<x>> /\ Answered(m, v, w, x)
  BY <1>4, <1>7, <1>8, <1>10, ServedIs
<1>12. r.to = w /\ r.answer = a
  BY <1>11
<1>13. DOMAIN l = {"state", "up", "down"} /\ l.state = k.state /\ l.up = Tail(k.up) /\ l.down = d
  BY <1>6, <1>7 DEF LinkShape
<1>14. SeqOf(d)
  <2>1. CASE a = <<>>
    BY <1>5, <1>8, <1>12, <2>1, AppendsOne
  <2>2. ASSUME NEW x, a = <<x>> PROVE SeqOf(d)
    <3>1. d = k.down \/ d = Append(k.down, x)
      BY <1>5, <1>8, <1>12, <2>2, AppendsOne
    <3>2. SeqOf(Append(k.down, x))
      BY <1>8, SeqAppended
    <3> QED
      BY <1>8, <3>1, <3>2
  <2> QED
    BY <1>11, <2>1, <2>2
<1>15. LinkShape(l, w)
  BY <1>8, <1>10, <1>11, <1>13, <1>14 DEF LinkShape
<1>16. ASSUME computerUi.effect, computerUi.socket = s PROVE SocketFits(computerUi, l, w)
  <2>1. SocketFits(computerUi, k, v)
    BY <1>7, <1>16
  <2>2. computerUi.connected \/ k.state = "closed"
    BY <1>8, <2>1 DEF SocketFits, Unheard
  <2>3. SUFFICES ASSUME Serving(l, w), Computer!Watched(computerUi), computerUi.connected
                 PROVE  /\ Computer!Says(l.down, Ctrl, NoCtrl, computerUi.controlling) <=> ~w.viewOnly
                        /\ Computer!Says(l.down, {"paused"}, {"resumed"}, computerUi.paused) =>
                             ~w.resume \/ PauseWaits(l.up)
    BY <1>13, <2>1, <2>2 DEF SocketFits, Serving, PauseWaits
  <2>4. Serving(k, v) /\ k.state = "open"
    BY <1>8, <1>13, <2>3 DEF Serving
  <2>5. /\ Computer!Says(k.down, Ctrl, NoCtrl, computerUi.controlling) <=> ~v.viewOnly
        /\ Computer!Says(k.down, {"paused"}, {"resumed"}, computerUi.paused) =>
             ~v.resume \/ PauseWaits(k.up)
    BY <2>1, <2>3, <2>4 DEF SocketFits, PauseWaits
  <2>6. CASE a = <<>> /\ Unanswered(m, v, w)
    <3>1. d = k.down
      BY <1>5, <1>8, <1>12, <2>6, AppendsOne
    <3> QED
      BY <1>10, <1>13, <2>5, <2>6, <3>1 DEF Unanswered
  <2>7. ASSUME NEW x, a = <<x>>, Answered(m, v, w, x)
        PROVE  /\ Computer!Says(l.down, Ctrl, NoCtrl, computerUi.controlling) <=> ~w.viewOnly
               /\ Computer!Says(l.down, {"paused"}, {"resumed"}, computerUi.paused) =>
                    ~w.resume \/ PauseWaits(l.up)
    <3>1. d = Append(k.down, x)
      BY <1>5, <1>8, <1>12, <2>4, <2>7, AppendsOne
    <3>2. Computer!Says(d, Ctrl, NoCtrl, computerUi.controlling) <=>
            x \in Ctrl \/ (x \notin NoCtrl /\ Computer!Says(k.down, Ctrl, NoCtrl, computerUi.controlling))
      BY <1>8, <3>1, SaysMore
    <3>3. Computer!Says(d, {"paused"}, {"resumed"}, computerUi.paused) <=>
            x \in {"paused"} \/ (x \notin {"resumed"}
                                   /\ Computer!Says(k.down, {"paused"}, {"resumed"}, computerUi.paused))
      BY <1>8, <3>1, SaysMore
    <3>4. Ctrl \cap NoCtrl = {}
      BY DEF Ctrl, NoCtrl
    <3>5. Computer!Says(d, Ctrl, NoCtrl, computerUi.controlling) <=> ~w.viewOnly
      BY <2>5, <2>7, <3>2, <3>4 DEF Answered
    <3>6. Computer!Says(d, {"paused"}, {"resumed"}, computerUi.paused) => ~w.resume \/ PauseWaits(Tail(k.up))
      BY <1>10, <2>5, <2>7, <3>3 DEF Answered
    <3> QED
      BY <1>13, <3>5, <3>6
  <2> QED
    BY <1>11, <2>6, <2>7
<1> QED
  BY <1>9, <1>11, <1>12, <1>15, <1>16, HostStep

\* The viewer goes on, or captures, under a link that stays or brings one thing more.
LEMMA HostCaptures ==
  ASSUME ComputerInv, NEW s \in 1..Len(link), NEW at, NEW l, Computer!Live(s),
         viewer' = [viewer EXCEPT ![s] = [viewer[s] EXCEPT !.pump = at]], UNCHANGED computerUi,
         link' = [link EXCEPT ![s] = l],
         DOMAIN l = {"state", "up", "down"}, l.state = link[s].state, l.up = link[s].up,
         l.down = link[s].down \/ l.down = Append(link[s].down, "frame")
  PROVE  ComputerInv'
<1>1. PICK v : v = viewer[s]
  OBVIOUS
<1>2. PICK k : k = link[s]
  OBVIOUS
<1>3. PICK w : w = [v EXCEPT !.pump = at]
  OBVIOUS
<1>4. /\ LinkShape(k, v) /\ KeysAreKnown(v)
      /\ computerUi.effect /\ computerUi.socket = s => SocketFits(computerUi, k, v)
  BY <1>1, <1>2, SocketInHand
<1>5. v # Computer!Nobody /\ ~v.over /\ DOMAIN v = ViewerFields /\ SeqOf(k.down) /\ k.state # "opening"
  BY <1>1, <1>4 DEF Computer!Live, LinkShape
<1>6. /\ DOMAIN w = ViewerFields /\ ~w.over /\ w.stop = v.stop /\ w.viewOnly = v.viewOnly /\ w.resume = v.resume
      /\ w.held = v.held /\ w.applied = v.applied
  BY <1>3, <1>5 DEF ViewerFields
<1>7. w # Computer!Nobody
  BY <1>6, NobodyIs DEF ViewerFields
<1>8. KeysAreKnown(w)
  BY <1>4, <1>5, <1>6, <1>7 DEF KeysAreKnown
<1>9. PICK d : l.down = d /\ (d = k.down \/ d = Append(k.down, "frame")) /\ l.state = k.state /\ l.up = k.up
               /\ DOMAIN l = {"state", "up", "down"}
  BY <1>2
<1>10. SeqOf(d)
  <2>1. SeqOf(Append(k.down, "frame"))
    BY <1>5, SeqAppended
  <2> QED
    BY <1>5, <1>9, <2>1
<1>11. LinkShape(l, w)
  BY <1>4, <1>5, <1>6, <1>9, <1>10 DEF LinkShape
<1>12. /\ Computer!Says(d, Ctrl, NoCtrl, computerUi.controlling)
            <=> Computer!Says(k.down, Ctrl, NoCtrl, computerUi.controlling)
       /\ Computer!Says(d, {"paused"}, {"resumed"}, computerUi.paused)
            <=> Computer!Says(k.down, {"paused"}, {"resumed"}, computerUi.paused)
  <2>1. "frame" \notin Ctrl /\ "frame" \notin NoCtrl
    BY DEF Ctrl, NoCtrl
  <2>2. Computer!Says(Append(k.down, "frame"), Ctrl, NoCtrl, computerUi.controlling)
            <=> Computer!Says(k.down, Ctrl, NoCtrl, computerUi.controlling)
    BY <1>5, <2>1, SaysMore
  <2>3. Computer!Says(Append(k.down, "frame"), {"paused"}, {"resumed"}, computerUi.paused)
            <=> Computer!Says(k.down, {"paused"}, {"resumed"}, computerUi.paused)
    BY <1>5, SaysMore
  <2> QED
    BY <1>9, <2>2, <2>3
<1>13. ASSUME Unheard(k) PROVE Unheard(l)
  <2>1. k.down # <<>> /\ k.down[1] = "open" /\ Len(k.down) \in Nat /\ DOMAIN k.down = 1..Len(k.down)
        /\ \A n \in DOMAIN k.down : k.down[n] \in Early
    BY <1>5, <1>13 DEF Unheard, SeqOf
  <2>2. 1 \in DOMAIN k.down
    BY <1>5, <2>1, SeqLessFirst
  <2>3. CASE d = Append(k.down, "frame")
    <3>1. /\ Len(d) = Len(k.down) + 1 /\ d[Len(k.down) + 1] = "frame" /\ DOMAIN d = 1..Len(d)
          /\ \A n \in 1..Len(k.down) : d[n] = k.down[n]
      BY <1>5, <1>10, <2>3, SeqAppended DEF SeqOf
    <3>2. "frame" \in Early
      BY DEF Early
    <3>3. ASSUME NEW n \in DOMAIN d PROVE d[n] \in Early
      <4>1. CASE n = Len(k.down) + 1
        BY <3>1, <3>2, <4>1
      <4>2. CASE n # Len(k.down) + 1
        <5>1. n \in 1..Len(k.down)
          BY <2>1, <3>1, <3>3, <4>2
        <5> QED
          BY <2>1, <3>1, <5>1
      <4> QED
        BY <4>1, <4>2
    <3>4. d # <<>> /\ d[1] = "open"
      BY <2>1, <2>2, <3>1
    <3> QED
      BY <1>9, <1>13, <3>3, <3>4 DEF Unheard
  <2> QED
    BY <1>9, <1>13, <2>3 DEF Unheard
<1>14. ASSUME computerUi.effect, computerUi.socket = s PROVE SocketFits(computerUi, l, w)
  BY <1>4, <1>5, <1>6, <1>9, <1>12, <1>13, <1>14 DEF SocketFits, Serving
<1>15. viewer' = [viewer EXCEPT ![s] = w]
  BY <1>1, <1>3
<1> QED
  BY <1>8, <1>11, <1>14, <1>15, HostStep

LEMMA LinkStays ==
  ASSUME ComputerInv, NEW s \in 1..Len(link)
  PROVE  link = [link EXCEPT ![s] = link[s]]
BY DEF ComputerInv, ComputerShape, SeqOf

LEMMA HostPumps ==
  ASSUME ComputerInv, NEW s \in 1..Len(link), Computer!grab(s) \/ Computer!check(s) \/ Computer!publish(s)
  PROVE  ComputerInv'
<1>1. PICK at : viewer' = [viewer EXCEPT ![s] = [viewer[s] EXCEPT !.pump = at]]
  <2>1. \A at : [viewer EXCEPT ![s].pump = at] = [viewer EXCEPT ![s] = [viewer[s] EXCEPT !.pump = at]]
    BY LinksAre
  <2> QED
    BY <2>1 DEF Computer!grab, Computer!check, Computer!publish
<1>2. UNCHANGED computerUi /\ Computer!Live(s)
  BY DEF Computer!grab, Computer!check, Computer!publish
<1>3. CASE link' = link
  <2>1. DOMAIN link[s] = {"state", "up", "down"}
    BY SocketInHand DEF LinkShape
  <2> QED
    BY <1>1, <1>2, <1>3, <2>1, LinkStays, HostCaptures
<1>4. CASE Computer!publish(s)
  <2>1. PICK l : l = [link[s] EXCEPT !.down = IF link[s].state = "open" /\ ~viewer[s].stop
                                              THEN Append(@, "frame") ELSE @]
    OBVIOUS
  <2>2. /\ DOMAIN l = {"state", "up", "down"} /\ l.state = link[s].state /\ l.up = link[s].up
        /\ l.down = link[s].down \/ l.down = Append(link[s].down, "frame")
    BY <2>1, SocketInHand DEF LinkShape
  <2>3. link' = [link EXCEPT ![s] = l]
    BY <1>4, <2>1, LinksAre DEF Computer!publish
  <2> QED
    BY <1>1, <1>2, <2>2, <2>3, HostCaptures
<1> QED
  BY <1>3, <1>4 DEF Computer!grab, Computer!check

LEMMA HostLeaves ==
  ASSUME ComputerInv, NEW s \in 1..Len(link), Computer!leave(s)
  PROVE  ComputerInv'
<1>1. PICK v : v = viewer[s]
  OBVIOUS
<1>2. /\ LinkShape(link[s], v) /\ KeysAreKnown(v)
      /\ computerUi.effect /\ computerUi.socket = s => SocketFits(computerUi, link[s], v)
  BY <1>1, SocketInHand
<1>3. v # Computer!Nobody /\ ~v.over
  BY <1>1 DEF Computer!leave, Computer!Live
<1>4. PICK w : w = Computer!Gone(v)
  OBVIOUS
<1>5. w.over /\ ~w.held
  BY <1>2, <1>3, <1>4 DEF Computer!Gone, KeysAreKnown
<1>6. LinkShape(link[s], w) /\ KeysAreKnown(w)
  BY <1>2, <1>3, <1>5 DEF LinkShape, KeysAreKnown
<1>7. ASSUME computerUi.effect, computerUi.socket = s PROVE SocketFits(computerUi, link[s], w)
  BY <1>2, <1>5, <1>7 DEF SocketFits, Serving
<1>8. viewer' = [viewer EXCEPT ![s] = w] /\ link' = [link EXCEPT ![s] = link[s]] /\ UNCHANGED computerUi
  BY <1>1, <1>4, LinksAre, LinkStays DEF Computer!leave
<1> QED
  BY <1>6, <1>7, <1>8, HostStep

LEMMA HostCloses ==
  ASSUME ComputerInv, NEW s \in 1..Len(link), Computer!hostCloses(s)
  PROVE  ComputerInv'
<1>1. PICK v : v = viewer[s]
  OBVIOUS
<1>2. PICK k : k = link[s]
  OBVIOUS
<1>3. PICK w : w = [v EXCEPT !.stop = TRUE]
  OBVIOUS
<1>4. PICK code \in {"4401", "1000", "lost"} :
          link' = [link EXCEPT ![s].down = Append(@, code), ![s].up = <<>>]
  BY DEF Computer!hostCloses
<1>5. PICK d : d = Append(k.down, code)
  OBVIOUS
<1>6. PICK l : l = [k EXCEPT !.down = d, !.up = <<>>]
  OBVIOUS
<1>7. /\ LinkShape(k, v) /\ KeysAreKnown(v)
      /\ computerUi.effect /\ computerUi.socket = s => SocketFits(computerUi, k, v)
  BY <1>1, <1>2, SocketInHand
<1>8. v # Computer!Nobody /\ ~v.over /\ DOMAIN v = ViewerFields /\ SeqOf(k.down) /\ k.state # "opening"
  BY <1>1, <1>7 DEF Computer!hostCloses, Computer!Live, LinkShape
<1>9. DOMAIN w = ViewerFields /\ ~w.over /\ w.stop = TRUE /\ w.held = v.held /\ w.applied = v.applied
  BY <1>3, <1>8 DEF ViewerFields
<1>10. w # Computer!Nobody
  BY <1>9, NobodyIs DEF ViewerFields
<1>11. DOMAIN l = {"state", "up", "down"} /\ l.state = k.state /\ l.up = <<>> /\ l.down = d
  BY <1>6, <1>7 DEF LinkShape
<1>12. /\ SeqOf(d) /\ Len(d) = Len(k.down) + 1 /\ Len(k.down) \in Nat /\ d[Len(k.down) + 1] = code
       /\ \A n \in 1..Len(k.down) : d[n] = k.down[n]
  BY <1>5, <1>8, SeqAppended
<1>13. LinkShape(l, w) /\ KeysAreKnown(w)
  <2>1. <<>> \in Seq(Ups)
    OBVIOUS
  <2> QED
    BY <1>7, <1>8, <1>9, <1>10, <1>11, <1>12, <2>1 DEF LinkShape, KeysAreKnown
<1>14. ASSUME Unheard(k) PROVE Unheard(l)
  <2>1. /\ k.down # <<>> /\ k.down[1] = "open" /\ DOMAIN k.down = 1..Len(k.down) /\ DOMAIN d = 1..Len(d)
        /\ \A n \in DOMAIN k.down : k.down[n] \in Early
    BY <1>8, <1>12, <1>14 DEF Unheard, SeqOf
  <2>2. Len(k.down) # 0
    BY <1>8, <2>1, SeqLessFirst
  <2>3. code \in Early
    BY <1>4 DEF Early
  <2>4. \A n \in DOMAIN d : d[n] \in Early
    BY <1>12, <2>1, <2>3
  <2>5. d # <<>> /\ d[1] = "open"
    BY <1>12, <2>1, <2>2
  <2> QED
    BY <1>11, <2>4, <2>5 DEF Unheard
<1>15. ASSUME computerUi.effect, computerUi.socket = s PROVE SocketFits(computerUi, l, w)
  BY <1>7, <1>9, <1>11, <1>14, <1>15 DEF SocketFits, Serving
<1>16. viewer' = [viewer EXCEPT ![s] = w] /\ link' = [link EXCEPT ![s] = l] /\ UNCHANGED computerUi
  BY <1>1, <1>2, <1>3, <1>4, <1>5, <1>6, LinksAre DEF Computer!hostCloses
<1> QED
  BY <1>13, <1>15, <1>16, HostStep

LEMMA ComputerStep == ASSUME ComputerInv, Computer!Next PROVE ComputerInv'
<1>1. Computer!Sockets = 1..Len(link)
  BY LinksAre
<1>2. CASE \E s \in 1..Len(link) : Computer!attach(s) \/ Computer!serve(s) \/ Computer!leave(s)
  BY <1>2, HostAttaches, HostServes, HostLeaves
<1>3. CASE \E s \in 1..Len(link) : Computer!grab(s) \/ Computer!check(s) \/ Computer!publish(s)
  BY <1>3, HostPumps
<1>4. CASE \E s \in 1..Len(link) : Computer!hostCloses(s)
  BY <1>4, HostCloses
<1>5. CASE Computer!revoke
  BY <1>5 DEF Computer!revoke, ComputerInv, ComputerShape
<1>6. CASE Computer!watch \/ Computer!toggleControl \/ Computer!togglePause \/ Computer!key
  BY <1>6, PanelClicks
<1>7. CASE Computer!stop \/ Computer!cleanUp
  BY <1>7, PanelEnds
<1>8. CASE Computer!lock
  BY <1>8, PanelIsLocked
<1>9. CASE Computer!blur \/ Computer!focus
  BY <1>9, PanelIsLeft
<1>10. CASE Computer!hear \/ Computer!closed
  BY <1>10, PanelListens
<1>11. CASE Computer!renewed
  BY <1>11, PanelRenews
<1> QED
  BY <1>1, <1>2, <1>3, <1>4, <1>5, <1>6, <1>7, <1>8, <1>9, <1>10, <1>11
     DEF Computer!Next, Computer!Host, Computer!Pump

LEMMA ComputerNext == ASSUME ComputerInv, Computer!Next \/ UNCHANGED computerVars PROVE ComputerInv'
<1>1. CASE UNCHANGED computerVars
  BY <1>1 DEF computerVars, ComputerInv, ComputerShape
<1> QED
  BY <1>1, ComputerStep

\* What the panel shows is what the host grants.
LEMMA ScreenFits ==
  ASSUME ComputerInv
  PROVE  /\ Computer!StoppedIsDark /\ Computer!ControlIsGranted
         /\ Computer!PausedIsPaused /\ Computer!InputIsReleased
<1>1. Computer!StoppedIsDark
  BY DEF ComputerInv, NothingUnconnected, Computer!StoppedIsDark
<1>2. Computer!InputIsReleased
  <2>1. ASSUME NEW s \in Computer!Sockets, viewer[s].over PROVE ~viewer[s].held
    <3>1. viewer[s] # Computer!Nobody /\ KeysAreKnown(viewer[s])
      BY <2>1, LinksAre, SocketInHand, NobodyIs
    <3> QED
      BY <2>1, <3>1 DEF KeysAreKnown
  <2> QED
    BY <2>1 DEF Computer!InputIsReleased
<1>3. ASSUME NEW s \in Computer!Sockets, Computer!Connected(s)
      PROVE  SocketFits(computerUi, link[s], viewer[s]) /\ Serving(link[s], viewer[s])
  BY <1>3, LinksAre, SocketInHand DEF Computer!Connected, Computer!Live, Serving
<1>4. Computer!ControlIsGranted
  BY <1>3 DEF SocketFits, Computer!ControlIsGranted, Ctrl, NoCtrl
<1>5. Computer!PausedIsPaused
  BY <1>3 DEF SocketFits, Computer!PausedIsPaused
<1> QED
  BY <1>1, <1>2, <1>4, <1>5

-----------------------------------------------------------------------------
(* What is proved of the panels together. *)

LEMMA PanelSteps ==
    ASSUME [Next]_vars
    PROVE  /\ Access!Next \/ UNCHANGED accessVars
           /\ Dock!Next \/ UNCHANGED dockVars
           /\ Tools!Next \/ UNCHANGED toolsVars
           /\ Jobs!Next \/ UNCHANGED jobsVars
           /\ Update!Next \/ UNCHANGED updateVars
           /\ Policy!Next \/ UNCHANGED policyVars
           /\ Skills!Next \/ UNCHANGED skillsVars
           /\ Schedules!Next \/ UNCHANGED schedulesVars
           /\ Browser!Next \/ UNCHANGED browserVars
           /\ Cloud!Next \/ UNCHANGED cloudVars
           /\ Settings!Next \/ UNCHANGED settingsVars
           /\ Hooks!Next \/ UNCHANGED hooksVars
           /\ Plane!Next \/ UNCHANGED planeVars
           /\ Computer!Next \/ UNCHANGED computerVars
<1>1. CASE Next
  BY <1>1 DEF Next
<1>2. CASE UNCHANGED vars
  BY <1>2 DEF vars
<1> QED
  BY <1>1, <1>2

LEMMA Invariance == Spec => []Inv
<1>1. Init => Inv
  BY AccessInitInv, DockInitInv, ToolsInitInv, JobsInitInv, UpdateInitInv,
     PolicyInitInv, SkillsInitInv, SchedulesInitInv, BrowserInitInv, CloudInitInv,
     SettingsInitInv, HooksInitInv, PlaneInitInv, ComputerInitInv DEF Init, Inv
<1>2. Inv /\ [Next]_vars => Inv'
  BY PanelSteps, AccessNext, DockNext, ToolsNext, JobsNext, UpdateNext,
     PolicyNext, SkillsNext, SchedulesNext, BrowserNext, CloudNext,
     SettingsNext, HooksNext, PlaneNext, ComputerNext DEF Inv
<1> QED
  BY <1>1, <1>2, PTL DEF Spec

\* No refresh of the windows uses a proof that was used: however many they are,
\* none of them ends the session they share (api.ts:15-16, identity.py:509-511).
THEOREM ProofsAreUsedOnce == Spec => Access!ProofUsedOnce
<1>1. Inv /\ [Next]_vars => [\A w \in Windows : Access!hostRotates(w) => identity'.alive = identity.alive]_(Access!vars)
  BY RotatesTheCurrentProof DEF Inv, AccessInv
<1> QED
  BY <1>1, Invariance, PTL DEF Spec, Access!ProofUsedOnce

\* However often access runs out under it and whatever is lost on the way, a write
\* is carried out once at most: "a partially executed mutation must never be
\* replayed" (api.ts:64-66).
THEOREM WritesRunOnce == Spec => []Access!WriteRunsOnce
<1>1. Inv => Access!WriteRunsOnce
  BY DEF Inv, AccessInv, CallInv
<1> QED
  BY <1>1, Invariance, PTL

\* A refresh signs the windows out only when the session has ended: a timeout or a
\* race is "not proof that the refresh family was revoked" (api.ts:24-26).
THEOREM OnlyTheEndSignsOut == Spec => Access!SignedOutIfEnded
<1>1. Inv /\ [Next]_vars => [signed' # signed => ~identity.alive]_(Access!vars)
  BY PanelSteps, SignsOutWhenEnded DEF Inv
<1> QED
  BY <1>1, Invariance, PTL DEF Spec, Access!SignedOutIfEnded

\* Whatever is closed, moved, undone or restored, and whatever the other windows
\* write, the dock shows a panel in its center; a saved layout stays until someone
\* removes it, and a window leaves the arrangements of the presets it is not in
\* alone (DockWorkspace.tsx:28-34, App.tsx, layout-presets.ts).
THEOREM LayoutStays == Spec => LayoutIsKept
<1>1. Inv => Dock!NeverBlank
  BY DockInvImplies DEF Inv
<1>2. Inv /\ [Next]_vars =>
        [/\ Dock!Removes \/ \A n \in book.named : \E m \in book'.named : m.id = n.id
         /\ \A l \in Dock!Persistent : book'.arrangements[l] # book.arrangements[l] =>
              l \in {now.layout, now'.layout} \/ Dock!otherWindow]_dockVars
  BY PanelSteps, DockStep DEF Inv, DockBook, NamedStay, OthersStay
<1>3. Spec => []Dock!NeverBlank
  BY <1>1, Invariance, PTL
<1>4. Spec => Dock!BookKept
  BY <1>2, Invariance, PTL DEF Spec, Dock!BookKept, Dock!vars, dockVars
<1> QED
  BY <1>3, <1>4 DEF LayoutIsKept

\* No identical call of a tool runs again before the former one was reported to be
\* done or acknowledged, however often the panel is left, reopened or answered late
\* ("This identical instruction is blocked", McpManager.tsx:129).
THEOREM CallsAreNotRepeated == Spec => []Tools!NoCallRepeat
<1>1. Inv => Tools!NoCallRepeat
  BY DEF Inv, ToolsInv
<1> QED
  BY <1>1, Invariance, PTL

\* A call leaves only while the panel still shows the instruction that was reviewed:
\* whatever is selected, changed or reopened while the key of the call is computed stops
\* it (McpManager.tsx:87-90).
THEOREM CallsAreOnScreen == Spec => Tools!CallIsOnScreen
<1>1. Inv /\ [Next]_vars =>
        [\A n \in Tools!Calls : toolsCall[n] # None /\ toolsCall[n].pc = "hash" /\ toolsCall'[n].pc = "sent" =>
            mcp.inspecting = toolsCall[n].key /\ mcp.flight = n]_(Tools!vars)
  <2>1. SUFFICES ASSUME Inv, [Next]_vars, ~UNCHANGED Tools!vars, NEW n \in Tools!Calls,
                        toolsCall[n] # None, toolsCall[n].pc = "hash", toolsCall'[n].pc = "sent"
                 PROVE  mcp.inspecting = toolsCall[n].key /\ mcp.flight = n
    OBVIOUS
  <2>2. Tools!Next
    BY <2>1, PanelSteps DEF Tools!vars, toolsVars
  <2> QED
    BY <2>1, <2>2, ToolsLeave DEF Inv
<1> QED
  BY <1>1, Invariance, PTL DEF Spec, Tools!CallIsOnScreen

\* The same command, submitted again by any window, is the same request to the host until
\* the outcome of that request was heard, whatever answers were lost, runners stopped or
\* hosts restarted in between (Runners.tsx, media-intent.ts).
THEOREM CommandsKeepTheirRequest == Spec => []Jobs!SameUntilHeard
<1>1. Inv => Jobs!SameUntilHeard
  BY DEF Inv, JobsInv
<1> QED
  BY <1>1, Invariance, PTL

\* What is downloaded and what is installed is the release that the window showed when the
\* user pressed the button, though the application found a newer one since or the window
\* was closed and opened again (updater.js:73-85).
THEOREM StartsWhatWasPressed == Spec => Update!StartsWhatWasShown
<1>1. Inv /\ [Next]_vars =>
        [job' # job /\ job' # None /\ job'.kind \in {"download", "install"} =>
           Head(wire).kind = job'.kind /\ Head(wire).seen = job'.of]_(Update!vars)
  <2>1. SUFFICES ASSUME Inv, [Next]_vars, ~UNCHANGED Update!vars,
                        job' # job, job' # None, job'.kind \in {"download", "install"}
                 PROVE  Head(wire).kind = job'.kind /\ Head(wire).seen = job'.of
    OBVIOUS
  <2>2. Update!Next
    BY <2>1, PanelSteps DEF Update!vars, updateVars
  <2> QED
    BY <2>1, <2>2, UpdateBegins DEF Inv
<1> QED
  BY <1>1, Invariance, PTL DEF Spec, Update!StartsWhatWasShown

\* However often its save is tried again, a form makes one account at most, and though
\* a review is made again or an answer lost, the form of a machine makes one machine at
\* most (ProviderAccountForm.tsx:20-23, CloudMachines.tsx:33, :52).
THEOREM OneOfEachForm == Spec => []Settings!OneAccountPerForm /\ []Cloud!OneMachinePerForm
<1>1. Inv => Settings!OneAccountPerForm /\ Cloud!OneMachinePerForm
  BY DEF Inv, SettingsInv, AccountsAreOfForms, CloudInv
<1> QED
  BY <1>1, Invariance, PTL

\* What is on screen belongs together and never goes back, whatever answers arrive late,
\* are lost or come from a former place: the rows are of the category, a form with an
\* edit is dirty, a hook is called saved only when the host saved it, a list is called
\* empty only after it was read and none of its rows is replaced by an older one, the
\* frame is of the selected tab and the catalogue of the chosen account; of the computer
\* nothing is shown once it is stopped, control and the pause are what the host granted,
\* and no key stays down (SettingsSurface.tsx, HookSettings.tsx, ControlPlane.tsx,
\* BrowserSurface.tsx, CloudMachines.tsx, ComputerSurface.tsx).
THEOREM ShownIsOfThePlace == Spec => ShownBelongsTogether
<1>1. Inv => /\ Settings!RowsAreOfCategory /\ Settings!DirtyCoversEdits
             /\ Browser!ObservedIsSelected /\ Cloud!CatalogIsHere
  BY SettingsCovers DEF Inv, SettingsInv, ReadsAreHere, BrowserInv, CloudInv
<1>2. Inv => Hooks!SavedIsSaved /\ Plane!EmptyOnlyIfRead
  BY HooksSaved, PlaneIsEmpty DEF Inv
<1>3. Inv => /\ Computer!StoppedIsDark /\ Computer!ControlIsGranted
             /\ Computer!PausedIsPaused /\ Computer!InputIsReleased
  BY ScreenFits DEF Inv
<1>4. Spec => Plane!NeverBack
  <2>1. Inv /\ [Next]_vars =>
          [/\ list # None => list'.at >= list.at
           /\ session' # None =>
                /\ session'.of = inspected'
                /\ session # None /\ session.of = session'.of => session'.at >= session.at]_(Plane!vars)
    BY PanelSteps, PlaneStep DEF Inv, planeVars, Plane!vars
  <2> QED
    BY <2>1, Invariance, PTL DEF Spec, Plane!NeverBack
<1> QED
  BY <1>1, <1>2, <1>3, <1>4, Invariance, PTL DEF ShownBelongsTogether

\* A write of settings, of the policy, of a schedule or of a skill replaces what the user
\* had on screen and nothing newer, in whatever order the panel, the host and the other
\* clients take their steps: a changed form sends the revision it was opened at, a policy
\* that others changed is in conflict until it was shown, a skill is checked against a text
\* that was shown, a schedule is written for the project on screen.  A hook is enabled and
\* disabled in the revision that was seen, and its removal leaves for that revision; a
\* machine is made as the review said, a tool called and an update started as shown
\* (SettingsSurface.tsx, PolicyPanel.tsx, ExtensionManager.tsx, HookSettings.tsx,
\* ScheduleManager.tsx, CloudMachines.tsx, McpManager.tsx, updater.js).
THEOREM WritesReplaceWhatWasShown == Spec => ReplacesWhatWasShown
<1>1. Spec => Hooks!ReviewedRevision
  <2>1. Inv /\ [Next]_vars =>
          [\A n \in Hooks!Writes : write[n] # None /\ write[n].kind # "create" =>
             /\ write[n].pc = "prepare" /\ write'[n].pc = "sent" => hooks[write[n].hook].rev = write[n].seen
             /\ write[n].kind # "remove" /\ write[n].wire = "sent" /\ write'[n].wire = "taken" =>
                  hooks[write[n].hook].rev = write[n].seen]_(Hooks!vars)
    BY PanelSteps, HooksReviewed DEF Inv, HooksInv, Hooks!Writes
  <2> QED
    BY <2>1, Invariance, PTL DEF Spec, Hooks!ReviewedRevision
<1>2. Spec => Settings!OthersKept
  <2>1. Inv /\ [Next]_vars =>
          [\A f \in Settings!Edited : Settings!hostSaves(f) /\ settingsHost'[f] # settingsHost[f] =>
              saving[f].seen = settingsHost[f]]_(Settings!vars)
    BY SettingsSaves DEF Inv, Settings!Forms
  <2> QED
    BY <2>1, Invariance, PTL DEF Spec, Settings!OthersKept
<1>3. Spec => Policy!ReplacesSeen
  <2>1. Inv /\ [Next]_vars =>
          [save # None /\ save.wire = "sent" /\ policyHost' # policyHost /\ policyUsed' = policyUsed =>
              policyHost.revision \in reviewed \cup {save.from}]_(Policy!vars)
    BY PanelSteps, PolicyReplaced DEF Inv
  <2> QED
    BY <2>1, Invariance, PTL DEF Spec, Policy!ReplacesSeen
<1>4. Spec => Schedules!WritesAsReviewed
  <2>1. Inv /\ [Next]_vars =>
          [\A n \in Schedules!Keys : schedulesActs[n] # None =>
             /\ schedulesActs[n].pc = "preview" /\ schedulesActs'[n].pc = "write" => schedulesActs[n].scope = scope
             /\ (schedulesActs[n].of # Schedules!New /\ schedulesActs[n].wire = "sent" /\ schedulesActs'[n].wire = "done" =>
                    sched[schedulesActs[n].key].revision = schedulesActs[n].of.revision)]_(Schedules!vars)
    BY PanelSteps, SchedulesWritten DEF Inv, Schedules!Keys
  <2> QED
    BY <2>1, Invariance, PTL DEF Spec, Schedules!WritesAsReviewed
<1>5. Spec => Skills!ReplacesWhatWasShown
  <2>1. Inv /\ [Next]_vars =>
          [\A n \in Skills!Acts :
             skillsActs[n] # None /\ skillsActs[n].pc = "checked" /\ skillsActs'[n].pc = "saved" /\ disk[Skills!Of(n)] # 0 =>
               /\ \E f \in SkillNames : <<<<skillsActs[n].project, f>>, disk[Skills!Of(n)]>> \in shown
               /\ disk[Skills!Of(n)] \in versions[Skills!Of(n)]]_(Skills!vars)
    BY PanelSteps, SkillsReplaced DEF Inv, Skills!Acts
  <2> QED
    BY <2>1, Invariance, PTL DEF Spec, Skills!ReplacesWhatWasShown
<1>6. Spec => Cloud!LaunchedAsReviewed
  <2>1. Inv /\ [Next]_vars =>
          [\A n \in DOMAIN machines' \ DOMAIN machines :
             /\ act.seen.plan = machines'[n].plan
             /\ act.seen.revision = cloudRevision[machines'[n].plan.account]]_(Cloud!vars)
    BY PanelSteps, CloudCreates DEF Inv
  <2> QED
    BY <2>1, Invariance, PTL DEF Spec, Cloud!LaunchedAsReviewed
<1> QED
  BY <1>1, <1>2, <1>3, <1>4, <1>5, <1>6, CallsAreOnScreen, StartsWhatWasPressed DEF ReplacesWhatWasShown
=============================================================================
