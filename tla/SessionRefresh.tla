---------------------------- MODULE SessionRefresh ----------------------------
(***************************************************************************)
(* Requests of the workspace's windows and the session they share            *)
(* (desktop/workspace/src/lib/api.ts, in a browser; the host's side is       *)
(* src/termx/identity.py and identity_http.py).  Access runs out; a window   *)
(* that is told so exchanges the refresh proof in the browser's cookies for  *)
(* a new one, and sends its request again.  A proof is good once: used a     *)
(* second time it ends the session.  The windows take turns under a lock of  *)
(* the browser.                                                              *)
(*                                                                         *)
(* Access and proof issued together have one number.  A request given up is  *)
(* taken to be settled on the host: done, or never to be.                    *)
(***************************************************************************)
EXTENDS Naturals, FiniteSets

CONSTANTS Windows, None,
          MaxCalls, MaxExpiries, MaxMishaps   \* bounds

Calls == 1..MaxCalls
Proofs == 1..(MaxExpiries + 1)

VARIABLES
    identity,    \* the host: access that is good, the proof not yet used, is the session alive
    jar,         \* the browser's cookies
    holder,      \* the window that holds the lock termx-session-refresh, or None
    refreshing,  \* window -> its refresh under way, or None
    signed,      \* window -> does it show the workspace
    call,        \* the windows' requests
    ran,         \* call -> how often the host carried it out
    expiries, lapses

vars == <<identity, jar, holder, refreshing, signed, call, ran, expiries, lapses>>

Credentials == [access : Proofs \cup {None}, proof : Proofs \cup {None}]
Answers == {"ok", "401", "403", "lost"}

TypeOK ==
    /\ identity \in [good : SUBSET Proofs, proof : Proofs, alive : BOOLEAN]
    /\ jar \in Credentials
    /\ holder \in Windows \cup {None}
    /\ refreshing \in [Windows -> {None} \cup
          [pc : {"waiting", "me", "post", "checked"}, with : Credentials, answer : Answers \cup {None}]]
    /\ signed \in [Windows -> BOOLEAN]
    /\ call \in [Calls -> {None} \cup
          [window : Windows, kind : {"read", "write"}, retry : BOOLEAN, again : BOOLEAN,
           pc : {"sent", "answered", "waiting", "ended"}, with : Proofs \cup {None},
           answer : Answers \cup {"field"} \cup {None}]]
    /\ ran \in [Calls -> 0..3]
    /\ expiries \in 0..MaxExpiries
    /\ lapses \in 0..MaxMishaps

Issued(p) == [access |-> p, proof |-> p]
NoCookies == [access |-> None, proof |-> None]

Init ==
    /\ identity = [good |-> {1}, proof |-> 1, alive |-> TRUE]
    /\ jar \in {Issued(1), NoCookies}
    /\ holder = None
    /\ refreshing = [w \in Windows |-> None]
    /\ signed = [w \in Windows |-> jar.proof # None]
    /\ call = [n \in Calls |-> None]
    /\ ran = [n \in Calls |-> 0]
    /\ expiries = 0
    /\ lapses = 0

Good(access) == identity.alive /\ access \in identity.good
Mishap == lapses < MaxMishaps /\ lapses' = lapses + 1

-----------------------------------------------------------------------------
(* The host. *)

RunsOut == identity' = [identity EXCEPT !.good = {}] /\ expiries' = expiries + 1
expire ==
    /\ identity.good # {} /\ expiries < MaxExpiries
    /\ RunsOut
    /\ UNCHANGED <<jar, holder, refreshing, signed, call, ran, lapses>>

revoke ==
    /\ identity.alive
    /\ identity' = [identity EXCEPT !.alive = FALSE]
    /\ Mishap
    /\ UNCHANGED <<jar, holder, refreshing, signed, call, ran, expiries>>

\* Access that runs out while an operation is carried out fails a part of it.
hostServes(n) ==
    /\ call[n] # None /\ call[n].pc = "sent"
    /\ \E answer \in {"ok", "field", "401"} :
         /\ call' = [call EXCEPT ![n].pc = "answered", ![n].answer = answer]
         /\ Good(call[n].with) <=> answer # "401"
         /\ ran' = IF answer = "401" THEN ran ELSE [ran EXCEPT ![n] = @ + 1]
         /\ answer = "field" => expiries < MaxExpiries
         /\ IF answer = "field" THEN RunsOut ELSE UNCHANGED <<identity, expiries>>
    /\ UNCHANGED <<jar, holder, refreshing, signed, lapses>>

\* The host's two steps: is the CSRF value that of this proof, not yet used;
\* then the proof is used, or the session ends if it was.
Asking(w, pc) == refreshing[w] # None /\ refreshing[w].pc = pc /\ refreshing[w].answer = None
hostChecks(w) ==
    /\ Asking(w, "post")
    /\ refreshing' = IF identity.alive /\ refreshing[w].with.proof = identity.proof
                     THEN [refreshing EXCEPT ![w].pc = "checked"]
                     ELSE [refreshing EXCEPT ![w].answer = "403"]
    /\ UNCHANGED <<identity, jar, holder, signed, call, ran, expiries, lapses>>

hostRotates(w) ==
    /\ Asking(w, "checked")
    /\ LET live == identity.alive /\ refreshing[w].with.proof = identity.proof
           p == identity.proof + 1
       IN /\ identity' = IF live THEN [identity EXCEPT !.proof = p, !.good = @ \cup {p}]
                         ELSE [identity EXCEPT !.alive = FALSE]
          /\ refreshing' = [refreshing EXCEPT ![w].answer = IF live THEN "ok" ELSE "401",
                                              ![w].with = IF live THEN Issued(p) ELSE @]
    /\ UNCHANGED <<jar, holder, signed, call, ran, expiries, lapses>>

hostMe(w) ==
    /\ Asking(w, "me")
    /\ refreshing' = [refreshing EXCEPT ![w].answer = IF Good(refreshing[w].with.access) THEN "ok" ELSE "401"]
    /\ UNCHANGED <<identity, jar, holder, signed, call, ran, expiries, lapses>>

\* An answer is lost, or the request given up after 30 seconds.
refreshLost(w) ==
    /\ refreshing[w] # None /\ refreshing[w].pc \in {"me", "post", "checked"}
    /\ refreshing[w].answer # "lost"
    /\ refreshing' = [refreshing EXCEPT ![w].answer = "lost"]
    /\ Mishap
    /\ UNCHANGED <<identity, jar, holder, signed, call, ran, expiries>>

callLost(n) ==
    /\ call[n] # None /\ call[n].pc \in {"sent", "answered"} /\ call[n].answer # "lost"
    /\ call' = [call EXCEPT ![n].pc = "answered", ![n].answer = "lost"]
    /\ Mishap
    /\ UNCHANGED <<identity, jar, holder, refreshing, signed, ran, expiries>>

-----------------------------------------------------------------------------
(* refreshSession. *)

\* A bug: each window sees to its own refresh.
NoTurns(w) == TRUE
MayEnter(w) == holder = None

Ask(w, pc) == refreshing' = [refreshing EXCEPT ![w] = [pc |-> pc, with |-> jar, answer |-> None]]

\* Under the lock, another window may have refreshed meanwhile: ask first.
acquire(w) ==
    /\ refreshing[w] # None /\ refreshing[w].pc = "waiting" /\ MayEnter(w)
    /\ holder' = w
    /\ Ask(w, "me")
    /\ UNCHANGED <<identity, jar, signed, call, ran, expiries, lapses>>

\* A bug: a refresh that failed is kept, for the next to find.
KeptIfFailed(r, ok) == IF ok THEN None ELSE [r EXCEPT !.pc = "failed"]
Over(r, ok) == None

\* The refresh is over: the requests that waited for it go on, or fail with it.
Waiting(n, w) == call[n] # None /\ call[n].pc = "waiting" /\ call[n].window = w
Settle(w, ok, cookies) ==
    /\ refreshing' = [refreshing EXCEPT ![w] = Over(@, ok)]
    /\ holder' = IF holder = w THEN None ELSE holder
    /\ call' = [n \in Calls |->
          IF ~Waiting(n, w) THEN call[n]
          ELSE IF ok THEN [call[n] EXCEPT !.pc = "sent", !.with = cookies.access, !.answer = None]
          ELSE [call[n] EXCEPT !.pc = "ended"]]

meAnswered(w) ==
    /\ refreshing[w] # None /\ refreshing[w].pc = "me" /\ refreshing[w].answer # None
    /\ IF refreshing[w].answer = "401" /\ jar.proof # None
       THEN Ask(w, "post") /\ UNCHANGED <<holder, call>>
       ELSE Settle(w, refreshing[w].answer = "ok", jar)
    /\ UNCHANGED <<identity, jar, signed, ran, expiries, lapses>>

\* A bug: any failure signs the windows out.
AnyFailure(answer) == answer # "ok"
Proves(answer) == answer = "401"

postAnswered(w) ==
    /\ refreshing[w] # None /\ refreshing[w].pc \in {"post", "checked"} /\ refreshing[w].answer # None
    /\ LET answer == refreshing[w].answer
           cookies == IF answer = "ok" THEN refreshing[w].with ELSE jar
       IN /\ jar' = cookies
          /\ Settle(w, answer = "ok", cookies)
          /\ signed' = IF Proves(answer) THEN [v \in Windows |-> FALSE] ELSE signed
    /\ UNCHANGED <<identity, ran, expiries, lapses>>

-----------------------------------------------------------------------------
(* request and gql. *)

request(n, w, kind) ==
    /\ signed[w] \/ kind = "read"
    /\ call[n] = None /\ (n > 1 => call[n-1] # None)
    /\ call' = [call EXCEPT ![n] = [window |-> w, kind |-> kind, retry |-> TRUE, again |-> TRUE,
                                    pc |-> "sent", with |-> jar.access, answer |-> None]]
    /\ UNCHANGED <<identity, jar, holder, refreshing, signed, ran, expiries, lapses>>

\* A bug: an operation that failed in a part is sent again whatever it is.
readOrWrite(q) == TRUE
readOnly(q) == q.kind = "read"

\* A request refused is sent again once; an operation that failed in a part is
\* sent again, once, if it only reads.
Refresh(n, q) ==
    /\ call' = [call EXCEPT ![n] = [q EXCEPT !.pc = "waiting"]]
    /\ refreshing' = IF refreshing[q.window] # None THEN refreshing
                     ELSE [refreshing EXCEPT ![q.window] =
                              [pc |-> "waiting", with |-> NoCookies, answer |-> None]]

answered(n) ==
    /\ call[n] # None /\ call[n].pc = "answered"
    /\ LET q == call[n] IN
       CASE q.answer = "401" /\ q.retry -> Refresh(n, [q EXCEPT !.retry = FALSE])
         [] q.answer = "field" /\ q.again /\ readOnly(q) ->
                Refresh(n, [q EXCEPT !.again = FALSE, !.retry = TRUE])
         [] OTHER -> call' = [call EXCEPT ![n].pc = "ended"] /\ UNCHANGED refreshing
    /\ UNCHANGED <<identity, jar, holder, signed, ran, expiries, lapses>>

Next ==
    \/ expire \/ revoke
    \/ \E n \in Calls : hostServes(n) \/ callLost(n) \/ answered(n)
    \/ \E n \in Calls, w \in Windows, kind \in {"read", "write"} : request(n, w, kind)
    \/ \E w \in Windows : hostChecks(w) \/ hostRotates(w) \/ hostMe(w) \/ refreshLost(w)
                          \/ acquire(w) \/ meAnswered(w) \/ postAnswered(w)

\* Every request is answered or given up; the lock goes to who waits for it.
Fairness ==
    /\ \A n \in Calls : WF_vars(hostServes(n)) /\ WF_vars(answered(n))
    /\ \A w \in Windows : /\ WF_vars(hostChecks(w)) /\ WF_vars(hostRotates(w)) /\ WF_vars(hostMe(w))
                          /\ SF_vars(acquire(w)) /\ WF_vars(meAnswered(w)) /\ WF_vars(postAnswered(w))

Spec == Init /\ [][Next]_vars /\ Fairness

-----------------------------------------------------------------------------
(* Properties. *)

\* However access runs out, a write is carried out once at most: "a partially
\* executed mutation must never be replayed" (api.ts:64-66).
WriteRunsOnce == \A n \in Calls : (call[n] # None /\ call[n].kind = "write") => ran[n] <= 1

\* The windows of a browser never use a proof twice: none of their refreshes
\* ends the session (api.ts:15-16, identity.py:509-511).
ProofUsedOnce == [][\A w \in Windows : hostRotates(w) => identity'.alive = identity.alive]_vars

\* The windows are signed out by a refresh only if the session has ended: a
\* timeout or a race is "not proof that the refresh family was revoked"
\* (api.ts:24-26).
SignedOutIfEnded == [][signed' # signed => ~identity.alive]_vars

\* A request is over some time, and so is every refresh (api.ts:9-31).
RequestsEnd == /\ \A n \in Calls : (call[n] # None) ~> (call[n] # None /\ call[n].pc = "ended")
               /\ \A w \in Windows : []<>(refreshing[w] = None)
=============================================================================
