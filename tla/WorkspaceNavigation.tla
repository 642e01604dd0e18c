-------------------------- MODULE WorkspaceNavigation --------------------------
(***************************************************************************)
(* What the workspace shows (App.tsx): the signed-in session, the list of    *)
(* conversations, the one opened and the manager over it.  The main agent is *)
(* asked for at the host by one request that its callers share, a new        *)
(* conversation is created, and the opened one is polled; the user may go    *)
(* elsewhere, and the session be locked, ended or replaced, before any of    *)
(* the answers.                                                              *)
(***************************************************************************)
EXTENDS Naturals, FiniteSets

CONSTANTS None, Chats, Main, New,  \* conversations; the main agent's; one to be created
          MaxSignIns, MaxCalls, MaxMoves   \* bounds: sign-ins, requests, and what
                                   \* the user, another window or the network does

VARIABLES
    auth,      \* the sign-in of this window, 0 before and after it
    epoch,     \* authEpoch, with the sign-ins so far
    locked,
    selected, manager,   \* the conversation chosen, "" for none; is a manager open?
    session, list, primary,   \* what was read, with the sign-in it was read for
    intent,    \* navigationIntent
    flight,    \* primaryFlight: the shared request, None if none
    calls,     \* callers of the main agent and of a new conversation, in order
    load, poll,    \* the list's and the opened conversation's read
    registering, used

shown == <<selected, manager, session, list, primary>>
vars == <<auth, epoch, locked, shown, intent, flight, calls, load, poll, registering, used>>

Names == Chats \cup {Main, New}
Read == [id : Names, by : 1..MaxSignIns]
Calls == 1..MaxCalls

TypeOK ==
    /\ auth \in 0..MaxSignIns /\ epoch.signIns \in 0..MaxSignIns /\ epoch.n \in Nat
    /\ {locked, manager, registering} \subseteq BOOLEAN
    /\ selected \in Names \cup {""} /\ {session, primary} \subseteq Read \cup {None}
    /\ list \in 0..MaxSignIns /\ intent \in Nat
    /\ \A k \in Calls : calls[k] = None \/ calls[k].pc \in {"asked", "answered", "failed", "ended"}

\* fence: the epoch and the sign-in, to compare with when an answer comes.
fence == [n |-> epoch.n, auth |-> auth]
Call(what, automatic, wish, by) == [what |-> what, fence |-> fence, automatic |-> automatic,
                                intent |-> wish, by |-> by, pc |-> "asked", left |-> FALSE]
LoadAsked == [fence |-> fence, by |-> auth]

Init ==
    /\ auth = 0 /\ epoch = [n |-> 0, signIns |-> 0] /\ locked = FALSE
    /\ selected = "" /\ manager = FALSE /\ session = None /\ list = 0 /\ primary = None
    /\ intent = 0 /\ flight = None /\ calls = [k \in Calls |-> None]
    /\ load = None /\ poll = None /\ registering = FALSE /\ used = 0

\* Nothing is open: the main agent is asked for without the user.
Home == selected = "" /\ ~manager
Spend == used < MaxMoves /\ used' = used + 1
Unused(k) == calls[k] = None /\ \A m \in 1..(k - 1) : calls[m] # None
\* A navigation by the user, with the calls that it leaves behind.
Left(q) == [k \in Calls |-> IF q[k] = None THEN None ELSE [q[k] EXCEPT !.left = TRUE]]

-----------------------------------------------------------------------------
(* Signing in and out, locking and unlocking. *)

\* The window starts with the route it was opened at.
signIn(route) ==
    /\ auth = 0 /\ epoch.signIns < MaxSignIns
    /\ epoch' = [n |-> epoch.n + 1, signIns |-> epoch.signIns + 1] /\ auth' = epoch.signIns + 1
    /\ selected' = route /\ intent' = intent
    /\ load' = [fence |-> [n |-> epoch'.n, auth |-> auth'], by |-> auth']
    /\ UNCHANGED <<locked, manager, session, list, primary, flight, calls, poll, registering, used>>

signedOut ==
    /\ auth # 0 /\ Spend
    /\ auth' = 0 /\ epoch' = [epoch EXCEPT !.n = @ + 1] /\ locked' = FALSE
    /\ selected' = "" /\ manager' = FALSE /\ session' = None /\ list' = 0 /\ primary' = None
    /\ flight' = None /\ poll' = None
    /\ UNCHANGED <<intent, calls, load, registering>>

\* Locked here, or by another window, whose event ends what is under way.
lock(elsewhere) ==
    /\ auth # 0 /\ ~locked /\ Spend
    /\ locked' = TRUE /\ poll' = None
    /\ epoch' = IF elsewhere THEN [epoch EXCEPT !.n = @ + 1] ELSE epoch
    /\ UNCHANGED <<auth, shown, intent, flight, calls, load, registering>>

\* Unlocking on the lock screen reads the list again.
unlock(elsewhere) ==
    /\ locked
    /\ locked' = FALSE
    /\ load' = IF elsewhere \/ load # None THEN load ELSE LoadAsked
    /\ UNCHANGED <<auth, epoch, shown, intent, flight, calls, poll, registering, used>>

-----------------------------------------------------------------------------
(* The user goes somewhere. *)

openConversation(c) ==
    /\ auth # 0 /\ ~locked /\ Spend
    /\ intent' = intent + 1 /\ calls' = Left(calls)
    /\ selected' = c /\ manager' = FALSE
    /\ session' = IF c = selected THEN session ELSE None
    /\ poll' = IF c = selected THEN poll ELSE None
    /\ UNCHANGED <<auth, epoch, locked, list, primary, flight, load, registering>>

setManager ==
    /\ auth # 0 /\ ~locked /\ Spend
    /\ intent' = intent + 1 /\ calls' = Left(calls)
    /\ manager' = ~manager /\ poll' = None
    /\ UNCHANGED <<auth, epoch, locked, selected, session, list, primary, flight, load, registering>>

\* Back or forward in the browser; what was read stays until the poll.
onPop(route) ==
    /\ auth # 0 /\ ~locked /\ Spend
    /\ intent' = intent + 1 /\ calls' = Left(calls)
    /\ selected' = route /\ manager' = FALSE /\ poll' = None
    /\ session' = IF route = "" THEN None ELSE session
    /\ UNCHANGED <<auth, epoch, locked, list, primary, flight, load, registering>>

openMainAgent(k, automatic) ==
    /\ auth # 0 /\ ~locked /\ Unused(k)
    /\ automatic => Home
    /\ intent' = IF automatic THEN intent ELSE intent + 1
    /\ flight' = IF flight = None THEN [by |-> auth] ELSE flight
    /\ calls' = [(IF automatic THEN calls ELSE Left(calls)) EXCEPT ![k] = Call("main", automatic, intent', flight'.by)]
    /\ UNCHANGED <<auth, epoch, locked, shown, load, poll, registering, used>>

createConversation(k) ==
    /\ auth # 0 /\ ~locked /\ ~registering /\ Unused(k)
    /\ intent' = intent + 1 /\ registering' = TRUE
    /\ calls' = [Left(calls) EXCEPT ![k] = Call("new", FALSE, intent', auth)]
    /\ UNCHANGED <<auth, epoch, locked, shown, flight, load, poll, used>>

-----------------------------------------------------------------------------
(* Answers. *)

\* The shared request answers all that wait for it.
hostEnsures(failed) ==
    /\ flight # None
    /\ IF failed THEN Spend ELSE UNCHANGED used
    /\ flight' = None
    /\ calls' = [k \in Calls |->
          IF calls[k] # None /\ calls[k].what = "main" /\ calls[k].pc = "asked" /\ calls[k].by = flight.by
          THEN [calls[k] EXCEPT !.pc = IF failed THEN "failed" ELSE "answered"] ELSE calls[k]]
    /\ UNCHANGED <<auth, epoch, locked, shown, intent, load, poll, registering>>

hostCreates(k, failed) ==
    /\ calls[k] # None /\ calls[k].what = "new" /\ calls[k].pc = "asked"
    /\ IF failed THEN Spend ELSE UNCHANGED used
    /\ calls' = [calls EXCEPT ![k].pc = IF failed THEN "failed" ELSE "answered"]
    /\ UNCHANGED <<auth, epoch, locked, shown, intent, flight, load, poll, registering>>

\* A bug: an answer is used whoever is signed in.
CurrentAny(f) == auth # 0
Current(f) == f = fence

\* A bug: the conversation is opened although the user has gone elsewhere.
StillWantedAlways(q) == q.automatic => Home
StillWanted(q) == /\ q.intent = intent
                  /\ q.automatic => Home

Opens(q, id) ==
    /\ session' = [id |-> id, by |-> q.by] /\ selected' = id /\ manager' = FALSE
    /\ poll' = IF selected = id /\ ~manager THEN poll ELSE None
Reloads == load' = IF load = None THEN LoadAsked ELSE load

mainOpens(k) ==
    /\ calls[k] # None /\ calls[k].what = "main" /\ calls[k].pc \in {"answered", "failed"}
    /\ calls' = [calls EXCEPT ![k].pc = "ended"]
    /\ IF calls[k].pc = "answered" /\ Current(calls[k].fence)
       THEN /\ primary' = [id |-> Main, by |-> calls[k].by]
            /\ IF StillWanted(calls[k]) /\ ~locked THEN Opens(calls[k], Main)
               ELSE UNCHANGED <<session, selected, manager, poll>>
            /\ Reloads
       ELSE UNCHANGED <<primary, session, selected, manager, poll, load>>
    /\ UNCHANGED <<auth, epoch, locked, list, intent, flight, registering, used>>

created(k) ==
    /\ calls[k] # None /\ calls[k].what = "new" /\ calls[k].pc \in {"answered", "failed"}
    /\ calls' = [calls EXCEPT ![k].pc = "ended"] /\ registering' = FALSE
    /\ IF calls[k].pc = "answered" /\ Current(calls[k].fence)
       THEN /\ IF StillWanted(calls[k]) THEN Opens(calls[k], New)
               ELSE UNCHANGED <<session, selected, manager, poll>>
            /\ Reloads
       ELSE UNCHANGED <<session, selected, manager, poll, load>>
    /\ UNCHANGED <<auth, epoch, locked, list, primary, intent, flight, used>>

\* A read begun before a lock of another window is dropped, and not repeated.
loaded ==
    /\ load # None
    /\ list' = IF Current(load.fence) THEN load.by ELSE list
    /\ load' = None
    /\ UNCHANGED <<auth, epoch, locked, selected, manager, session, primary, intent, flight, calls,
                   poll, registering, used>>

startPoll ==
    /\ auth # 0 /\ ~locked /\ ~manager /\ selected # "" /\ poll = None
    /\ poll' = [id |-> selected, by |-> auth]
    /\ UNCHANGED <<auth, epoch, locked, shown, intent, flight, calls, load, registering, used>>

polled ==
    /\ poll # None
    /\ session' = poll /\ poll' = None
    /\ UNCHANGED <<auth, epoch, locked, selected, manager, list, primary, intent, flight, calls,
                   load, registering, used>>

Next ==
    \/ signedOut \/ setManager \/ loaded \/ startPoll \/ polled
    \/ \E elsewhere \in BOOLEAN : lock(elsewhere) \/ unlock(elsewhere)
    \/ \E c \in Chats \cup {""} : signIn(c) \/ onPop(c)
    \/ \E c \in Chats : openConversation(c)
    \/ \E f \in BOOLEAN : hostEnsures(f)
    \/ \E k \in Calls, f \in BOOLEAN :
          openMainAgent(k, f) \/ createConversation(k) \/ hostCreates(k, f) \/ mainOpens(k) \/ created(k)

Spec == Init /\ [][Next]_vars

-----------------------------------------------------------------------------
(* What is shown was read for the sign-in that is shown it.                   *)
ShownToItsReader ==
    /\ auth # 0 /\ list # 0 => list = auth
    /\ \A r \in {session, primary} : r # None => r.by = auth

(* An answer opens a conversation only for a user who has not gone elsewhere  *)
(* since asking.                                                              *)
UserKeepsPlace == [][\A k \in Calls :
    calls[k] # None /\ calls[k].pc = "answered" /\ calls'[k].pc = "ended" /\ selected' # selected
        => ~calls[k].left]_vars
=============================================================================
