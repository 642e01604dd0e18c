--------------------------- MODULE CoordinatorPanel ---------------------------
(***************************************************************************)
(* The main agent's coordination panel                                       *)
(* (desktop/workspace/src/features/OrchestratorStatus.tsx and                *)
(* OrchestratorDecisions.tsx).  The panel polls a snapshot of the delegated  *)
(* chats while its window is in the foreground, lets the user take or return *)
(* control of one, and shows the requests the chats wait for a decision on.  *)
(* A request is read from its own chat, one chat after the other, for one    *)
(* revision of that chat; whatever happens to the snapshot, to the selection *)
(* or to the account meanwhile, a card must belong to what is shown now.     *)
(*                                                                         *)
(* A chat asks one request at a time; requests of a chat are numbered.  All  *)
(* that identifies a source (revision, last update, number pending) is its   *)
(* row in the snapshot.                                                      *)
(***************************************************************************)
EXTENDS Naturals, FiniteSets

CONSTANTS NumChildren,   \* delegated chats of the first account, in display order
          Accounts, Owner,   \* who may be signed in; whose chats these are
          MAX_SOURCES,   \* chats whose requests are read
          None,
          MaxRequests,   \* bounds: requests of a chat, the panel's own writes,
          MaxActs,       \* and what happens around it: others' changes, windows
          MaxEvents      \* and accounts changed, answers lost

Children == 1..NumChildren
Acts == 1..MaxActs
Primary == 0    \* the main agent's own chat

VARIABLES
    child,       \* the host's delegated chats
    status,      \* the panel: account, selection, snapshot
    snapRead,    \* its read of the snapshot in flight, or None
    received,    \* chat -> its request as read, and for which row, or None
    sourceRead,  \* the reading of requests in progress, or None
    act,         \* the panel's writes
    events       \* what MaxEvents bounds

vars == <<child, status, snapRead, received, sourceRead, act, events>>

Row == [control : {"user", "orchestrator"}, revision : Nat, asked : 0..MaxRequests, open : BOOLEAN]
Act == [kind : {"control", "decide"}, of : Children, row : Row, at : Children \cup {Primary},
        fresh : BOOLEAN, pc : {"sent", "ended"}, wire : {"sent", "done", "refused", "lost"}]

TypeOK ==
    /\ child \in [Children -> Row]
    /\ status \in [account : Accounts, selected : Children \cup {Primary}, foreground : BOOLEAN,
                   stale : BOOLEAN, locked : BOOLEAN, snapshot : [Children -> Row] \cup {None},
                   flight : Acts \cup {None}]
    /\ snapRead \in [answer : [Children -> Row] \cup {None}] \cup {None}
    /\ received \in [Children -> [key : Row, request : 1..MaxRequests] \cup {None}]
    /\ sourceRead \in [left : SUBSET Children, answer : 0..MaxRequests \cup {None}] \cup {None}
    /\ \A n \in Acts : act[n] \in Act \cup {None}

NoneReceived == [k \in Children |-> None]
Opened(a) == [account |-> a, selected |-> Primary, foreground |-> TRUE, stale |-> FALSE,
              locked |-> FALSE, snapshot |-> None, flight |-> None]

Init ==
    /\ child = [k \in Children |-> [control |-> "orchestrator", revision |-> 0, asked |-> 1, open |-> TRUE]]
    /\ status = Opened(Owner)
    /\ snapRead = None
    /\ received = NoneReceived
    /\ sourceRead = None
    /\ act = [n \in Acts |-> None]
    /\ events = 0

Reading == [answer |-> None]
Event == events < MaxEvents /\ events' = events + 1

-----------------------------------------------------------------------------
(* What is on screen. *)

\* The requests are shown beside the main agent's chat, in a foreground window,
\* while the snapshot is up to date.
Visible(p) == p.snapshot # None /\ p.selected = Primary /\ p.foreground /\ ~p.stale

Candidates(p) == IF p.account = Owner /\ p.snapshot # None
                 THEN {k \in Children : p.snapshot[k].open} ELSE {}
Sources(p) == {k \in Candidates(p) : Cardinality({d \in Candidates(p) : d < k}) < MAX_SOURCES}

\* Mutant: the last update of a chat is no part of its key.
sourceKeyOld(p, k) == [p.snapshot[k] EXCEPT !.asked = 0]
sourceKey(p, k) == p.snapshot[k]

Keys(p) == IF Visible(p) THEN [k \in Sources(p) |-> sourceKey(p, k)] ELSE <<>>
Card(p, rec, k) == /\ k \in DOMAIN Keys(p)
                   /\ rec[k] # None /\ rec[k].key = Keys(p)[k]

\* One rendering: panel p with the requests rec, the reading rd if its key
\* still stands (else it starts over), the writes w.  A card that goes, or
\* shows another request, no longer waits for its write's answer.
Render(p, rec, rd, w, retry) ==
    LET sameScope == p.account = status.account /\ Visible(p) = Visible(status)
        rec1 == IF sameScope THEN rec ELSE NoneReceived
        waits(q) == IF q.kind = "control" THEN p.account = status.account
                    ELSE Card(p, rec1, q.of) /\ rec1[q.of].request = q.row.asked
                         /\ p.locked = status.locked
    IN  /\ status' = p
        /\ received' = rec1
        /\ sourceRead' = IF sameScope /\ ~retry /\ Keys(p) = Keys(status) THEN rd
                         ELSE IF Keys(p) = <<>> THEN None
                         ELSE [left |-> DOMAIN Keys(p), answer |-> None]
        /\ act' = [n \in Acts |-> IF w[n] = None THEN None
                                  ELSE [w[n] EXCEPT !.fresh = @ /\ waits(w[n])]]

Show(p) == Render(p, received, sourceRead, act, FALSE)

-----------------------------------------------------------------------------
(* The snapshot. *)

\* One read at a time, every four seconds while the window is looked at.
Asked == IF status.foreground /\ snapRead = None THEN Reading ELSE snapRead
refresh ==
    /\ status.foreground /\ snapRead = None
    /\ snapRead' = Reading
    /\ UNCHANGED <<child, status, received, sourceRead, act, events>>

hostSnapshot ==
    /\ snapRead = Reading
    /\ snapRead' = [answer |-> child]
    /\ UNCHANGED <<child, status, received, sourceRead, act, events>>

readSnapshot ==
    /\ snapRead # None /\ snapRead.answer # None
    /\ Show([status EXCEPT !.snapshot = snapRead.answer, !.stale = FALSE])
    /\ snapRead' = None
    /\ UNCHANGED <<child, events>>

readSnapshotFails ==
    /\ snapRead # None /\ Event
    /\ Show([status EXCEPT !.stale = TRUE])
    /\ snapRead' = None
    /\ UNCHANGED child

\* The window goes to the background: the read is aborted.
blur ==
    /\ status.foreground /\ Event
    /\ Show([status EXCEPT !.foreground = FALSE])
    /\ snapRead' = None
    /\ UNCHANGED child

focus ==
    /\ ~status.foreground
    /\ Show([status EXCEPT !.foreground = TRUE])
    /\ snapRead' = Reading
    /\ UNCHANGED <<child, events>>

onOpen(k) ==
    /\ status.snapshot # None /\ k # status.selected
    /\ k # Primary => status.account = Owner
    /\ Show([status EXCEPT !.selected = k])
    /\ UNCHANGED <<child, snapRead, events>>

\* Another account signs in.
signIn(a) ==
    /\ a # status.account /\ Event
    /\ Show([Opened(a) EXCEPT !.foreground = status.foreground])
    /\ snapRead' = IF status.foreground THEN Reading ELSE None
    /\ UNCHANGED child

-----------------------------------------------------------------------------
(* Taking and returning control of a chat. *)

Unused(n) == act[n] = None /\ \A m \in 1..(n - 1) : act[m] # None
Sent(kind, k, row) == [kind |-> kind, of |-> k, row |-> row, at |-> status.selected,
                       fresh |-> TRUE, pc |-> "sent", wire |-> "sent"]
Other(owner) == IF owner = "user" THEN "orchestrator" ELSE "user"

changeControl(n) ==
    /\ Unused(n) /\ status.flight = None /\ status.foreground /\ ~status.stale
    /\ status.selected \in Children /\ status.snapshot # None
    /\ LET k == status.selected IN
         Render([status EXCEPT !.flight = n], received, sourceRead,
                [act EXCEPT ![n] = Sent("control", k, status.snapshot[k])], FALSE)
    /\ UNCHANGED <<child, snapRead, events>>

\* Mutant: the host transfers whatever the revision.
UpToDateAlways(q) == TRUE
UpToDate(q) == child[q.of].revision = q.row.revision

control(n) ==
    /\ act[n] # None /\ act[n].kind = "control" /\ act[n].wire = "sent"
    /\ IF UpToDate(act[n])
       THEN /\ child' = [child EXCEPT ![act[n].of].control = Other(act[n].row.control),
                                      ![act[n].of].revision = @ + 1]
            /\ act' = [act EXCEPT ![n].wire = "done"]
       ELSE act' = [act EXCEPT ![n].wire = "refused"] /\ UNCHANGED child
    /\ UNCHANGED <<status, snapRead, received, sourceRead, events>>

Landed(n) == [status EXCEPT !.flight = IF @ = n THEN None ELSE @]
Ended(n) == [act EXCEPT ![n].pc = "ended"]

\* The chat's new row replaces the old one; returning it goes back to the main
\* agent's chat, unless the user looks at another chat by now.
controlled(n) ==
    /\ act[n] # None /\ act[n].kind = "control" /\ act[n].pc = "sent" /\ act[n].wire = "done"
    /\ LET q == act[n]
           row == [child[q.of] EXCEPT !.control = Other(q.row.control), !.revision = q.row.revision + 1]
           back == status.selected = q.at /\ q.row.control = "user"
           p == IF ~q.fresh \/ status.snapshot = None THEN Landed(n)
                ELSE [Landed(n) EXCEPT !.snapshot[q.of] = row, !.selected = IF back THEN Primary ELSE @]
       IN  Render(p, received, sourceRead, Ended(n), FALSE)
    /\ UNCHANGED <<child, snapRead, events>>

\* A conflict or no answer: the ownership is read again, the write never sent again.
controlFails(n) ==
    /\ act[n] # None /\ act[n].kind = "control" /\ act[n].pc = "sent"
    /\ act[n].wire \in {"refused", "lost"}
    /\ Render(Landed(n), received, sourceRead, Ended(n), FALSE)
    /\ snapRead' = IF act[n].fresh THEN Asked ELSE snapRead
    /\ UNCHANGED <<child, events>>

-----------------------------------------------------------------------------
(* Decisions. *)

Current == CHOOSE k \in sourceRead.left : \A d \in sourceRead.left : k <= d

\* The chat's task as it is now: its open request, or 0.
hostTask ==
    /\ sourceRead # None /\ sourceRead.answer = None
    /\ sourceRead' = [sourceRead EXCEPT !.answer = IF child[Current].open THEN child[Current].asked ELSE 0]
    /\ UNCHANGED <<child, status, snapRead, received, act, events>>

Rest == IF sourceRead.left = {Current} THEN None
        ELSE [left |-> sourceRead.left \ {Current}, answer |-> None]
Kept == [k \in Children |-> IF Card(status, received, k) THEN received[k] ELSE None]

readSource ==
    /\ sourceRead # None /\ sourceRead.answer # None
    /\ LET now == IF sourceRead.answer = 0 THEN None
                  ELSE [key |-> Keys(status)[Current], request |-> sourceRead.answer]
       IN  Render(status, [Kept EXCEPT ![Current] = now], Rest, act, FALSE)
    /\ UNCHANGED <<child, snapRead, events>>

\* A failed read takes the chat's former request away.
readSourceFails ==
    /\ sourceRead # None /\ Event
    /\ Render(status, [Kept EXCEPT ![Current] = None], Rest, act, FALSE)
    /\ UNCHANGED <<child, snapRead>>

decide(n, k) ==
    /\ Unused(n) /\ Card(status, received, k) /\ ~status.locked
    /\ \A m \in Acts : act[m] # None /\ act[m].kind = "decide" /\ act[m].of = k /\ act[m].pc = "sent" => ~act[m].fresh
    /\ act' = [act EXCEPT ![n] = Sent("decide", k, [status.snapshot[k] EXCEPT !.asked = received[k].request])]
    /\ UNCHANGED <<child, status, snapRead, received, sourceRead, events>>

hostDecides(n) ==
    /\ act[n] # None /\ act[n].kind = "decide" /\ act[n].wire = "sent"
    /\ LET q == act[n]
           ok == child[q.of].open /\ child[q.of].asked = q.row.asked
       IN  /\ child' = IF ok THEN [child EXCEPT ![q.of].open = FALSE] ELSE child
           /\ act' = [act EXCEPT ![n].wire = IF ok THEN "done" ELSE "refused"]
    /\ UNCHANGED <<status, snapRead, received, sourceRead, events>>

hostLoses(n) ==
    /\ act[n] # None /\ act[n].wire = "sent" /\ Event
    /\ act' = [act EXCEPT ![n].wire = "lost"]
    /\ UNCHANGED <<child, status, snapRead, received, sourceRead>>

\* Answered or not, the request goes and everything is read again; a card that
\* is gone is not told.
decided(n) ==
    /\ act[n] # None /\ act[n].kind = "decide" /\ act[n].pc = "sent" /\ act[n].wire # "sent"
    /\ IF act[n].fresh
       THEN /\ Render(status, [received EXCEPT ![act[n].of] = None], sourceRead, Ended(n), TRUE)
            /\ snapRead' = Asked
       ELSE act' = Ended(n) /\ UNCHANGED <<status, snapRead, received, sourceRead>>
    /\ UNCHANGED <<child, events>>

lock ==
    /\ ~status.locked /\ Event
    /\ Show([status EXCEPT !.locked = TRUE])
    /\ UNCHANGED <<child, snapRead>>

unlock ==
    /\ status.locked
    /\ status' = [status EXCEPT !.locked = FALSE]
    /\ UNCHANGED <<child, snapRead, received, sourceRead, act, events>>

-----------------------------------------------------------------------------
(* The chats, and other clients. *)
others(k) ==
    /\ Event
    /\ \/ child' = [child EXCEPT ![k].control = Other(@), ![k].revision = @ + 1]
       \/ child[k].open /\ child' = [child EXCEPT ![k].open = FALSE]
       \/ /\ ~child[k].open /\ child[k].asked < MaxRequests
          /\ child' = [child EXCEPT ![k].open = TRUE, ![k].asked = @ + 1]
    /\ UNCHANGED <<status, snapRead, received, sourceRead, act>>

Reads == refresh \/ hostSnapshot \/ readSnapshot \/ hostTask \/ readSource
Step(n) == control(n) \/ controlled(n) \/ controlFails(n) \/ hostDecides(n) \/ decided(n)
Next ==
    \/ Reads \/ readSnapshotFails \/ readSourceFails \/ blur \/ focus \/ lock \/ unlock
    \/ \E k \in Children \cup {Primary} : onOpen(k)
    \/ \E a \in Accounts : signIn(a)
    \/ \E k \in Children : others(k)
    \/ \E n \in Acts : \/ changeControl(n) \/ Step(n) \/ hostLoses(n)
                       \/ \E k \in Children : decide(n, k)

Spec == Init /\ [][Next]_vars
        /\ WF_vars(refresh) /\ WF_vars(hostSnapshot) /\ WF_vars(readSnapshot)
        /\ WF_vars(hostTask) /\ WF_vars(readSource) /\ \A n \in Acts : WF_vars(Step(n))

-----------------------------------------------------------------------------
(* Control of a chat passes only from whom the user saw in control.          *)
TransferAsSeen == [][\A n \in Acts :
    act[n] # None /\ act[n].kind = "control" /\ act[n].wire = "sent" /\ act'[n].wire = "done" =>
        child[act[n].of].control = act[n].row.control]_vars

(* A request somebody decided does not stay on screen.                       *)
DecidedLeaves == \A k \in Children, r \in 1..MaxRequests :
    LET Stays == /\ Card(status, received, k) /\ received[k].request = r
                 /\ ~(child[k].open /\ child[k].asked = r)
    IN  Stays ~> ~Stays
=============================================================================
