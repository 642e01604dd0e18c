------------------------------ MODULE ToolCalls ------------------------------
(***************************************************************************)
(* Tool connections in the settings panel                                   *)
(* (desktop/workspace/src/features/McpManager.tsx).  A tool may be called   *)
(* straight from the panel, after a review of the exact instruction.  A     *)
(* call is not idempotent: the browser tab keeps a receipt for every        *)
(* instruction whose outcome is not known, in storage that outlives the     *)
(* panel and the page, and an identical instruction is not sent again       *)
(* until the user says so.                                                  *)
(*                                                                         *)
(* A connection is the version of its definition; the tool, its target and  *)
(* its arguments are one value.  The panel's generation and inspection      *)
(* counters appear as two flags of each call that started under them.       *)
(***************************************************************************)
EXTENDS Naturals, FiniteSets

CONSTANTS Instructions,   \* what may be called: a tool, a target, arguments
          None,
          ReceiptLimit,   \* unconfirmed calls a tab may hold
          Allowed,        \* <<definition, instruction>>: trusted, enabled, approved
          MaxCalls,       \* bounds: calls in all, definitions, and times the
          MaxDefinition,  \* panel is reset, the page reloaded, an answer lost
          MaxMishaps

Definitions == 0..MaxDefinition
Keys == Definitions \X Instructions
Calls == 1..MaxCalls
Admin == MaxCalls + 1       \* the flight of any other change of a connection

VARIABLES
    definition,  \* the connection's definition on the host
    receipts,    \* key -> receipt in the tab's storage, or None
    mcp,         \* the panel
    call,        \* call -> its state, or None
    mishaps      \* what MaxMishaps bounds

vars == <<definition, receipts, mcp, call, mishaps>>

Call == [key : Keys, pc : {"hash", "sent", "ended"}, fresh : BOOLEAN, inView : BOOLEAN,
         wire : {"none", "sent", "done", "failed"}, acknowledged : BOOLEAN, reported : BOOLEAN]
Unconfirmed == [key : Keys, call : Calls]

TypeOK ==
    /\ definition \in Definitions
    /\ receipts \in [Keys -> [state : {"pending", "uncertain"}, call : Calls] \cup {None}]
    /\ mcp \in [connection : Definitions \cup {None}, inspecting : Keys \cup {None},
                reviewed : Keys \cup {None}, unconfirmed : Unconfirmed \cup {None},
                acknowledged : BOOLEAN, flight : Calls \cup {Admin, None}]
    /\ \A n \in Calls : call[n] \in Call \cup {None}
    /\ mishaps \in 0..MaxMishaps

Fresh == [connection |-> None, inspecting |-> None, reviewed |-> None, unconfirmed |-> None,
          acknowledged |-> FALSE, flight |-> None]

Init ==
    /\ definition = 0
    /\ receipts = [k \in Keys |-> None]
    /\ mcp = Fresh
    /\ call = [n \in Calls |-> None]
    /\ mishaps = 0

Mishap == mishaps < MaxMishaps /\ mishaps' = mishaps + 1

-----------------------------------------------------------------------------
(* The panel. *)

loaded ==
    /\ mcp.connection = None
    /\ mcp' = [mcp EXCEPT !.connection = definition]
    /\ UNCHANGED <<definition, receipts, call, mishaps>>

\* Another project, account or version of the settings: everything starts over.
reset ==
    /\ Mishap
    /\ mcp' = Fresh
    /\ call' = [n \in Calls |-> IF call[n] = None THEN None
                                ELSE [call[n] EXCEPT !.fresh = FALSE, !.inView = FALSE]]
    /\ UNCHANGED <<definition, receipts>>

\* The page itself is reloaded: what it waited for is forgotten, the tab's
\* storage is not.
reloadPage ==
    /\ Mishap
    /\ mcp' = Fresh
    /\ call' = [n \in Calls |-> IF call[n] = None THEN None ELSE [call[n] EXCEPT !.pc = "ended"]]
    /\ UNCHANGED <<definition, receipts>>

OutOfView == [n \in Calls |-> IF call[n] = None THEN None ELSE [call[n] EXCEPT !.inView = FALSE]]
Invalidated(key) == [mcp EXCEPT !.inspecting = key, !.reviewed = None, !.unconfirmed = None,
                                !.acknowledged = FALSE]

\* Another tool, target or arguments are chosen, or the inspection is closed
\* (the one thing a call under way does not disable).
inspect(k) ==
    /\ mcp.connection # None /\ mcp.flight = None /\ k[1] = mcp.connection
    /\ mcp' = Invalidated(k) /\ call' = OutOfView
    /\ UNCHANGED <<definition, receipts, mishaps>>

closeInspection ==
    /\ mcp.inspecting # None
    /\ mcp' = Invalidated(None) /\ call' = OutOfView
    /\ UNCHANGED <<definition, receipts, mishaps>>

reviewCall ==
    /\ mcp.inspecting # None /\ mcp.inspecting \in Allowed
    /\ mcp.flight = None /\ mcp.unconfirmed = None
    /\ mcp' = [mcp EXCEPT !.reviewed = mcp.inspecting]
    /\ UNCHANGED <<definition, receipts, call, mishaps>>

confirmCall(n) ==
    /\ call[n] = None /\ \A m \in 1..(n - 1) : call[m] # None
    /\ mcp.reviewed # None /\ mcp.reviewed = mcp.inspecting /\ mcp.reviewed \in Allowed
    /\ mcp.flight = None
    /\ mcp' = [mcp EXCEPT !.reviewed = None, !.flight = n]
    /\ call' = [call EXCEPT ![n] = [key |-> mcp.reviewed, pc |-> "hash", fresh |-> TRUE,
                    inView |-> TRUE, wire |-> "none", acknowledged |-> FALSE, reported |-> FALSE]]
    /\ UNCHANGED <<definition, receipts, mishaps>>

Landed(p, n) == IF p.flight = n THEN [p EXCEPT !.flight = None] ELSE p

\* A bug: the receipt of an unconfirmed call is written over.
UnheldAlways(n) == Cardinality({k \in Keys : receipts[k] # None}) < ReceiptLimit
\* May call n go out after its key was computed?
Unheld(n) == /\ receipts[call[n].key] = None
             /\ Cardinality({k \in Keys : receipts[k] # None}) < ReceiptLimit

\* A bug: what was on screen before the key was computed is not compared.
StillReviewedOnce(n) == call[n].fresh
StillReviewed(n) == call[n].fresh /\ call[n].inView

\* The key is there: an identical call in doubt stops this one, as does a full
\* store; else the receipt is written and the request leaves.
send(n) ==
    /\ call[n] # None /\ call[n].pc = "hash"
    /\ LET k == call[n].key
           go == StillReviewed(n) /\ Unheld(n)
       IN  /\ call' = [call EXCEPT ![n].pc = IF go THEN "sent" ELSE "ended",
                                   ![n].wire = IF go THEN "sent" ELSE @]
           /\ receipts' = IF go THEN [receipts EXCEPT ![k] = [state |-> "pending", call |-> n]] ELSE receipts
           /\ mcp' = IF go \/ ~call[n].fresh THEN mcp
                     ELSE Landed(IF StillReviewed(n) /\ receipts[k] # None
                                 THEN [mcp EXCEPT !.unconfirmed = [key |-> k, call |-> receipts[k].call],
                                                  !.acknowledged = FALSE]
                                 ELSE mcp, n)
    /\ UNCHANGED <<definition, mishaps>>

\* A bug: the answer of an acknowledged call clears its successor's receipt.
CompletedAny(n) == [receipts EXCEPT ![call[n].key] = None]
\* The receipts when call n ended: only its own receipt changes.
Completed(n) == IF receipts[call[n].key] # None /\ receipts[call[n].key].call = n
                THEN [receipts EXCEPT ![call[n].key] = None] ELSE receipts
Doubtful(n) == IF receipts[call[n].key] # None /\ receipts[call[n].key].call = n
               THEN [receipts EXCEPT ![call[n].key].state = "uncertain"] ELSE receipts

\* An error proves nothing, whatever its status.
answer(n) ==
    /\ call[n] # None /\ call[n].pc = "sent"
    /\ \/ /\ call[n].wire = "done" /\ receipts' = Completed(n)
          /\ mcp' = IF call[n].fresh THEN Landed(mcp, n) ELSE mcp
          /\ call' = [call EXCEPT ![n].pc = "ended", ![n].reported = TRUE]
          /\ UNCHANGED mishaps
       \/ /\ IF call[n].wire = "failed" THEN UNCHANGED mishaps ELSE Mishap
          /\ receipts' = Doubtful(n)
          /\ mcp' = IF call[n].fresh
                    THEN Landed(IF call[n].inView
                                THEN [mcp EXCEPT !.unconfirmed = [key |-> call[n].key, call |-> n],
                                                 !.acknowledged = FALSE]
                                ELSE mcp, n)
                    ELSE mcp
          /\ call' = [call EXCEPT ![n].pc = "ended"]
    /\ UNCHANGED definition

acknowledge ==
    /\ mcp.unconfirmed # None /\ mcp.flight = None /\ ~mcp.acknowledged
    /\ mcp' = [mcp EXCEPT !.acknowledged = TRUE]
    /\ UNCHANGED <<definition, receipts, call, mishaps>>

\* The acknowledged instruction may be reviewed again.  A receipt that changed
\* meanwhile is left alone.
acknowledgeInstruction ==
    /\ mcp.unconfirmed # None /\ mcp.acknowledged /\ mcp.flight = None
    /\ LET u == mcp.unconfirmed IN
         /\ receipts[u.key] # None /\ receipts[u.key].call = u.call
         /\ receipts' = [receipts EXCEPT ![u.key] = None]
         /\ call' = [call EXCEPT ![u.call].acknowledged = TRUE]
    /\ mcp' = [mcp EXCEPT !.unconfirmed = None, !.acknowledged = FALSE, !.reviewed = None]
    /\ UNCHANGED <<definition, mishaps>>

\* Connect, disconnect, trust, remove, save settings or a credential: one
\* flight; a saved change gives the connection a new definition, unless it
\* changed already, and the panel then reads everything again.
administer ==
    /\ mcp.connection # None /\ mcp.flight = None
    /\ mcp' = [mcp EXCEPT !.flight = Admin]
    /\ UNCHANGED <<definition, receipts, call, mishaps>>

administered ==
    /\ mcp.flight = Admin
    /\ \/ /\ mcp.connection = definition /\ definition < MaxDefinition
          /\ definition' = definition + 1
          /\ mcp' = Fresh /\ call' = [n \in Calls |-> IF call[n] = None THEN None
                                ELSE [call[n] EXCEPT !.fresh = FALSE, !.inView = FALSE]]
       \/ mcp' = [mcp EXCEPT !.flight = None] /\ UNCHANGED <<definition, call>>
    /\ UNCHANGED <<receipts, mishaps>>

-----------------------------------------------------------------------------
(* The host runs the call of the reviewed definition, or refuses it; it may  *)
(* refuse after the service has acted.                                       *)
hostCalls(n) ==
    /\ call[n] # None /\ call[n].wire = "sent"
    /\ \/ /\ call[n].key[1] = definition
          /\ \E w \in {"done", "failed"} : call' = [call EXCEPT ![n].wire = w]
       \/ call[n].key[1] # definition /\ call' = [call EXCEPT ![n].wire = "failed"]
    /\ UNCHANGED <<definition, receipts, mcp, mishaps>>

Step(n) == send(n) \/ answer(n) \/ hostCalls(n)
Next ==
    \/ loaded \/ reset \/ reloadPage \/ closeInspection \/ reviewCall
    \/ acknowledge \/ acknowledgeInstruction \/ administer \/ administered
    \/ \E k \in Keys : inspect(k)
    \/ \E n \in Calls : confirmCall(n) \/ Step(n)

Spec == Init /\ [][Next]_vars /\ WF_vars(administered) /\ \A n \in Calls : WF_vars(Step(n))

-----------------------------------------------------------------------------
(* An instruction goes out again only when the earlier identical call was    *)
(* reported to be done, or the user acknowledged exactly that call: "This    *)
(* identical instruction is blocked, including after reopening this panel"   *)
(* (McpManager.tsx:129).                                                     *)
Sent(n) == call[n] # None /\ call[n].wire # "none"
NoCallRepeat == \A n \in Calls : \A m \in 1..(n - 1) :
    Sent(n) /\ Sent(m) /\ call[n].key = call[m].key => call[m].reported \/ call[m].acknowledged

(* A call leaves only while the panel still shows what was reviewed.         *)
CallIsOnScreen == [][\A n \in Calls :
    call[n] # None /\ call[n].pc = "hash" /\ call'[n].pc = "sent" =>
        mcp.inspecting = call[n].key /\ mcp.flight = n]_vars

(* The panel does not stay busy.                                             *)
FlightEnds == (mcp.flight # None) ~> (mcp.flight = None)
=============================================================================
