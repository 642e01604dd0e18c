------------------------------ MODULE ChangeReview ------------------------------
(***************************************************************************)
(* The uncommitted changes of a conversation's checkout                      *)
(* (lib/session-changes.ts, features/ChangeReview.tsx): a summary polled     *)
(* while the workspace is unlocked and in the foreground, and the diff of    *)
(* the file selected in it, asked again for each summary.  A read is given   *)
(* up when another one, another checkout or a lock takes its place, but its  *)
(* answer may already be on its way.  Effects run some time after the render *)
(* that calls for them.                                                      *)
(***************************************************************************)
EXTENDS Naturals, FiniteSets

CONSTANTS None, Scopes, Paths,    \* checkouts; the files changed in each of them
          MaxReads, MaxDiffs, MaxVersion, MaxUpsets  \* bounds: reads, diffs, changes
                                  \* of a checkout, and user's or window's events

VARIABLES
    host,      \* the content of each checkout, by its version
    scope, paused, foreground,
    snapshot,  \* the summary kept, with the read that brought it
    choice,    \* the file chosen, and where
    result,    \* the diff kept
    rendered,  \* what the effects ran for
    reads, diffs,   \* requests, in order
    serial, epoch,  \* the request whose answer is awaited
    used

view == <<scope, paused, foreground, snapshot, choice, result>>
vars == <<host, view, rendered, reads, diffs, serial, epoch, used>>

Request == [scope : Scopes, path : Paths \cup {None}, at : 0..MaxVersion \cup {None},
            aborted : BOOLEAN, done : BOOLEAN]
Summary == [scope : Scopes, at : 0..MaxVersion, read : 1..MaxReads]
Diff == [scope : Scopes, path : Paths, at : 0..MaxVersion]

TypeOK ==
    /\ host \in [Scopes -> 0..MaxVersion]
    /\ scope \in Scopes /\ {paused, foreground} \subseteq BOOLEAN
    /\ snapshot \in Summary \cup {None} /\ result \in Diff \cup {None}
    /\ choice = None \/ choice \in [scope : Scopes, path : Paths]
    /\ reads \in [1..MaxReads -> Request \cup {None}] /\ diffs \in [1..MaxDiffs -> Request \cup {None}]
    /\ serial \in 0..MaxReads /\ epoch \in 0..MaxDiffs

data == IF ~paused /\ snapshot # None /\ snapshot.scope = scope THEN snapshot ELSE None
selected == IF data = None THEN None
            ELSE IF choice # None /\ choice.scope = scope THEN choice.path
            ELSE CHOOSE p \in Paths : TRUE
diff == IF result # None /\ result.scope = scope /\ result.path = selected THEN result ELSE None

Init ==
    /\ host = [s \in Scopes |-> 0]
    /\ scope = CHOOSE s \in Scopes : TRUE
    /\ paused = FALSE /\ foreground = TRUE /\ rendered = None
    /\ snapshot = None /\ choice = None /\ result = None
    /\ reads = [n \in 1..MaxReads |-> None] /\ diffs = [n \in 1..MaxDiffs |-> None]
    /\ serial = 0 /\ epoch = 0 /\ used = 0

Upset == used < MaxUpsets /\ used' = used + 1
Following(q) == 1 + Cardinality({n \in DOMAIN q : q[n] # None})
Aborted(q, n) == IF n = 0 \/ n \notin DOMAIN q THEN q ELSE [q EXCEPT ![n].aborted = TRUE]
Asked(q, s, p) == [q EXCEPT ![Following(q)] =
                      [scope |-> s, path |-> p, at |-> None, aborted |-> FALSE, done |-> FALSE]]

-----------------------------------------------------------------------------
(* Requests and their answers. *)

mayRead == ~paused /\ foreground
Full(q) == \A n \in DOMAIN q : q[n] # None

\* The poll or the user's retry: the read before is given up.
refresh ==
    /\ mayRead /\ rendered # None /\ ~Full(reads)
    /\ reads' = Asked(Aborted(reads, serial), scope, None)
    /\ serial' = Following(reads)
    /\ UNCHANGED <<host, view, rendered, diffs, epoch, used>>

hostReads(n) ==
    /\ reads[n] # None /\ reads[n].at = None
    /\ reads' = [reads EXCEPT ![n].at = host[reads[n].scope]]
    /\ UNCHANGED <<host, view, rendered, diffs, serial, epoch, used>>

hostDiffs(n) ==
    /\ diffs[n] # None /\ diffs[n].at = None
    /\ diffs' = [diffs EXCEPT ![n].at = host[diffs[n].scope]]
    /\ UNCHANGED <<host, view, rendered, reads, serial, epoch, used>>

\* A bug: any summary of the checkout is taken.
AcceptedOfScope(n) == reads[n].scope = scope
Accepted(n) == ~reads[n].aborted /\ reads[n].scope = scope /\ serial = n

readEnds(n, failed) ==
    /\ reads[n] # None /\ reads[n].at # None /\ ~reads[n].done
    /\ IF failed THEN Upset ELSE UNCHANGED used
    /\ reads' = [reads EXCEPT ![n].done = TRUE]
    /\ snapshot' = IF ~Accepted(n) THEN snapshot
                   ELSE IF failed THEN None
                   ELSE [scope |-> scope, at |-> reads[n].at, read |-> n]
    /\ UNCHANGED <<host, scope, paused, foreground, choice, result, rendered, diffs, serial, epoch>>

\* A bug: the diff given up is kept too.
DiffAcceptedAnyway(n) == TRUE
DiffAccepted(n) == ~diffs[n].aborted /\ epoch = n

diffEnds(n, failed) ==
    /\ diffs[n] # None /\ diffs[n].at # None /\ ~diffs[n].done
    /\ IF failed THEN Upset ELSE UNCHANGED used
    /\ diffs' = [diffs EXCEPT ![n].done = TRUE]
    /\ result' = IF ~DiffAccepted(n) THEN result
                 ELSE IF failed THEN None
                 ELSE [scope |-> diffs[n].scope, path |-> diffs[n].path, at |-> diffs[n].at]
    /\ UNCHANGED <<host, scope, paused, foreground, snapshot, choice, rendered, reads, serial, epoch>>

-----------------------------------------------------------------------------
(* Effects: the poll restarts for a new checkout, a return to the foreground  *)
(* and an unlock; the diff is asked for each summary and file.                *)

Rendering == [scope |-> scope, reads |-> mayRead, data |-> data, path |-> selected]

runEffects ==
    /\ rendered # Rendering
    /\ LET restarts == rendered = None \/ rendered.scope # scope \/ rendered.reads # mayRead
           differs == rendered = None \/ rendered.data # data \/ rendered.path # selected
           asks == differs /\ selected # None
       IN  /\ restarts /\ mayRead => ~Full(reads)
           /\ asks => ~Full(diffs)
           /\ reads' = IF ~restarts THEN reads
                       ELSE IF mayRead THEN Asked(Aborted(reads, serial), scope, None)
                       ELSE Aborted(reads, serial)
           /\ serial' = IF ~restarts THEN serial ELSE IF mayRead THEN Following(reads) ELSE 0
           /\ diffs' = IF asks THEN Asked(Aborted(diffs, epoch), scope, selected)
                       ELSE IF differs THEN Aborted(diffs, epoch) ELSE diffs
           /\ epoch' = IF asks THEN Following(diffs) ELSE IF differs THEN 0 ELSE epoch
    /\ rendered' = Rendering
    /\ UNCHANGED <<host, view, used>>

-----------------------------------------------------------------------------
(* The user, the window and the checkout. *)

choose(p) ==
    /\ data # None /\ p # selected /\ Upset
    /\ choice' = [scope |-> scope, path |-> p]
    /\ UNCHANGED <<host, scope, paused, foreground, snapshot, result, rendered, reads, diffs, serial, epoch>>

setScope(s) ==
    /\ s # scope /\ Upset
    /\ scope' = s
    /\ UNCHANGED <<host, paused, foreground, snapshot, choice, result, rendered, reads, diffs, serial, epoch>>

visibility ==
    /\ Upset
    /\ foreground' = ~foreground
    /\ UNCHANGED <<host, scope, paused, snapshot, choice, result, rendered, reads, diffs, serial, epoch>>

lock ==
    /\ ~paused /\ Upset
    /\ paused' = TRUE /\ snapshot' = None
    /\ reads' = Aborted(reads, serial) /\ serial' = 0
    /\ UNCHANGED <<host, scope, foreground, choice, result, rendered, diffs, epoch>>

unlock ==
    /\ paused
    /\ paused' = FALSE
    /\ UNCHANGED <<host, scope, foreground, snapshot, choice, result, rendered, reads, diffs, serial, epoch, used>>

checkoutChanges(s) ==
    /\ host[s] < MaxVersion
    /\ host' = [host EXCEPT ![s] = @ + 1]
    /\ UNCHANGED <<view, rendered, reads, diffs, serial, epoch, used>>

Next ==
    \/ refresh \/ runEffects \/ visibility \/ lock \/ unlock
    \/ \E n \in 1..MaxReads, failed \in BOOLEAN : hostReads(n) \/ readEnds(n, failed)
    \/ \E n \in 1..MaxDiffs, failed \in BOOLEAN : hostDiffs(n) \/ diffEnds(n, failed)
    \/ \E p \in Paths : choose(p)
    \/ \E s \in Scopes : setScope(s) \/ checkoutChanges(s)

Spec == Init /\ [][Next]_vars

-----------------------------------------------------------------------------
(* What is shown of a checkout and of a file never goes back to an earlier    *)
(* content: an answer overtaken by a later read is not shown.                 *)
NeverBack == [][/\ (data # None /\ data' # None /\ data'.scope = data.scope => data'.at >= data.at)
                /\ (diff # None /\ diff' # None /\ diff'.scope = diff.scope /\ diff'.path = diff.path
                        => diff'.at >= diff.at)]_vars
=============================================================================
