------------------------------ MODULE HookPanel ------------------------------
(***************************************************************************)
(* The lifecycle hooks of the settings panel                                *)
(* (desktop/workspace/src/features/HookSettings.tsx).  The panel reads the  *)
(* hooks project by project, saves a hook disabled after a review, and      *)
(* enables, disables or removes one.  The host's API has no idempotency     *)
(* key: the page keeps a receipt of every write, which outlives the panel,  *)
(* and only what the host shows afterwards may settle an unanswered one.    *)
(*                                                                         *)
(* A hook is its project and its command; the host never changes either.    *)
(* A write is prepared (account, authority and the hook are read again) and *)
(* then sent; what becomes of the sent request is apart from what the page  *)
(* knows of it.                                                             *)
(***************************************************************************)
EXTENDS Naturals, FiniteSets

CONSTANTS Users, Commands, None,
          Projects,      \* number of the account's projects, read in this order
          PageSize,      \* projects a fresh panel reads
          MaxWrites,     \* bounds: writes in all, and what goes wrong meanwhile:
          MaxTroubles    \* others' changes, panels left, requests or answers lost

Writes == 1..MaxWrites
HookIds == 0..MaxWrites     \* hook 0 is there at the start, write n may create hook n
ProjectIds == 1..Projects
Body == [project : ProjectIds, command : Commands]
Hook == [body : Body, enabled : BOOLEAN, rev : Nat]
Kinds == {"create", "enable", "disable", "remove"}

VARIABLES
    hooks,       \* the host's hooks: identifier -> hook, or None
    account,     \* who is signed in, and the version of their authority
    creations,   \* user -> receipt of the last creation, or None
    operations,  \* user -> hook -> receipt of a change in doubt, or None
    panel,       \* the mounted panel
    load,        \* its read in flight, or None
    write,       \* write -> its state, or None
    spent        \* what MaxTroubles bounds

vars == <<hooks, account, creations, operations, panel, load, write, spent>>

Catalog == [user : Users, hooks : [HookIds -> Hook \cup {None}], read : SUBSET ProjectIds]
Review == [kind : Kinds, body : Body, hook : HookIds \cup {None}, rev : Nat]
Read == [pc : 0..(Projects + 1), catalog : Catalog, policy : Nat]
Write == [user : Users, kind : Kinds, body : Body, hook : HookIds \cup {None},
          rev : Nat, seen : Nat, before : SUBSET HookIds, enabled : BOOLEAN,
          stale : BOOLEAN, pc : {"prepare", "sent", "ended"},
          wire : {"none", "sent", "taken", "refused", "lost"}]

TypeOK ==
    /\ hooks \in [HookIds -> Hook \cup {None}]
    /\ account \in [user : Users, policy : Nat]
    /\ creations \in [Users -> [state : {"pending", "uncertain", "saved"}, write : Writes] \cup {None}]
    /\ operations \in [Users -> [HookIds -> [state : {"pending", "uncertain"}, write : Writes] \cup {None}]]
    /\ panel \in [mode : {"open", "locked", "closed"}, busy : BOOLEAN, shown : ProjectIds,
                  catalog : Catalog \cup {None}, review : Review \cup {None}]
    /\ load \in Read \cup {None}
    /\ \A n \in Writes : write[n] \in Write \cup {None}

NoHooks == [h \in HookIds |-> None]
\* A read starts over with nothing: pc 0 asks for the account, 1.. reads a
\* project each, the last one asks for the account again.
Begin == [pc |-> 0, policy |-> account.policy,
          catalog |-> [user |-> account.user, hooks |-> NoHooks, read |-> {}]]

Init ==
    /\ hooks \in {[NoHooks EXCEPT ![0] = [body |-> b, enabled |-> FALSE, rev |-> 1]] : b \in Body}
    /\ account \in [user : Users, policy : {0}]
    /\ creations = [u \in Users |-> None]
    /\ operations = [u \in Users |-> [h \in HookIds |-> None]]
    /\ panel = [mode |-> "open", busy |-> FALSE, shown |-> PageSize, catalog |-> None, review |-> None]
    /\ load = Begin
    /\ write = [n \in Writes |-> None]
    /\ spent = 0

Trouble == spent < MaxTroubles /\ spent' = spent + 1

-----------------------------------------------------------------------------
(* Reading the hooks. *)

reload ==
    /\ panel.mode = "open" /\ ~panel.busy /\ load = None
    /\ \E n \in {panel.shown} \cup (IF panel.catalog # None /\ panel.shown < Projects
                                  THEN {panel.shown + PageSize} \cap ProjectIds ELSE {}) :
           panel' = [panel EXCEPT !.catalog = None, !.shown = n]
    /\ load' = Begin
    /\ UNCHANGED <<hooks, account, creations, operations, write, spent>>

readAccount ==
    /\ load # None /\ load.pc = 0
    /\ load' = [Begin EXCEPT !.pc = 1]
    /\ UNCHANGED <<hooks, account, creations, operations, panel, write, spent>>

\* One project at a time.  A refusal leaves the project out; a host that does
\* not answer ends the reading.
readProject ==
    /\ load # None /\ load.pc \in ProjectIds
    /\ LET p == load.pc
           next == IF p = panel.shown THEN Projects + 1 ELSE p + 1
       IN  \/ /\ load' = [load EXCEPT !.pc = next, !.catalog.read = @ \cup {p},
                              !.catalog.hooks = [h \in HookIds |->
                                  IF hooks[h] # None /\ hooks[h].body.project = p THEN hooks[h] ELSE @[h]]]
              /\ UNCHANGED spent
           \/ /\ Trouble
              /\ \E pc \in {next, Projects + 1} : load' = [load EXCEPT !.pc = pc]
    /\ UNCHANGED <<hooks, account, creations, operations, panel, write>>

\* A bug: a hook that was there before counts as the new one.
MatchesAll(r, c) == {h \in HookIds : /\ c.hooks[h] # None
                                     /\ c.hooks[h].body = write[r.write].body
                                     /\ ~c.hooks[h].enabled}
\* A hook the catalog shows that is not one the creation knew before.
Matches(r, c) == {h \in HookIds : /\ c.hooks[h] # None
                                  /\ h \notin write[r.write].before
                                  /\ c.hooks[h].body = write[r.write].body
                                  /\ ~c.hooks[h].enabled}

\* Does the catalog show that the change of hook h was made?
Shows(h, r, c) ==
    LET w == write[r.write] IN
        \/ w.kind = "remove" /\ c.hooks[h] = None /\ Cardinality(c.read) = panel.shown
        \/ c.hooks[h] # None /\ c.hooks[h].rev > w.rev /\ c.hooks[h].enabled = w.enabled

settleRead ==
    /\ load # None /\ load.pc = Projects + 1
    /\ IF account = [user |-> load.catalog.user, policy |-> load.policy]
       THEN LET u == account.user
                read == load.catalog
            IN  /\ creations' = [creations EXCEPT ![u] =
                       IF @ # None /\ @.state = "uncertain" /\ Cardinality(Matches(@, read)) = 1
                       THEN [@ EXCEPT !.state = "saved"] ELSE @]
                /\ operations' = [operations EXCEPT ![u] = [h \in HookIds |->
                       IF @[h] # None /\ @[h].state = "uncertain" /\ Shows(h, @[h], read) THEN None ELSE @[h]]]
                /\ panel' = [panel EXCEPT !.catalog = read]
       ELSE UNCHANGED <<creations, operations, panel>>
    /\ load' = None
    /\ UNCHANGED <<hooks, account, write, spent>>

-----------------------------------------------------------------------------
(* Writing. *)

InDoubt(r) == r # None /\ r.state \in {"pending", "uncertain"}

openReview(r) ==
    /\ panel.mode = "open" /\ panel.catalog # None /\ load = None
    /\ ~panel.busy /\ panel.review = None
    /\ LET u == panel.catalog.user IN
         IF r.kind = "create"
         THEN /\ r.body.project \in panel.catalog.read /\ ~InDoubt(creations[u])
              /\ ~(creations[u] # None /\ creations[u].state = "saved" /\ write[creations[u].write].body = r.body)
         ELSE /\ panel.catalog.hooks[r.hook] # None /\ operations[u][r.hook] = None
              /\ r.kind = "enable" => ~panel.catalog.hooks[r.hook].enabled
    /\ panel' = [panel EXCEPT !.review = r]
    /\ UNCHANGED <<hooks, account, creations, operations, load, write, spent>>

review ==
    \/ \E b \in Body : openReview([kind |-> "create", body |-> b, hook |-> None, rev |-> 0])
    \/ \E h \in HookIds, k \in {"enable", "remove"} :
           /\ panel.catalog # None /\ panel.catalog.hooks[h] # None
           /\ openReview([kind |-> k, body |-> panel.catalog.hooks[h].body, hook |-> h,
                          rev |-> panel.catalog.hooks[h].rev])

cancelReview ==
    /\ panel.review # None /\ ~panel.busy
    /\ panel' = [panel EXCEPT !.review = None]
    /\ UNCHANGED <<hooks, account, creations, operations, load, write, spent>>

apply(n, r) ==
    /\ write[n] = None /\ \A m \in 1..(n - 1) : write[m] # None
    /\ panel.mode = "open" /\ panel.catalog # None /\ load = None /\ ~panel.busy
    /\ LET u == panel.catalog.user IN
         /\ r.kind = "create" => ~InDoubt(creations[u])
         /\ r.kind # "create" => operations[u][r.hook] = None
         /\ write' = [write EXCEPT ![n] =
                [user |-> u, kind |-> r.kind, body |-> r.body, hook |-> r.hook, rev |-> r.rev,
                 seen |-> r.rev, before |-> {h \in HookIds : panel.catalog.hooks[h] # None},
                 enabled |-> r.kind = "enable", stale |-> FALSE, pc |-> "prepare", wire |-> "none"]]
         /\ IF r.kind = "create"
            THEN /\ creations' = [creations EXCEPT ![u] = [state |-> "pending", write |-> n]]
                 /\ UNCHANGED operations
            ELSE /\ operations' = [operations EXCEPT ![u][r.hook] = [state |-> "pending", write |-> n]]
                 /\ UNCHANGED creations
    /\ panel' = [panel EXCEPT !.busy = TRUE]
    /\ UNCHANGED <<hooks, account, load, spent>>

confirm(n) == panel.review # None /\ apply(n, panel.review)

disable(n) == \E h \in HookIds :
    /\ panel.catalog # None /\ panel.catalog.hooks[h] # None /\ panel.catalog.hooks[h].enabled
    /\ panel.review = None
    /\ apply(n, [kind |-> "disable", body |-> panel.catalog.hooks[h].body, hook |-> h,
                 rev |-> panel.catalog.hooks[h].rev])

\* The receipts after write n ended: "done", "failed" for certain, or "doubt".
Settled(n, end) ==
    LET w == write[n]
        mine == [state |-> "pending", write |-> n]
        doubt == [state |-> "uncertain", write |-> n]
    IN  IF w.kind = "create"
        THEN /\ creations' = [creations EXCEPT ![w.user] =
                    IF @ # mine THEN @
                    ELSE CASE end = "done" -> [mine EXCEPT !.state = "saved"]
                           [] end = "failed" -> None
                           [] OTHER -> doubt]
             /\ UNCHANGED operations
        ELSE /\ operations' = [operations EXCEPT ![w.user][w.hook] =
                    IF end = "doubt" THEN doubt ELSE None]
             /\ UNCHANGED creations

\* The prepared write is given up: nothing was sent.
giveUp(n) ==
    /\ write[n] # None /\ write[n].pc = "prepare"
    /\ Settled(n, "failed")
    /\ write' = [write EXCEPT ![n].pc = "ended"]
    /\ panel' = IF write[n].stale THEN panel ELSE [panel EXCEPT !.busy = FALSE]
    /\ UNCHANGED <<hooks, account, load, spent>>

\* A bug: the change goes to whatever revision the hook has now.
UnchangedNot(n) ==
    LET w == write[n] IN w.kind # "create" => hooks[w.hook] # None
\* Is the hook as it was reviewed?
Unchanged(n) ==
    LET w == write[n] IN
        w.kind # "create" => hooks[w.hook] # None /\ hooks[w.hook].rev = w.rev

\* Account, authority and hook read again; the request leaves, for the
\* revision that was just read.
dispatch(n) ==
    /\ write[n] # None /\ write[n].pc = "prepare" /\ ~write[n].stale
    /\ account.user = write[n].user /\ Unchanged(n)
    /\ write' = [write EXCEPT ![n].pc = "sent", ![n].wire = "sent",
                     ![n].rev = IF write[n].kind = "create" THEN @ ELSE hooks[write[n].hook].rev,
                     ![n].before = {h \in HookIds : hooks[h] # None /\ hooks[h].body.project = write[n].body.project}]
    /\ UNCHANGED <<hooks, account, creations, operations, panel, load, spent>>

\* The answer reaches a panel that still waits.  A refusal is certain; no
\* answer, or the host's own failure, is not.
answer(n) ==
    /\ write[n] # None /\ write[n].pc = "sent" /\ ~write[n].stale
    /\ \/ /\ write[n].wire = "taken" /\ Settled(n, "done")
          /\ panel' = [panel EXCEPT !.busy = FALSE, !.review = None, !.catalog = None]
          /\ load' = Begin
       \/ /\ write[n].wire = "refused" /\ Settled(n, "failed")
          /\ panel' = [panel EXCEPT !.busy = FALSE] /\ UNCHANGED load
       \/ /\ write[n].wire = "lost" /\ Settled(n, "doubt")
          /\ panel' = [panel EXCEPT !.busy = FALSE, !.review = None] /\ UNCHANGED load
    /\ write' = [write EXCEPT ![n].pc = "ended"]
    /\ UNCHANGED <<hooks, account, spent>>

\* The line breaks before the answer, whether or not the host has the request.
breakLine(n) ==
    /\ write[n] # None /\ write[n].pc = "sent" /\ Trouble
    /\ Settled(n, "doubt")
    /\ panel' = [panel EXCEPT !.busy = FALSE, !.review = None]
    /\ write' = [write EXCEPT ![n].pc = "ended"]
    /\ UNCHANGED <<hooks, account, load>>

-----------------------------------------------------------------------------
(* The panel is locked or left; the writes it waits for are aborted. *)

Aborted(w) == w # None /\ w.pc = "sent"
\* A bug: an aborted write counts as one that was not made.
AbandonClean ==
    /\ write' = [n \in Writes |->
           IF write[n] = None \/ write[n].pc = "ended" THEN write[n]
           ELSE [write[n] EXCEPT !.stale = TRUE, !.pc = IF @ = "sent" THEN "ended" ELSE @]]
    /\ creations' = [u \in Users |->
           IF creations[u] # None /\ creations[u].state = "pending" /\ Aborted(write[creations[u].write])
           THEN None ELSE creations[u]]
    /\ operations' = [u \in Users |-> [h \in HookIds |->
           IF operations[u][h] # None /\ Aborted(write[operations[u][h].write])
           THEN None ELSE operations[u][h]]]
    /\ load' = None
Abandon ==
    /\ write' = [n \in Writes |->
           IF write[n] = None \/ write[n].pc = "ended" THEN write[n]
           ELSE [write[n] EXCEPT !.stale = TRUE, !.pc = IF @ = "sent" THEN "ended" ELSE @]]
    /\ creations' = [u \in Users |->
           IF creations[u] # None /\ creations[u].state = "pending" /\ Aborted(write[creations[u].write])
           THEN [creations[u] EXCEPT !.state = "uncertain"] ELSE creations[u]]
    /\ operations' = [u \in Users |-> [h \in HookIds |->
           IF operations[u][h] # None /\ Aborted(write[operations[u][h].write])
           THEN [operations[u][h] EXCEPT !.state = "uncertain"] ELSE operations[u][h]]]
    /\ load' = None


stop(mode) ==
    /\ panel.mode = "open" /\ Trouble
    /\ Abandon
    /\ panel' = [panel EXCEPT !.mode = mode, !.busy = FALSE, !.catalog = None, !.review = None]
    /\ \/ UNCHANGED account
       \/ mode = "closed" /\ \E u \in Users : account' = [account EXCEPT !.user = u]
    /\ UNCHANGED hooks

unlock ==
    /\ panel.mode = "locked"
    /\ panel' = [panel EXCEPT !.mode = "open"] /\ load' = Begin
    /\ UNCHANGED <<hooks, account, creations, operations, write, spent>>

reopen ==
    /\ panel.mode = "closed"
    /\ panel' = [panel EXCEPT !.mode = "open", !.shown = PageSize] /\ load' = Begin
    /\ UNCHANGED <<hooks, account, creations, operations, write, spent>>

-----------------------------------------------------------------------------
(* The host.  A change of a hook names the revision; a removal does not. *)

Lands(w) == \/ w.kind = "create"
            \/ hooks[w.hook] # None /\ (w.kind = "remove" \/ hooks[w.hook].rev = w.rev)

hostTakes(n) ==
    /\ write[n] # None /\ write[n].wire = "sent"
    /\ LET w == write[n] IN
         IF Lands(w)
         THEN /\ CASE w.kind = "create" ->
                         hooks' = [hooks EXCEPT ![n] = [body |-> w.body, enabled |-> FALSE, rev |-> 1]]
                   [] w.kind = "remove" -> hooks' = [hooks EXCEPT ![w.hook] = None]
                   [] OTHER -> hooks' = [hooks EXCEPT ![w.hook].enabled = w.enabled, ![w.hook].rev = @ + 1]
              /\ write' = [write EXCEPT ![n].wire = "taken"]
         ELSE hooks' = hooks /\ write' = [write EXCEPT ![n].wire = "refused"]
    /\ UNCHANGED <<account, creations, operations, panel, load, spent>>

hostDrops(n) ==
    /\ write[n] # None /\ write[n].wire = "sent" /\ Trouble
    /\ write' = [write EXCEPT ![n].wire = "lost"]
    /\ UNCHANGED <<hooks, account, creations, operations, panel, load>>

\* Another client of the host changes a hook, or the account's authority.
others ==
    /\ Trouble
    /\ \/ \E h \in HookIds : /\ hooks[h] # None
                             /\ hooks' = [hooks EXCEPT ![h].enabled = ~@, ![h].rev = @ + 1]
                             /\ UNCHANGED account
       \/ \E h \in HookIds : hooks[h] # None /\ hooks' = [hooks EXCEPT ![h] = None] /\ UNCHANGED account
       \/ account' = [account EXCEPT !.policy = @ + 1] /\ UNCHANGED hooks
    /\ UNCHANGED <<creations, operations, panel, load, write>>

Progress == readAccount \/ readProject \/ settleRead
Step(n) == giveUp(n) \/ dispatch(n) \/ answer(n) \/ hostTakes(n)
Next ==
    \/ reload \/ Progress \/ review \/ cancelReview
    \/ stop("locked") \/ stop("closed") \/ unlock \/ reopen \/ others
    \/ \E n \in Writes : confirm(n) \/ disable(n) \/ Step(n) \/ breakLine(n) \/ hostDrops(n)

Spec == Init /\ [][Next]_vars /\ \A n \in Writes : WF_vars(Step(n))

-----------------------------------------------------------------------------
(* No write leaves while an earlier one of the same account could still     *)
(* take effect unseen (a creation, or a change of the same hook): "Keep     *)
(* uncertain writes blocked across a panel remount" (HookSettings.tsx:22).  *)
CouldLand(m) == write[m].wire = "sent" /\ Lands(write[m])
NoHookRepeat == [][\A n \in Writes :
    write[n] # None /\ write[n].pc = "prepare" /\ write'[n].pc = "sent" =>
        \A m \in Writes \ {n} : /\ write[m] # None /\ write[m].user = write[n].user
                                /\ write[m].hook = write[n].hook
                                => ~CouldLand(m)]_vars

(* A creation is reported as saved only when the host saved it.             *)
SavedIsSaved == \A u \in Users :
    creations[u] # None /\ creations[u].state = "saved" => write[creations[u].write].wire = "taken"

(* A change of a hook leaves only if the hook is in the revision the user   *)
(* saw (HookSettings.tsx:144), and the host enables or disables it in no    *)
(* other.  A removal names no revision (:146): once it has left it removes  *)
(* what it finds.                                                           *)
ReviewedRevision ==
    [][\A n \in Writes : write[n] # None /\ write[n].kind # "create" =>
         /\ write[n].pc = "prepare" /\ write'[n].pc = "sent" =>
              hooks[write[n].hook].rev = write[n].seen
         /\ write[n].kind # "remove" /\ write[n].wire = "sent" /\ write'[n].wire = "taken" =>
              hooks[write[n].hook].rev = write[n].seen]_vars

(* Every receipt leaves the pending state.                                  *)
PendingEnds == \A u \in Users :
    /\ (creations[u] # None /\ creations[u].state = "pending") ~>
           (creations[u] = None \/ creations[u].state # "pending")
    /\ \A h \in HookIds : (operations[u][h] # None /\ operations[u][h].state = "pending") ~>
           (operations[u][h] = None \/ operations[u][h].state # "pending")

(* A change in doubt is forgotten only once it can no longer land.          *)
DoubtEndsWithProof == [][\A u \in Users, h \in HookIds :
    operations[u][h] # None /\ operations[u][h].state = "uncertain" /\ operations'[u][h] = None =>
        write[operations[u][h].write].wire # "sent" \/ ~Lands(write[operations[u][h].write])]_vars
=============================================================================
