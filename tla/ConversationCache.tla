------------------------- MODULE ConversationCache -------------------------
(***************************************************************************)
(* The cache of one conversation's turns in a window (SessionCache,         *)
(* lib/workspace-data.ts): polls that refresh some of the cached turns and   *)
(* append the new ones, earlier history read on request, and clear() when    *)
(* another account signs in.  Turns are numbered in the order the host made  *)
(* them.                                                                   *)
(***************************************************************************)
EXTENDS SequencesExt

CONSTANTS None,
          MaxTurns, Reports,                \* the turns, and which are reports
          First,                            \* turns there at first
          refreshCohort, Page,
          MaxChanges, MaxHistories, MaxUpsets       \* bounds

VARIABLES
    host,       \* turn -> its status
    generation, \* how often the cache was cleared
    record,     \* what is cached, or None
    flights, historyFlights,
    used

vars == <<host, generation, record, flights, historyFlights, used>>

Turns == 1..MaxTurns
isReport(t) == t \in Reports
\* A turn waits, gets a task and ends; a report may be revoked.
Statuses == {"absent", "queued", "running", "done", "revoked"}
RowsOf(set) == [n \in 1..Cardinality(set) |->
                    CHOOSE t \in set : Cardinality({u \in set : u < t}) = n - 1]
There == {t \in Turns : host[t] \notin {"absent", "revoked"}}
Row(t) == [id |-> t, status |-> host[t]]

TypeOK ==
    /\ host \in [Turns -> Statuses] /\ generation \in 0..MaxUpsets
    /\ record # None =>
         /\ record.turns \in Seq([id : Turns, status : Statuses \ {"absent", "revoked"}])
         /\ record.cursor \in 0..MaxTurns /\ record.start \in 0..MaxTurns /\ record.hasEarlier \in BOOLEAN
         /\ record.liveOffset \in Nat /\ record.reportOffset \in Nat
    /\ Cardinality({f \in flights : f.owner = generation}) <= 1
    /\ Cardinality({h \in historyFlights : h.owner = generation}) <= 1

Init ==
    /\ host = [t \in Turns |-> IF t > First THEN "absent" ELSE IF isReport(t) THEN "done" ELSE "queued"]
    /\ generation = 0 /\ record = None
    /\ flights = {} /\ historyFlights = {}
    /\ used = [changes |-> 0, histories |-> 0, upsets |-> 0]

-----------------------------------------------------------------------------
(* The host. *)

hostGoesOn ==
    /\ used.changes < MaxChanges /\ used' = [used EXCEPT !.changes = @ + 1]
    /\ \E t \in Turns :
         LET now == host[t]
         IN  \/ /\ now = "absent" /\ \A u \in 1..(t - 1) : host[u] # "absent"
                /\ host' = [host EXCEPT ![t] = IF isReport(t) THEN "done" ELSE "queued"]
             \/ now = "queued" /\ host' = [host EXCEPT ![t] = "running"]
             \/ now = "running" /\ host' = [host EXCEPT ![t] = "done"]
             \/ isReport(t) /\ now = "done" /\ host' = [host EXCEPT ![t] = "revoked"]
    /\ UNCHANGED <<generation, record, flights, historyFlights>>

-----------------------------------------------------------------------------
(* Which turns a poll refreshes: the newest, the newest live one, the newest *)
(* with a task, and a cohort of the live ones and of the reports that moves  *)
(* on from poll to poll. *)

Cohort(pool, offset) == {pool[((offset + n) % Len(pool)) + 1] : n \in 0..(Min({refreshCohort, Len(pool)}) - 1)}
\* Mutant: every poll takes the same cohort.
nextOffsetNone(pool, offset) == 0
nextOffset(pool, offset) ==
    IF pool = <<>> THEN 0 ELSE (offset + Min({refreshCohort, Len(pool)})) % Len(pool)

Newest(set) == IF set = {} THEN {} ELSE {Max(set)}
refreshTargets(r) ==
    LET ids(rows) == [i \in DOMAIN rows |-> rows[i].id]
        live == ids(SelectSeq(r.turns, LAMBDA row : ~isReport(row.id) /\ row.status # "done"))
        reports == ids(SelectSeq(r.turns, LAMBDA row : isReport(row.id)))
    IN  [ids |-> Newest(ToSet(ids(r.turns))) \cup Newest(ToSet(live))
                   \cup Newest({row.id : row \in {x \in ToSet(r.turns) : ~isReport(x.id) /\ x.status = "running"}})
                   \cup (IF live = <<>> THEN {} ELSE Cohort(live, r.liveOffset))
                   \cup (IF reports = <<>> THEN {} ELSE Cohort(reports, r.reportOffset)),
         liveOffset |-> nextOffset(live, r.liveOffset), reportOffset |-> nextOffset(reports, r.reportOffset)]

NoRecord == [owner |-> None, turns |-> <<>>, cursor |-> 0, start |-> 0, hasEarlier |-> FALSE, liveOffset |-> 0, reportOffset |-> 0]

-----------------------------------------------------------------------------
(* read: one at a time. *)

Reading == \E f \in flights : f.owner = generation
Flight == [owner |-> generation, cached |-> record # None, refresh |-> refreshTargets(IF record = None THEN NoRecord ELSE record),
           meta |-> None, page |-> None]
read ==
    /\ ~Reading /\ flights' = flights \cup {Flight}
    /\ UNCHANGED <<host, generation, record, historyFlights, used>>

\* The first answer has the refreshed turns as they are.
hostMeta(f) ==
    /\ f.meta = None
    /\ flights' = (flights \ {f}) \cup {[f EXCEPT !.meta = [t \in f.refresh.ids |-> host[t]]]}
    /\ UNCHANGED <<host, generation, record, historyFlights, used>>

\* The second has the next page after the cursor, or the last one.
After(f) == IF f.cached /\ record # None THEN record.cursor ELSE 0
hostPage(f) ==
    /\ f.meta # None /\ f.page = None
    /\ LET newer == {t \in There : t > After(f)}
           got == IF f.cached THEN {t \in newer : Cardinality({u \in newer : u < t}) < Page}
                              ELSE {t \in newer : Cardinality({u \in newer : u > t}) < Page}
       IN  flights' = (flights \ {f}) \cup
             {[f EXCEPT !.page = [rows |-> [n \in DOMAIN RowsOf(got) |-> Row(RowsOf(got)[n])], earlier |-> got # newer]]}
    /\ UNCHANGED <<host, generation, record, historyFlights, used>>

\* Mutant: an answer is taken whichever account asked.
AnyGeneration(f) == TRUE
assertGeneration(f) == f.owner = generation

\* What the answers make of the record as it is now: revoked turns go, the others
\* get their status, and the rows of the page are added or replace theirs.
Refreshed(rows, meta) ==
    LET kept == SelectSeq(rows, LAMBDA row : row.id \notin DOMAIN meta \/ meta[row.id] # "revoked")
    IN  [n \in DOMAIN kept |-> IF kept[n].id \in DOMAIN meta THEN [kept[n] EXCEPT !.status = meta[kept[n].id]] ELSE kept[n]]
With(rows, page) ==
    LET known == {row.id : row \in ToSet(rows)}
        replaced == [n \in DOMAIN rows |->
                        LET same == {row \in ToSet(page) : row.id = rows[n].id}
                        IN  IF same = {} THEN rows[n] ELSE CHOOSE row \in same : TRUE]
    IN  replaced \o SelectSeq(page, LAMBDA row : row.id \notin known)
\* Mutant: an empty page takes the cursor away.
endCursorOnly(rows, cursor) == IF rows = <<>> THEN 0 ELSE Last(rows).id
endCursor(rows, cursor) == IF rows = <<>> THEN cursor ELSE Last(rows).id
Committed(f) ==
    LET old == IF record = None THEN [NoRecord EXCEPT !.owner = f.owner] ELSE record
        rows == f.page.rows
    IN  [old EXCEPT !.turns = With(Refreshed(@, f.meta), rows),
                    !.cursor = endCursor(rows, @),
                    !.liveOffset = f.refresh.liveOffset, !.reportOffset = f.refresh.reportOffset,
                    !.start = IF f.cached \/ rows = <<>> THEN @ ELSE rows[1].id,
                    !.hasEarlier = IF f.cached THEN @ ELSE f.page.earlier]

\* A history that waited for this read goes on, from the start as it is now.
GoOn(h, r) == [h EXCEPT !.before = r.start]
Resumed(r, owner) ==
    {h \in historyFlights : h.before # None \/ h.owner # owner}
      \cup (IF r.hasEarlier THEN {GoOn(h, r) : h \in {x \in historyFlights : x.before = None /\ x.owner = owner}} ELSE {})

fetch(f) ==
    /\ f.page # None /\ flights' = flights \ {f}
    /\ IF assertGeneration(f)
         THEN record' = Committed(f) /\ historyFlights' = Resumed(Committed(f), f.owner)
         ELSE record' = record /\ historyFlights' = {h \in historyFlights : h.before # None \/ h.owner # f.owner}
    /\ UNCHANGED <<host, generation, used>>

readFails(f) ==
    /\ used.upsets < MaxUpsets /\ used' = [used EXCEPT !.upsets = @ + 1]
    /\ flights' = flights \ {f}
    /\ historyFlights' = {h \in historyFlights : h.before # None \/ h.owner # f.owner}
    /\ UNCHANGED <<host, generation, record>>

-----------------------------------------------------------------------------
(* history: the page before the start, once a read has ended. *)

history ==
    /\ used.histories < MaxHistories /\ used' = [used EXCEPT !.histories = @ + 1]
    /\ ~\E h \in historyFlights : h.owner = generation
    /\ historyFlights' = historyFlights \cup {[owner |-> generation, before |-> None, page |-> None]}
    /\ flights' = IF Reading THEN flights ELSE flights \cup {Flight}
    /\ UNCHANGED <<host, generation, record>>

hostHistory(h) ==
    /\ h.before # None /\ h.page = None
    /\ LET older == {t \in There : t < h.before}
           got == {t \in older : Cardinality({u \in older : u > t}) < Page}
       IN  historyFlights' = (historyFlights \ {h}) \cup
             {[h EXCEPT !.page = [rows |-> [n \in DOMAIN RowsOf(got) |-> Row(RowsOf(got)[n])], earlier |-> got # older]]}
    /\ UNCHANGED <<host, generation, record, flights, used>>

fetchHistory(h) ==
    /\ h.page # None /\ historyFlights' = historyFlights \ {h}
    /\ record' = IF assertGeneration(h) /\ record # None
                   THEN LET known == {row.id : row \in ToSet(record.turns)}
                        IN  [record EXCEPT !.turns = SelectSeq(h.page.rows, LAMBDA row : row.id \notin known) \o @,
                                           !.start = IF h.page.rows = <<>> THEN @ ELSE h.page.rows[1].id,
                                           !.hasEarlier = h.page.earlier]
                   ELSE record
    /\ UNCHANGED <<host, generation, flights, used>>

clear ==
    /\ used.upsets < MaxUpsets /\ used' = [used EXCEPT !.upsets = @ + 1]
    /\ generation' = generation + 1 /\ record' = None
    /\ UNCHANGED <<host, flights, historyFlights>>

-----------------------------------------------------------------------------
FlightStep == \E f \in flights : hostMeta(f) \/ hostPage(f) \/ fetch(f)
Next ==
    \/ hostGoesOn \/ read \/ FlightStep \/ history \/ clear
    \/ \E f \in flights : readFails(f)
    \/ \E h \in historyFlights : hostHistory(h) \/ fetchHistory(h)

\* The window polls on and the host answers.
Fairness == WF_vars(read) /\ WF_vars(FlightStep)
Spec == Init /\ [][Next]_vars /\ Fairness

-----------------------------------------------------------------------------
(* Properties. *)

\* "preserves history arriving during a forward poll", "deduplicates replayed
\* forward-page turns" (workspace-data.test.ts:103, 113): the rows are the turns
\* from the start to the cursor, each once and in order; only revoked ones lack.
CacheIsWindow ==
    record # None =>
      LET rows == record.turns
      IN  /\ \A i, k \in DOMAIN rows : i < k => rows[i].id < rows[k].id
          /\ \A t \in Turns : t >= record.start /\ t <= record.cursor /\ record.start > 0 /\ host[t] # "revoked" =>
                 \E i \in DOMAIN rows : rows[i].id = t
          /\ ~record.hasEarlier => \A t \in There : t <= record.cursor => \E i \in DOMAIN rows : rows[i].id = t

\* "invalidates in-flight reads at signout without resurrecting the previous
\* workspace cache" (workspace-data.test.ts:131, 139): what is cached was asked
\* for by the account that is signed in.
CacheIsOwn == record # None => record.owner = generation

\* "fairly rotates reports and queued turns while prioritizing the active root"
\* (workspace-data.test.ts:78): what happens to a cached turn is shown in the end,
\* however old it is, and a revoked report goes.
TurnsAreShown ==
    <>[](record # None => \A i \in DOMAIN record.turns : record.turns[i].status = host[record.turns[i].id])

=============================================================================
