--------------------------- MODULE WindowHandoff ---------------------------
(***************************************************************************)
(* A detached window returns to the main one (App.tsx redock, applyRedock; *)
(* lib/native.ts, lib/browser-windows.ts).  It freezes its local store,    *)
(* sends a snapshot of the selected conversation's draft and of the edited *)
(* files, waits for the main window to have taken it in, compares, deletes *)
(* its journal and closes.  Every step may fail, be refused or be late, and *)
(* both windows go on being used.                                          *)
(*                                                                         *)
(* Whatever the user writes is a new value 1, 2, ... (0: nothing), so that *)
(* it can be found again.  One file is edited; a row of the editor is named *)
(* by the tags of the handoffs that made it a copy.  Artifact drafts go the *)
(* way of the files.                                                       *)
(***************************************************************************)
EXTENDS Naturals, Sequences, FiniteSets, SequencesExt

CONSTANTS Convs, Selected,   \* conversations, and the one the child shows
          None,
          MaxValues, MaxReturns,     \* bounds: values and returns in all, and what
          Bounds                     \* a behaviour may use, chosen at its start

\* What the constants are.
ConstantsOK ==
    /\ Selected \in Convs
    /\ MaxValues \in Nat /\ MaxReturns \in Nat
    /\ LET each == [{"main", "child"} -> Nat]
       IN  Bounds \subseteq [drafts : each, images : each, files : each,
                             returns : 0..MaxReturns, faults : Nat, reloads : Nat]

VARIABLES
    native,     \* desktop windows with a coordinator in Rust, or browser windows
    host,       \* conversation -> its stored draft text
    draft,      \* window -> conversation -> registry entry (drafts.ts), or None
    journal,    \* window -> what window-journal.ts keeps of it
    buf,        \* window -> rows of the editor
    stored,     \* window -> rows that window-state.ts keeps in the browser
    open,       \* the child window is open
    pc,         \* redock() in the child
    attempt,    \* its last handoff id
    sent,       \* the snapshot it sent
    toMain,     \* messages to the main window, in order
    answers,    \* answers on their way to the child
    job,        \* handoff id -> applyRedock in the main window, or None
    work,       \* values the user wrote and did not replace: history
    last,       \* the newest value: history
    bound,      \* one of Bounds
    used        \* what it counts

vars == <<native, host, draft, journal, buf, stored, open, pc, attempt, sent, toMain,
          answers, job, work, last, bound, used>>
budget == <<last, bound, used>>

\* The two windows.
Screens == {"main", "child"}
Values == 0..MaxValues
Ids == 1..MaxReturns
Entry == [text : Values, saved : Values, dirty : BOOLEAN, image : Values]
NoEntry == [text |-> 0, saved |-> 0, dirty |-> FALSE, image |-> 0]
\* Tags of a copy: the handoff, or how the two windows' rows met.
Live == 0
Restored == MaxReturns + 1
Row == [key : Seq(Live..Restored), content : Values, dirty : BOOLEAN]
Dirty(rows) == {r \in rows : r.dirty}

TypeOK ==
    /\ ConstantsOK
    /\ native \in BOOLEAN /\ open \in BOOLEAN
    /\ host \in [Convs -> Values]
    /\ \A w \in Screens, c \in Convs :
         draft[w][c] \in Entry \cup {None} /\ journal[w][c] \in Entry \cup {None}
    /\ \A w \in Screens : /\ \A r \in buf[w] : r \in Row
                          /\ stored[w] \subseteq Dirty(stored[w])
                          /\ \A r, s \in buf[w] : r.key = s.key => r = s
    /\ pc \in {"idle", "flush", "request", "waiting", "compare", "drop", "commit", "failed", "closed"}
    /\ attempt \in 0..MaxReturns
    /\ \A i \in Ids : job[i] = None \/ job[i].pc \in {"check", "merge", "persist", "publish",
                                                      "draft", "answer", "refuse"}
    /\ last \in Values /\ bound \in Bounds
    /\ used.faults \in 0..bound.faults /\ used.reloads \in 0..bound.reloads

Init ==
    /\ native \in BOOLEAN /\ open = TRUE
    /\ host = [c \in Convs |-> 0]
    /\ draft = [w \in Screens |-> [c \in Convs |-> None]]
    /\ journal = draft
    /\ buf = [w \in Screens |-> {[key |-> <<>>, content |-> 0, dirty |-> FALSE]}]
    /\ stored = [w \in Screens |-> {}]
    /\ pc = "idle" /\ attempt = 0 /\ sent = None
    /\ toMain = <<>> /\ answers = {}
    /\ job = [i \in Ids |-> None]
    /\ work = {}
    /\ last = 0 /\ bound \in Bounds
    /\ LET none == [w \in Screens |-> 0]
       IN  used = [drafts |-> none, images |-> none, files |-> none, faults |-> 0, reloads |-> 0]

Count(f) == used[f] < bound[f] /\ used' = [used EXCEPT ![f] = @ + 1] /\ UNCHANGED <<last, bound>>
Fresh == last + 1
NewValue(f, w) ==
    /\ used[f][w] < bound[f][w] /\ used' = [used EXCEPT ![f][w] = @ + 1] /\ UNCHANGED bound
    /\ last < MaxValues /\ last' = last + 1

-----------------------------------------------------------------------------
(* What the user does in either window. *)

View(w, c) == IF draft[w][c] = None THEN [NoEntry EXCEPT !.text = host[c], !.saved = host[c]]
              ELSE draft[w][c]
\* The page of a returning window is inert.
Usable(w) == w = "main" \/ (open /\ pc = "idle")
SetDraft(w, c, entry) == /\ draft' = [draft EXCEPT ![w][c] = entry]
                         /\ journal' = [journal EXCEPT ![w][c] = entry]

editDraft(w, c) ==
    /\ Usable(w) /\ NewValue("drafts", w)
    /\ SetDraft(w, c, [View(w, c) EXCEPT !.text = Fresh, !.dirty = TRUE])
    /\ work' = (work \ {View(w, c).text}) \cup {Fresh}
    /\ UNCHANGED <<native, host, buf, stored, open, pc, attempt, sent, toMain, answers, job>>

\* An image is read in the background: it may arrive while the window returns.
editAttachments(w, c) ==
    /\ w = "main" \/ (open /\ pc # "commit")
    /\ NewValue("images", w)
    /\ SetDraft(w, c, [View(w, c) EXCEPT !.image = Fresh])
    /\ work' = (work \ {View(w, c).image}) \cup {Fresh}
    /\ UNCHANGED <<native, host, buf, stored, open, pc, attempt, sent, toMain, answers, job>>

\* The host takes text only, and only over the draft this window started from.
Mine(entry, c) == host[c] \in {entry.saved, entry.text}
saveDraft(w, c) ==
    /\ w = "main" \/ open
    /\ draft[w][c] # None /\ draft[w][c].dirty /\ Mine(draft[w][c], c)
    /\ host' = [host EXCEPT ![c] = draft[w][c].text]
    /\ SetDraft(w, c, [draft[w][c] EXCEPT !.saved = draft[w][c].text, !.dirty = FALSE])
    /\ UNCHANGED <<native, buf, stored, open, pc, attempt, sent, toMain, answers, job, work, budget>>

editBuffer(w) ==
    /\ Usable(w) /\ NewValue("files", w)
    /\ \E r \in buf[w] :
         /\ r.key = <<>>
         /\ buf' = [buf EXCEPT ![w] = (@ \ {r}) \cup {[r EXCEPT !.content = Fresh, !.dirty = TRUE]}]
         /\ work' = (work \ {r.content}) \cup {Fresh}
    /\ UNCHANGED <<native, host, draft, journal, stored, open, pc, attempt, sent, toMain,
                   answers, job>>

Frozen(w) == w = "child" /\ pc # "idle"
\* A bug: clean rows are stored as well.
persistBuffersAll(w) ==
    /\ ~Frozen(w) /\ (w = "main" \/ open) /\ stored[w] # Dirty(buf[w])
    /\ stored' = [stored EXCEPT ![w] = buf[w]]
    /\ UNCHANGED <<native, host, draft, journal, buf, open, pc, attempt, sent, toMain,
                   answers, job, work, budget>>

\* The edited rows are stored 200 ms after a change.
persistBuffers(w) ==
    /\ ~Frozen(w) /\ (w = "main" \/ open) /\ stored[w] # Dirty(buf[w])
    /\ stored' = [stored EXCEPT ![w] = Dirty(buf[w])]
    /\ UNCHANGED <<native, host, draft, journal, buf, open, pc, attempt, sent, toMain,
                   answers, job, work, budget>>

\* A page with rows that are not stored asks before it is left.
Leaves(w) == stored[w] = Dirty(buf[w]) /\ Count("reloads")

\* The main page is reloaded: what it was taking in is dropped, and its draft
\* journal and its rows are restored.
reloadMain ==
    /\ Leaves("main")
    /\ draft' = [draft EXCEPT !["main"] = journal["main"]]
    /\ job' = [i \in Ids |-> None] /\ toMain' = <<>>
    /\ UNCHANGED <<native, host, journal, buf, stored, open, pc, attempt, sent, answers, work>>

\* The child is closed by hand, and opened again from its journal (recoverWindows).
closeChild ==
    /\ open /\ Leaves("child")
    /\ open' = FALSE /\ pc' = "closed"
    /\ draft' = [draft EXCEPT !["child"] = [c \in Convs |-> None]]
    /\ buf' = [buf EXCEPT !["child"] = {}]
    /\ UNCHANGED <<native, host, journal, stored, attempt, sent, toMain, answers, job, work>>
reopenChild ==
    /\ ~open /\ open' = TRUE /\ pc' = "idle"
    /\ draft' = [draft EXCEPT !["child"] = journal["child"]]
    /\ buf' = [buf EXCEPT !["child"] =
                 stored["child"] \cup (IF \E r \in stored["child"] : r.key = <<>> THEN {}
                                       ELSE {[key |-> <<>>, content |-> 0, dirty |-> FALSE]})]
    /\ UNCHANGED <<native, host, journal, stored, attempt, sent, toMain, answers, job, work, budget>>

-----------------------------------------------------------------------------
(* redock: the child. *)

Snapshot == [draft |-> draft["child"][Selected], buffers |-> buf["child"]]
Post(m) == toMain' = Append(toMain, m)

redock ==
    /\ open /\ pc = "idle" /\ attempt < bound.returns
    /\ pc' = "flush" /\ attempt' = attempt + 1
    /\ UNCHANGED <<native, host, draft, journal, buf, stored, open, sent, toMain, answers,
                   job, work, budget>>

\* flushRedockDraft: a draft that somebody else changed stops the return.
flush ==
    /\ pc = "flush"
    /\ LET entry == draft["child"][Selected]
       IN  IF entry = None \/ ~entry.dirty
             THEN pc' = "request" /\ UNCHANGED <<host, draft, journal>>
             ELSE IF Mine(entry, Selected)
                    THEN /\ pc' = "request"
                         /\ host' = [host EXCEPT ![Selected] = entry.text]
                         /\ SetDraft("child", Selected, [entry EXCEPT !.saved = entry.text, !.dirty = FALSE])
                    ELSE pc' = "failed" /\ UNCHANGED <<host, draft, journal>>
    /\ UNCHANGED <<native, buf, stored, open, attempt, sent, toMain, answers, job, work, budget>>

requestRedock ==
    /\ pc = "request"
    /\ sent' = Snapshot
    /\ Post([type |-> "return", id |-> attempt, state |-> Snapshot])
    /\ pc' = "waiting"
    /\ UNCHANGED <<native, host, draft, journal, buf, stored, open, attempt, answers, job, work, budget>>

\* The coordinator forgets a cancelled handoff at once; a browser window tells
\* the main one by a message.
Cancel ==
    IF native THEN /\ job' = [job EXCEPT ![attempt] = IF @ = None THEN None
                                                      ELSE [@ EXCEPT !.cancelled = TRUE]]
                   /\ toMain' = SelectSeq(toMain, LAMBDA m : m.id # attempt)
    ELSE Post([type |-> "cancel", id |-> attempt, state |-> None]) /\ UNCHANGED job
Fail == pc' = "failed" /\ Cancel

heard ==
    /\ pc = "waiting"
    /\ \E a \in answers :
         /\ a.id = attempt /\ answers' = answers \ {a}
         /\ IF a.type = "accepted" THEN pc' = "compare" /\ UNCHANGED <<toMain, job>> ELSE Fail
    /\ UNCHANGED <<native, host, draft, journal, buf, stored, open, attempt, sent, work, budget>>

\* A bug: nobody waits for the main window to time out.
timeoutNever == FALSE /\ UNCHANGED vars
\* 45 s without an answer.
timeout ==
    /\ pc = "waiting" /\ Fail
    /\ UNCHANGED <<native, host, draft, journal, buf, stored, open, attempt, sent, answers, work, budget>>

\* Nothing may have changed since the snapshot: compared before the stored rows
\* are dropped, and again before the window commits.
compare ==
    /\ pc = "compare"
    /\ IF Snapshot = sent THEN pc' = "drop" /\ UNCHANGED <<toMain, job>> ELSE Fail
    /\ UNCHANGED <<native, host, draft, journal, buf, stored, open, attempt, sent, answers, work, budget>>
dropWindowBuffers ==
    /\ pc = "drop"
    /\ stored' = [stored EXCEPT !["child"] = {}]
    /\ IF Snapshot = sent THEN pc' = "commit" /\ UNCHANGED <<toMain, job>> ELSE Fail
    /\ UNCHANGED <<native, host, draft, journal, buf, open, attempt, sent, answers, work, budget>>

\* The principal and the conversation are asked for once more; then the journal
\* of the whole window is deleted, and the window closes.
commit ==
    /\ pc = "commit"
    /\ open' = FALSE /\ pc' = "closed"
    /\ draft' = [draft EXCEPT !["child"] = [c \in Convs |-> None]]
    /\ journal' = [journal EXCEPT !["child"] = [c \in Convs |-> None]]
    /\ buf' = [buf EXCEPT !["child"] = {}]
    /\ UNCHANGED <<native, host, stored, attempt, sent, toMain, answers, job, work, budget>>
commitFails ==
    /\ pc = "commit" /\ Count("faults") /\ Fail
    /\ UNCHANGED <<native, host, draft, journal, buf, stored, open, attempt, sent, answers, work>>

\* The store is thawed and what is open is stored again.
restore ==
    /\ pc = "failed" /\ pc' = "idle"
    /\ stored' = [stored EXCEPT !["child"] = Dirty(buf["child"])]
    /\ UNCHANGED <<native, host, draft, journal, buf, open, attempt, sent, toMain, answers, job, work, budget>>

-----------------------------------------------------------------------------
(* applyRedock: the main window. *)

Receive ==
    /\ toMain # <<>>
    /\ LET m == Head(toMain)
       IN  job' = [job EXCEPT ![m.id] =
                     IF m.type = "return"
                       THEN [pc |-> "check", state |-> m.state, rows |-> {}, cancelled |-> FALSE]
                     ELSE IF @ = None THEN None ELSE [@ EXCEPT !.cancelled = TRUE]]
    /\ toMain' = Tail(toMain)
    /\ UNCHANGED <<native, host, draft, journal, buf, stored, open, pc, attempt, sent, answers, work, budget>>

\* The main window holds something else that was not sent.
Conflict(entry) ==
    LET m == draft["main"][Selected]
    IN  entry # None /\ m # None /\ ((m.dirty /\ m.text # entry.text) \/ (m.image # 0 /\ m.image # entry.image))

\* A bug: a row that is edited here is replaced.
MergeOver(rows, new, tag) ==
    {r \in rows : ~\E b \in new : b.key = r.key} \cup new
\* mergeBuffers: an edited row stays, and another content becomes a copy of it.
Merge(rows, new, tag) ==
    LET edited(b) == \E r \in rows : r.key = b.key /\ r.dirty
        clash == {b \in new : \E r \in rows : r.key = b.key /\ r.dirty /\ r.content # b.content}
        copies == {[b EXCEPT !.key = Append(@, tag)] : b \in clash}
        merged == {r \in rows : r.dirty \/ ~\E b \in new : b.key = r.key}
                  \cup {b \in new : ~edited(b)}
    IN  merged \cup {b \in copies : ~\E r \in merged : r.key = b.key}

Step(i, from, to) == job[i] # None /\ job[i].pc = from /\ job' = [job EXCEPT ![i].pc = to]

check(i) ==
    /\ job[i] # None /\ job[i].pc = "check"
    /\ LET entry == job[i].state.draft
           ok == entry = None \/ (~Conflict(entry) /\ host[Selected] = entry.text)
       IN  job' = [job EXCEPT ![i].pc = IF ok THEN "merge" ELSE "refuse"]
    /\ UNCHANGED <<native, host, draft, journal, buf, stored, open, pc, attempt, sent, toMain,
                   answers, work, budget>>

\* receiveBuffers: read, store, and show what is now a merge of the merge.
receiveBuffers(i) ==
    /\ job[i] # None /\ job[i].pc = "merge"
    /\ job' = [job EXCEPT ![i].pc = "persist", ![i].rows =
                 Merge(Merge(stored["main"], buf["main"], Restored), job[i].state.buffers, i)]
    /\ UNCHANGED <<native, host, draft, journal, buf, stored, open, pc, attempt, sent, toMain,
                   answers, work, budget>>
storeReceived(i) ==
    /\ Step(i, "persist", "publish")
    /\ stored' = [stored EXCEPT !["main"] = Dirty(job[i].rows)]
    /\ UNCHANGED <<native, host, draft, journal, buf, open, pc, attempt, sent, toMain, answers, work, budget>>
publishBuffers(i) ==
    /\ Step(i, "publish", "draft")
    /\ buf' = [buf EXCEPT !["main"] = Merge(@, job[i].rows, Live)]
    /\ UNCHANGED <<native, host, draft, journal, stored, open, pc, attempt, sent, toMain, answers, work, budget>>

\* acceptTransferredDraft compares again; the journal is written before the answer.
acceptTransferredDraft(i) ==
    /\ job[i] # None /\ job[i].pc = "draft"
    /\ LET entry == job[i].state.draft
       IN  IF Conflict(entry)
             THEN job' = [job EXCEPT ![i].pc = "refuse"] /\ UNCHANGED <<draft, journal>>
             ELSE /\ job' = [job EXCEPT ![i].pc = "answer"]
                  /\ IF entry = None THEN UNCHANGED <<draft, journal>> ELSE SetDraft("main", Selected, entry)
    /\ UNCHANGED <<native, host, buf, stored, open, pc, attempt, sent, toMain, answers, work, budget>>

\* A file, artifact or terminal is no longer there: refused, wherever it stands.
applyFails(i) ==
    /\ job[i] # None /\ job[i].pc \in {"check", "merge", "draft", "answer"} /\ Count("faults")
    /\ job' = [job EXCEPT ![i].pc = "refuse"]
    /\ UNCHANGED <<native, host, draft, journal, buf, stored, open, pc, attempt, sent, toMain,
                   answers, work>>

\* The answer goes to a window that still waits; a cancelled handoff has none.
answer(i) ==
    /\ job[i] # None /\ job[i].pc \in {"answer", "refuse"}
    /\ job' = [job EXCEPT ![i] = None]
    /\ answers' = IF job[i].cancelled THEN answers
                  ELSE answers \cup {[id |-> i, type |-> IF job[i].pc = "answer" THEN "accepted"
                                                         ELSE "rejected"]}
    /\ UNCHANGED <<native, host, draft, journal, buf, stored, open, pc, attempt, sent, toMain, work, budget>>

-----------------------------------------------------------------------------
User ==
    \/ \E w \in Screens, c \in Convs : editDraft(w, c) \/ editAttachments(w, c) \/ saveDraft(w, c)
    \/ \E w \in Screens : editBuffer(w) \/ persistBuffers(w)
    \/ reloadMain \/ closeChild \/ reopenChild \/ redock
Child == flush \/ requestRedock \/ heard \/ timeout \/ compare \/ dropWindowBuffers \/ commit
         \/ commitFails \/ restore
Main == \/ Receive
        \/ \E i \in Ids : \/ check(i) \/ receiveBuffers(i) \/ storeReceived(i) \/ publishBuffers(i)
                          \/ acceptTransferredDraft(i) \/ applyFails(i) \/ answer(i)
Next == User \/ Child \/ Main

\* The timers run in the child: it needs nobody else to end its return.
Spec == Init /\ [][Next]_vars /\ WF_vars(Child)

-----------------------------------------------------------------------------
(* Properties. *)

\* Where a value is kept: at the host, in an open window, or in a store that the
\* window finds again.
Kept(v) ==
    \/ \E c \in Convs : host[c] = v
    \/ \E w \in Screens, c \in Convs :
         \/ draft[w][c] # None /\ v \in {draft[w][c].text, draft[w][c].image}
         \/ journal[w][c] # None /\ v \in {journal[w][c].text, journal[w][c].image}
    \/ \E w \in Screens : \E r \in buf[w] \cup stored[w] : r.content = v

\* Nothing the user wrote and did not replace is lost by a return: refused, late,
\* repeated, raced by edits in the main window, a reload or a closed window.
NothingIsLost == \A v \in work \ {0} : Kept(v)

\* delivery-plan-v0.3.md:75: the transfer acknowledges durable receipt before the
\* source closes.  Also for the other conversations of the window.
ReceiptBeforeClose == NothingIsLost

\* A return ends: the window closes or is usable again, whatever the main one does.
ReturnEnds == (pc \notin {"idle", "closed"}) ~> (pc \in {"idle", "closed"})

=============================================================================
