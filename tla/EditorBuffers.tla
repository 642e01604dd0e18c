---------------------------- MODULE EditorBuffers ----------------------------
(***************************************************************************)
(* The open files of the workbench (features/Workbench.tsx): buffers read    *)
(* through the conversation's checkout, edited in one of two editors and     *)
(* saved against the revision they were read at; the file lists of the       *)
(* checkout; and file references of the conversation, opened at their line.  *)
(*                                                                         *)
(* A revision is the digest of a file's text (project_files.py), so a        *)
(* revision and the text it stands for are one value here.  The host checks  *)
(* and writes in one step.  Merging handed-over buffers is WindowHandoff's.  *)
(***************************************************************************)
EXTENDS Naturals, Sequences, FiniteSets

CONSTANTS None, Places,   \* conversations with their checkouts; one file in each
          MaxTexts, MaxReads, MaxMoves, MaxRequests, MaxUpsets  \* bounds

VARIABLES
    host,       \* the text of each place's file
    others,     \* the last text written by someone else, for each file
    place, visible,   \* the selected conversation checkout; the workbench is shown
    target,     \* chooseCheckout is under way (targetBusy), toward this place
    buffers, selected, split,
    reads, saves,     \* file reads and saves under way
    lists,      \* the place whose rows the explorer and the quick opener list
    asks,       \* list calls under way: [list, of, stopped]
    request, accepted, pending,   \* fileRequest and its navigation
    texts, used

vars == <<host, others, place, visible, target, buffers, selected, split, reads, saves,
          lists, asks, request, accepted, pending, texts, used>>
editor == <<buffers, selected, split>>
navigation == <<request, accepted, pending>>

Texts == 0..MaxTexts
Requests == [id : 1..MaxRequests, place : Places]
Buffers == [key : Places, content : Texts, revision : Texts, dirty : BOOLEAN]
Saves == [key : Places, place : Places, content : Texts, revision : Texts, answer : {"none", "done", "failed"}]
Reads == [id : 1..MaxReads, key : Places, by : Requests \cup {None}, stopped : BOOLEAN, text : Texts \cup {None}]

TypeOK ==
    /\ host \in [Places -> Texts] /\ others \in [Places -> Texts \cup {None}]
    /\ place \in Places /\ visible \in BOOLEAN /\ target \in Places \cup {None}
    /\ buffers \in Seq(Buffers) /\ {selected, split} \subseteq Places \cup {None}
    /\ reads \subseteq Reads /\ saves \subseteq Saves
    /\ lists \in [{"tree", "quick"} -> Places \cup {None}]
    /\ asks \subseteq [list : {"tree", "quick"}, of : Places, stopped : BOOLEAN]
    /\ {request, accepted, pending} \subseteq Requests \cup {None}

Init ==
    /\ host = [p \in Places |-> 0] /\ others = [p \in Places |-> None]
    /\ place = CHOOSE p \in Places : TRUE
    /\ visible = TRUE /\ target = None
    /\ buffers = <<>> /\ selected = None /\ split = None /\ reads = {} /\ saves = {}
    /\ lists = [l \in {"tree", "quick"} |-> None]
    /\ asks = {[list |-> "tree", of |-> place, stopped |-> FALSE]}
    /\ request = None /\ accepted = None /\ pending = None
    /\ texts = 0 /\ used = [reads |-> 0, moves |-> 0, requests |-> 0, upsets |-> 0]

Spend(what, most) == used[what] < most /\ used' = [used EXCEPT ![what] = @ + 1]
Keys(rows) == {rows[i].key : i \in DOMAIN rows}
\* The first row of a key stands for all of them.
IsFirst(i) == \A j \in 1..(i - 1) : buffers[j].key # buffers[i].key
Each(key, Change(_)) == [i \in DOMAIN buffers |-> IF buffers[i].key = key THEN Change(buffers[i]) ELSE buffers[i]]

-----------------------------------------------------------------------------
(* Where the window is.  A conversation with another checkout drops the      *)
(* lists of the one before and stops what waited for it. *)

\* A bug: a list call is answered wherever the window is.
FreshAlways(a) == TRUE
Fresh(a) == IF a.list = "tree" THEN a.of = place ELSE ~a.stopped

Stop(set) == {[x EXCEPT !.stopped = TRUE] : x \in set}

\* The requested file's effects, after a change of the request, the place or
\* the visibility: the navigation under way is dropped or a request accepted.
Accepts(r, p, v) == r # None /\ r # accepted /\ v /\ r.place = p
Effects(r, p, v) ==
    LET accept == Accepts(r, p, v) /\ target = None /\ p \notin Keys(buffers)
        asked == {f \in reads : f.by # None}
        nav == IF Accepts(r, p, v) THEN r ELSE pending
        kept == IF nav # None /\ v /\ nav.place = p /\ r = nav THEN nav ELSE None
    IN  /\ request' = r /\ place' = p /\ visible' = v
        /\ accepted' = IF Accepts(r, p, v) THEN r ELSE accepted
        /\ accept => used.reads < MaxReads
        /\ reads' = (reads \ asked) \cup Stop(asked)
                      \cup (IF accept THEN {[id |-> used.reads + 1, key |-> p, by |-> r, stopped |-> FALSE, text |-> None]} ELSE {})
        /\ selected' = IF Accepts(r, p, v) /\ target = None /\ p \in Keys(buffers) THEN p ELSE selected
        \* open() refuses while the checkout changes.
        /\ pending' = IF Accepts(r, p, v) /\ target # None THEN None ELSE kept
        /\ used' = [used EXCEPT !.reads = IF accept THEN @ + 1 ELSE @,
                                !.moves = IF r = request THEN @ + 1 ELSE @,
                                !.requests = IF r # request THEN @ + 1 ELSE @]

Arrive(p) ==
    IF p = place THEN UNCHANGED <<lists, asks>>
    ELSE /\ lists' = [l \in {"tree", "quick"} |-> None]
         /\ asks' = {a \in asks : a.list = "tree"} \cup Stop({a \in asks : a.list = "quick"})
                      \cup {[list |-> "tree", of |-> p, stopped |-> FALSE]}

go ==
    /\ used.moves < MaxMoves /\ target = None
    /\ \E p \in Places, v \in BOOLEAN : <<p, v>> # <<place, visible>> /\ Effects(request, p, v) /\ Arrive(p)
    /\ UNCHANGED <<host, others, target, buffers, split, saves, texts>>

chooseCheckout ==
    /\ target = None /\ Spend("moves", MaxMoves)
    /\ \E p \in Places \ {place} : target' = p
    /\ UNCHANGED <<host, others, place, visible, editor, reads, saves, lists, asks, navigation, texts>>
checkoutChosen ==
    /\ target # None /\ target' = None
    /\ \/ Effects(request, target, visible) /\ Arrive(target)
       \/ UNCHANGED <<place, visible, selected, reads, lists, asks, request, accepted, pending, used>>  \* refused
    /\ UNCHANGED <<host, others, buffers, split, saves, texts>>

-----------------------------------------------------------------------------
(* The lists: the tree, and the quick opener while it is open. *)

quickOpen ==
    /\ target = None /\ lists["quick"] = None /\ \A a \in asks : a.list = "tree" \/ a.stopped
    /\ Spend("moves", MaxMoves)
    /\ asks' = asks \cup {[list |-> "quick", of |-> place, stopped |-> FALSE]}
    /\ UNCHANGED <<host, others, place, visible, target, editor, reads, saves, lists, navigation, texts>>

listArrives ==
    \E a \in asks :
      /\ asks' = asks \ {a}
      /\ lists' = IF Fresh(a) THEN [lists EXCEPT ![a.list] = a.of] ELSE lists
      /\ UNCHANGED <<host, others, place, visible, target, editor, reads, saves, navigation, texts, used>>

-----------------------------------------------------------------------------
(* Reading and opening. *)

open ==
    /\ target = None /\ place \in {lists["tree"], lists["quick"]}
    /\ IF place \in Keys(buffers) THEN selected' = place /\ UNCHANGED <<reads, used>>
       ELSE /\ Spend("reads", MaxReads) /\ UNCHANGED selected
            /\ reads' = reads \cup {[id |-> used.reads + 1, key |-> place, by |-> None, stopped |-> FALSE, text |-> None]}
    /\ UNCHANGED <<host, others, place, visible, target, buffers, split, saves, lists, asks, navigation, texts>>

hostReads ==
    \E f \in reads :
      /\ f.text = None /\ reads' = (reads \ {f}) \cup {[f EXCEPT !.text = host[f.key]]}
      /\ UNCHANGED <<host, others, place, visible, target, editor, saves, lists, asks, navigation, texts, used>>

\* A bug: a requested file opens whatever the window shows by then.
OpensAlways(f) == TRUE
Opens(f) == f.by = None \/ (~f.stopped /\ visible /\ request = f.by /\ place = f.by.place)

opened ==
    \E f \in reads :
      /\ f.text # None /\ reads' = reads \ {f}
      /\ IF Opens(f)
           THEN /\ buffers' = Append(buffers, [key |-> f.key, content |-> f.text, revision |-> f.text, dirty |-> FALSE])
                /\ selected' = f.key
           ELSE UNCHANGED <<buffers, selected>>
      /\ UNCHANGED <<host, others, place, visible, target, split, saves, lists, asks, navigation, texts, used>>
readFails ==
    \E f \in reads :
      /\ Spend("upsets", MaxUpsets) /\ f.text = None /\ reads' = reads \ {f}
      /\ pending' = IF f.by # None /\ Opens(f) /\ pending = f.by THEN None ELSE pending
      /\ UNCHANGED <<host, others, place, visible, target, editor, saves, lists, asks, request, accepted, texts>>

\* A reference of the conversation shown; its effects.
openFile ==
    /\ used.requests < MaxRequests
    /\ Effects([id |-> used.requests + 1, place |-> place], place, TRUE)
    /\ UNCHANGED <<host, others, target, buffers, split, saves, lists, asks, texts>>

\* The frame after the document is in the editor.
locate ==
    /\ pending # None /\ selected = pending.place /\ selected \in Keys(buffers)
    /\ visible /\ request = pending /\ place = pending.place
    /\ pending' = None
    /\ UNCHANGED <<host, others, place, visible, target, editor, reads, saves, lists, asks, request, accepted, texts, used>>

-----------------------------------------------------------------------------
(* Editing, saving, closing. *)

NewText == texts < MaxTexts /\ texts' = texts + 1

edit ==
    /\ NewText
    /\ \E key \in {selected, split} \cap Keys(buffers) :
         buffers' = Each(key, LAMBDA b : [b EXCEPT !.content = texts', !.dirty = TRUE])
    /\ UNCHANGED <<host, others, place, visible, target, selected, split, reads, saves, lists, asks, navigation, used>>

saveBuffer ==
    \E i \in DOMAIN buffers :
      LET b == buffers[i] IN
      /\ b.key \in {selected, split} /\ IsFirst(i)
      /\ b.dirty /\ b.key = place
      /\ \A s \in saves : s.key # b.key \/ s.content # b.content
      /\ saves' = saves \cup {[key |-> b.key, place |-> place, content |-> b.content, revision |-> b.revision, answer |-> "none"]}
      /\ UNCHANGED <<host, others, place, visible, target, editor, reads, lists, asks, navigation, texts, used>>

\* A bug: the host takes any revision.
CurrentAny(s) == TRUE
Current(s) == host[s.key] = s.revision
hostSaves ==
    \E s \in saves :
      /\ s.answer = "none"
      /\ saves' = (saves \ {s}) \cup {[s EXCEPT !.answer = IF Current(s) THEN "done" ELSE "failed"]}
      /\ host' = IF Current(s) THEN [host EXCEPT ![s.key] = s.content] ELSE host
      /\ UNCHANGED <<others, place, visible, target, editor, reads, lists, asks, navigation, texts, used>>
saveLost ==
    /\ Spend("upsets", MaxUpsets)
    /\ \E s \in saves : s.answer # "failed" /\ saves' = (saves \ {s}) \cup {[s EXCEPT !.answer = "failed"]}
    /\ UNCHANGED <<host, others, place, visible, target, editor, reads, lists, asks, navigation, texts>>

\* A bug: what was saved is clean, whatever was typed since.
SavedClean(b, s) == [b EXCEPT !.revision = s.content, !.dirty = FALSE]
Saved(b, s) == [b EXCEPT !.revision = s.content, !.dirty = b.content # s.content]
saveEnds ==
    \E s \in saves :
      /\ s.answer # "none" /\ saves' = saves \ {s}
      /\ buffers' = IF s.answer = "done" THEN Each(s.key, LAMBDA b : Saved(b, s)) ELSE buffers
      /\ UNCHANGED <<host, others, place, visible, target, selected, split, reads, lists, asks, navigation, texts, used>>

\* The rows of other keys, and what is left when they are, in their order.
Rest(key) == {i \in DOMAIN buffers : buffers[i].key # key}
Drop(key) ==
    \E n \in 0..Len(buffers) : \E at \in [1..n -> Rest(key)] :
      /\ {at[i] : i \in 1..n} = Rest(key) /\ \A i, j \in 1..n : i < j => at[i] < at[j]
      /\ buffers' = [i \in 1..n |-> buffers[at[i]]]

\* Discarding unsaved changes is confirmed.  The first row left takes the place.
close ==
    \E key \in Keys(buffers) :
      LET rest == Rest(key)
          next == IF rest = {} THEN None ELSE buffers[CHOOSE i \in rest : \A j \in rest : i <= j].key
      IN  /\ Drop(key)
          /\ split' = IF split = key THEN next ELSE split
          /\ selected' = IF selected = key THEN next ELSE selected
          /\ UNCHANGED <<host, others, place, visible, target, reads, saves, lists, asks, navigation, texts, used>>

select ==
    /\ \E key \in Keys(buffers) : (selected' = key /\ UNCHANGED split) \/ (split' = key /\ UNCHANGED selected)
    /\ UNCHANGED <<host, others, place, visible, target, buffers, reads, saves, lists, asks, navigation, texts, used>>

\* Another window, or an agent, writes a file.
otherWrites ==
    /\ Spend("upsets", MaxUpsets) /\ NewText
    /\ \E p \in Places : host' = [host EXCEPT ![p] = texts'] /\ others' = [others EXCEPT ![p] = texts']
    /\ UNCHANGED <<place, visible, target, editor, reads, saves, lists, asks, navigation>>

-----------------------------------------------------------------------------
Next ==
    \/ go \/ chooseCheckout \/ checkoutChosen \/ quickOpen \/ listArrives
    \/ open \/ hostReads \/ opened \/ readFails \/ openFile \/ locate
    \/ edit \/ saveBuffer \/ hostSaves \/ saveLost \/ saveEnds \/ close \/ select \/ otherWrites

Spec == Init /\ [][Next]_vars

-----------------------------------------------------------------------------
(* Properties. *)

\* A file without the mark of unsaved changes holds the text of its revision,
\* whatever is typed while a save is under way, so that closing it without a
\* question loses nothing (Workbench.tsx:72, 76).
CleanIsSaved == \A i \in DOMAIN buffers : ~buffers[i].dirty => buffers[i].content = buffers[i].revision

\* What another window or an agent wrote is replaced only by a save that was
\* based on it: "File changed on the host. Compare it with your draft before
\* saving." (project_files.py:144).
OthersKept ==
    [][\A p \in Places : host'[p] # host[p] /\ host[p] = others[p] /\ others' = others =>
          \E s \in saves : s.key = p /\ s.revision = others[p] /\ s.content = host'[p]]_vars

\* The lists show files of the checkout that a click opens ("Search file names
\* in this conversation's current checkout").
ListsAreHere == \A l \in {"tree", "quick"} : lists[l] \in {place, None}

\* "drops an external file read and caret request that finish after its
\* conversation checkout changes" (workbench-file-request.test.tsx:36).
RequestStaysHome ==
    [][\A f \in reads : f.by # None /\ f \notin reads' /\ (buffers' # buffers \/ selected' # selected) =>
          visible /\ request = f.by /\ place = f.by.place]_vars

=============================================================================
