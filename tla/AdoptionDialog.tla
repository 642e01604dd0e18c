---------------------------- MODULE AdoptionDialog ----------------------------
(***************************************************************************)
(* Including an existing chat in the main agent's updates                    *)
(* (desktop/workspace/src/features/OrchestratorAdoption.tsx and the host's   *)
(* src/src/termx/workspace/engine_orchestration.py).  The dialog reads the   *)
(* chat's details, the user confirms exactly those, and the request carries  *)
(* an id under which the host answers a repetition with the first result.    *)
(* The reviewed intent outlives the dialog, which may show another chat,     *)
(* be disabled or be replaced while a request is under way.                  *)
(*                                                                         *)
(* The details of a chat are its revision (the digest covers it).            *)
(***************************************************************************)
EXTENDS Naturals, FiniteSets

CONSTANTS Chats, None,
          MaxIds,       \* bounds: reviewed intents, requests, changes of a chat
          MaxPosts,     \* by others, and times the dialog is disturbed or an
          MaxChanges,   \* answer is lost
          MaxUpsets

Ids == 1..MaxIds
Posts == 1..MaxPosts
Revs == 0..MaxChanges

VARIABLES
    chat,      \* the host's chats: [rev, enrolled]
    completed,  \* the request ids the host has completed
    pending,   \* chat -> the intent kept in this page, or None
    dialog,    \* the dialog of the chat on screen
    reading,   \* its read in flight, or None
    post,      \* request -> its state, or None
    upsets     \* what MaxUpsets bounds

vars == <<chat, completed, pending, dialog, reading, post, upsets>>

Intent == [rev : Revs, id : Ids, state : {"ready", "sending", "uncertain"}]
Review == [of : Chats, rev : Revs, enrolled : BOOLEAN]
Post == [of : Chats, id : Ids, rev : Revs, fresh : BOOLEAN, pc : {"sent", "ended"},
         wire : {"sent", "done", "conflict", "lost"}]

TypeOK ==
    /\ chat \in [Chats -> [rev : Revs, enrolled : BOOLEAN]]
    /\ completed \subseteq Ids
    /\ pending \in [Chats -> Intent \cup {None}]
    /\ dialog \in [key : Chats, enabled : BOOLEAN, open : BOOLEAN, stale : BOOLEAN,
                   review : Review \cup {None}, enrolled : BOOLEAN]
    /\ reading \in [of : Chats, answer : Review \cup {None}] \cup {None}
    /\ \A n \in Posts : post[n] \in Post \cup {None}
    /\ upsets \in 0..MaxUpsets

Shown(k) == [key |-> k, enabled |-> TRUE, open |-> FALSE, stale |-> FALSE, review |-> None,
             enrolled |-> FALSE]

Init ==
    /\ chat = [k \in Chats |-> [rev |-> 0, enrolled |-> FALSE]]
    /\ completed = {}
    /\ pending = [k \in Chats |-> None]
    /\ \E k \in Chats : dialog = Shown(k)
    /\ reading = None
    /\ post = [n \in Posts |-> None]
    /\ upsets = 0

Upset == upsets < MaxUpsets /\ upsets' = upsets + 1
Known(id) == \E k \in Chats : pending[k] # None /\ pending[k].id = id
NewId == CHOOSE i \in Ids : /\ i \notin completed /\ ~Known(i)
                            /\ \A n \in Posts : post[n] = None \/ post[n].id # i
HasNewId == Cardinality({i \in Ids : \/ Known(i)
                                     \/ \E n \in Posts : post[n] # None /\ post[n].id = i}) < MaxIds

-----------------------------------------------------------------------------
(* Reading the details. *)

\* Asked by the user, or after an answer.  While a request is under way its
\* own review is shown instead.
preview(show) ==
    /\ dialog.enabled
    /\ LET p == pending[dialog.key] IN
         IF p # None /\ p.state = "sending"
         THEN /\ dialog' = [dialog EXCEPT !.open = @ \/ show,
                      !.review = [of |-> dialog.key, rev |-> p.rev, enrolled |-> FALSE]]
              /\ UNCHANGED reading
         ELSE /\ dialog' = [dialog EXCEPT !.open = @ \/ show]
              /\ reading' = [of |-> dialog.key, answer |-> None]
    /\ UNCHANGED <<chat, completed, pending, post, upsets>>

\* The host answers the read in flight with the chat as it is then.
hostReviews ==
    /\ reading # None /\ reading.answer = None
    /\ LET k == reading.of IN
         reading' = [reading EXCEPT !.answer = [of |-> k, rev |-> chat[k].rev, enrolled |-> chat[k].enrolled]]
    /\ UNCHANGED <<chat, completed, pending, dialog, post, upsets>>

\* A bug: the request id of an earlier review serves a later one.
SameAlways(p, v) == p # None
Same(p, v) == p # None /\ p.rev = v.rev

readPreview ==
    /\ reading # None /\ reading.answer # None
    /\ LET k == dialog.key
           v == reading.answer
       IN  /\ dialog' = [dialog EXCEPT !.review = v, !.enrolled = v.enrolled, !.stale = FALSE]
           /\ \/ v.enrolled /\ pending' = [pending EXCEPT ![k] = None]
              \/ /\ ~v.enrolled /\ Same(pending[k], v)
                 /\ pending' = [pending EXCEPT ![k].rev = v.rev]
              \/ /\ ~v.enrolled /\ ~Same(pending[k], v) /\ HasNewId
                 /\ pending' = [pending EXCEPT ![k] = [rev |-> v.rev, id |-> NewId, state |-> "ready"]]
    /\ reading' = None
    /\ UNCHANGED <<chat, completed, post, upsets>>

readFails ==
    /\ reading # None /\ Upset
    /\ dialog' = [dialog EXCEPT !.review = None, !.stale = TRUE]
    /\ reading' = None
    /\ UNCHANGED <<chat, completed, pending, post>>

-----------------------------------------------------------------------------
(* The request. *)

\* Is what the user sees what the request would ask for?
Agreed(p, r) == ~r.enrolled /\ p.rev = r.rev

include(n) ==
    /\ post[n] = None /\ \A m \in 1..(n - 1) : post[m] # None
    /\ dialog.enabled /\ dialog.open /\ reading = None /\ ~dialog.stale /\ dialog.review # None
    /\ LET k == dialog.key
           p == pending[k]
       IN  /\ p # None /\ p.state # "sending" /\ Agreed(p, dialog.review)
           /\ pending' = [pending EXCEPT ![k].state = "sending"]
           /\ post' = [post EXCEPT ![n] = [of |-> k, id |-> p.id, rev |-> p.rev, fresh |-> TRUE,
                                           pc |-> "sent", wire |-> "sent"]]
    /\ UNCHANGED <<chat, completed, dialog, reading, upsets>>

\* A request id that was completed before gets its result again; any other
\* must name the chat as it is.
hostAdopts(n) ==
    /\ post[n] # None /\ post[n].wire = "sent"
    /\ LET q == post[n]
           ok == q.id \in completed \/ q.rev = chat[q.of].rev
       IN  /\ post' = [post EXCEPT ![n].wire = IF ok THEN "done" ELSE "conflict"]
           /\ completed' = IF ok THEN completed \cup {q.id} ELSE completed
           /\ chat' = IF ok THEN [chat EXCEPT ![q.of].enrolled = TRUE] ELSE chat
    /\ UNCHANGED <<pending, dialog, reading, upsets>>

hostLoses(n) ==
    /\ post[n] # None /\ post[n].wire = "sent" /\ Upset
    /\ post' = [post EXCEPT ![n].wire = "lost"]
    /\ UNCHANGED <<chat, completed, pending, dialog, reading>>

\* A bug: an answer that was given up for lost still ends the present intent.
MineAnyhow(n) == pending[post[n].of] # None
Mine(n) == pending[post[n].of] # None /\ pending[post[n].of].id = post[n].id

\* The answer settles the intent it was sent for; the dialog hears of it only
\* while it shows that chat.  Anything but a conflict leaves the intent for a
\* retry under the same id.
answer(n) ==
    /\ post[n] # None /\ post[n].pc = "sent"
    /\ LET k == post[n].of
           here == dialog.key = k
           fresh == post[n].fresh /\ dialog.enabled
           end(w) == \/ post[n].wire = w /\ UNCHANGED upsets
                     \/ w = "lost" /\ post[n].wire \in {"sent", "done"} /\ Upset
       IN  \/ /\ end("done") /\ Mine(n)
              /\ pending' = [pending EXCEPT ![k] = None]
              /\ dialog' = IF here THEN [dialog EXCEPT !.enrolled = TRUE, !.review = None, !.stale = FALSE]
                           ELSE dialog
              /\ reading' = IF here /\ dialog.enabled THEN [of |-> k, answer |-> None] ELSE reading
           \/ /\ end("conflict") /\ Mine(n)
              /\ pending' = [pending EXCEPT ![k] = None]
              /\ dialog' = IF fresh THEN [dialog EXCEPT !.review = None, !.stale = TRUE] ELSE dialog
              /\ UNCHANGED reading
           \/ /\ end("lost") /\ Mine(n)
              /\ pending' = [pending EXCEPT ![k].state = "uncertain"]
              /\ UNCHANGED <<dialog, reading>>
           \/ /\ ~Mine(n) /\ post[n].wire # "sent"
              /\ UNCHANGED <<pending, dialog, reading, upsets>>
    /\ post' = [post EXCEPT ![n].pc = "ended"]
    /\ UNCHANGED <<chat, completed>>

-----------------------------------------------------------------------------
(* What happens around the dialog. *)

Forgotten == [n \in Posts |-> IF post[n] = None THEN None ELSE [post[n] EXCEPT !.fresh = FALSE]]

showChat(k) ==
    /\ k # dialog.key /\ Upset
    /\ dialog' = [Shown(k) EXCEPT !.enabled = dialog.enabled]
    /\ reading' = None /\ post' = Forgotten
    /\ UNCHANGED <<chat, completed, pending>>

enable ==
    /\ ~dialog.enabled /\ dialog' = [dialog EXCEPT !.enabled = TRUE]
    /\ UNCHANGED <<chat, completed, pending, reading, post, upsets>>

disable ==
    /\ dialog.enabled /\ Upset
    /\ dialog' = [dialog EXCEPT !.enabled = FALSE, !.open = FALSE]
    /\ reading' = None
    /\ UNCHANGED <<chat, completed, pending, post>>

closeDialog ==
    /\ dialog.open /\ dialog' = [dialog EXCEPT !.open = FALSE]
    /\ UNCHANGED <<chat, completed, pending, reading, post, upsets>>

\* Signing out forgets every intent; the panel comes back with the account.
signOut ==
    /\ Upset
    /\ pending' = [k \in Chats |-> None]
    /\ \E k \in Chats : dialog' = Shown(k)
    /\ reading' = None /\ post' = Forgotten
    /\ UNCHANGED <<chat, completed>>

chatChanges(k) ==
    /\ chat[k].rev < MaxChanges
    /\ chat' = [chat EXCEPT ![k].rev = @ + 1]
    /\ UNCHANGED <<completed, pending, dialog, reading, post, upsets>>

Step(n) == hostAdopts(n) \/ answer(n)
Next ==
    \/ preview(TRUE) \/ hostReviews \/ readPreview \/ readFails
    \/ enable \/ disable \/ closeDialog \/ signOut
    \/ \E k \in Chats : showChat(k) \/ chatChanges(k)
    \/ \E n \in Posts : include(n) \/ Step(n) \/ hostLoses(n)

Spec == Init /\ [][Next]_vars /\ \A n \in Posts : WF_vars(Step(n))

-----------------------------------------------------------------------------
(* A request id stands for one reviewed chat: "Retry the same reviewed       *)
(* request" (OrchestratorAdoption.tsx:97) repeats exactly that request.      *)
OneIdOneReview == \A m, n \in Posts :
    post[m] # None /\ post[n] # None /\ post[m].id = post[n].id =>
        post[m].of = post[n].of /\ post[m].rev = post[n].rev

(* A chat is enrolled only as the user last saw it when confirming.          *)
ConfirmedAsSeen == [][\A n \in Posts :
    post[n] = None /\ post'[n] # None =>
        /\ dialog.review.of = post'[n].of /\ dialog.review.rev = post'[n].rev
        /\ dialog.key = post'[n].of]_vars

(* Every request leaves the sending state.                                   *)
SendingEnds == \A k \in Chats :
    (pending[k] # None /\ pending[k].state = "sending") ~>
        (pending[k] = None \/ pending[k].state # "sending")
=============================================================================
