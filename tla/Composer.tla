------------------------------ MODULE Composer ------------------------------
(***************************************************************************)
(* The composer of one conversation, open in several windows of the same   *)
(* browser (desktop/workspace/src/features/Chat.tsx).  Every window keeps  *)
(* its own registry entry of the unsent draft (lib/drafts.ts), saves it    *)
(* after a pause, sends it as a turn under a request id, changes settings  *)
(* of the conversation, and gives everything up when the workspace locks   *)
(* (lib/session-writes.ts, lib/lock-preservation.ts).  The host keeps one  *)
(* record with a revision, and one turn per request id.                    *)
(*                                                                         *)
(* A draft's text, context and images are one value: every comparison in   *)
(* the code compares them together.  A call to the host is two or three    *)
(* steps: it is issued, the host takes it (or it is lost), the window      *)
(* goes on with the answer.                                                *)
(***************************************************************************)
EXTENDS Naturals, Sequences, FiniteSets, FiniteSetTheorems, TLAPS

CONSTANTS Windows,      \* windows that show the conversation
          Texts,        \* what a user may type
          None,         \* nothing there
          SlowFlush,    \* may a flush be answered after the next unlock?
          MaxSends,     \* bounds: submissions in all, and what a behaviour may
          MaxLocks,     \* use of each kind of step, chosen at its start
          Bounds

Empty == ""
SaveOp == 0
PatchOp == MaxSends + 1
Ids == 1..MaxSends          \* submissions; the first one of a message names its key
Drafts == Texts \cup {Empty}
Epochs == 0..MaxLocks

VARIABLES
    host,       \* the conversation's row: [text, rev]
    locked,     \* the host refuses this session's requests
    turns,      \* request id -> the prompt it ran, or None
    draft,      \* window -> its registry entry, or None
    seen,       \* window -> the draft text it last read with the conversation
    epoch,      \* window -> the generation of session-writes.ts
    inert,      \* window -> the page is covered by the lock screen
    timer,      \* window -> epoch of the autosave that waits, or None
    chain,      \* window -> the serialized writes of this conversation
    save,       \* window -> the autosave in flight, or None
    patch,      \* window -> the settings change in flight, or None
    flush,      \* window -> the flush that precedes a lock, or None
    owner,      \* window -> the submission that holds submittingDrafts, or None
    send,       \* submission -> its state, or None
    bound,      \* one of Bounds
    used,       \* what it counts
    typed       \* window -> what the user last typed and has not sent: history

hostVars == <<host, locked, turns>>
vars == <<host, locked, turns, draft, seen, epoch, inert, timer, chain, save,
          patch, flush, owner, send, bound, used, typed>>

Message == [key : Ids, prompt : Texts]
Entry == [text : Drafts, saved : Drafts, dirty : BOOLEAN, sub : Message \cup {None}]
Write == [pc : {"queued", "patch", "saved", "failed"}, text : Drafts, base : Drafts,
          rev : Nat, epoch : Epochs]
Flight == [w : Windows, key : Ids, prompt : Texts, epoch : Epochs,
           pc : {"flush", "queued", "post", "accepted", "failed", "done", "ended"}]
Preserve == [pc : {"queued"}] \cup [pc : {"patch", "saved"}, entry : Entry, rev : Nat]
Counts == [edits : [Windows -> Nat], sends : [Windows -> Nat], saves : [Windows -> Nat],
           patches : [Windows -> Nat], locks : 0..MaxLocks, faults : Nat]

\* None is none of the values it may stand in for.
ASSUME ComposerAssumption ==
    /\ SlowFlush \in BOOLEAN /\ MaxSends \in Nat /\ MaxLocks \in Nat /\ Bounds \subseteq Counts
    /\ Empty \notin Texts /\ None \notin Drafts /\ None \notin Ids /\ None \notin Epochs
    /\ None \notin Message /\ None \notin Entry /\ None \notin Write
    /\ None \notin Flight /\ None \notin Preserve

TypeOK ==
    /\ host \in [text : Drafts, rev : Nat]
    /\ locked \in BOOLEAN
    /\ turns \in [Ids -> Texts \cup {None}]
    /\ draft \in [Windows -> Entry \cup {None}]
    /\ seen \in [Windows -> Drafts]
    /\ epoch \in [Windows -> Epochs]
    /\ inert \in [Windows -> {"open", "locking", "locked"}]
    /\ timer \in [Windows -> Epochs \cup {None}]
    /\ chain \in [Windows -> Seq(SaveOp..PatchOp)]
    /\ save \in [Windows -> Write \cup {None}]
    /\ patch \in [Windows -> Write \cup {None}]
    /\ flush \in [Windows -> Preserve \cup {None}]
    /\ owner \in [Windows -> Ids \cup {None}]
    /\ send \in [Ids -> Flight \cup {None}]
    /\ typed \in [Windows -> Drafts \cup {None}]
    /\ bound \in Bounds /\ used \in Counts

Init ==
    /\ host = [text |-> Empty, rev |-> 0] /\ locked = FALSE
    /\ turns = [k \in Ids |-> None]
    /\ draft = [w \in Windows |-> None]
    /\ seen = [w \in Windows |-> Empty]
    /\ epoch = [w \in Windows |-> 0]
    /\ inert = [w \in Windows |-> "open"]
    /\ timer = [w \in Windows |-> None]
    /\ chain = [w \in Windows |-> <<>>]
    /\ save = [w \in Windows |-> None]
    /\ patch = [w \in Windows |-> None]
    /\ flush = [w \in Windows |-> None]
    /\ owner = [w \in Windows |-> None]
    /\ send = [k \in Ids |-> None]
    /\ bound \in Bounds
    /\ LET none == [w \in Windows |-> 0]
       IN  used = [edits |-> none, sends |-> none, saves |-> none, patches |-> none,
                   locks |-> 0, faults |-> 0]
    /\ typed = [w \in Windows |-> None]

Count(f) == used[f] < bound[f] /\ used' = [used EXCEPT ![f] = @ + 1] /\ UNCHANGED bound
CountIn(w, f) ==
    used[f][w] < bound[f][w] /\ used' = [used EXCEPT ![f][w] = @ + 1] /\ UNCHANGED bound

-----------------------------------------------------------------------------
(* The draft of a window. *)

\* What a window shows: its registry entry, or the host's draft as last read.
View(w) == IF draft[w] = None
             THEN [text |-> seen[w], saved |-> seen[w], dirty |-> FALSE, sub |-> None]
             ELSE draft[w]

\* editDraft, and the effect that restarts the autosave's timer.
editDraft(w, text) ==
    /\ inert[w] = "open" /\ text # View(w).text
    /\ draft' = [draft EXCEPT ![w] = [View(w) EXCEPT !.text = text, !.dirty = TRUE]]
    /\ timer' = [timer EXCEPT ![w] = epoch[w]]
    /\ typed' = [typed EXCEPT ![w] = text]
    /\ CountIn(w, "edits")
    /\ UNCHANGED <<hostVars, seen, epoch, inert, chain, save, patch, flush, owner, send>>

\* The conversation is read again; only a window without an entry shows it.
Observe(w) ==
    /\ ~locked /\ seen[w] # host.text
    /\ seen' = [seen EXCEPT ![w] = host.text]
    /\ UNCHANGED <<hostVars, draft, epoch, inert, timer, chain, save, patch, flush, owner,
                   send, bound, used, typed>>

-----------------------------------------------------------------------------
(* serializeSessionWrite: one read and write of the conversation at a time. *)

Current(w, e) == e = epoch[w]
First(w, op) == chain[w] # <<>> /\ Head(chain[w]) = op
\* A bug: the link of an operation that ended stays.
UnlinkNothing(w, op) == chain
\* The link is removed when its operation ends, unless a lock has emptied the chain.
Unlink(w, op) == [chain EXCEPT ![w] = IF First(w, op) THEN Tail(@) ELSE @]
\* A bug: every operation runs at once.
TurnAtOnce(w, op) == TRUE
\* The operation's turn comes once no earlier one is pending: at once after a lock.
Turn(w, op) == First(w, op) \/ \A i \in DOMAIN chain[w] : chain[w][i] # op

\* saveDraft: nothing while a submission owns the draft, one flight at a time.
saveDraft(w) ==
    /\ timer[w] # None /\ save[w] = None
    /\ timer' = [timer EXCEPT ![w] = None]
    /\ IF ~Current(w, timer[w]) \/ owner[w] # None
         THEN UNCHANGED <<save, chain, bound, used>>
         ELSE /\ save' = [save EXCEPT ![w] = [pc |-> "queued", text |-> View(w).text,
                            base |-> View(w).saved, rev |-> 0, epoch |-> timer[w]]]
              /\ chain' = [chain EXCEPT ![w] = Append(@, SaveOp)]
              /\ CountIn(w, "saves")
    /\ UNCHANGED <<hostVars, draft, seen, epoch, inert, patch, flush, owner, send, typed>>

\* A bug: the draft that another window stored is not compared.
MineAlways(text, base) == TRUE
\* The host's draft is one this write may replace: its own base, or already its text.
Mine(text, base) == host.text \in {text, base}

\* A write goes on with the revision it read.
Reading(s, base) ==
    [pc |-> "patch", text |-> s.text, base |-> base, rev |-> host.rev, epoch |-> s.epoch]

\* writeDraft reads the conversation and, when nobody else changed the draft,
\* sends the change with the revision it read.
readDraft(w) ==
    /\ save[w] # None /\ save[w].pc = "queued" /\ Turn(w, SaveOp)
    /\ LET s == save[w]
           stale == draft[w] = None \/ ~View(w).dirty \/ View(w).text # s.text
           next == IF ~Current(w, s.epoch) \/ stale \/ locked \/ ~Mine(s.text, View(w).saved)
                     THEN [s EXCEPT !.pc = "failed"]
                     ELSE Reading(s, View(w).saved)
       IN  save' = [save EXCEPT ![w] = next]
    /\ UNCHANGED <<hostVars, draft, seen, epoch, inert, timer, chain, patch, flush, owner,
                   send, bound, used, typed>>

\* The host takes a change made at revision rev, or refuses it.
Applied(rev) == ~locked /\ host.rev = rev

\* The request or its answer is lost; a lock aborts what is in flight.
Lost(w, e) == IF Current(w, e) THEN Count("faults") ELSE UNCHANGED <<bound, used>>

hostSaves(w) ==
    /\ save[w] # None /\ save[w].pc = "patch"
    /\ \/ /\ Applied(save[w].rev)
          /\ host' = [text |-> save[w].text, rev |-> host.rev + 1]
          /\ \/ save' = [save EXCEPT ![w].pc = "saved"] /\ UNCHANGED <<bound, used>>
             \/ save' = [save EXCEPT ![w].pc = "failed"] /\ Lost(w, save[w].epoch)
       \/ /\ ~Applied(save[w].rev) \/ ~Current(w, save[w].epoch)
          /\ save' = [save EXCEPT ![w].pc = "failed"] /\ UNCHANGED <<host, bound, used>>
    /\ UNCHANGED <<locked, turns, draft, seen, epoch, inert, timer, chain, patch, flush,
                   owner, send, typed>>

\* The acknowledged write advances the saved base only; newer typing stays.
acknowledged(w) ==
    /\ save[w] # None /\ save[w].pc \in {"saved", "failed"}
    /\ LET s == save[w]
           mine == draft[w]
       IN  IF s.pc = "saved" /\ Current(w, s.epoch) /\ mine # None
             THEN draft' = [draft EXCEPT ![w] =
                              [mine EXCEPT !.saved = s.text, !.dirty = mine.text # s.text]]
             ELSE UNCHANGED draft
    /\ save' = [save EXCEPT ![w] = None]
    /\ chain' = Unlink(w, SaveOp)
    /\ UNCHANGED <<hostVars, seen, epoch, inert, timer, patch, flush, owner, send, bound, used, typed>>

-----------------------------------------------------------------------------
(* patch: a change of settings, behind the saves and sends already waiting. *)

startPatch(w) ==
    /\ inert[w] = "open" /\ patch[w] = None
    /\ patch' = [patch EXCEPT ![w] = [pc |-> "queued", text |-> Empty, base |-> Empty,
                                      rev |-> 0, epoch |-> epoch[w]]]
    /\ chain' = [chain EXCEPT ![w] = Append(@, PatchOp)]
    /\ CountIn(w, "patches")
    /\ UNCHANGED <<hostVars, draft, seen, epoch, inert, timer, save, flush, owner, send, typed>>

readSettings(w) ==
    /\ patch[w] # None /\ patch[w].pc = "queued" /\ Turn(w, PatchOp)
    /\ patch' = [patch EXCEPT ![w] =
                   IF Current(w, @.epoch) /\ ~locked
                     THEN Reading(@, @.base)
                     ELSE [@ EXCEPT !.pc = "failed"]]
    /\ UNCHANGED <<hostVars, draft, seen, epoch, inert, timer, chain, save, flush, owner,
                   send, bound, used, typed>>

\* The host answers and the window goes on: a change of settings keeps the draft.
endPatch(w) ==
    /\ patch[w] # None /\ patch[w].pc \in {"patch", "failed"}
    /\ IF patch[w].pc = "patch" /\ Applied(patch[w].rev)
         THEN host' = [host EXCEPT !.rev = @ + 1]
         ELSE UNCHANGED host
    /\ patch' = [patch EXCEPT ![w] = None]
    /\ chain' = Unlink(w, PatchOp)
    /\ UNCHANGED <<locked, turns, draft, seen, epoch, inert, timer, save, flush, owner,
                   send, bound, used, typed>>

-----------------------------------------------------------------------------
(* send: the message and its request id are kept until the host answered.  *)

\* A bug: a message that was not confirmed is sent under a new request id.
MessageNew(w, i) == [key |-> i, prompt |-> View(w).text]
\* A message that was not confirmed is sent again as it was, under its key.
MessageOf(w, i) ==
    IF View(w).sub # None THEN View(w).sub ELSE [key |-> i, prompt |-> View(w).text]

startSend(w) ==
    /\ inert[w] = "open" /\ owner[w] = None /\ \E j \in Ids : send[j] = None
    /\ View(w).sub # None \/ View(w).text # Empty
    /\ LET i == Cardinality({j \in Ids : send[j] # None}) + 1
           m == MessageOf(w, i)
       IN  /\ send' = [send EXCEPT ![i] = [w |-> w, key |-> m.key, prompt |-> m.prompt,
                                           epoch |-> epoch[w], pc |-> "flush"]]
           /\ draft' = [draft EXCEPT ![w] = [View(w) EXCEPT !.sub = m]]
           /\ owner' = [owner EXCEPT ![w] = i]
    /\ CountIn(w, "sends")
    /\ UNCHANGED <<hostVars, seen, epoch, inert, timer, chain, save, patch, flush, typed>>

\* The journal is written and the autosave in flight is awaited; then the
\* request takes its place in the chain.
joinChain(i) ==
    /\ send[i] # None /\ send[i].pc = "flush" /\ save[send[i].w] = None
    /\ LET w == send[i].w
       IN  IF Current(w, send[i].epoch)
             THEN /\ send' = [send EXCEPT ![i].pc = "queued"]
                  /\ chain' = [chain EXCEPT ![w] = Append(@, i)]
             ELSE send' = [send EXCEPT ![i].pc = "failed"] /\ UNCHANGED chain
    /\ UNCHANGED <<hostVars, draft, seen, epoch, inert, timer, save, patch, flush, owner,
                   bound, used, typed>>

post(i) ==
    /\ send[i] # None /\ send[i].pc = "queued" /\ Turn(send[i].w, i)
    /\ send' = [send EXCEPT ![i].pc = IF Current(send[i].w, send[i].epoch) THEN "post" ELSE "failed"]
    /\ UNCHANGED <<hostVars, draft, seen, epoch, inert, timer, chain, save, patch, flush,
                   owner, bound, used, typed>>

\* The host runs a request id once and clears the stored draft; a request that
\* was already taken is answered again.  It may also refuse, or the answer be lost.
hostTakes(i) ==
    /\ send[i] # None /\ send[i].pc = "post"
    /\ LET s == send[i]
       IN  \/ /\ ~locked
              /\ turns' = [turns EXCEPT ![s.key] = s.prompt]
              /\ host' = IF turns[s.key] # None \/ host.text = Empty
                           THEN host ELSE [text |-> Empty, rev |-> host.rev + 1]
              /\ \/ send' = [send EXCEPT ![i].pc = "accepted"] /\ UNCHANGED <<bound, used>>
                 \/ send' = [send EXCEPT ![i].pc = "failed"] /\ Lost(s.w, s.epoch)
           \/ /\ send' = [send EXCEPT ![i].pc = "failed"]
              /\ IF locked THEN UNCHANGED <<bound, used>> ELSE Lost(s.w, s.epoch)
              /\ UNCHANGED <<host, turns>>
    /\ UNCHANGED <<locked, draft, seen, epoch, inert, timer, chain, save, patch, flush,
                   owner, typed>>

\* A bug: the draft is emptied whatever was typed meanwhile.
SentAll(mine, prompt) == [text |-> Empty, saved |-> Empty, dirty |-> FALSE, sub |-> None]
\* The draft is emptied only if it is still the message; otherwise it stays, on
\* the base the host now holds.
Sent(mine, prompt) ==
    IF mine.text = prompt
      THEN [text |-> Empty, saved |-> Empty, dirty |-> FALSE, sub |-> None]
      ELSE [mine EXCEPT !.sub = None, !.saved = IF host.text \in {Empty, prompt} THEN host.text ELSE @]

\* Whatever happened, the submission gives the draft back if it still owns it,
\* and a draft that is still dirty is saved again.
settle(i) ==
    /\ send[i] # None /\ send[i].pc \in {"accepted", "failed"}
    /\ LET w == send[i].w
           prompt == send[i].prompt
           ok == send[i].pc = "accepted" /\ Current(w, send[i].epoch)
                   /\ (View(w).text # prompt => ~locked)
       IN  /\ send' = [send EXCEPT ![i].pc = IF ok THEN "done" ELSE "ended"]
           /\ draft' = [draft EXCEPT ![w] = IF ok THEN Sent(View(w), prompt) ELSE @]
           /\ typed' = [typed EXCEPT ![w] = IF ok /\ View(w).text = prompt THEN None ELSE @]
           /\ owner' = [owner EXCEPT ![w] = IF @ = i THEN None ELSE @]
           /\ timer' = [timer EXCEPT ![w] =
                IF draft'[w] # None /\ draft'[w].dirty /\ Current(w, send[i].epoch)
                  THEN epoch[w] ELSE IF ok THEN None ELSE @]
           /\ chain' = Unlink(w, i)
    /\ UNCHANGED <<hostVars, seen, epoch, inert, save, patch, flush, bound, used>>

-----------------------------------------------------------------------------
(* Locking.  The page is covered, the draft is flushed, the host locks; the   *)
(* other windows hear of it, and of the unlock, a little later.               *)

\* beginLock and preserveBeforeLock: a submission in flight is left alone.
beginLock(w) ==
    /\ inert[w] = "open" /\ ~locked /\ used.locks < bound.locks
    /\ inert' = [inert EXCEPT ![w] = "locking"]
    /\ flush' = [flush EXCEPT ![w] =
                  IF flush[w] # None THEN @
                  ELSE IF owner[w] = None THEN [pc |-> "queued"] ELSE None]
    /\ UNCHANGED <<hostVars, draft, seen, epoch, timer, chain, save, patch, owner, send,
                   bound, used, typed>>

\* flushRedockDraft keeps the entry it read until the host has answered.
readFlush(w) ==
    /\ flush[w] # None /\ flush[w].pc = "queued" /\ save[w] = None
    /\ flush' = [flush EXCEPT ![w] =
         IF draft[w] = None \/ ~View(w).dirty \/ locked \/ ~Mine(View(w).text, View(w).saved)
           THEN None
           ELSE [pc |-> "patch", entry |-> draft[w], rev |-> host.rev]]
    /\ UNCHANGED <<hostVars, draft, seen, epoch, inert, timer, chain, save, patch, owner,
                   send, bound, used, typed>>

hostFlushes(w) ==
    /\ flush[w] # None /\ flush[w].pc = "patch"
    /\ IF Applied(flush[w].rev)
         THEN /\ host' = [text |-> flush[w].entry.text, rev |-> host.rev + 1]
              /\ flush' = [flush EXCEPT ![w].pc = "saved"]
         ELSE /\ flush' = [flush EXCEPT ![w] = None] /\ UNCHANGED host
    /\ UNCHANGED <<locked, turns, draft, seen, epoch, inert, timer, chain, save, patch,
                   owner, send, bound, used, typed>>

endFlush(w) ==
    /\ flush[w] # None /\ flush[w].pc = "saved"
    /\ LET mine == flush[w].entry
       IN  draft' = [draft EXCEPT ![w] = [mine EXCEPT !.saved = mine.text, !.dirty = FALSE]]
    /\ flush' = [flush EXCEPT ![w] = None]
    /\ UNCHANGED <<hostVars, seen, epoch, inert, timer, chain, save, patch, owner, send,
                   bound, used, typed>>

\* The generation moves on, the writes in flight are aborted and forgotten.
Forget(w) ==
    /\ epoch' = [epoch EXCEPT ![w] = @ + 1]
    /\ chain' = [chain EXCEPT ![w] = <<>>]
    /\ inert' = [inert EXCEPT ![w] = "locked"]

\* After the flush, or when its deadline has passed.
lockWorkspace(w) ==
    /\ inert[w] = "locking" /\ ~locked
    /\ locked' = TRUE
    /\ Forget(w) /\ Count("locks")
    /\ UNCHANGED <<host, turns, draft, seen, timer, save, patch, flush, owner, send, typed>>

\* A bug: the window takes its own event for another one's.
hearLockAgain(w) ==
    /\ epoch[w] <= used.locks
    /\ Forget(w)
    /\ UNCHANGED <<hostVars, draft, seen, timer, save, patch, flush, owner, send, bound, used, typed>>

hearLock(w) ==
    /\ epoch[w] < used.locks
    /\ Forget(w)
    /\ UNCHANGED <<hostVars, draft, seen, timer, save, patch, flush, owner, send, bound, used, typed>>

unlock ==
    /\ locked /\ locked' = FALSE
    /\ UNCHANGED <<host, turns, draft, seen, epoch, inert, timer, chain, save, patch, flush,
                   owner, send, bound, used, typed>>

hearUnlock(w) ==
    /\ inert[w] = "locked" /\ ~locked /\ epoch[w] = used.locks
    /\ SlowFlush \/ flush[w] = None
    /\ inert' = [inert EXCEPT ![w] = "open"]
    /\ UNCHANGED <<hostVars, draft, seen, epoch, timer, chain, save, patch, flush, owner,
                   send, bound, used, typed>>

-----------------------------------------------------------------------------
Next ==
    \/ \E w \in Windows :
         \/ \E text \in Drafts : editDraft(w, text)
         \/ Observe(w)
         \/ saveDraft(w) \/ readDraft(w) \/ hostSaves(w) \/ acknowledged(w)
         \/ startPatch(w) \/ readSettings(w) \/ endPatch(w)
         \/ startSend(w)
         \/ beginLock(w) \/ readFlush(w) \/ hostFlushes(w) \/ endFlush(w)
         \/ lockWorkspace(w) \/ hearLock(w) \/ hearUnlock(w)
    \/ \E i \in Ids : joinChain(i) \/ post(i) \/ hostTakes(i) \/ settle(i)
    \/ unlock

\* A call is taken or fails, and its caller goes on: no fairness for the user.
Progress(w) ==
    \/ readDraft(w) \/ hostSaves(w) \/ acknowledged(w)
    \/ readSettings(w) \/ endPatch(w)

Spec ==
    /\ Init /\ [][Next]_vars
    /\ \A w \in Windows : WF_vars(Progress(w))
    /\ \A i \in Ids : WF_vars(joinChain(i) \/ post(i) \/ hostTakes(i) \/ settle(i))

-----------------------------------------------------------------------------
(* Properties. *)

\* What the user typed last is what the window's entry holds until it was sent:
\* that entry is what is saved, journaled, handed to another window and shown when
\* the conversation is opened again.  No late answer puts back older text.
NothingTypedIsLost == \A w \in Windows : typed[w] # None => View(w).text = typed[w]

\* lock-preservation.ts:13 goes on to lock when the flush takes too long, and says
\* that "local drafts remain preserved": also once the late answer arrives.
LocalDraftsRemain == NothingTypedIsLost

\* An autosave replaces the stored draft only if it is the one this window
\* started from, or the same text: another window's draft is never overwritten.
ForeignDraftKept ==
    [][\A w \in Windows :
         /\ save[w] # None /\ save[w].pc = "patch" /\ save'[w] # save[w] /\ host' # host
           => host.text \in {save[w].base, save[w].text}
         /\ flush[w] # None /\ flush[w].pc = "patch" /\ flush'[w] # flush[w] /\ host' # host
           => host.text \in {flush[w].entry.saved, flush[w].entry.text}]_vars

\* A window has one unconfirmed message: it is sent again under its request id,
\* so a lost answer, a lock or a retry cannot run it twice.
Confirmed(k) == \E j \in Ids : send[j] # None /\ send[j].key = k /\ send[j].pc = "done"
OneMessageUnderWay ==
    \A i, j \in Ids :
        /\ send[i] # None /\ send[j] # None /\ send[i].w = send[j].w
        /\ ~Confirmed(send[i].key) /\ ~Confirmed(send[j].key)
        => send[i].key = send[j].key /\ send[i].prompt = send[j].prompt

\* Saves, sends and settings of a window do not overlap, across locks too:
\* they cannot run into each other's revisions.
InFlight(w) ==
    {x \in SaveOp..PatchOp :
        \/ x = SaveOp /\ save[w] # None /\ save[w].pc \in {"patch", "saved"}
             /\ Current(w, save[w].epoch)
        \/ x = PatchOp /\ patch[w] # None /\ patch[w].pc = "patch"
             /\ Current(w, patch[w].epoch)
        \/ x \in Ids /\ send[x] # None /\ send[x].w = w /\ send[x].pc \in {"post", "accepted"}
             /\ Current(w, send[x].epoch)}
OneWriteAtATime == \A w \in Windows : Cardinality(InFlight(w)) <= 1

\* One at a time: a window has one unconfirmed message, sent again under its
\* own request id, and one write to a conversation under way (session-writes.ts,
\* Chat.tsx).
OneAtATime == TypeOK /\ OneMessageUnderWay /\ OneWriteAtATime

\* A submission ends, whatever it waits for and whatever is lost or locked, and
\* gives the draft back.
SubmissionEnds ==
    \A i \in Ids :
        (send[i] # None) ~> /\ send[i] # None /\ send[i].pc \in {"done", "ended"}
                            /\ \A w \in Windows : owner[w] # i

-----------------------------------------------------------------------------
(* Proof that no write replaces a draft of another window, for any number of  *)
(* windows, submissions, locks and faults.  It needs to be known, while a     *)
(* write is on its way, what its revision says of the draft the host holds.   *)

\* The host's row, the writes and the flushes are records of their fields.
Shapes ==
    /\ host = [text |-> host.text, rev |-> host.rev] /\ host.rev \in Nat
    /\ save = [w \in Windows |-> save[w]] /\ flush = [w \in Windows |-> flush[w]]
    /\ \A w \in Windows :
         /\ save[w] # None =>
              save[w] = [pc |-> save[w].pc, text |-> save[w].text, base |-> save[w].base,
                         rev |-> save[w].rev, epoch |-> save[w].epoch]
         /\ flush[w] # None =>
              \/ flush[w] = [pc |-> "queued"]
              \/ flush[w] = [pc |-> flush[w].pc, entry |-> flush[w].entry, rev |-> flush[w].rev]

\* As long as the row has the revision a write read, it has the draft it read.
SaveKnows(w) ==
    save[w] # None /\ save[w].pc = "patch" =>
      /\ save[w].rev \in Nat /\ save[w].rev <= host.rev
      /\ save[w].rev = host.rev => host.text \in {save[w].base, save[w].text}
FlushKnows(w) ==
    flush[w] # None /\ flush[w].pc = "patch" =>
      /\ flush[w].rev \in Nat /\ flush[w].rev <= host.rev
      /\ flush[w].rev = host.rev => host.text \in {flush[w].entry.saved, flush[w].entry.text}

RevisionInv == Shapes /\ \A w \in Windows : SaveKnows(w) /\ FlushKnows(w)

\* Every change of the row has a revision of its own (revision + 1 in store.py).
NewRevision == host' = [text |-> host'.text, rev |-> host.rev + 1]

LEMMA WriteKeepsRevisions ==
    ASSUME RevisionInv, NewRevision, UNCHANGED <<save, flush>>
    PROVE  RevisionInv'
<1>1. host'.rev = host.rev + 1 /\ host.rev \in Nat
  BY DEF RevisionInv, Shapes, NewRevision
<1>2. Shapes'
  BY <1>1 DEF RevisionInv, Shapes, NewRevision
<1>3. ASSUME NEW w \in Windows PROVE SaveKnows(w)' /\ FlushKnows(w)'
  BY <1>1, <1>3 DEF RevisionInv, SaveKnows, FlushKnows
<1> QED
  BY <1>2, <1>3 DEF RevisionInv

\* A window's write becomes another one; the row stays or has a new revision.
WriteKnows(s) ==
    s # None =>
      /\ s = [pc |-> s.pc, text |-> s.text, base |-> s.base, rev |-> s.rev, epoch |-> s.epoch]
      /\ s.pc = "patch" => s.rev = host.rev /\ host.text \in {s.base, s.text}
LEMMA SaveReplaced ==
    ASSUME RevisionInv, NEW w \in Windows, NEW s, save' = [save EXCEPT ![w] = s],
           flush' = flush, host' = host \/ (NewRevision /\ (s # None => s.pc # "patch")),
           WriteKnows(s)
    PROVE  RevisionInv'
<1>1. /\ host.rev \in Nat /\ host.rev <= host'.rev /\ host'.rev \in Nat
      /\ host' = [text |-> host'.text, rev |-> host'.rev]
      /\ host'.rev = host.rev => host' = host
  BY DEF RevisionInv, Shapes, NewRevision
<1>2. save'[w] = s /\ \A v \in Windows \ {w} : save'[v] = save[v]
  BY DEF RevisionInv, Shapes
<1>3. save' = [v \in Windows |-> save'[v]]
  BY DEF RevisionInv, Shapes
<1>4. Shapes'
  BY <1>1, <1>2, <1>3 DEF RevisionInv, Shapes, WriteKnows
<1>5. ASSUME NEW v \in Windows PROVE SaveKnows(v)' /\ FlushKnows(v)'
  <2>1. FlushKnows(v)'
    BY <1>1, <1>5 DEF RevisionInv, FlushKnows
  <2>2. CASE v = w
    BY <1>1, <1>2, <2>1, <2>2 DEF SaveKnows, WriteKnows
  <2>3. CASE v # w
    BY <1>1, <1>2, <1>5, <2>1, <2>3 DEF RevisionInv, SaveKnows
  <2> QED
    BY <2>2, <2>3
<1> QED
  BY <1>4, <1>5 DEF RevisionInv

\* The same for its flush.
FlushReads(f) ==
    f # None =>
      \/ f = [pc |-> "queued"]
      \/ /\ f = [pc |-> f.pc, entry |-> f.entry, rev |-> f.rev]
         /\ f.pc = "patch" => f.rev = host.rev /\ host.text \in {f.entry.saved, f.entry.text}
LEMMA FlushReplaced ==
    ASSUME RevisionInv, NEW w \in Windows, NEW f, flush' = [flush EXCEPT ![w] = f],
           save' = save, host' = host \/ (NewRevision /\ (f # None => f.pc # "patch")),
           FlushReads(f)
    PROVE  RevisionInv'
<1>1. /\ host.rev \in Nat /\ host.rev <= host'.rev /\ host'.rev \in Nat
      /\ host' = [text |-> host'.text, rev |-> host'.rev]
      /\ host'.rev = host.rev => host' = host
  BY DEF RevisionInv, Shapes, NewRevision
<1>2. flush'[w] = f /\ \A v \in Windows \ {w} : flush'[v] = flush[v]
  BY DEF RevisionInv, Shapes
<1>3. flush' = [v \in Windows |-> flush'[v]]
  BY DEF RevisionInv, Shapes
<1>4. Shapes'
  BY <1>1, <1>2, <1>3 DEF RevisionInv, Shapes, FlushReads
<1>5. ASSUME NEW v \in Windows PROVE SaveKnows(v)' /\ FlushKnows(v)'
  <2>1. SaveKnows(v)'
    BY <1>1, <1>5 DEF RevisionInv, SaveKnows
  <2>2. CASE v = w
    <3>1. [pc |-> "queued"].pc # "patch"
      OBVIOUS
    <3> QED
      BY <1>1, <1>2, <2>1, <2>2, <3>1 DEF FlushKnows, FlushReads
  <2>3. CASE v # w
    BY <1>1, <1>2, <1>5, <2>1, <2>3 DEF RevisionInv, FlushKnows
  <2> QED
    BY <2>2, <2>3
<1> QED
  BY <1>4, <1>5 DEF RevisionInv

\* The autosave: what it reads, and what the host does with it (writeDraft).
LEMMA SaveKeepsRevisions ==
    ASSUME RevisionInv, NEW w \in Windows,
           saveDraft(w) \/ readDraft(w) \/ hostSaves(w) \/ acknowledged(w)
    PROVE  RevisionInv'
<1>1. /\ save[w] # None =>
           save[w] = [pc |-> save[w].pc, text |-> save[w].text, base |-> save[w].base,
                      rev |-> save[w].rev, epoch |-> save[w].epoch]
      /\ save = [v \in Windows |-> save[v]] /\ host.rev \in Nat
  BY DEF RevisionInv, Shapes
<1>2. CASE saveDraft(w)
  <2>1. CASE UNCHANGED save
    <3>1. save' = [save EXCEPT ![w] = save[w]] /\ save[w] = None
      BY <1>1, <1>2, <2>1 DEF saveDraft
    <3> QED
      BY <1>2, <3>1, SaveReplaced DEF saveDraft, hostVars, WriteKnows
  <2>2. PICK s : /\ UNCHANGED save \/ save' = [save EXCEPT ![w] = s]
                 /\ s = [pc |-> "queued", text |-> View(w).text, base |-> View(w).saved,
                         rev |-> 0, epoch |-> timer[w]]
    BY <1>2 DEF saveDraft
  <2>3. WriteKnows(s)
    BY <2>2 DEF WriteKnows
  <2> QED
    BY <1>2, <2>1, <2>2, <2>3, SaveReplaced DEF saveDraft, hostVars
<1>3. CASE readDraft(w)
  <2>1. save[w] # None /\ host' = host /\ flush' = flush
    BY <1>3 DEF readDraft, hostVars
  <2>2. PICK base : base = View(w).saved
    OBVIOUS
  <2>3. \/ save' = [save EXCEPT ![w] = [save[w] EXCEPT !.pc = "failed"]]
        \/ save' = [save EXCEPT ![w] = Reading(save[w], base)] /\ Mine(save[w].text, base)
    BY <1>3, <2>2 DEF readDraft
  <2>4. WriteKnows([save[w] EXCEPT !.pc = "failed"])
    BY <1>1, <2>1 DEF WriteKnows
  <2>5. Mine(save[w].text, base) => WriteKnows(Reading(save[w], base))
    BY DEF WriteKnows, Mine, Reading
  <2> QED
    BY <2>1, <2>3, <2>4, <2>5, SaveReplaced
<1>4. CASE hostSaves(w)
  <2>1. save[w] # None /\ flush' = flush
    BY <1>4 DEF hostSaves
  <2>2. PICK pc \in {"saved", "failed"} : save' = [save EXCEPT ![w] = [save[w] EXCEPT !.pc = pc]]
    BY <1>4 DEF hostSaves
  <2>3. host' = host \/ NewRevision
    BY <1>4 DEF hostSaves, NewRevision
  <2>4. WriteKnows([save[w] EXCEPT !.pc = pc]) /\ [save[w] EXCEPT !.pc = pc].pc # "patch"
    BY <1>1, <2>1, <2>2 DEF WriteKnows
  <2> QED
    BY <2>1, <2>2, <2>3, <2>4, SaveReplaced
<1>5. CASE acknowledged(w)
  BY <1>5, SaveReplaced DEF acknowledged, hostVars, WriteKnows
<1> QED
  BY <1>2, <1>3, <1>4, <1>5

\* The flush before a lock (flushRedockDraft).
LEMMA FlushKeepsRevisions ==
    ASSUME RevisionInv, NEW w \in Windows,
           beginLock(w) \/ readFlush(w) \/ hostFlushes(w) \/ endFlush(w)
    PROVE  RevisionInv'
<1>1. /\ flush[w] # None =>
           \/ flush[w] = [pc |-> "queued"]
           \/ flush[w] = [pc |-> flush[w].pc, entry |-> flush[w].entry, rev |-> flush[w].rev]
      /\ flush = [v \in Windows |-> flush[v]] /\ host.rev \in Nat
  BY DEF RevisionInv, Shapes
<1>2. FlushReads(None) /\ FlushReads([pc |-> "queued"])
  BY DEF FlushReads
<1>3. CASE beginLock(w)
  <2>1. /\ host' = host /\ save' = save
        /\ \/ flush' = [flush EXCEPT ![w] = flush[w]]
           \/ flush' = [flush EXCEPT ![w] = [pc |-> "queued"]]
           \/ flush' = [flush EXCEPT ![w] = None]
    BY <1>3 DEF beginLock, hostVars
  <2>2. CASE flush' = [flush EXCEPT ![w] = flush[w]]
    <3>1. flush' = flush
      BY <1>1, <2>2
    <3> QED
      BY <2>1, <3>1 DEF RevisionInv, Shapes, SaveKnows, FlushKnows
  <2> QED
    BY <1>2, <2>1, <2>2, FlushReplaced
<1>4. CASE readFlush(w)
  <2>1. host' = host /\ save' = save
    BY <1>4 DEF readFlush, hostVars
  <2>2. CASE flush' = [flush EXCEPT ![w] = None]
    BY <1>2, <2>1, <2>2, FlushReplaced
  <2>3. CASE flush' # [flush EXCEPT ![w] = None]
    <3>1. PICK f : /\ flush' = [flush EXCEPT ![w] = f]
                   /\ f = [pc |-> "patch", entry |-> draft[w], rev |-> host.rev]
                   /\ draft[w] # None /\ Mine(View(w).text, View(w).saved)
      BY <1>4, <2>3 DEF readFlush
    <3>2. FlushReads(f)
      BY <3>1 DEF FlushReads, Mine, View
    <3> QED
      BY <2>1, <3>1, <3>2, FlushReplaced
  <2> QED
    BY <2>2, <2>3
<1>5. CASE hostFlushes(w)
  <2>1. flush[w] # None /\ flush[w].pc = "patch" /\ save' = save
    BY <1>5 DEF hostFlushes
  <2>2. CASE host' = host /\ flush' = [flush EXCEPT ![w] = None]
    BY <1>2, <2>1, <2>2, FlushReplaced
  <2>3. CASE NewRevision /\ flush' = [flush EXCEPT ![w] = [flush[w] EXCEPT !.pc = "saved"]]
    <3>1. flush[w] = [pc |-> flush[w].pc, entry |-> flush[w].entry, rev |-> flush[w].rev]
      BY <1>1, <2>1
    <3>2. FlushReads([flush[w] EXCEPT !.pc = "saved"]) /\ [flush[w] EXCEPT !.pc = "saved"].pc # "patch"
      BY <3>1 DEF FlushReads
    <3> QED
      BY <2>1, <2>3, <3>2, FlushReplaced
  <2> QED
    BY <1>5, <2>2, <2>3 DEF hostFlushes, NewRevision
<1>6. CASE endFlush(w)
  BY <1>2, <1>6, FlushReplaced DEF endFlush, hostVars
<1> QED
  BY <1>3, <1>4, <1>5, <1>6

\* What else happens writes neither, and gives the row a revision if it changes.
LEMMA OthersKeepRevisions ==
    ASSUME RevisionInv, Next,
           ~\E w \in Windows :
               \/ saveDraft(w) \/ readDraft(w) \/ hostSaves(w) \/ acknowledged(w)
               \/ beginLock(w) \/ readFlush(w) \/ hostFlushes(w) \/ endFlush(w)
    PROVE  UNCHANGED <<save, flush>> /\ (host' = host \/ NewRevision)
<1>1. host = [text |-> host.text, rev |-> host.rev]
  BY DEF RevisionInv, Shapes
<1>2. ASSUME NEW w \in Windows,
             \/ \E text \in Drafts : editDraft(w, text)
             \/ Observe(w) \/ startPatch(w) \/ readSettings(w) \/ startSend(w)
             \/ lockWorkspace(w) \/ hearLock(w) \/ hearUnlock(w)
      PROVE  UNCHANGED <<save, flush, host>>
  BY <1>2 DEF editDraft, Observe, startPatch, readSettings, startSend, lockWorkspace, hearLock,
     hearUnlock, hostVars
<1>3. ASSUME NEW w \in Windows, endPatch(w)
      PROVE  UNCHANGED <<save, flush>> /\ (host' = host \/ NewRevision)
  BY <1>1, <1>3 DEF endPatch, NewRevision
<1>4. ASSUME NEW i \in Ids, joinChain(i) \/ post(i) \/ settle(i)
      PROVE  UNCHANGED <<save, flush, host>>
  BY <1>4 DEF joinChain, post, settle, hostVars
<1>5. ASSUME NEW i \in Ids, hostTakes(i)
      PROVE  UNCHANGED <<save, flush>> /\ (host' = host \/ NewRevision)
  BY <1>5 DEF hostTakes, NewRevision
<1>6. CASE unlock
  BY <1>6 DEF unlock
<1> QED
  BY <1>2, <1>3, <1>4, <1>5, <1>6 DEF Next

LEMMA RevisionStep == ASSUME RevisionInv, [Next]_vars PROVE RevisionInv'
<1>1. ASSUME UNCHANGED <<save, flush, host>> PROVE RevisionInv'
  BY <1>1 DEF RevisionInv, Shapes, SaveKnows, FlushKnows
<1>2. UNCHANGED vars => UNCHANGED <<save, flush, host>>
  BY DEF vars
<1> QED
  BY <1>1, <1>2, OthersKeepRevisions, WriteKeepsRevisions, SaveKeepsRevisions, FlushKeepsRevisions

\* No window's autosave and no flush before a lock replaces a draft that another
\* window stored, however they interleave (writeDraft, flushRedockDraft).
THEOREM ForeignDraftsAreKept == Spec => ForeignDraftKept
<1>1. Init => RevisionInv
  BY DEF Init, RevisionInv, Shapes, SaveKnows, FlushKnows
<1>2. RevisionInv /\ [Next]_vars => RevisionInv'
  BY RevisionStep
<1>3. RevisionInv /\ [Next]_vars =>
        [\A w \in Windows :
           /\ save[w] # None /\ save[w].pc = "patch" /\ save'[w] # save[w] /\ host' # host
             => host.text \in {save[w].base, save[w].text}
           /\ flush[w] # None /\ flush[w].pc = "patch" /\ flush'[w] # flush[w] /\ host' # host
             => host.text \in {flush[w].entry.saved, flush[w].entry.text}]_vars
  <2> SUFFICES ASSUME RevisionInv, Next, host' # host, NEW w \in Windows
               PROVE  /\ save[w] # None /\ save[w].pc = "patch" /\ save'[w] # save[w]
                        => host.text \in {save[w].base, save[w].text}
                      /\ flush[w] # None /\ flush[w].pc = "patch" /\ flush'[w] # flush[w]
                        => host.text \in {flush[w].entry.saved, flush[w].entry.text}
    OBVIOUS
  <2>1. ASSUME NEW v \in Windows, hostSaves(v)
        PROVE  /\ flush' = flush /\ (v # w => save'[w] = save[w])
               /\ v = w => save[w].rev = host.rev
    BY <2>1 DEF hostSaves, Applied, RevisionInv, Shapes
  <2>2. ASSUME NEW v \in Windows, hostFlushes(v)
        PROVE  /\ save' = save /\ (v # w => flush'[w] = flush[w])
               /\ v = w => flush[w].rev = host.rev
    BY <2>2 DEF hostFlushes, Applied, RevisionInv, Shapes
  <2>3. ~\E v \in Windows : \/ saveDraft(v) \/ readDraft(v) \/ acknowledged(v)
                            \/ beginLock(v) \/ readFlush(v) \/ endFlush(v)
    BY DEF saveDraft, readDraft, acknowledged, beginLock, readFlush, endFlush, hostVars
  <2>4. SaveKnows(w) /\ FlushKnows(w)
    BY DEF RevisionInv
  <2> QED
    BY <2>1, <2>2, <2>3, <2>4, OthersKeepRevisions DEF SaveKnows, FlushKnows
<1> QED
  BY <1>1, <1>2, <1>3, PTL DEF Spec, ForeignDraftKept

-----------------------------------------------------------------------------
(* Types, and what generations and chains hold, for any number of windows,    *)
(* submissions, locks and faults.                                             *)

\* Nothing is of a generation that has not begun, and generations are locks.
EpochsBound ==
    /\ used.locks <= bound.locks
    /\ \A w \in Windows :
        /\ epoch[w] <= used.locks
        /\ timer[w] # None => timer[w] <= epoch[w]
        /\ save[w] # None => save[w].epoch <= epoch[w]
        /\ patch[w] # None => patch[w].epoch <= epoch[w]
    /\ \A i \in Ids : send[i] # None => send[i].epoch <= epoch[send[i].w]

LEMMA ViewIsEntry == ASSUME TypeOK, NEW w \in Windows PROVE View(w) \in Entry
BY DEF TypeOK, View, Entry, Drafts

\* Saves, settings and submissions are the operations a chain may hold.
LEMMA OperationsAreOfChains == Ids \cup {SaveOp, PatchOp} \subseteq SaveOp..PatchOp
BY ComposerAssumption DEF Ids, SaveOp, PatchOp

\* A chain stays one of operations when a link joins, goes, or a lock empties it.
LEMMA ChainsStay ==
    ASSUME TypeOK, NEW w \in Windows,
           \/ \E op \in Ids \cup {SaveOp, PatchOp} :
                chain' = [chain EXCEPT ![w] = Append(@, op)] \/ chain' = Unlink(w, op)
           \/ chain' = [chain EXCEPT ![w] = <<>>]
           \/ chain' = chain
    PROVE  chain' \in [Windows -> Seq(SaveOp..PatchOp)]
<1>1. ASSUME NEW q \in Seq(SaveOp..PatchOp), q # <<>> PROVE Tail(q) \in Seq(SaveOp..PatchOp)
  BY <1>1
<1>2. ASSUME NEW q \in Seq(SaveOp..PatchOp), NEW x \in SaveOp..PatchOp
      PROVE  Append(q, x) \in Seq(SaveOp..PatchOp)
  BY <1>2
<1>3. chain \in [Windows -> Seq(SaveOp..PatchOp)] /\ <<>> \in Seq(SaveOp..PatchOp)
  BY DEF TypeOK
<1>4. ASSUME NEW op \in Ids \cup {SaveOp, PatchOp},
             chain' = [chain EXCEPT ![w] = Append(@, op)] \/ chain' = Unlink(w, op)
      PROVE  chain' \in [Windows -> Seq(SaveOp..PatchOp)]
  <2>1. op \in SaveOp..PatchOp
    BY OperationsAreOfChains
  <2>2. PICK q \in Seq(SaveOp..PatchOp) : chain' = [chain EXCEPT ![w] = q]
    <3>1. chain[w] \in Seq(SaveOp..PatchOp)
      BY <1>3
    <3>2. CASE chain' = [chain EXCEPT ![w] = Append(@, op)]
      BY <1>2, <2>1, <3>1, <3>2
    <3>3. CASE chain' = Unlink(w, op)
      BY <1>1, <3>1, <3>3 DEF Unlink, First
    <3> QED
      BY <1>4, <3>2, <3>3
  <2> QED
    BY <1>3, <2>2
<1> QED
  BY <1>3, <1>4

\* What a behaviour has used stays within its bounds.
LEMMA CountsStay ==
    ASSUME TypeOK
    PROVE  /\ \A w \in Windows, f \in {"edits", "sends", "saves", "patches"} :
                CountIn(w, f) => used' \in Counts /\ bound' \in Bounds
           /\ Count("faults") => used' \in Counts /\ bound' \in Bounds
           /\ Count("locks") => used' \in Counts /\ bound' \in Bounds
<1>1. ASSUME NEW u \in Counts, NEW w \in Windows, NEW f \in {"edits", "sends", "saves", "patches"}
      PROVE  [u EXCEPT ![f][w] = @ + 1] \in Counts
  BY DEF Counts
<1>2. ASSUME NEW u \in Counts PROVE [u EXCEPT !["faults"] = @ + 1] \in Counts
  BY DEF Counts
<1>3. ASSUME NEW u \in Counts, NEW b \in Counts, u["locks"] < b["locks"]
      PROVE  [u EXCEPT !["locks"] = @ + 1] \in Counts
  BY <1>3, ComposerAssumption DEF Counts
<1>4. used \in Counts /\ bound \in Counts /\ bound \in Bounds
  BY ComposerAssumption DEF TypeOK
<1>5. ASSUME NEW w \in Windows, NEW f \in {"edits", "sends", "saves", "patches"}, CountIn(w, f)
      PROVE  used' \in Counts /\ bound' \in Bounds
  BY <1>1, <1>4, <1>5 DEF CountIn
<1>6. Count("faults") => used' \in Counts /\ bound' \in Bounds
  BY <1>2, <1>4 DEF Count
<1>7. Count("locks") => used' \in Counts /\ bound' \in Bounds
  BY <1>3, <1>4 DEF Count
<1> QED
  BY <1>5, <1>6, <1>7

\* Types: what a write becomes from step to step, then of every variable.
LEMMA WriteChanges ==
    ASSUME TypeOK, NEW s \in Write
    PROVE  /\ \A pc \in {"saved", "failed"} :
                /\ [s EXCEPT !.pc = pc] \in Write /\ [s EXCEPT !.pc = pc].pc = pc
                /\ [s EXCEPT !.pc = pc].epoch = s.epoch
           /\ \A base \in Drafts :
                /\ Reading(s, base) \in Write
                /\ Reading(s, base).pc = "patch" /\ Reading(s, base).epoch = s.epoch
BY DEF Write, Reading, TypeOK

LEMMA DraftTypes ==
    ASSUME TypeOK, NEW w \in Windows, Observe(w) \/ \E text \in Drafts : editDraft(w, text)
    PROVE  TypeOK'
<1>1. CASE Observe(w)
  BY <1>1 DEF Observe, TypeOK, hostVars
<1>2. ASSUME NEW text \in Drafts, editDraft(w, text) PROVE TypeOK'
  <2>1. [View(w) EXCEPT !.text = text, !.dirty = TRUE] \in Entry
    BY ViewIsEntry DEF Entry
  <2>2. used' \in Counts /\ bound' \in Bounds
    BY <1>2, CountsStay DEF editDraft
  <2>3. /\ draft' \in [Windows -> Entry \cup {None}]
        /\ timer' \in [Windows -> Epochs \cup {None}]
        /\ typed' \in [Windows -> Drafts \cup {None}]
    BY <1>2, <2>1 DEF editDraft, TypeOK
  <2> QED
    BY <1>2, <2>2, <2>3 DEF editDraft, TypeOK, hostVars
<1> QED
  BY <1>1, <1>2

LEMMA SaveTypes ==
    ASSUME TypeOK, NEW w \in Windows,
           saveDraft(w) \/ readDraft(w) \/ hostSaves(w) \/ acknowledged(w)
    PROVE  TypeOK'
<1>1. CASE saveDraft(w)
  <2>1. timer[w] \in Epochs
    BY <1>1 DEF saveDraft, TypeOK
  <2>2. [pc |-> "queued", text |-> View(w).text, base |-> View(w).saved, rev |-> 0,
         epoch |-> timer[w]] \in Write
    BY <2>1, ViewIsEntry DEF Entry, Write
  <2>3. used' \in Counts /\ bound' \in Bounds
    BY <1>1, CountsStay DEF saveDraft, TypeOK
  <2>4. /\ save' \in [Windows -> Write \cup {None}]
        /\ timer' \in [Windows -> Epochs \cup {None}]
    <3>1. /\ save \in [Windows -> Write \cup {None}]
          /\ timer \in [Windows -> Epochs \cup {None}]
      BY DEF TypeOK
    <3> QED
      BY <1>1, <2>2, <3>1 DEF saveDraft
  <2>5. chain' \in [Windows -> Seq(SaveOp..PatchOp)]
    <3>1. chain' = chain \/ chain' = [chain EXCEPT ![w] = Append(@, SaveOp)]
      BY <1>1 DEF saveDraft
    <3> QED
      BY <3>1, ChainsStay
  <2> QED
    BY <1>1, <2>3, <2>4, <2>5 DEF saveDraft, TypeOK, hostVars
<1>2. CASE readDraft(w)
  <2>1. save[w] \in Write /\ View(w).saved \in Drafts /\ host.rev \in Nat
    BY <1>2, ViewIsEntry DEF readDraft, TypeOK, Entry
  <2>2. /\ [save[w] EXCEPT !.pc = "failed"] \in Write
        /\ Reading(save[w], View(w).saved) \in Write
    BY <2>1, WriteChanges
  <2>3. save' \in [Windows -> Write \cup {None}]
    BY <1>2, <2>2 DEF readDraft, TypeOK
  <2> QED
    BY <1>2, <2>3 DEF readDraft, TypeOK, hostVars
<1>3. CASE hostSaves(w)
  <2>1. save[w] \in Write
    BY <1>3 DEF hostSaves, TypeOK
  <2>2. \A pc \in {"saved", "failed"} : [save[w] EXCEPT !.pc = pc] \in Write
    BY <2>1 DEF Write
  <2>3. save' \in [Windows -> Write \cup {None}]
    BY <1>3, <2>2 DEF hostSaves, TypeOK
  <2>4. used' \in Counts /\ bound' \in Bounds
    BY <1>3, CountsStay DEF hostSaves, Lost, TypeOK
  <2>5. host' \in [text : Drafts, rev : Nat]
    BY <1>3, <2>1 DEF hostSaves, TypeOK, Write
  <2> QED
    BY <1>3, <2>3, <2>4, <2>5 DEF hostSaves, TypeOK
<1>4. CASE acknowledged(w)
  <2>1. save[w] \in Write
    BY <1>4 DEF acknowledged, TypeOK
  <2>2. ASSUME NEW e \in Entry, NEW text \in Drafts
        PROVE  [e EXCEPT !.saved = text, !.dirty = e.text # text] \in Entry
    BY DEF Entry
  <2>3. draft' \in [Windows -> Entry \cup {None}]
    <3>0. save[w].text \in Drafts /\ (draft[w] # None => draft[w] \in Entry)
      BY <2>1 DEF TypeOK, Write
    <3>1. draft[w] # None =>
            [draft[w] EXCEPT !.saved = save[w].text, !.dirty = draft[w].text # save[w].text] \in Entry
      BY <2>2, <3>0
    <3>2. \/ draft' = draft
          \/ /\ draft[w] # None
             /\ draft' = [draft EXCEPT ![w] = [draft[w] EXCEPT !.saved = save[w].text,
                                               !.dirty = draft[w].text # save[w].text]]
      BY <1>4 DEF acknowledged
    <3> QED
      BY <3>1, <3>2 DEF TypeOK
  <2>4. save' \in [Windows -> Write \cup {None}] /\ chain' \in [Windows -> Seq(SaveOp..PatchOp)]
    BY <1>4, ChainsStay DEF acknowledged, TypeOK
  <2> QED
    BY <1>4, <2>3, <2>4 DEF acknowledged, TypeOK, hostVars
<1> QED
  BY <1>1, <1>2, <1>3, <1>4

LEMMA PatchTypes ==
    ASSUME TypeOK, NEW w \in Windows, startPatch(w) \/ readSettings(w) \/ endPatch(w)
    PROVE  TypeOK'
<1>1. CASE startPatch(w)
  <2>1. epoch[w] \in Epochs /\ Empty \in Drafts
    BY DEF TypeOK, Drafts
  <2>2. [pc |-> "queued", text |-> Empty, base |-> Empty, rev |-> 0, epoch |-> epoch[w]] \in Write
    BY <2>1 DEF Write
  <2>3. used' \in Counts /\ bound' \in Bounds
    BY <1>1, CountsStay DEF startPatch
  <2>4. patch' \in [Windows -> Write \cup {None}]
    BY <1>1, <2>2 DEF startPatch, TypeOK
  <2>5. chain' \in [Windows -> Seq(SaveOp..PatchOp)]
    BY <1>1, ChainsStay DEF startPatch
  <2> QED
    BY <1>1, <2>3, <2>4, <2>5 DEF startPatch, TypeOK, hostVars
<1>2. CASE readSettings(w)
  <2>1. patch[w] \in Write /\ host.rev \in Nat
    BY <1>2 DEF readSettings, TypeOK
  <2>2. /\ [patch[w] EXCEPT !.pc = "failed"] \in Write
        /\ Reading(patch[w], patch[w].base) \in Write
    BY <2>1, WriteChanges DEF Write
  <2>3. patch' \in [Windows -> Write \cup {None}]
    BY <1>2, <2>2 DEF readSettings, TypeOK
  <2> QED
    BY <1>2, <2>3 DEF readSettings, TypeOK, hostVars
<1>3. CASE endPatch(w)
  <2>1. /\ patch' \in [Windows -> Write \cup {None}]
        /\ chain' \in [Windows -> Seq(SaveOp..PatchOp)]
    BY <1>3, ChainsStay DEF endPatch, TypeOK
  <2>2. host' \in [text : Drafts, rev : Nat]
    BY <1>3 DEF endPatch, TypeOK
  <2> QED
    BY <1>3, <2>1, <2>2 DEF endPatch, TypeOK
<1> QED
  BY <1>1, <1>2, <1>3

\* Submissions are numbered in the order they are made.
InOrder == \E n \in 0..MaxSends : \A j \in Ids : send[j] # None <=> j <= n

\* A new submission gets a number no other one has.
LEMMA NextIsFree ==
    ASSUME InOrder, \E j \in Ids : send[j] = None
    PROVE  LET i == Cardinality({j \in Ids : send[j] # None}) + 1
           IN  /\ i \in Ids /\ send[i] = None
               /\ \A j \in Ids : send[j] # None <=> j < i
<1>1. PICK n \in 0..MaxSends : \A j \in Ids : send[j] # None <=> j <= n
  BY DEF InOrder
<1>2. n < MaxSends
  BY <1>1, ComposerAssumption DEF Ids
<1>3. {j \in Ids : send[j] # None} = 1..n
  BY <1>1, <1>2, ComposerAssumption DEF Ids
<1>4. Cardinality(1..n) = n
  BY <1>2, FS_Interval, ComposerAssumption
<1>5. Cardinality({j \in Ids : send[j] # None}) = n
  BY <1>3, <1>4
<1>6. n + 1 \in Ids /\ send[n + 1] = None /\ \A j \in Ids : send[j] # None <=> j < n + 1
  BY <1>1, <1>2, ComposerAssumption DEF Ids
<1> QED
  BY <1>5, <1>6

\* What a submission sends is the message of the draft, and a text.
LEMMA MessageIsOfIt ==
    ASSUME TypeOK, NEW w \in Windows, NEW i \in Ids,
           View(w).sub # None \/ View(w).text # Empty
    PROVE  MessageOf(w, i) \in Message
BY ViewIsEntry DEF MessageOf, Message, Entry, Drafts

\* The steps of a submission keep its window, its message and its prompt.
LEMMA FlightChanges ==
    ASSUME NEW s \in Flight,
           NEW pc \in {"flush", "queued", "post", "accepted", "failed", "done", "ended"}
    PROVE  LET t == [s EXCEPT !.pc = pc]
           IN  /\ t \in Flight /\ t.pc = pc
               /\ t.w = s.w /\ t.epoch = s.epoch /\ t.key = s.key /\ t.prompt = s.prompt
BY DEF Flight

LEMMA FlightIsSent ==
    ASSUME TypeOK, NEW i \in Ids, send[i] \in Flight,
          
           NEW pc \in {"flush", "queued", "post", "accepted", "failed", "done", "ended"},
           send' = [send EXCEPT ![i] = [send[i] EXCEPT !.pc = pc]]
    PROVE  send' \in [Ids -> Flight \cup {None}]
<1>1. send \in [Ids -> Flight \cup {None}]
  BY DEF TypeOK
<1>2. [send[i] EXCEPT !.pc = pc] \in Flight
  BY FlightChanges
<1> QED
  BY <1>1, <1>2

\* A submission gets the next number and is of the message the draft is then of.
LEMMA NewSubmission ==
    ASSUME TypeOK, InOrder, NEW w \in Windows, startSend(w)
    PROVE  \E i \in Ids, m \in Message, s \in Flight :
             /\ send[i] = None /\ \A j \in Ids : send[j] # None <=> j < i
             /\ m = MessageOf(w, i)
             /\ s.w = w /\ s.key = m.key /\ s.prompt = m.prompt /\ s.epoch = epoch[w]
              /\ s.pc = "flush"
             /\ send' = [send EXCEPT ![i] = s]
             /\ draft' = [draft EXCEPT ![w] = [View(w) EXCEPT !.sub = m]]
             /\ owner' = [owner EXCEPT ![w] = i]
<1>1. PICK i \in Ids :
        /\ send[i] = None /\ \A j \in Ids : send[j] # None <=> j < i
        /\ send' = [send EXCEPT ![i] = [w |-> w, key |-> MessageOf(w, i).key,
                      prompt |-> MessageOf(w, i).prompt, epoch |-> epoch[w], pc |-> "flush"]]
        /\ draft' = [draft EXCEPT ![w] = [View(w) EXCEPT !.sub = MessageOf(w, i)]]
        /\ owner' = [owner EXCEPT ![w] = i]
  BY NextIsFree DEF startSend
<1>2. PICK m \in Message : m = MessageOf(w, i)
  BY MessageIsOfIt DEF startSend
<1>3. PICK s : s = [w |-> w, key |-> m.key, prompt |-> m.prompt, epoch |-> epoch[w], pc |-> "flush"]
  OBVIOUS
<1>4. /\ s \in Flight
      /\ s.w = w /\ s.key = m.key /\ s.prompt = m.prompt /\ s.epoch = epoch[w]
              /\ s.pc = "flush"
  BY <1>3 DEF TypeOK, Flight, Message
<1> QED
  BY <1>1, <1>2, <1>3, <1>4

LEMMA SendTypes ==
    ASSUME TypeOK, InOrder,
           \/ \E w \in Windows : startSend(w)
           \/ \E i \in Ids : joinChain(i) \/ post(i) \/ hostTakes(i) \/ settle(i)
    PROVE  TypeOK'
<1>1. ASSUME NEW w \in Windows, startSend(w) PROVE TypeOK'
  <2>1. PICK i \in Ids, m \in Message, s \in Flight :
          /\ send' = [send EXCEPT ![i] = s]
          /\ draft' = [draft EXCEPT ![w] = [View(w) EXCEPT !.sub = m]]
          /\ owner' = [owner EXCEPT ![w] = i]
    BY <1>1, NewSubmission
  <2>2. [View(w) EXCEPT !.sub = m] \in Entry
    BY ViewIsEntry DEF Entry
  <2>3. used' \in Counts /\ bound' \in Bounds
    BY <1>1, CountsStay DEF startSend
  <2>4. /\ send' \in [Ids -> Flight \cup {None}]
        /\ draft' \in [Windows -> Entry \cup {None}]
        /\ owner' \in [Windows -> Ids \cup {None}]
    BY <2>1, <2>2 DEF TypeOK
  <2> QED
    BY <1>1, <2>3, <2>4 DEF startSend, TypeOK, hostVars
<1>2. ASSUME NEW i \in Ids, joinChain(i) \/ post(i) PROVE TypeOK'
  <2>1. send[i] \in Flight
    BY <1>2 DEF joinChain, post, TypeOK
  <2>2. send' \in [Ids -> Flight \cup {None}]
    <3>1. send[i].w \in Windows
      BY <2>1 DEF Flight
    <3>2. PICK pc \in {"queued", "post", "failed"} :
            send' = [send EXCEPT ![i] = [send[i] EXCEPT !.pc = pc]]
      BY <1>2 DEF joinChain, post
    <3> QED
      BY <2>1, <3>2, FlightIsSent
  <2>3. chain' \in [Windows -> Seq(SaveOp..PatchOp)]
    <3>1. send[i].w \in Windows
      BY <2>1 DEF Flight
    <3>2. chain' = chain \/ chain' = [chain EXCEPT ![send[i].w] = Append(@, i)]
      BY <1>2 DEF joinChain, post
    <3> QED
      BY <3>1, <3>2, ChainsStay
  <2> QED
    BY <1>2, <2>2, <2>3 DEF joinChain, post, TypeOK, hostVars
<1>3. ASSUME NEW i \in Ids, hostTakes(i) PROVE TypeOK'
  <2>1. send[i] \in Flight
    BY <1>3 DEF hostTakes, TypeOK
  <2>2. send' \in [Ids -> Flight \cup {None}]
    <3>1. PICK pc \in {"accepted", "failed"} :
            send' = [send EXCEPT ![i] = [send[i] EXCEPT !.pc = pc]]
      BY <1>3 DEF hostTakes
    <3> QED
      BY <2>1, <3>1, FlightIsSent
  <2>3. turns' \in [Ids -> Texts \cup {None}] /\ host' \in [text : Drafts, rev : Nat]
    <3>1. send[i].key \in Ids /\ send[i].prompt \in Texts /\ Empty \in Drafts
      BY <2>1 DEF Flight, Drafts
    <3>2. turns \in [Ids -> Texts \cup {None}] /\ host \in [text : Drafts, rev : Nat]
      BY DEF TypeOK
    <3>3. turns' = turns \/ turns' = [turns EXCEPT ![send[i].key] = send[i].prompt]
      BY <1>3 DEF hostTakes
    <3>4. host' = host \/ host' = [text |-> Empty, rev |-> host.rev + 1]
      BY <1>3 DEF hostTakes
    <3> QED
      BY <3>1, <3>2, <3>3, <3>4
  <2>4. used' \in Counts /\ bound' \in Bounds
    BY <1>3, CountsStay DEF hostTakes, Lost, TypeOK
  <2> QED
    BY <1>3, <2>2, <2>3, <2>4 DEF hostTakes, TypeOK
<1>4. ASSUME NEW i \in Ids, settle(i) PROVE TypeOK'
  <2>1. send[i] \in Flight /\ send[i].w \in Windows
    BY <1>4 DEF settle, TypeOK, Flight
  <2>2. PICK w \in Windows : w = send[i].w
    BY <2>1
  <2>3. send' \in [Ids -> Flight \cup {None}]
    <3>1. PICK pc \in {"done", "ended"} : send' = [send EXCEPT ![i] = [send[i] EXCEPT !.pc = pc]]
      BY <1>4 DEF settle
    <3> QED
      BY <2>1, <3>1, FlightIsSent
  <2>4. Sent(View(w), send[i].prompt) \in Entry
    <3>1. ASSUME NEW e \in Entry, NEW text \in Drafts
          PROVE  [e EXCEPT !.sub = None, !.saved = text] \in Entry
      BY DEF Entry
    <3>2. View(w) \in Entry /\ host.text \in Drafts /\ View(w).saved \in Drafts
      BY ViewIsEntry DEF TypeOK, Entry
    <3>3. [text |-> Empty, saved |-> Empty, dirty |-> FALSE, sub |-> None] \in Entry
      BY DEF Entry, Drafts
    <3> QED
      BY <3>1, <3>2, <3>3 DEF Sent
  <2>5. draft' \in [Windows -> Entry \cup {None}]
    BY <1>4, <2>2, <2>4 DEF settle, TypeOK
  <2>6. /\ typed' \in [Windows -> Drafts \cup {None}]
        /\ owner' \in [Windows -> Ids \cup {None}]
        /\ timer' \in [Windows -> Epochs \cup {None}]
    BY <1>4, <2>1 DEF settle, TypeOK
  <2>7. chain' \in [Windows -> Seq(SaveOp..PatchOp)]
    BY <1>4, <2>1, ChainsStay DEF settle
  <2> QED
    BY <1>4, <2>3, <2>5, <2>6, <2>7 DEF settle, TypeOK, hostVars
<1> QED
  BY <1>1, <1>2, <1>3, <1>4

LEMMA LockTypes ==
    ASSUME TypeOK, EpochsBound,
           \/ \E w \in Windows :
                \/ beginLock(w) \/ readFlush(w) \/ hostFlushes(w) \/ endFlush(w)
                \/ lockWorkspace(w) \/ hearLock(w) \/ hearUnlock(w)
           \/ unlock
    PROVE  TypeOK'
<1>1. CASE unlock \/ \E w \in Windows : hearUnlock(w)
  <2>1. inert' \in [Windows -> {"open", "locking", "locked"}] /\ locked' \in BOOLEAN
    BY <1>1 DEF unlock, hearUnlock, TypeOK, hostVars
  <2> QED
    BY <1>1, <2>1 DEF unlock, hearUnlock, TypeOK, hostVars
<1>2. ASSUME NEW w \in Windows, beginLock(w) \/ readFlush(w) PROVE TypeOK'
  <2>1. [pc |-> "queued"] \in Preserve
    BY DEF Preserve
  <2>2. draft[w] # None => [pc |-> "patch", entry |-> draft[w], rev |-> host.rev] \in Preserve
    BY DEF Preserve, TypeOK
  <2>3. /\ flush \in [Windows -> Preserve \cup {None}]
        /\ inert \in [Windows -> {"open", "locking", "locked"}]
    BY DEF TypeOK
  <2>4. PICK f \in Preserve \cup {None} : flush' = [flush EXCEPT ![w] = f]
    BY <1>2, <2>1, <2>2, <2>3 DEF beginLock, readFlush
  <2>5. /\ flush' \in [Windows -> Preserve \cup {None}]
        /\ inert' \in [Windows -> {"open", "locking", "locked"}]
    BY <1>2, <2>3, <2>4 DEF beginLock, readFlush
  <2> QED
    BY <1>2, <2>5 DEF beginLock, readFlush, TypeOK, hostVars
<1>3. ASSUME NEW w \in Windows, hostFlushes(w) \/ endFlush(w) PROVE TypeOK'
  <2>1. /\ flush[w] \in [pc : {"patch", "saved"}, entry : Entry, rev : Nat]
        /\ flush[w].entry \in Entry
    <3>1. flush[w] \in Preserve /\ flush[w].pc # "queued"
      BY <1>3 DEF hostFlushes, endFlush, TypeOK
    <3> QED
      BY <3>1 DEF Preserve
  <2>2. /\ [flush[w] EXCEPT !.pc = "saved"] \in Preserve
        /\ [flush[w].entry EXCEPT !.saved = flush[w].entry.text, !.dirty = FALSE] \in Entry
    BY <2>1 DEF Preserve, Entry
  <2>3. /\ flush' \in [Windows -> Preserve \cup {None}]
        /\ draft' \in [Windows -> Entry \cup {None}]
    <3>1. flush \in [Windows -> Preserve \cup {None}] /\ draft \in [Windows -> Entry \cup {None}]
      BY DEF TypeOK
    <3> QED
      BY <1>3, <2>2, <3>1 DEF hostFlushes, endFlush
  <2>4. host' \in [text : Drafts, rev : Nat]
    <3>1. host \in [text : Drafts, rev : Nat] /\ flush[w].entry.text \in Drafts
      BY <2>1 DEF TypeOK, Entry
    <3>2. host' = host \/ host' = [text |-> flush[w].entry.text, rev |-> host.rev + 1]
      BY <1>3 DEF hostFlushes, endFlush, hostVars
    <3> QED
      BY <3>1, <3>2
  <2> QED
    BY <1>3, <2>3, <2>4 DEF hostFlushes, endFlush, TypeOK, hostVars
<1>4. ASSUME NEW w \in Windows, lockWorkspace(w) \/ hearLock(w) PROVE TypeOK'
  <2>1. /\ used.locks \in 0..MaxLocks /\ bound.locks \in 0..MaxLocks /\ epoch[w] \in Nat
        /\ epoch[w] <= used.locks
    BY ComposerAssumption DEF TypeOK, Counts, EpochsBound, Epochs
  <2>2. epoch[w] + 1 \in Epochs
    BY <1>4, <2>1, ComposerAssumption DEF lockWorkspace, hearLock, Count, Epochs
  <2>3. epoch' \in [Windows -> Epochs] /\ inert' \in [Windows -> {"open", "locking", "locked"}]
    <3>1. epoch \in [Windows -> Epochs] /\ inert \in [Windows -> {"open", "locking", "locked"}]
      BY DEF TypeOK
    <3> QED
      BY <1>4, <2>2, <3>1 DEF lockWorkspace, hearLock, Forget
  <2>4. chain' \in [Windows -> Seq(SaveOp..PatchOp)]
    BY <1>4, ChainsStay DEF lockWorkspace, hearLock, Forget
  <2>5. used' \in Counts /\ bound' \in Bounds
    BY <1>4, CountsStay DEF lockWorkspace, hearLock, TypeOK
  <2>6. UNCHANGED <<host, turns, draft, seen, timer, save, patch, flush, owner, send, typed>>
        /\ locked' \in BOOLEAN
    BY <1>4 DEF lockWorkspace, hearLock, hostVars, TypeOK
  <2> QED
    BY <2>3, <2>4, <2>5, <2>6 DEF TypeOK
<1> QED
  BY <1>1, <1>2, <1>3, <1>4

\* Every epoch a step may ask for is a past or the present one of its window.
LEMMA EpochsAreNumbers ==
    ASSUME TypeOK
    PROVE  /\ \A w \in Windows : epoch[w] \in Nat /\ (timer[w] # None => timer[w] \in Nat)
           /\ \A w \in Windows : save[w] # None => save[w] \in Write /\ save[w].epoch \in Nat
           /\ \A w \in Windows : patch[w] # None => patch[w] \in Write /\ patch[w].epoch \in Nat
           /\ \A i \in Ids : send[i] # None =>
                send[i] \in Flight /\ send[i].epoch \in Nat /\ send[i].w \in Windows
           /\ used.locks \in Nat /\ bound.locks \in Nat
           /\ used["locks"] = used.locks /\ bound["locks"] = bound.locks
<1>1. Epochs \subseteq Nat /\ 0..MaxLocks \subseteq Nat
  BY ComposerAssumption DEF Epochs
<1>2. used \in Counts /\ bound \in Counts
  BY ComposerAssumption DEF TypeOK
<1>3. /\ used.locks \in Nat /\ bound.locks \in Nat
      /\ used["locks"] = used.locks /\ bound["locks"] = bound.locks
  BY <1>1, <1>2 DEF Counts
<1>4. \A s \in Write : s.epoch \in Nat
  BY <1>1 DEF Write
<1>5. \A s \in Flight : s.epoch \in Nat /\ s.w \in Windows
  BY <1>1 DEF Flight
<1> QED
  BY <1>1, <1>3, <1>4, <1>5 DEF TypeOK

\* A lock begins one generation.
LEMMA LocksCount ==
    ASSUME TypeOK
    PROVE  /\ \A w \in Windows, f \in {"edits", "sends", "saves", "patches"} :
                CountIn(w, f) => used'.locks = used.locks /\ bound' = bound
           /\ Count("faults") => used'.locks = used.locks /\ bound' = bound
           /\ Count("locks") =>
                used'.locks = used.locks + 1 /\ used'.locks <= bound'.locks /\ bound' = bound
<1>1. used \in Counts /\ used.locks \in Nat /\ bound.locks \in Nat
      /\ used["locks"] = used.locks /\ bound["locks"] = bound.locks
  BY EpochsAreNumbers DEF TypeOK
<1>2. ASSUME NEW w \in Windows, NEW f \in {"edits", "sends", "saves", "patches"}, CountIn(w, f)
      PROVE  used'.locks = used.locks /\ bound' = bound
  BY <1>1, <1>2 DEF CountIn, Counts
<1>3. Count("faults") => used'.locks = used.locks /\ bound' = bound
  BY <1>1 DEF Count, Counts
<1>4. Count("locks") =>
        used'.locks = used.locks + 1 /\ used'.locks <= bound'.locks /\ bound' = bound
  BY <1>1 DEF Count, Counts
<1> QED
  BY <1>2, <1>3, <1>4

\* How an operation of the chain moves on: it is appended, it begins when its turn
\* comes and goes on, or it ends.
Starts(w, op, before, after) ==
    /\ before = None /\ after # None /\ after.pc = "queued" /\ after.epoch = epoch[w]
    /\ chain' = [chain EXCEPT ![w] = Append(@, op)]
GoesOn(w, op, before, after) ==
    /\ before # None /\ after # None
    /\ before.pc = "queued" => Turn(w, op)
    /\ after.pc # "queued" /\ after.epoch = before.epoch /\ chain' = chain
Ends(w, op, before, after) ==
    /\ before # None /\ before.pc # "queued" /\ after = None /\ chain' = Unlink(w, op)

\* What the steps of an autosave do to the chain; then those of a change of settings.
LEMMA SaveMoves ==
    ASSUME TypeOK, NEW w \in Windows,
           saveDraft(w) \/ readDraft(w) \/ hostSaves(w) \/ acknowledged(w)
    PROVE  /\ UNCHANGED <<epoch, patch, send, locked>> /\ bound' = bound /\ used'.locks = used.locks
           /\ \A v \in Windows \ {w} : save'[v] = save[v] /\ timer'[v] = timer[v]
           /\ timer'[w] \in {timer[w], None}
           /\ \/ save' = save /\ chain' = chain
              \/ Starts(w, SaveOp, save[w], save'[w])
              \/ GoesOn(w, SaveOp, save[w], save'[w])
              \/ Ends(w, SaveOp, save[w], save'[w])
<1>1. /\ save \in [Windows -> Write \cup {None}] /\ timer \in [Windows -> Epochs \cup {None}]
      /\ host.rev \in Nat
  BY DEF TypeOK
<1>2. bound' = bound /\ used'.locks = used.locks
  BY LocksCount DEF saveDraft, readDraft, hostSaves, acknowledged, Lost
<1>3. /\ UNCHANGED <<epoch, patch, send, locked>> /\ timer'[w] \in {timer[w], None}
      /\ \A v \in Windows \ {w} : save'[v] = save[v] /\ timer'[v] = timer[v]
  BY <1>1 DEF saveDraft, readDraft, hostSaves, acknowledged, hostVars
<1>4. CASE saveDraft(w)
  <2>1. CASE ~Current(w, timer[w]) \/ owner[w] # None
    BY <1>2, <1>3, <1>4, <2>1 DEF saveDraft
  <2>2. CASE ~(~Current(w, timer[w]) \/ owner[w] # None)
    <3>1. PICK s : /\ save' = [save EXCEPT ![w] = s]
                   /\ s = [pc |-> "queued", text |-> View(w).text, base |-> View(w).saved,
                           rev |-> 0, epoch |-> timer[w]]
      BY <1>4, <2>2 DEF saveDraft
    <3>2. s \in Write
      BY <1>1, <1>4, <3>1, ViewIsEntry DEF saveDraft, Write, Entry
    <3>3. save'[w] = s /\ s # None /\ s.pc = "queued" /\ s.epoch = epoch[w]
      BY <1>1, <2>2, <3>1, <3>2, ComposerAssumption DEF Current
    <3> QED
      BY <1>2, <1>3, <1>4, <2>2, <3>3 DEF saveDraft, Starts
  <2> QED
    BY <1>2, <1>3, <2>1, <2>2
<1>5. CASE readDraft(w)
  <2>1. save[w] \in Write /\ View(w).saved \in Drafts
    BY <1>1, <1>5, ViewIsEntry DEF readDraft, Entry
  <2>2. PICK s \in Write :
          save' = [save EXCEPT ![w] = s] /\ s.pc # "queued" /\ s.epoch = save[w].epoch
    BY <1>5, <2>1, WriteChanges DEF readDraft
  <2>3. save'[w] = s /\ s # None
    BY <1>1, <2>2, ComposerAssumption
  <2> QED
    BY <1>2, <1>3, <1>5, <2>2, <2>3 DEF readDraft, GoesOn
<1>6. CASE hostSaves(w)
  <2>1. save[w] \in Write
    BY <1>1, <1>6 DEF hostSaves
  <2>2. PICK pc \in {"saved", "failed"} : save' = [save EXCEPT ![w] = [save[w] EXCEPT !.pc = pc]]
    BY <1>6 DEF hostSaves
  <2>3. [save[w] EXCEPT !.pc = pc] \in Write /\ [save[w] EXCEPT !.pc = pc].pc = pc
        /\ [save[w] EXCEPT !.pc = pc].epoch = save[w].epoch
    BY <2>1, WriteChanges DEF Write
  <2>4. save'[w] = [save[w] EXCEPT !.pc = pc] /\ save'[w] # None
    BY <1>1, <2>2, <2>3, ComposerAssumption
  <2> QED
    BY <1>2, <1>3, <1>6, <2>3, <2>4 DEF hostSaves, GoesOn
<1>7. CASE acknowledged(w)
  BY <1>1, <1>2, <1>3, <1>7 DEF acknowledged, Ends
<1> QED
  BY <1>4, <1>5, <1>6, <1>7

LEMMA PatchMoves ==
    ASSUME TypeOK, NEW w \in Windows, startPatch(w) \/ readSettings(w) \/ endPatch(w)
    PROVE  /\ UNCHANGED <<epoch, save, send, locked, timer>>
           /\ bound' = bound /\ used'.locks = used.locks
           /\ \A v \in Windows \ {w} : patch'[v] = patch[v]
           /\ \/ Starts(w, PatchOp, patch[w], patch'[w])
              \/ GoesOn(w, PatchOp, patch[w], patch'[w])
              \/ Ends(w, PatchOp, patch[w], patch'[w])
<1>1. patch \in [Windows -> Write \cup {None}] /\ host.rev \in Nat /\ epoch[w] \in Epochs
  BY DEF TypeOK
<1>2. /\ UNCHANGED <<epoch, save, send, locked, timer>>
      /\ bound' = bound /\ used'.locks = used.locks
      /\ \A v \in Windows \ {w} : patch'[v] = patch[v]
  BY <1>1, LocksCount DEF startPatch, readSettings, endPatch, hostVars
<1>3. CASE startPatch(w)
  <2>1. PICK s : /\ patch' = [patch EXCEPT ![w] = s]
                 /\ s = [pc |-> "queued", text |-> Empty, base |-> Empty, rev |-> 0,
                         epoch |-> epoch[w]]
    BY <1>3 DEF startPatch
  <2>2. s \in Write
    BY <1>1, <2>1 DEF Write, Drafts
  <2>3. patch'[w] = s /\ s # None /\ s.pc = "queued" /\ s.epoch = epoch[w]
    BY <1>1, <2>1, <2>2, ComposerAssumption
  <2> QED
    BY <1>2, <1>3, <2>3 DEF startPatch, Starts
<1>4. CASE readSettings(w)
  <2>1. patch[w] \in Write
    BY <1>1, <1>4 DEF readSettings
  <2>2. PICK s \in Write :
          patch' = [patch EXCEPT ![w] = s] /\ s.pc # "queued" /\ s.epoch = patch[w].epoch
    <3>1. patch[w].base \in Drafts
      BY <2>1 DEF Write
    <3> QED
      BY <1>4, <2>1, <3>1, WriteChanges DEF readSettings
  <2>3. patch'[w] = s /\ s # None
    BY <1>1, <2>2, ComposerAssumption
  <2> QED
    BY <1>2, <1>4, <2>2, <2>3 DEF readSettings, GoesOn
<1>5. CASE endPatch(w)
  BY <1>1, <1>2, <1>5 DEF endPatch, Ends
<1> QED
  BY <1>3, <1>4, <1>5

\* Where a submission is a link of its window's chain.
Linked(i) == send[i] # None /\ send[i].pc \in {"queued", "post", "accepted", "failed"}

\* What the steps of a submission do to the chain.
LEMMA SendMoves ==
    ASSUME TypeOK, NEW i \in Ids, joinChain(i) \/ post(i) \/ hostTakes(i) \/ settle(i)
    PROVE  /\ UNCHANGED <<epoch, save, patch>> /\ bound' = bound /\ used'.locks = used.locks
           /\ \A j \in Ids \ {i} : send'[j] = send[j]
           /\ send[i] # None /\ send'[i] # None /\ send[i].w \in Windows
           /\ send'[i].w = send[i].w /\ send'[i].epoch = send[i].epoch
           /\ send'[i].key = send[i].key /\ send'[i].prompt = send[i].prompt
           /\ \/ /\ send[i].pc = "flush" /\ send'[i].pc = "queued"
                 /\ Current(send[i].w, send[i].epoch)
                 /\ chain' = [chain EXCEPT ![send[i].w] = Append(@, i)]
              \/ /\ send[i].pc = "flush" /\ send'[i].pc = "failed"
                 /\ ~Current(send[i].w, send[i].epoch)
                 /\ chain' = chain
              \/ /\ send[i].pc = "queued" /\ send'[i].pc \in {"post", "failed"}
                 /\ Turn(send[i].w, i)
                 /\ chain' = chain
              \/ /\ send[i].pc = "post" /\ send'[i].pc \in {"accepted", "failed"}
                 /\ chain' = chain
              \/ /\ send[i].pc \in {"accepted", "failed"} /\ send'[i].pc \in {"done", "ended"}
                 /\ chain' = Unlink(send[i].w, i)
<1>1. send \in [Ids -> Flight \cup {None}]
  BY DEF TypeOK
<1>2. send[i] \in Flight /\ send[i].w \in Windows
  BY <1>1 DEF joinChain, post, hostTakes, settle, Flight
<1>3. bound' = bound /\ used'.locks = used.locks
  BY LocksCount DEF joinChain, post, hostTakes, settle, Lost
<1>4. PICK pc \in {"queued", "post", "accepted", "failed", "done", "ended"} :
        send' = [send EXCEPT ![i] = [send[i] EXCEPT !.pc = pc]]
  BY DEF joinChain, post, hostTakes, settle
<1>5. PICK s \in Flight :
        /\ s = [send[i] EXCEPT !.pc = pc]
        /\ s.w = send[i].w /\ s.epoch = send[i].epoch /\ s.key = send[i].key
        /\ s.prompt = send[i].prompt /\ s.pc = pc
  <2>1. PICK s : s = [send[i] EXCEPT !.pc = pc]
    OBVIOUS
  <2>2. s = [w |-> send[i].w, key |-> send[i].key, prompt |-> send[i].prompt,
             epoch |-> send[i].epoch, pc |-> pc]
    BY <1>2, <2>1 DEF Flight
  <2> QED
    BY <1>2, <2>1, <2>2 DEF Flight
<1>6. send'[i] = s /\ s # None /\ \A j \in Ids \ {i} : send'[j] = send[j]
  BY <1>1, <1>4, <1>5, ComposerAssumption
<1>7. /\ UNCHANGED <<epoch, save, patch>>
      /\ \/ /\ send[i].pc = "flush" /\ pc = "queued" /\ Current(send[i].w, send[i].epoch)
            /\ chain' = [chain EXCEPT ![send[i].w] = Append(@, i)]
         \/ /\ send[i].pc = "flush" /\ pc = "failed" /\ ~Current(send[i].w, send[i].epoch)
            /\ chain' = chain
         \/ /\ send[i].pc = "queued" /\ pc \in {"post", "failed"} /\ Turn(send[i].w, i)
            /\ chain' = chain
         \/ /\ send[i].pc = "post" /\ pc \in {"accepted", "failed"}
            /\ chain' = chain
         \/ /\ send[i].pc \in {"accepted", "failed"} /\ pc \in {"done", "ended"}
            /\ chain' = Unlink(send[i].w, i)
  <2>1. pc = send'[i].pc
    BY <1>5, <1>6
  <2>2. joinChain(i) \/ post(i) \/ hostTakes(i) \/ settle(i)
    OBVIOUS
  <2>3. ASSUME NEW p \in {"queued", "post", "accepted", "failed", "done", "ended"},
               send' = [send EXCEPT ![i].pc = p]
        PROVE  pc = p
    <3>1. send'[i] = [send[i] EXCEPT !.pc = p]
      BY <1>1, <2>3
    <3> QED
      BY <1>2, <2>1, <3>1, FlightChanges DEF Flight
  <2>4. joinChain(i) => UNCHANGED <<epoch, save, patch>> /\ send[i].pc = "flush"
          /\ \/ /\ pc = "queued" /\ Current(send[i].w, send[i].epoch)
                /\ chain' = [chain EXCEPT ![send[i].w] = Append(@, i)]
             \/ pc = "failed" /\ ~Current(send[i].w, send[i].epoch) /\ chain' = chain
    BY <2>3 DEF joinChain
  <2>5. post(i) => UNCHANGED <<epoch, save, patch, chain>> /\ send[i].pc = "queued"
          /\ pc \in {"post", "failed"} /\ Turn(send[i].w, i)
    BY <2>3 DEF post
  <2>6. hostTakes(i) => UNCHANGED <<epoch, save, patch, chain>> /\ send[i].pc = "post"
          /\ pc \in {"accepted", "failed"}
    BY <2>3 DEF hostTakes
  <2>7. settle(i) => UNCHANGED <<epoch, save, patch>> /\ send[i].pc \in {"accepted", "failed"}
          /\ pc \in {"done", "ended"} /\ chain' = Unlink(send[i].w, i)
    BY <2>3 DEF settle
  <2> QED
    BY <2>2, <2>4, <2>5, <2>6, <2>7
<1>8. send[i] # None /\ send'[i] # None /\ send'[i].pc = pc
  BY <1>2, <1>5, <1>6, ComposerAssumption
<1> QED
  BY <1>2, <1>3, <1>5, <1>6, <1>7, <1>8

\* Generations only pass.
LEMMA EpochsStep == ASSUME TypeOK, EpochsBound, InOrder, Next PROVE EpochsBound'
<1>1. ASSUME NEW w \in Windows, Observe(w) \/ \E text \in Drafts : editDraft(w, text)
      PROVE  EpochsBound'
  <2>1. \A v \in Windows : timer'[v] = timer[v] \/ timer'[v] = epoch[v]
    <3>1. timer \in [Windows -> Epochs \cup {None}]
      BY DEF TypeOK
    <3> QED
      BY <1>1, <3>1 DEF Observe, editDraft
  <2>2. UNCHANGED <<epoch, save, patch, send>> /\ used'.locks = used.locks /\ bound' = bound
    BY <1>1, LocksCount DEF Observe, editDraft
  <2> QED
    BY <2>1, <2>2, EpochsAreNumbers DEF EpochsBound
<1>2. ASSUME NEW w \in Windows,
             saveDraft(w) \/ readDraft(w) \/ hostSaves(w) \/ acknowledged(w)
      PROVE  EpochsBound'
  <2>1. save'[w] # None => save'[w].epoch <= epoch[w]
    <3>1. epoch[w] \in Nat /\ (save[w] # None => save[w].epoch <= epoch[w])
      BY EpochsAreNumbers DEF EpochsBound
    <3> QED
      BY <1>2, <3>1, SaveMoves DEF Starts, GoesOn, Ends
  <2> QED
    BY <1>2, <2>1, SaveMoves, EpochsAreNumbers DEF EpochsBound
<1>3. ASSUME NEW w \in Windows, startPatch(w) \/ readSettings(w) \/ endPatch(w)
      PROVE  EpochsBound'
  <2>1. patch'[w] # None => patch'[w].epoch <= epoch[w]
    <3>1. epoch[w] \in Nat /\ (patch[w] # None => patch[w].epoch <= epoch[w])
      BY EpochsAreNumbers DEF EpochsBound
    <3> QED
      BY <1>3, <3>1, PatchMoves DEF Starts, GoesOn, Ends
  <2> QED
    BY <1>3, <2>1, PatchMoves, EpochsAreNumbers DEF EpochsBound
<1>4. ASSUME NEW w \in Windows, startSend(w) PROVE EpochsBound'
  <2>1. PICK i \in Ids, s \in Flight :
          send' = [send EXCEPT ![i] = s] /\ s.w = w /\ s.epoch = epoch[w]
    BY <1>4, NewSubmission
  <2>2. \A j \in Ids : send'[j] = IF j = i THEN s ELSE send[j]
    BY <2>1 DEF TypeOK
  <2>3. UNCHANGED <<epoch, save, patch, timer>> /\ used'.locks = used.locks /\ bound' = bound
    BY <1>4, LocksCount DEF startSend
  <2> QED
    BY <2>1, <2>2, <2>3, EpochsAreNumbers DEF EpochsBound
<1>5. ASSUME NEW i \in Ids, joinChain(i) \/ post(i) \/ hostTakes(i) \/ settle(i)
      PROVE  EpochsBound'
  <2>1. \A w \in Windows : timer'[w] \in {timer[w], epoch[w], None}
    BY <1>5 DEF joinChain, post, hostTakes, settle, TypeOK
  <2> QED
    BY <1>5, <2>1, SendMoves, EpochsAreNumbers DEF EpochsBound
<1>6. ASSUME NEW w \in Windows,
             beginLock(w) \/ readFlush(w) \/ hostFlushes(w) \/ endFlush(w) \/ hearUnlock(w)
      PROVE  EpochsBound'
  BY <1>6 DEF beginLock, readFlush, hostFlushes, endFlush, hearUnlock, EpochsBound
<1>7. unlock => EpochsBound'
  BY DEF unlock, EpochsBound
<1>8. ASSUME NEW w \in Windows, lockWorkspace(w) \/ hearLock(w) PROVE EpochsBound'
  <2>1. /\ UNCHANGED <<timer, save, patch, send>> /\ bound' = bound /\ used.locks <= used'.locks
        /\ used'.locks <= bound'.locks /\ used'.locks \in Nat
    BY <1>8, LocksCount, EpochsAreNumbers DEF lockWorkspace, hearLock, EpochsBound
  <2>2. /\ epoch'[w] = epoch[w] + 1 /\ epoch'[w] <= used'.locks
        /\ \A v \in Windows \ {w} : epoch'[v] = epoch[v]
    BY <1>8, LocksCount, EpochsAreNumbers DEF lockWorkspace, hearLock, Forget, EpochsBound, TypeOK
  <2> QED
    BY <2>1, <2>2, EpochsAreNumbers DEF EpochsBound
<1> QED
  BY <1>1, <1>2, <1>3, <1>4, <1>5, <1>6, <1>7, <1>8 DEF Next

-----------------------------------------------------------------------------
(* One write at a time.                                                      *)

\* Submissions stay numbered in order.
LEMMA OrderStep == ASSUME TypeOK, InOrder, Next PROVE InOrder'
<1>1. ASSUME NEW w \in Windows, startSend(w) PROVE InOrder'
  <2>1. PICK i \in Ids, s \in Flight :
          send' = [send EXCEPT ![i] = s] /\ \A j \in Ids : send[j] # None <=> j < i
    BY <1>1, NewSubmission
  <2>2. \A j \in Ids : send'[j] = IF j = i THEN s ELSE send[j]
    BY <2>1 DEF TypeOK
  <2>3. i \in 0..MaxSends /\ \A j \in Ids : send'[j] # None <=> j <= i
    BY <2>1, <2>2, ComposerAssumption DEF Ids
  <2> QED
    BY <2>3 DEF InOrder
<1>2. ASSUME NEW i \in Ids, joinChain(i) \/ post(i) \/ hostTakes(i) \/ settle(i) PROVE InOrder'
  BY <1>2, SendMoves DEF InOrder
<1>3. ASSUME NEW w \in Windows,
             \/ Observe(w) \/ \E text \in Drafts : editDraft(w, text)
             \/ saveDraft(w) \/ readDraft(w) \/ hostSaves(w) \/ acknowledged(w)
             \/ startPatch(w) \/ readSettings(w) \/ endPatch(w)
             \/ beginLock(w) \/ readFlush(w) \/ hostFlushes(w) \/ endFlush(w)
             \/ lockWorkspace(w) \/ hearLock(w) \/ hearUnlock(w)
      PROVE  UNCHANGED send
  BY <1>3 DEF Observe, editDraft, saveDraft, readDraft, hostSaves, acknowledged, startPatch,
     readSettings, endPatch, beginLock, readFlush, hostFlushes, endFlush, lockWorkspace, hearLock,
     hearUnlock
<1>4. UNCHANGED send => InOrder'
  BY DEF InOrder
<1> QED
  BY <1>1, <1>2, <1>3, <1>4 DEF Next, unlock

\* What a chain of writes is made of: no operation twice.
Has(q, x) == \E n \in 1..Len(q) : q[n] = x
Distinct(q) == \A m, n \in 1..Len(q) : q[m] = q[n] => m = n

\* A new last link, and the first one gone.
LEMMA ChainGrows ==
    ASSUME NEW S, NEW q \in Seq(S), NEW x \in S, ~Has(q, x), Distinct(q)
    PROVE  /\ Distinct(Append(q, x))
           /\ \A y : Has(Append(q, x), y) <=> Has(q, y) \/ y = x
           /\ q # <<>> => Append(q, x) # <<>> /\ Head(Append(q, x)) = Head(q)
<1>1. /\ Append(q, x) \in Seq(S) /\ Len(Append(q, x)) = Len(q) + 1 /\ Len(q) \in Nat
      /\ \A n \in 1..Len(q) : Append(q, x)[n] = q[n]
      /\ Append(q, x)[Len(q) + 1] = x
  OBVIOUS
<1>2. \A n \in 1..Len(Append(q, x)) : n \in 1..Len(q) \/ n = Len(q) + 1
  BY <1>1
<1>3. Distinct(Append(q, x))
  BY <1>1, <1>2 DEF Distinct, Has
<1>4. ASSUME NEW y PROVE Has(Append(q, x), y) <=> Has(q, y) \/ y = x
  BY <1>1, <1>2 DEF Has
<1>5. q # <<>> => Append(q, x) # <<>> /\ Head(Append(q, x)) = Head(q)
  BY <1>1
<1> QED
  BY <1>3, <1>4, <1>5

LEMMA ChainShrinks ==
    ASSUME NEW S, NEW q \in Seq(S), q # <<>>, Distinct(q)
    PROVE  /\ Distinct(Tail(q)) /\ Has(q, Head(q))
           /\ \A y : Has(Tail(q), y) <=> Has(q, y) /\ y # Head(q)
<1>1. /\ Len(q) \in Nat \ {0} /\ Head(q) = q[1] /\ Len(Tail(q)) = Len(q) - 1
      /\ \A n \in 1..(Len(q) - 1) : Tail(q)[n] = q[n + 1]
  OBVIOUS
<1>2. Distinct(Tail(q)) /\ Has(q, Head(q))
  BY <1>1 DEF Distinct, Has
<1>3. ASSUME NEW y, Has(Tail(q), y) PROVE Has(q, y) /\ y # Head(q)
  <2>1. PICK n \in 1..(Len(q) - 1) : q[n + 1] = y
    BY <1>1, <1>3 DEF Has
  <2> QED
    BY <1>1, <2>1 DEF Has, Distinct
<1>4. ASSUME NEW y, Has(q, y), y # Head(q) PROVE Has(Tail(q), y)
  <2>1. PICK n \in 1..Len(q) : q[n] = y /\ n # 1
    BY <1>1, <1>4 DEF Has
  <2>2. n - 1 \in 1..(Len(q) - 1) /\ Tail(q)[n - 1] = q[n]
    BY <1>1, <2>1
  <2> QED
    BY <1>1, <2>1, <2>2 DEF Has
<1> QED
  BY <1>2, <1>3, <1>4

\* The operations whose link is in the chain, and those that are past their turn.
Waits(w, x) ==
    \/ x = SaveOp /\ save[w] # None /\ Current(w, save[w].epoch)
    \/ x = PatchOp /\ patch[w] # None /\ Current(w, patch[w].epoch)
    \/ x \in Ids /\ Linked(x) /\ send[x].w = w /\ Current(w, send[x].epoch)
Begun(w, x) ==
    /\ Waits(w, x)
    /\ x = SaveOp => save[w].pc # "queued"
    /\ x = PatchOp => patch[w].pc # "queued"
    /\ x \in Ids => send[x].pc # "queued"

\* The chain has the links of what waits, once, and what has begun is its first.
ChainOf(w) ==
    /\ Distinct(chain[w])
    /\ \A x \in SaveOp..PatchOp : /\ Has(chain[w], x) <=> Waits(w, x)
                                  /\ Begun(w, x) => First(w, x)
Chained == \A w \in Windows : ChainOf(w)

\* When one operation joins, goes on or leaves, every chain still fits its writes.
LEMMA OneLinkMoves ==
    ASSUME TypeOK, Chained, NEW w \in Windows, NEW op \in SaveOp..PatchOp,
           \A v \in Windows, x \in SaveOp..PatchOp :
             v # w \/ x # op => (Waits(v, x)' <=> Waits(v, x)) /\ (Begun(v, x)' <=> Begun(v, x)),
           \/ /\ ~Waits(w, op) /\ Waits(w, op)' /\ ~Begun(w, op)'
              /\ chain' = [chain EXCEPT ![w] = Append(@, op)]
           \/ /\ Waits(w, op)' <=> Waits(w, op)
              /\ Begun(w, op)' => Begun(w, op) \/ First(w, op)
              /\ chain' = chain
           \/ /\ ~Waits(w, op)' /\ (Waits(w, op) => Begun(w, op))
              /\ chain' = Unlink(w, op)
    PROVE  Chained'
<1>1. chain \in [Windows -> Seq(SaveOp..PatchOp)] /\ chain[w] \in Seq(SaveOp..PatchOp)
  BY DEF TypeOK
<1>2. ASSUME NEW v \in Windows, v # w PROVE ChainOf(v)'
  <2>1. chain'[v] = chain[v]
    BY <1>1, <1>2 DEF Unlink
  <2> QED
    BY <1>2, <2>1 DEF Chained, ChainOf, First, Has, Distinct
<1>3. ChainOf(w)'
  <2>1. CASE /\ ~Waits(w, op) /\ Waits(w, op)' /\ ~Begun(w, op)'
             /\ chain' = [chain EXCEPT ![w] = Append(@, op)]
    <3>1. chain'[w] = Append(chain[w], op)
      BY <1>1, <2>1
    <3>2. ~Has(chain[w], op) /\ Distinct(chain[w])
      BY <2>1 DEF Chained, ChainOf
    <3>3. /\ Distinct(chain'[w])
          /\ \A y : Has(chain'[w], y) <=> Has(chain[w], y) \/ y = op
          /\ chain[w] # <<>> => chain'[w] # <<>> /\ Head(chain'[w]) = Head(chain[w])
      <4>1. PICK q \in Seq(SaveOp..PatchOp) : q = chain[w]
        BY <1>1
      <4>2. /\ Distinct(Append(q, op)) /\ \A y : Has(Append(q, op), y) <=> Has(q, y) \/ y = op
            /\ q # <<>> => Append(q, op) # <<>> /\ Head(Append(q, op)) = Head(q)
        <5>1. ~Has(q, op) /\ Distinct(q)
          BY <3>2, <4>1
        <5> QED
          BY <5>1, ChainGrows
      <4> QED
        BY <3>1, <4>1, <4>2
    <3>4. ASSUME NEW x \in SaveOp..PatchOp
          PROVE  (Has(chain'[w], x) <=> Waits(w, x)') /\ (Begun(w, x)' => First(w, x)')
      BY <2>1, <3>3 DEF Chained, ChainOf, First
    <3> QED
      BY <3>3, <3>4 DEF ChainOf, Has, Distinct
  <2>2. CASE /\ Waits(w, op)' <=> Waits(w, op)
             /\ Begun(w, op)' => Begun(w, op) \/ First(w, op)
             /\ chain' = chain
    BY <2>2 DEF Chained, ChainOf, First, Has, Distinct
  <2>3. CASE /\ ~Waits(w, op)' /\ (Waits(w, op) => Begun(w, op))
             /\ chain' = Unlink(w, op)
    <3>1. CASE First(w, op)
      <4>1. chain'[w] = Tail(chain[w]) /\ chain[w] # <<>> /\ Head(chain[w]) = op
        BY <1>1, <2>3, <3>1 DEF Unlink, First
      <4>2. /\ Distinct(chain'[w])
            /\ \A y : Has(chain'[w], y) <=> Has(chain[w], y) /\ y # op
        BY <1>1, <4>1, ChainShrinks DEF Chained, ChainOf
      <4>3. ASSUME NEW x \in SaveOp..PatchOp
            PROVE  (Has(chain'[w], x) <=> Waits(w, x)') /\ ~Begun(w, x)'
        <5>1. Begun(w, x) => x = op
          BY <4>1 DEF Chained, ChainOf, First
        <5>2. ~Begun(w, op)'
          BY <2>3 DEF Begun
        <5> QED
          BY <2>3, <4>2, <5>1, <5>2 DEF Chained, ChainOf
      <4> QED
        BY <4>2, <4>3 DEF ChainOf, Has, Distinct
    <3>2. CASE ~First(w, op)
      <4>1. ~Waits(w, op) /\ chain' = chain
        BY <1>1, <2>3, <3>2 DEF Unlink, Chained, ChainOf
      <4>2. ~Begun(w, op) /\ ~Begun(w, op)'
        BY <2>3, <4>1 DEF Begun
      <4> QED
        BY <2>3, <4>1, <4>2 DEF Chained, ChainOf, First, Has, Distinct
    <3> QED
      BY <3>1, <3>2
  <2> QED
    BY <2>1, <2>2, <2>3
<1> QED
  BY <1>2, <1>3 DEF Chained

\* So every step keeps the chains fitting, locks too: they forget chain and writes.
LEMMA ChainedStep == ASSUME TypeOK, EpochsBound, InOrder, Chained, Next PROVE Chained'
<1>1. /\ Ids \subseteq SaveOp..PatchOp /\ SaveOp \in SaveOp..PatchOp /\ PatchOp \in SaveOp..PatchOp
      /\ SaveOp # PatchOp /\ SaveOp \notin Ids /\ PatchOp \notin Ids
  BY ComposerAssumption DEF Ids, SaveOp, PatchOp
<1>2. ASSUME NEW w \in Windows,
             saveDraft(w) \/ readDraft(w) \/ hostSaves(w) \/ acknowledged(w)
      PROVE  Chained'
  <2>1. \A v \in Windows, x \in SaveOp..PatchOp :
          v # w \/ x # SaveOp => (Waits(v, x)' <=> Waits(v, x)) /\ (Begun(v, x)' <=> Begun(v, x))
    BY <1>1, <1>2, SaveMoves DEF Waits, Begun, Linked, Current
  <2>2. /\ Waits(w, SaveOp) <=> save[w] # None /\ Current(w, save[w].epoch)
        /\ Begun(w, SaveOp) <=> save[w] # None /\ Current(w, save[w].epoch) /\ save[w].pc # "queued"
        /\ Waits(w, SaveOp)' <=> save'[w] # None /\ save'[w].epoch = epoch'[w]
        /\ Begun(w, SaveOp)' <=>
             save'[w] # None /\ save'[w].epoch = epoch'[w] /\ save'[w].pc # "queued"
    BY <1>1 DEF Waits, Begun, Current
  <2>3. Turn(w, SaveOp) /\ Waits(w, SaveOp) => First(w, SaveOp)
    BY <1>1 DEF Turn, Chained, ChainOf, Has, TypeOK
  <2> QED
    BY <1>1, <1>2, <2>1, <2>2, <2>3, SaveMoves, OneLinkMoves DEF Starts, GoesOn, Ends, Current
<1>3. ASSUME NEW w \in Windows, startPatch(w) \/ readSettings(w) \/ endPatch(w)
      PROVE  Chained'
  <2>1. \A v \in Windows, x \in SaveOp..PatchOp :
          v # w \/ x # PatchOp => (Waits(v, x)' <=> Waits(v, x)) /\ (Begun(v, x)' <=> Begun(v, x))
    BY <1>1, <1>3, PatchMoves DEF Waits, Begun, Linked, Current
  <2>2. /\ Waits(w, PatchOp) <=> patch[w] # None /\ Current(w, patch[w].epoch)
        /\ Begun(w, PatchOp) <=>
             patch[w] # None /\ Current(w, patch[w].epoch) /\ patch[w].pc # "queued"
        /\ Waits(w, PatchOp)' <=> patch'[w] # None /\ patch'[w].epoch = epoch'[w]
        /\ Begun(w, PatchOp)' <=>
             patch'[w] # None /\ patch'[w].epoch = epoch'[w] /\ patch'[w].pc # "queued"
    BY <1>1 DEF Waits, Begun, Current
  <2>3. Turn(w, PatchOp) /\ Waits(w, PatchOp) => First(w, PatchOp)
    BY <1>1 DEF Turn, Chained, ChainOf, Has, TypeOK
  <2> QED
    BY <1>1, <1>3, <2>1, <2>2, <2>3, PatchMoves, OneLinkMoves DEF Starts, GoesOn, Ends, Current
<1>4. ASSUME NEW i \in Ids, joinChain(i) \/ post(i) \/ hostTakes(i) \/ settle(i)
      PROVE  Chained'
  <2>1. PICK w \in Windows : w = send[i].w
    BY <1>4, SendMoves
  <2>2. \A v \in Windows, x \in SaveOp..PatchOp :
          v # w \/ x # i => (Waits(v, x)' <=> Waits(v, x)) /\ (Begun(v, x)' <=> Begun(v, x))
    BY <1>1, <1>4, <2>1, SendMoves DEF Waits, Begun, Linked, Current
  <2>3. /\ Waits(w, i) <=> Linked(i) /\ Current(w, send[i].epoch)
        /\ Begun(w, i) <=> Linked(i) /\ Current(w, send[i].epoch) /\ send[i].pc # "queued"
        /\ Waits(w, i)' <=> Linked(i)' /\ send'[i].w = w /\ send'[i].epoch = epoch'[w]
        /\ Begun(w, i)' <=>
             Linked(i)' /\ send'[i].w = w /\ send'[i].epoch = epoch'[w] /\ send'[i].pc # "queued"
    BY <1>1, <2>1 DEF Waits, Begun, Current, Linked
  <2>4. Turn(w, i) /\ Waits(w, i) => First(w, i)
    BY <1>1 DEF Turn, Chained, ChainOf, Has, TypeOK
  <2> QED
    BY <1>1, <1>4, <2>1, <2>2, <2>3, <2>4, SendMoves, OneLinkMoves DEF Linked, Current
<1>5. ASSUME NEW w \in Windows, startSend(w) PROVE Chained'
  <2>1. PICK i \in Ids, s \in Flight :
          send' = [send EXCEPT ![i] = s] /\ s.pc = "flush" /\ send[i] = None
    BY <1>5, NewSubmission
  <2>2. \A j \in Ids : send'[j] = IF j = i THEN s ELSE send[j]
    BY <2>1 DEF TypeOK
  <2>3. UNCHANGED <<epoch, save, patch, chain>>
    BY <1>5 DEF startSend
  <2>4. \A v \in Windows, x \in SaveOp..PatchOp :
          (Waits(v, x)' <=> Waits(v, x)) /\ (Begun(v, x)' <=> Begun(v, x))
    BY <1>1, <2>1, <2>2, <2>3 DEF Waits, Begun, Linked, Current
  <2> QED
    BY <2>3, <2>4 DEF Chained, ChainOf, First, Has, Distinct
<1>6. ASSUME NEW w \in Windows, lockWorkspace(w) \/ hearLock(w) PROVE Chained'
  <2>1. /\ epoch'[w] = epoch[w] + 1 /\ chain'[w] = <<>> /\ UNCHANGED <<save, patch, send>>
        /\ \A v \in Windows \ {w} : epoch'[v] = epoch[v] /\ chain'[v] = chain[v]
    BY <1>6 DEF lockWorkspace, hearLock, Forget, TypeOK
  <2>2. ASSUME NEW v \in Windows, v # w PROVE ChainOf(v)'
    <3>1. \A x \in SaveOp..PatchOp :
            (Waits(v, x)' <=> Waits(v, x)) /\ (Begun(v, x)' <=> Begun(v, x))
      BY <2>1, <2>2 DEF Waits, Begun, Linked, Current
    <3> QED
      BY <2>1, <2>2, <3>1 DEF Chained, ChainOf, First, Has, Distinct
  <2>3. \A x \in SaveOp..PatchOp : ~Waits(w, x)'
    BY <2>1, EpochsAreNumbers DEF Waits, Linked, Current, EpochsBound
  <2>4. Len(chain'[w]) = 0
    BY <2>1
  <2> QED
    BY <2>2, <2>3, <2>4 DEF Chained, ChainOf, Begun, Has, Distinct
<1>7. ASSUME NEW w \in Windows,
             \/ Observe(w) \/ \E text \in Drafts : editDraft(w, text)
             \/ beginLock(w) \/ readFlush(w) \/ hostFlushes(w) \/ endFlush(w) \/ hearUnlock(w)
      PROVE  UNCHANGED <<epoch, save, patch, send, chain>>
  BY <1>7 DEF Observe, editDraft, beginLock, readFlush, hostFlushes, endFlush, hearUnlock
<1>8. unlock => UNCHANGED <<epoch, save, patch, send, chain>>
  BY DEF unlock
<1>9. ASSUME UNCHANGED <<epoch, save, patch, send, chain>> PROVE Chained'
  <2>1. \A v \in Windows, x \in SaveOp..PatchOp :
          (Waits(v, x)' <=> Waits(v, x)) /\ (Begun(v, x)' <=> Begun(v, x))
    BY <1>9 DEF Waits, Begun, Linked, Current
  <2> QED
    BY <1>9, <2>1 DEF Chained, ChainOf, First, Has, Distinct
<1> QED
  BY <1>2, <1>3, <1>4, <1>5, <1>6, <1>7, <1>8, <1>9 DEF Next

\* The inductive invariant of the writes.
WritesInv == TypeOK /\ EpochsBound /\ InOrder /\ Chained

LEMMA WritesInit == Init => WritesInv
<1> SUFFICES ASSUME Init PROVE WritesInv
  OBVIOUS
<1>1. 0 \in Epochs /\ Empty \in Drafts /\ SaveOp \in Nat /\ <<>> \in Seq(SaveOp..PatchOp)
  BY ComposerAssumption DEF Epochs, Drafts, SaveOp
<1>2. used \in Counts /\ used.locks = 0 /\ bound \in Bounds /\ bound.locks \in Nat
  BY ComposerAssumption DEF Init, Counts
<1>3. TypeOK
  BY <1>1, <1>2 DEF Init, TypeOK
<1>4. EpochsBound
  BY <1>2 DEF Init, EpochsBound
<1>5. InOrder
  <2>1. 0 \in 0..MaxSends /\ \A j \in Ids : send[j] # None <=> j <= 0
    BY ComposerAssumption DEF Init, Ids
  <2> QED
    BY <2>1 DEF InOrder
<1>6. Chained
  <2>1. \A w \in Windows : Len(chain[w]) = 0
    BY DEF Init
  <2> QED
    BY <2>1 DEF Init, Chained, ChainOf, Begun, Waits, Linked, Has, Distinct
<1> QED
  BY <1>3, <1>4, <1>5, <1>6 DEF WritesInv

LEMMA WritesStep == ASSUME WritesInv, [Next]_vars PROVE WritesInv'
<1>1. CASE UNCHANGED vars
  <2>1. TypeOK' /\ EpochsBound' /\ InOrder'
    BY <1>1 DEF WritesInv, vars, TypeOK, EpochsBound, InOrder
  <2>2. \A v \in Windows, x \in SaveOp..PatchOp :
          (Waits(v, x)' <=> Waits(v, x)) /\ (Begun(v, x)' <=> Begun(v, x))
    BY <1>1 DEF Waits, Begun, Linked, Current, vars
  <2>3. Chained'
    BY <1>1, <2>2 DEF WritesInv, vars, Chained, ChainOf, First, Has, Distinct
  <2> QED
    BY <2>1, <2>3 DEF WritesInv
<1>2. CASE Next
  <2>1. TypeOK'
    BY <1>2, DraftTypes, SaveTypes, PatchTypes, SendTypes, LockTypes DEF WritesInv, Next
  <2> QED
    BY <1>2, <2>1, EpochsStep, OrderStep, ChainedStep DEF WritesInv
<1> QED
  BY <1>1, <1>2

\* Two writes that are under way are the first of the chain, so they are one.
LEMMA FirstIsAlone == ASSUME WritesInv PROVE OneWriteAtATime
<1> SUFFICES ASSUME NEW w \in Windows PROVE Cardinality(InFlight(w)) <= 1
  BY DEF OneWriteAtATime
<1>1. \A x \in InFlight(w) : x = Head(chain[w])
  <2>1. Ids \subseteq SaveOp..PatchOp /\ SaveOp \notin Ids /\ PatchOp \notin Ids /\ SaveOp # PatchOp
    BY ComposerAssumption DEF Ids, SaveOp, PatchOp
  <2>2. ASSUME NEW x \in InFlight(w) PROVE x \in SaveOp..PatchOp /\ Begun(w, x)
    BY <2>1 DEF InFlight, Begun, Waits, Linked
  <2> QED
    BY <2>2 DEF WritesInv, Chained, ChainOf, First
<1>2. CASE InFlight(w) = {}
  BY <1>2, FS_EmptySet
<1>3. CASE InFlight(w) # {}
  <2>1. PICK x : InFlight(w) = {x}
    BY <1>1, <1>3
  <2> QED
    BY <2>1, FS_Singleton
<1> QED
  BY <1>2, <1>3

\* For any number of windows, submissions, locks and faults: the saves, sends and
\* settings of a window go to the host one at a time (serializeSessionWrite).
THEOREM WritesDoNotOverlap == Spec => [](TypeOK /\ OneWriteAtATime)
<1>1. WritesInv => TypeOK /\ OneWriteAtATime
  BY FirstIsAlone DEF WritesInv
<1> QED
  BY <1>1, WritesInit, WritesStep, PTL DEF Spec

-----------------------------------------------------------------------------
(* What was typed and what was sent, as long as a flush is answered before the *)
(* next unlock.                                                              *)

\* A submission under way, and one of a window.
Active(i) == send[i] # None /\ send[i].pc \notin {"done", "ended"}
OfWindow(k, w) == send[k] # None /\ send[k].w = w

\* A submission under way owns its window's draft, and nothing else does.
Owners ==
    /\ \A i \in Ids : Active(i) => owner[send[i].w] = i
    /\ \A w \in Windows : owner[w] # None => Active(owner[w]) /\ send[owner[w]].w = w

\* A request id is that of the first submission of its window's message, which is
\* over once the host confirmed it.
KeysStay ==
    /\ \A i \in Ids : send[i] # None => OfWindow(send[i].key, send[i].w)
    /\ \A w \in Windows : draft[w] # None /\ draft[w].sub # None =>
          OfWindow(draft[w].sub.key, w) /\ ~Confirmed(draft[w].sub.key)
    /\ \A i \in Ids : Active(i) => ~Confirmed(send[i].key)

\* The entry remembers the message until it is confirmed.
Remembered ==
    \A i \in Ids : send[i] # None /\ ~Confirmed(send[i].key) =>
        /\ draft[send[i].w] # None
        /\ draft[send[i].w].sub = [key |-> send[i].key, prompt |-> send[i].prompt]

\* A flush is of a covered page without a submission, and of what it shows.
FlushFits ==
    \A w \in Windows : flush[w] # None =>
        /\ inert[w] # "open" /\ owner[w] = None
        /\ flush[w].pc # "queued" =>
             /\ draft[w] # None
             /\ flush[w].entry.text = draft[w].text /\ flush[w].entry.sub = draft[w].sub

\* What was typed is the text of the entry, also while a message is tried.
TypedStays ==
    \A w \in Windows : typed[w] # None => draft[w] # None /\ draft[w].text = typed[w]

MessageInv == Owners /\ KeysStay /\ Remembered /\ TypedStays

\* A step that leaves the texts, the messages and the submissions' ends alone.
SameDraft(v) ==
    /\ draft'[v] = None <=> draft[v] = None
    /\ draft[v] # None => draft'[v].text = draft[v].text /\ draft'[v].sub = draft[v].sub
SameSend(j) ==
    /\ send'[j] = None <=> send[j] = None
    /\ send[j] # None =>
         /\ send'[j].w = send[j].w /\ send'[j].key = send[j].key /\ send'[j].prompt = send[j].prompt
         /\ send'[j].pc = "done" <=> send[j].pc = "done"
         /\ send'[j].pc = "ended" <=> send[j].pc = "ended"

\* The steps that change neither drafts nor submissions.
LEMMA QuietKeepsMessages ==
    ASSUME TypeOK, MessageInv, UNCHANGED <<owner, typed>>,
           \A v \in Windows : SameDraft(v), \A j \in Ids : SameSend(j)
    PROVE  MessageInv'
<1>1. /\ \A i \in Ids : send[i] # None => send[i].w \in Windows /\ send[i].key \in Ids
      /\ \A w \in Windows : owner[w] # None => owner[w] \in Ids
      /\ \A w \in Windows : draft[w] # None /\ draft[w].sub # None => draft[w].sub.key \in Ids
  BY DEF TypeOK, Flight, Entry, Message
<1>2. \A j \in Ids : Active(j)' <=> Active(j)
  BY DEF Active, SameSend
<1>3. \A k \in Ids : Confirmed(k)' <=> Confirmed(k)
  BY DEF Confirmed, SameSend
<1>4. \A k \in Ids, w \in Windows : OfWindow(k, w)' <=> OfWindow(k, w)
  BY DEF OfWindow, SameSend
<1>5. Owners'
  BY <1>1, <1>2 DEF MessageInv, Owners, SameSend, Active
<1>6. KeysStay'
  BY <1>1, <1>2, <1>3, <1>4 DEF MessageInv, KeysStay, SameSend, SameDraft, Active
<1>7. Remembered'
  BY <1>1, <1>3 DEF MessageInv, Remembered, SameSend, SameDraft
<1>8. TypedStays'
  BY DEF MessageInv, TypedStays, SameDraft
<1> QED
  BY <1>5, <1>6, <1>7, <1>8 DEF MessageInv

\* Typing starts a text, not a message.
LEMMA EditKeepsMessages ==
    ASSUME TypeOK, MessageInv, NEW w \in Windows, NEW text \in Drafts, editDraft(w, text)
    PROVE  MessageInv'
<1>1. /\ UNCHANGED <<send, owner>>
      /\ \A v \in Windows \ {w} : draft'[v] = draft[v] /\ typed'[v] = typed[v]
      /\ typed'[w] = text
  BY DEF editDraft, TypeOK
<1>2. draft'[w] # None /\ draft'[w].text = text /\ draft'[w].sub = View(w).sub
  <2>1. PICK e \in Entry : e = View(w)
    BY ViewIsEntry
  <2>2. PICK f : f = [e EXCEPT !.text = text, !.dirty = TRUE]
    OBVIOUS
  <2>3. f \in Entry /\ f.text = text /\ f.sub = e.sub
    BY <2>2 DEF Entry
  <2>4. draft'[w] = f
    BY <2>1, <2>2 DEF editDraft, TypeOK
  <2> QED
    BY <2>1, <2>3, <2>4, ComposerAssumption
<1>3. draft'[w].sub # None => draft[w] # None /\ draft'[w].sub = draft[w].sub
  BY <1>2 DEF View
<1>4. draft[w] # None => draft'[w].sub = draft[w].sub
  BY <1>2 DEF View
<1>5. /\ \A i \in Ids : send[i] # None => send[i].w \in Windows /\ send[i].key \in Ids
      /\ \A k \in Ids : Confirmed(k)' <=> Confirmed(k)
  BY <1>1 DEF TypeOK, Flight, Confirmed
<1>6. Owners'
  BY <1>1 DEF MessageInv, Owners, Active
<1>7. KeysStay'
  <2>1. \A k, v : (OfWindow(k, v)' <=> OfWindow(k, v)) /\ (Confirmed(k)' <=> Confirmed(k))
    BY <1>1 DEF OfWindow, Confirmed
  <2> QED
    BY <1>1, <1>3, <2>1 DEF MessageInv, KeysStay, Active
<1>8. Remembered'
  BY <1>1, <1>2, <1>4, <1>5 DEF MessageInv, Remembered
<1>9. TypedStays'
  BY <1>1, <1>2 DEF MessageInv, TypedStays
<1> QED
  BY <1>6, <1>7, <1>8, <1>9 DEF MessageInv

\* A submission is done just when the host's answer is taken to confirm it.
Confirms(i) ==
    /\ send[i].pc = "accepted" /\ Current(send[i].w, send[i].epoch)
    /\ View(send[i].w).text # send[i].prompt => ~locked
\* A submission given up is not confirmed.
LEMMA EndedIsNotDone ==
    ASSUME TypeOK, NEW i \in Ids, settle(i)
    PROVE  send'[i].pc = IF Confirms(i) THEN "done" ELSE "ended"
<1>1. send[i] \in Flight
  BY DEF settle, TypeOK
<1>2. PICK pc \in {"done", "ended"} :
        /\ pc = IF Confirms(i) THEN "done" ELSE "ended"
        /\ send' = [send EXCEPT ![i] = [send[i] EXCEPT !.pc = pc]]
  BY DEF settle, Confirms
<1>3. send'[i] = [send[i] EXCEPT !.pc = pc]
  BY <1>2 DEF TypeOK
<1> QED
  BY <1>1, <1>2, <1>3, FlightChanges DEF Flight

\* Starting a submission and sending it.
LEMMA SubmissionKeepsMessages ==
    ASSUME TypeOK, InOrder, MessageInv, NEW w \in Windows, startSend(w)
    PROVE  MessageInv'
<1>0. /\ send \in [Ids -> Flight \cup {None}] /\ owner \in [Windows -> Ids \cup {None}]
      /\ draft \in [Windows -> Entry \cup {None}]
  BY DEF TypeOK
<1>1. PICK i \in Ids, m \in Message, s \in Flight :
        /\ m = MessageOf(w, i) /\ send[i] = None
        /\ s.w = w /\ s.key = m.key /\ s.prompt = m.prompt /\ s.pc = "flush"
        /\ send' = [send EXCEPT ![i] = s]
        /\ draft' = [draft EXCEPT ![w] = [View(w) EXCEPT !.sub = m]]
        /\ owner' = [owner EXCEPT ![w] = i]
  BY NewSubmission
<1>2. /\ owner[w] = None /\ UNCHANGED typed
      /\ \A j \in Ids : send'[j] = IF j = i THEN s ELSE send[j]
      /\ \A v \in Windows : owner'[v] = IF v = w THEN i ELSE owner[v]
      /\ \A v \in Windows \ {w} : draft'[v] = draft[v]
      /\ s # None
  <2>1. owner[w] = None /\ UNCHANGED typed
    BY DEF startSend
  <2> QED
    BY <1>0, <1>1, <2>1, ComposerAssumption
<1>3. draft'[w] # None /\ draft'[w].sub = m /\ draft'[w].text = View(w).text
  <2>1. PICK e \in Entry : e = View(w)
    BY ViewIsEntry
  <2>2. PICK f : f = [e EXCEPT !.sub = m]
    OBVIOUS
  <2>3. f \in Entry /\ f.sub = m /\ f.text = e.text
    BY <2>2 DEF Entry
  <2>4. draft'[w] = f
    BY <1>1, <2>1, <2>2 DEF TypeOK
  <2> QED
    BY <2>1, <2>3, <2>4, ComposerAssumption
<1>4. /\ \A j \in Ids : send[j] # None =>
           /\ send[j].w \in Windows /\ send[j].key \in Ids
           /\ [key |-> send[j].key, prompt |-> send[j].prompt] \in Message
      /\ \A v \in Windows : owner[v] # None => owner[v] \in Ids
      /\ None \notin Ids /\ None \notin Message
  BY ComposerAssumption DEF TypeOK, Flight, Message
<1>5. \A k \in Ids : Confirmed(k)' <=> Confirmed(k)
  BY <1>1, <1>2 DEF Confirmed
<1>6. \A k \in Ids, v \in Windows :
        /\ OfWindow(k, v) => OfWindow(k, v)'
        /\ OfWindow(i, w)'
  BY <1>1, <1>2 DEF OfWindow
<1>7. \A j \in Ids : Active(j)' <=> j = i \/ Active(j)
  BY <1>1, <1>2 DEF Active
<1>8. CASE View(w).sub # None
  <2>1. draft[w] # None /\ draft[w].sub = m /\ OfWindow(m.key, w) /\ ~Confirmed(m.key)
    BY <1>1, <1>8 DEF View, MessageOf, MessageInv, KeysStay
  <2>2. m.key \in Ids /\ m = [key |-> m.key, prompt |-> m.prompt]
    BY DEF Message
  <2>3. Owners'
    BY <1>1, <1>2, <1>4, <1>7 DEF MessageInv, Owners, Active
  <2>4. KeysStay'
    BY <1>1, <1>2, <1>3, <1>4, <1>5, <1>6, <1>7, <2>1, <2>2
    DEF MessageInv, KeysStay, Active, Entry, TypeOK, Message
  <2>5. Remembered'
    BY <1>1, <1>2, <1>3, <1>4, <1>5, <2>1, <2>2 DEF MessageInv, Remembered
  <2> QED
    BY <1>2, <1>3, <2>3, <2>4, <2>5 DEF MessageInv, TypedStays, View
<1>9. CASE View(w).sub = None
  <2>1. m.key = i /\ m = [key |-> m.key, prompt |-> m.prompt]
    BY <1>1, <1>9 DEF MessageOf, Message
  <2>2. ~Confirmed(i)
    BY <1>1 DEF MessageInv, KeysStay, OfWindow, Confirmed
  <2>3. \A j \in Ids : send[j] # None /\ send[j].w = w => Confirmed(send[j].key)
    <3>1. draft[w] = None \/ draft[w].sub = None
      BY <1>9 DEF View
    <3> QED
      BY <1>4, <3>1 DEF MessageInv, Remembered
  <2>4. Owners'
    BY <1>1, <1>2, <1>4, <1>7 DEF MessageInv, Owners, Active
  <2>5. KeysStay'
    BY <1>1, <1>2, <1>3, <1>4, <1>5, <1>6, <1>7, <2>1, <2>2
    DEF MessageInv, KeysStay, Active, Entry, TypeOK, Message
  <2>6. Remembered'
    BY <1>1, <1>2, <1>3, <1>4, <1>5, <2>1, <2>3 DEF MessageInv, Remembered
  <2> QED
    BY <1>2, <1>3, <2>4, <2>5, <2>6 DEF MessageInv, TypedStays, View
<1> QED
  BY <1>8, <1>9

\* The answer of a submission, or its end without one.
LEMMA SettlingKeepsMessages ==
    ASSUME TypeOK, MessageInv, NEW i \in Ids, settle(i)
    PROVE  MessageInv'
<1>1. /\ send[i] \in Flight /\ send[i].w \in Windows /\ send[i].key \in Ids
      /\ Active(i) /\ send[i].pc \notin {"done", "ended"}
  BY DEF settle, TypeOK, Flight, Active
<1>2. PICK w \in Windows : w = send[i].w
  BY <1>1
<1>3. /\ owner[w] = i /\ ~Confirmed(send[i].key)
      /\ draft[w] # None /\ draft[w].sub = [key |-> send[i].key, prompt |-> send[i].prompt]
      /\ View(w) = draft[w] /\ draft[w] \in Entry
  BY <1>1, <1>2 DEF MessageInv, Owners, KeysStay, Remembered, Active, View, TypeOK
<1>4. /\ \A j \in Ids \ {i} : send'[j] = send[j]
      /\ send'[i] # None /\ send'[i].w = w /\ send'[i].key = send[i].key
      /\ send'[i].prompt = send[i].prompt /\ send'[i].pc \in {"done", "ended"}
  BY <1>2, SendMoves DEF settle
<1>5. /\ \A v \in Windows : owner'[v] = IF v = w THEN None ELSE owner[v]
      /\ \A v \in Windows \ {w} : draft'[v] = draft[v] /\ typed'[v] = typed[v]
  BY <1>2, <1>3 DEF settle, TypeOK
<1>6. /\ \A j \in Ids : send[j] # None => send[j].w \in Windows /\ send[j].key \in Ids
      /\ \A v \in Windows : owner[v] # None => owner[v] \in Ids
      /\ \A v \in Windows : draft[v] # None /\ draft[v].sub # None => draft[v].sub.key \in Ids
      /\ None \notin Ids /\ send[i] # None
  BY <1>1, ComposerAssumption DEF TypeOK, Entry, Flight, Message
<1>7. \A j \in Ids : Active(j)' <=> Active(j) /\ j # i
  BY <1>4 DEF Active
<1>8. \A j \in Ids : Active(j) /\ j # i => send[j].w # w
  BY <1>3 DEF MessageInv, Owners
<1>9. \A k \in Ids, v \in Windows : OfWindow(k, v)' <=> OfWindow(k, v)
  BY <1>2, <1>4, <1>6 DEF OfWindow
<1>10. Owners'
  BY <1>2, <1>3, <1>4, <1>5, <1>6, <1>7, <1>8 DEF MessageInv, Owners, Active
<1>11. CASE send'[i].pc = "ended"
  <2>1. UNCHANGED <<draft, typed>>
    <3>1. ~Confirms(i)
      BY <1>11, EndedIsNotDone
    <3>2. /\ draft \in [Windows -> Entry \cup {None}]
          /\ typed \in [Windows -> Drafts \cup {None}]
      BY DEF TypeOK
    <3> QED
      BY <1>2, <3>1, <3>2 DEF settle, Confirms
  <2>2. \A k \in Ids : Confirmed(k)' <=> Confirmed(k)
    BY <1>1, <1>4, <1>11 DEF Confirmed
  <2>3. KeysStay'
    <3>1. \A j \in Ids : send'[j] # None => OfWindow(send[j].key, send[j].w)'
      BY <1>2, <1>4, <1>6, <1>9 DEF MessageInv, KeysStay
    <3>2. \A j \in Ids : Active(j)' => ~Confirmed(send[j].key)'
      BY <1>4, <1>6, <1>7, <2>2 DEF MessageInv, KeysStay, Active
    <3>3. \A v \in Windows : draft'[v] # None /\ draft'[v].sub # None =>
            (OfWindow(draft[v].sub.key, v) /\ ~Confirmed(draft[v].sub.key))'
      BY <1>6, <1>9, <2>1, <2>2 DEF MessageInv, KeysStay
    <3> QED
      BY <3>1, <3>2, <3>3 DEF KeysStay
  <2>4. Remembered'
    BY <1>2, <1>4, <1>6, <2>1, <2>2 DEF MessageInv, Remembered
  <2> QED
    BY <1>10, <2>1, <2>3, <2>4 DEF MessageInv, TypedStays
<1>12. CASE send'[i].pc = "done"
  <2>1. /\ draft' = [draft EXCEPT ![w] = Sent(draft[w], send[i].prompt)]
        /\ typed'[w] = IF draft[w].text = send[i].prompt THEN None ELSE typed[w]
    <3>1. Confirms(i)
      BY <1>12, EndedIsNotDone
    <3>2. typed \in [Windows -> Drafts \cup {None}]
      BY DEF TypeOK
    <3> QED
      BY <1>2, <1>3, <3>1, <3>2 DEF settle, Confirms
  <2>2. /\ draft'[w] # None /\ draft'[w].sub = None
        /\ draft[w].text # send[i].prompt => draft'[w].text = draft[w].text
    <3>1. PICK f : f = Sent(draft[w], send[i].prompt)
      OBVIOUS
    <3>2. /\ f \in Entry /\ f.sub = None
          /\ draft[w].text # send[i].prompt => f.text = draft[w].text
      BY <1>3, <3>1 DEF Sent, Entry, Drafts, TypeOK
    <3> QED
      BY <2>1, <3>1, <3>2, ComposerAssumption DEF TypeOK
  <2>3. \A k \in Ids : Confirmed(k)' <=> Confirmed(k) \/ k = send[i].key
    BY <1>1, <1>4, <1>6, <1>12 DEF Confirmed
  <2>4. \A k \in Ids, v \in Windows : OfWindow(k, v) /\ v # w => k # send[i].key
    BY <1>2, <1>6 DEF MessageInv, KeysStay, OfWindow
  <2>5. KeysStay'
    BY <1>2, <1>4, <1>5, <1>6, <1>7, <1>8, <1>9, <2>2, <2>3, <2>4 DEF MessageInv, KeysStay, Active
  <2>6. Remembered'
    <3> SUFFICES ASSUME NEW j \in Ids, (send[j] # None /\ ~Confirmed(send[j].key))'
                 PROVE  (/\ draft[send[j].w] # None
                         /\ draft[send[j].w].sub = [key |-> send[j].key, prompt |-> send[j].prompt])'
      BY DEF Remembered
    <3>1. j # i /\ send'[j] = send[j] /\ ~Confirmed(send[j].key) /\ send[j].key # send[i].key
      BY <1>4, <1>6, <2>3
    <3>2. send[j].w # w
      <4>1. [key |-> send[j].key, prompt |-> send[j].prompt].key
              # [key |-> send[i].key, prompt |-> send[i].prompt].key
        BY <3>1
      <4> QED
        BY <1>3, <3>1, <4>1 DEF MessageInv, Remembered
    <3> QED
      BY <1>5, <1>6, <3>1, <3>2 DEF MessageInv, Remembered
  <2>7. TypedStays'
    BY <1>5, <2>1, <2>2 DEF MessageInv, TypedStays
  <2> QED
    BY <1>10, <2>5, <2>6, <2>7 DEF MessageInv
<1> QED
  BY <1>4, <1>11, <1>12

\* An acknowledged autosave leaves the text and the message of the entry alone.
LEMMA AcknowledgedKeepsDraft ==
    ASSUME TypeOK, NEW w \in Windows, acknowledged(w)
    PROVE  draft'[w] = draft[w] \/ (/\ draft[w] # None /\ draft'[w] # None
                                   /\ draft'[w].text = draft[w].text /\ draft'[w].sub = draft[w].sub)
<1>1. CASE UNCHANGED draft
  BY <1>1
<1>2. CASE ~UNCHANGED draft
  <2>1. draft[w] \in Entry /\ save[w] \in Write
    BY <1>2 DEF acknowledged, TypeOK
  <2>2. PICK e : /\ e = [draft[w] EXCEPT !.saved = save[w].text,
                                         !.dirty = draft[w].text # save[w].text]
                 /\ draft' = [draft EXCEPT ![w] = e]
    BY <1>2 DEF acknowledged
  <2>3. e \in Entry /\ e.text = draft[w].text /\ e.sub = draft[w].sub
    BY <2>1, <2>2 DEF Entry, Write
  <2> QED
    BY <2>1, <2>2, <2>3, ComposerAssumption DEF TypeOK
<1> QED
  BY <1>1, <1>2

\* Everything else.
LEMMA OthersKeepMessages ==
    ASSUME TypeOK, MessageInv, FlushFits, Next,
           ~\E w \in Windows : startSend(w) \/ \E text \in Drafts : editDraft(w, text),
           ~\E i \in Ids : settle(i)
    PROVE  MessageInv'
<1>1. ASSUME NEW i \in Ids, joinChain(i) \/ post(i) \/ hostTakes(i) PROVE MessageInv'
  <2>1. UNCHANGED <<draft, owner, typed>>
    BY <1>1 DEF joinChain, post, hostTakes
  <2>2. SameSend(i)
    <3>1. send[i].pc \in {"flush", "queued", "post"}
      BY <1>1 DEF joinChain, post, hostTakes
    <3> QED
      BY <1>1, <3>1, SendMoves DEF SameSend
  <2>3. \A j \in Ids : SameSend(j)
    BY <1>1, <2>2, SendMoves DEF SameSend
  <2> QED
    BY <2>1, <2>3, QuietKeepsMessages DEF SameDraft
<1>2. ASSUME NEW w \in Windows, acknowledged(w) PROVE MessageInv'
  <2>1. UNCHANGED <<send, owner, typed>>
    BY <1>2 DEF acknowledged
  <2>2. draft'[w] = draft[w] \/ (/\ draft[w] # None /\ draft'[w] # None
                                 /\ draft'[w].text = draft[w].text /\ draft'[w].sub = draft[w].sub)
    BY <1>2, AcknowledgedKeepsDraft
  <2>3. \A v \in Windows \ {w} : draft'[v] = draft[v]
    BY <1>2 DEF acknowledged, TypeOK
  <2> QED
    BY <2>1, <2>2, <2>3, QuietKeepsMessages DEF SameDraft, SameSend
<1>3. ASSUME NEW w \in Windows, endFlush(w) PROVE MessageInv'
  <2>1. UNCHANGED <<send, owner, typed>> /\ \A v \in Windows \ {w} : draft'[v] = draft[v]
    BY <1>3 DEF endFlush, TypeOK
  <2>2. /\ draft[w] # None
        /\ flush[w].entry.text = draft[w].text /\ flush[w].entry.sub = draft[w].sub
    BY <1>3 DEF FlushFits, endFlush
  <2>3. flush[w].entry \in Entry
    <3>1. flush[w] \in Preserve /\ flush[w].pc = "saved"
      BY <1>3 DEF endFlush, TypeOK
    <3> QED
      BY <3>1 DEF Preserve
  <2>4. PICK e : /\ e = [flush[w].entry EXCEPT !.saved = flush[w].entry.text, !.dirty = FALSE]
                 /\ draft' = [draft EXCEPT ![w] = e]
    BY <1>3 DEF endFlush
  <2>5. e \in Entry /\ e.text = flush[w].entry.text /\ e.sub = flush[w].entry.sub
    BY <2>3, <2>4 DEF Entry
  <2>6. draft'[w] # None /\ draft'[w].text = draft[w].text /\ draft'[w].sub = draft[w].sub
    BY <2>2, <2>4, <2>5, ComposerAssumption DEF TypeOK
  <2> QED
    BY <2>1, <2>2, <2>6, QuietKeepsMessages DEF SameDraft, SameSend
<1>4. ASSUME NEW w \in Windows,
             \/ Observe(w) \/ saveDraft(w) \/ readDraft(w) \/ hostSaves(w)
             \/ startPatch(w) \/ readSettings(w) \/ endPatch(w)
             \/ beginLock(w) \/ readFlush(w) \/ hostFlushes(w)
             \/ lockWorkspace(w) \/ hearLock(w) \/ hearUnlock(w)
      PROVE  UNCHANGED <<draft, send, owner, typed>>
  BY <1>4 DEF Observe, saveDraft, readDraft, hostSaves, startPatch, readSettings, endPatch,
     beginLock, readFlush, hostFlushes, lockWorkspace, hearLock, hearUnlock
<1>5. unlock => UNCHANGED <<draft, send, owner, typed>>
  BY DEF unlock
<1>6. UNCHANGED <<draft, send, owner, typed>> => MessageInv'
  BY QuietKeepsMessages DEF SameDraft, SameSend
<1> QED
  BY <1>1, <1>2, <1>3, <1>4, <1>5, <1>6 DEF Next

\* A flush stays one of what the covered page holds.
LEMMA FlushStep ==
    ASSUME ~SlowFlush, TypeOK, MessageInv, FlushFits, Next
    PROVE  FlushFits'
<1>1. ASSUME NEW w \in Windows, \E text \in Drafts : editDraft(w, text)
      PROVE  FlushFits'
  <2>1. /\ inert[w] = "open" /\ UNCHANGED <<inert, flush, owner>>
        /\ \A v \in Windows \ {w} : draft'[v] = draft[v]
    BY <1>1 DEF editDraft, TypeOK
  <2> QED
    BY <2>1 DEF FlushFits
<1>2. ASSUME NEW w \in Windows, startSend(w) PROVE FlushFits'
  <2>1. /\ inert[w] = "open" /\ UNCHANGED <<inert, flush>>
        /\ \A v \in Windows \ {w} : draft'[v] = draft[v] /\ owner'[v] = owner[v]
    BY <1>2 DEF startSend, TypeOK
  <2> QED
    BY <2>1 DEF FlushFits
<1>3. ASSUME NEW i \in Ids, settle(i) PROVE FlushFits'
  <2>1. /\ send[i].w \in Windows /\ owner[send[i].w] = i /\ i # None
        /\ UNCHANGED <<inert, flush>>
    BY <1>3, ComposerAssumption DEF settle, TypeOK, Flight, MessageInv, Owners, Active
  <2>2. \A v \in Windows : v # send[i].w => draft'[v] = draft[v] /\ owner'[v] = owner[v]
    BY <1>3 DEF settle, TypeOK
  <2> QED
    BY <2>1, <2>2 DEF FlushFits
<1>4. ASSUME NEW w \in Windows, acknowledged(w) PROVE FlushFits'
  <2>1. UNCHANGED <<inert, flush, owner>> /\ \A v \in Windows \ {w} : draft'[v] = draft[v]
    BY <1>4 DEF acknowledged, TypeOK
  <2>2. draft'[w] = draft[w] \/ (/\ draft[w] # None /\ draft'[w] # None
                                 /\ draft'[w].text = draft[w].text /\ draft'[w].sub = draft[w].sub)
    BY <1>4, AcknowledgedKeepsDraft
  <2> QED
    BY <2>1, <2>2 DEF FlushFits
<1>5. ASSUME NEW w \in Windows, beginLock(w) PROVE FlushFits'
  <2>1. /\ UNCHANGED <<draft, owner>> /\ inert[w] = "open" /\ inert'[w] = "locking"
        /\ \A v \in Windows \ {w} : inert'[v] = inert[v] /\ flush'[v] = flush[v]
        /\ flush[w] = None /\ flush'[w] # None => flush'[w] = [pc |-> "queued"] /\ owner[w] = None
    BY <1>5 DEF beginLock, TypeOK
  <2> QED
    BY <2>1 DEF FlushFits
<1>6. ASSUME NEW w \in Windows, readFlush(w) PROVE FlushFits'
  <2>1. /\ UNCHANGED <<draft, owner, inert>> /\ flush[w] # None
        /\ \A v \in Windows \ {w} : flush'[v] = flush[v]
        /\ flush'[w] # None =>
             draft[w] # None /\ flush'[w] = [pc |-> "patch", entry |-> draft[w], rev |-> host.rev]
    BY <1>6 DEF readFlush, TypeOK
  <2> QED
    BY <2>1 DEF FlushFits
<1>7. ASSUME NEW w \in Windows, hostFlushes(w) PROVE FlushFits'
  <2>1. flush[w] \in Preserve /\ flush[w].pc = "patch"
    BY <1>7 DEF hostFlushes, TypeOK
  <2>2. PICK f : f = [flush[w] EXCEPT !.pc = "saved"]
    OBVIOUS
  <2>3. f.entry = flush[w].entry
    BY <2>1, <2>2 DEF Preserve
  <2>4. /\ UNCHANGED <<draft, owner, inert>> /\ flush[w] # None
        /\ \A v \in Windows \ {w} : flush'[v] = flush[v]
        /\ flush'[w] = f \/ flush'[w] = None
    BY <1>7, <2>2 DEF hostFlushes, TypeOK
  <2> QED
    BY <2>1, <2>3, <2>4 DEF FlushFits
<1>8. ASSUME NEW w \in Windows, endFlush(w) PROVE FlushFits'
  <2>1. /\ UNCHANGED <<owner, inert>> /\ flush'[w] = None
        /\ \A v \in Windows \ {w} : flush'[v] = flush[v] /\ draft'[v] = draft[v]
    BY <1>8 DEF endFlush, TypeOK
  <2> QED
    BY <2>1 DEF FlushFits
<1>9. ASSUME NEW w \in Windows, lockWorkspace(w) \/ hearLock(w) PROVE FlushFits'
  <2>1. /\ UNCHANGED <<draft, owner, flush>>
        /\ \A v \in Windows : inert'[v] = IF v = w THEN "locked" ELSE inert[v]
    BY <1>9 DEF lockWorkspace, hearLock, Forget, TypeOK
  <2> QED
    BY <2>1 DEF FlushFits
<1>10. ASSUME NEW w \in Windows, hearUnlock(w) PROVE FlushFits'
  <2>1. /\ UNCHANGED <<draft, owner, flush>> /\ flush[w] = None
        /\ \A v \in Windows \ {w} : inert'[v] = inert[v]
    BY <1>10 DEF hearUnlock, TypeOK
  <2> QED
    BY <2>1 DEF FlushFits
<1>11. ASSUME NEW w \in Windows,
              \/ Observe(w) \/ saveDraft(w) \/ readDraft(w) \/ hostSaves(w)
              \/ startPatch(w) \/ readSettings(w) \/ endPatch(w)
       PROVE  UNCHANGED <<draft, owner, inert, flush>>
  BY <1>11 DEF Observe, saveDraft, readDraft, hostSaves, startPatch, readSettings, endPatch
<1>12. ASSUME NEW i \in Ids, joinChain(i) \/ post(i) \/ hostTakes(i)
       PROVE  UNCHANGED <<draft, owner, inert, flush>>
  BY <1>12 DEF joinChain, post, hostTakes
<1>13. unlock => UNCHANGED <<draft, owner, inert, flush>>
  BY DEF unlock
<1>14. UNCHANGED <<draft, owner, inert, flush>> => FlushFits'
  BY DEF FlushFits
<1> QED
  BY <1>1, <1>2, <1>3, <1>4, <1>5, <1>6, <1>7, <1>8, <1>9, <1>10, <1>11, <1>12, <1>13, <1>14
  DEF Next

\* The inductive invariant of what was typed.
TypedInv == WritesInv /\ MessageInv /\ FlushFits

LEMMA TypedInit == Init => TypedInv
<1> SUFFICES ASSUME Init PROVE TypedInv
  OBVIOUS
<1>1. MessageInv /\ FlushFits
  BY DEF Init, MessageInv, Owners, KeysStay, Remembered, TypedStays, FlushFits, Active
<1> QED
  BY <1>1, WritesInit DEF TypedInv

LEMMA TypedStep == ASSUME ~SlowFlush, TypedInv, [Next]_vars PROVE TypedInv'
<1>1. CASE UNCHANGED vars
  <2>1. MessageInv'
    BY <1>1, QuietKeepsMessages DEF TypedInv, WritesInv, vars, SameDraft, SameSend
  <2>2. FlushFits'
    BY <1>1 DEF TypedInv, vars, FlushFits
  <2> QED
    BY <2>1, <2>2, WritesStep DEF TypedInv
<1>2. CASE Next
  <2>1. MessageInv'
    BY <1>2, EditKeepsMessages, SubmissionKeepsMessages, SettlingKeepsMessages, OthersKeepMessages
    DEF TypedInv, WritesInv
  <2>2. FlushFits'
    BY <1>2, FlushStep DEF TypedInv, WritesInv
  <2> QED
    BY <2>1, <2>2, WritesStep DEF TypedInv
<1> QED
  BY <1>1, <1>2

\* What it says of messages and of texts.
LEMMA RememberedIsOne == ASSUME TypedInv PROVE OneMessageUnderWay /\ NothingTypedIsLost
<1>1. NothingTypedIsLost
  BY DEF TypedInv, MessageInv, TypedStays, NothingTypedIsLost, View
<1>2. ASSUME NEW i \in Ids, NEW j \in Ids, send[i] # None, send[j] # None, send[i].w = send[j].w,
             ~Confirmed(send[i].key), ~Confirmed(send[j].key)
      PROVE  send[i].key = send[j].key /\ send[i].prompt = send[j].prompt
  <2>1. [key |-> send[i].key, prompt |-> send[i].prompt]
          = [key |-> send[j].key, prompt |-> send[j].prompt]
    BY <1>2 DEF TypedInv, MessageInv, Remembered
  <2> QED
    BY <2>1
<1> QED
  BY <1>1, <1>2 DEF OneMessageUnderWay

\* As long as no flush before a lock is answered after the unlock
\* (lock-preservation.ts:13), a window's unconfirmed message keeps its request id and
\* its text through lost answers, retries and locks, and its writes do not overlap
\* (Chat.tsx, drafts.ts, session-writes.ts).  Such a flush would put back an entry
\* that does not know of the message.
THEOREM OneMessageAtATime == ASSUME ~SlowFlush PROVE Spec => []OneAtATime
<1>1. TypedInv => OneAtATime
  BY RememberedIsOne, FirstIsAlone DEF OneAtATime, TypedInv, WritesInv
<1>2. Init => TypedInv
  BY TypedInit
<1>3. TypedInv /\ [Next]_vars => TypedInv'
  BY TypedStep
<1> QED
  BY <1>1, <1>2, <1>3, PTL DEF Spec

\* What the user typed and has not sent is in the window's entry, whatever is
\* saved, answered late, lost or locked meanwhile (Chat.tsx), under the same
\* condition.
THEOREM TypedTextStays == ASSUME ~SlowFlush PROVE Spec => []NothingTypedIsLost
<1>1. TypedInv => NothingTypedIsLost
  BY RememberedIsOne
<1>2. Init => TypedInv
  BY TypedInit
<1>3. TypedInv /\ [Next]_vars => TypedInv'
  BY TypedStep
<1> QED
  BY <1>1, <1>2, <1>3, PTL DEF Spec
=============================================================================
