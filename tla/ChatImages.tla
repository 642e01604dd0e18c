------------------------------ MODULE ChatImages ------------------------------
(***************************************************************************)
(* The images of a message being written                                     *)
(* (desktop/workspace/src/features/Chat.tsx, lib/drafts.ts and               *)
(* components/ai-elements/attachments.tsx).  One panel shows one chat at a   *)
(* time.  It keeps what it shows, and a registry keeps a draft of each chat. *)
(* Files take time to read; a message is sent under a key, and sent again    *)
(* under it, with the same images, when its answer is lost.  What else is in *)
(* the draft is in Composer.                                                 *)
(***************************************************************************)
EXTENDS Naturals, Sequences, SequencesExt, FiniteSets

CONSTANTS Chats, None,
          Limit,                         \* the most images of a message
          Pictures,                      \* the images that are pictures
          MaxImages, MaxKeys, MaxLost    \* bounds

Images == 1..MaxImages
Keys == 1..MaxKeys

VARIABLES
    sessionId,    \* the chat shown
    attachments,  \* the images shown
    pendingPrompt,\* the message shown as under way, or None
    drafts,       \* chat -> its entry of the registry, or None
    reading,      \* the files being read: which, for which chat, after which images
    flight,       \* chat -> the message being sent, or None
    posted,       \* what reached the host
    images, keys, lost

vars == <<sessionId, attachments, pendingPrompt, drafts, reading, flight, posted, images, keys, lost>>

Submission == [key : Keys, attachments : SeqOf(Images, Limit)]

TypeOK ==
    /\ sessionId \in Chats
    /\ attachments \in SeqOf(Images, Limit)
    /\ pendingPrompt \in Submission \cup {None}
    /\ drafts \in [Chats -> {None} \cup
          [attachments : SeqOf(Images, Limit) \cup {None}, submission : Submission \cup {None}]]
    /\ reading \subseteq [file : Images, chat : Chats, base : SeqOf(Images, Limit)]
    /\ flight \in [Chats -> {None} \cup [message : Submission, answer : {"ok", "lost", None}]]
    /\ posted \subseteq [chat : Chats, message : Submission]
    /\ images \in 0..MaxImages /\ keys \in 0..MaxKeys /\ lost \in 0..MaxLost

Init ==
    /\ sessionId \in Chats
    /\ attachments = <<>> /\ pendingPrompt = None
    /\ drafts = [c \in Chats |-> None]
    /\ reading = {} /\ flight = [c \in Chats |-> None] /\ posted = {}
    /\ images = 0 /\ keys = 0 /\ lost = 0

Held(entry) == IF entry = None \/ entry.attachments = None THEN <<>> ELSE entry.attachments
Pending(entry) == IF entry = None THEN None ELSE entry.submission

\* Another chat is shown, from its entry of the registry.
show(c) ==
    /\ c # sessionId
    /\ sessionId' = c
    /\ attachments' = Held(drafts[c])
    /\ pendingPrompt' = Pending(drafts[c])
    /\ UNCHANGED <<drafts, reading, flight, posted, images, keys, lost>>

editAttachments(c, next) ==
    /\ attachments' = next
    /\ drafts' = [drafts EXCEPT ![c] = [attachments |-> next, submission |-> Pending(@)]]

-----------------------------------------------------------------------------
(* Files. *)

\* A bug: the images there already are not counted.
FitsAlone(count) == count <= Limit
Fits(count) == Len(attachments) + count <= Limit

upload ==
    /\ images < MaxImages
    /\ Fits(1)
    /\ images' = images + 1
    /\ reading' = reading \cup {[file |-> images', chat |-> sessionId, base |-> attachments]}
    /\ UNCHANGED <<sessionId, attachments, pendingPrompt, drafts, flight, posted, keys, lost>>

\* The file is added to the images there were when its reading began.
uploaded(r) ==
    /\ reading' = reading \ {r}
    /\ editAttachments(r.chat, Append(r.base, r.file))
    /\ UNCHANGED <<sessionId, pendingPrompt, flight, posted, images, keys, lost>>

\* Images that come from the browser panel, as many as there is room for.
incoming ==
    /\ images < MaxImages
    /\ images' = images + 1
    /\ LET base == IF drafts[sessionId] = None \/ drafts[sessionId].attachments = None
                   THEN attachments ELSE Held(drafts[sessionId])
           all == Append(base, images')
       IN editAttachments(sessionId, SubSeq(all, 1, IF Len(all) < Limit THEN Len(all) ELSE Limit))
    /\ UNCHANGED <<sessionId, pendingPrompt, reading, flight, posted, keys, lost>>

-----------------------------------------------------------------------------
(* What is shown of them (attachments.tsx). *)

getMediaCategory(i) == IF i \in Pictures THEN "image" ELSE "document"
getAttachmentLabel(i) == IF getMediaCategory(i) = "image" THEN "Image" ELSE "Attachment"

\* A picture is shown itself, anything else as the icon of its category.
AttachmentPreview(i) == IF getMediaCategory(i) = "image" THEN <<"picture", i>> ELSE <<"icon", getMediaCategory(i)>>
AttachmentInfo(i) == getAttachmentLabel(i)

Attachment(position) ==
    [preview |-> AttachmentPreview(attachments[position]),
     label |-> AttachmentInfo(attachments[position]), onRemove |-> position]
Attachments == [position \in DOMAIN attachments |-> Attachment(position)]

AttachmentRemove(chip) ==
    /\ editAttachments(sessionId, RemoveAt(attachments, chip.onRemove))
    /\ UNCHANGED <<sessionId, pendingPrompt, reading, flight, posted, images, keys, lost>>

\* Backspace in an empty message.
onRemoveLast ==
    /\ attachments # <<>>
    /\ editAttachments(sessionId, Front(attachments))
    /\ UNCHANGED <<sessionId, pendingPrompt, reading, flight, posted, images, keys, lost>>

-----------------------------------------------------------------------------
(* Sending. *)

\* The panel takes again what the registry has of the chat it shows.
Update(entry) ==
    /\ pendingPrompt' = Pending(entry)
    /\ attachments' = IF entry = None THEN attachments ELSE Held(entry)

\* A bug: a message sent again carries the images shown now.
WithShown(key) == IF pendingPrompt # None THEN [pendingPrompt EXCEPT !.attachments = attachments]
                  ELSE [key |-> key, attachments |-> attachments]
Message(key) == IF pendingPrompt # None THEN pendingPrompt
                ELSE [key |-> key, attachments |-> attachments]

send ==
    /\ flight[sessionId] = None
    /\ pendingPrompt = None => keys < MaxKeys
    /\ keys' = IF pendingPrompt = None THEN keys + 1 ELSE keys
    /\ LET message == Message(keys')
           entry == [attachments |-> IF drafts[sessionId] = None \/ drafts[sessionId].attachments = None
                                     THEN attachments ELSE Held(drafts[sessionId]),
                     submission |-> message]
       IN /\ flight' = [flight EXCEPT ![sessionId] = [message |-> message, answer |-> None]]
          /\ drafts' = [drafts EXCEPT ![sessionId] = entry]
          /\ Update(entry)
    /\ UNCHANGED <<sessionId, reading, posted, images, lost>>

hostTakes(c) ==
    /\ flight[c] # None /\ flight[c].answer = None
    /\ \E answer \in {"ok", "lost"} :
         /\ flight' = [flight EXCEPT ![c].answer = answer]
         /\ IF answer = "lost" THEN lost < MaxLost /\ lost' = lost + 1 ELSE UNCHANGED lost
    /\ posted' = posted \cup {[chat |-> c, message |-> flight[c].message]}
    /\ UNCHANGED <<sessionId, attachments, pendingPrompt, drafts, reading, images, keys>>

\* A message that was taken clears the draft it came from, unless that has
\* changed since: its text ("typed") or its images.
settle(c) ==
    /\ flight[c] # None /\ flight[c].answer # None
    /\ \E typed \in BOOLEAN :
         LET entry == drafts[c]
             same == ~typed /\ Held(entry) = flight[c].message.attachments
             kept == IF flight[c].answer = "lost" THEN entry
                     ELSE IF same THEN [attachments |-> None, submission |-> None]
                     ELSE [entry EXCEPT !.submission = None]
         IN /\ drafts' = [drafts EXCEPT ![c] = kept]
            /\ Update(drafts'[sessionId])
    /\ flight' = [flight EXCEPT ![c] = None]
    /\ UNCHANGED <<sessionId, reading, posted, images, keys, lost>>

Next ==
    \/ \E c \in Chats : show(c) \/ hostTakes(c) \/ settle(c)
    \/ upload \/ incoming \/ onRemoveLast \/ send
    \/ \E r \in reading : uploaded(r)
    \/ \E position \in DOMAIN attachments : AttachmentRemove(Attachments[position])

Spec == Init /\ [][Next]_vars

-----------------------------------------------------------------------------
(* Properties. *)

\* Sent again, after a lost answer and whatever was attached, removed or shown
\* meanwhile, a message has the images and the chat it had (Chat.tsx:150).
SameKeySameImages ==
    \A p, q \in posted : p.message.key = q.message.key => p = q

\* No message has more images than it may, whatever files were being read when
\* others came (Chat.tsx:101, 179).
AtMostLimit == \A p \in posted : Len(p.message.attachments) <= Limit

\* "Attachments and the controlled draft remain in TermX's durable draft store"
\* (components/ai-elements/prompt-input.tsx:25): what is shown of a chat is what
\* its entry holds.
ShownIsStored == attachments = Held(drafts[sessionId])

=============================================================================
