--------------------------- MODULE LanguageDocuments ---------------------------
(***************************************************************************)
(* The workbench's editor and a language server (features/Workbench.tsx,     *)
(* lib/lsp.ts): the files opened at the server, the text typed, which is     *)
(* sent 200 ms after the last change of the file shown, and a formatting     *)
(* asked of the server.  What is said before the server is initialised waits *)
(* for it; afterwards it is sent in order, or dropped if the connection is   *)
(* gone.  A client that is disconnected is kept until the workbench closes.  *)
(***************************************************************************)
EXTENDS Naturals, Sequences, FiniteSets

CONSTANTS None, Files,
          MaxTexts, MaxFormats, MaxMoves, MaxUpsets  \* bounds: texts of a file, formattings,
                                  \* files and projects chosen, failures

VARIABLES
    text,      \* the content of each file in the editor, by its version
    here,      \* is the files' project the one shown?
    selected,  \* the file shown
    client,    \* None, "connecting", "ready", "gone" or "closed"
    opened,    \* the files for which an open was said
    timer,     \* the change to be sent, None if none
    wire,      \* what was said and the server has not taken, held until it is ready
    doc,       \* the server's text of each file, None if not open there
    call,      \* the formatting asked, with the text it was asked for
    used

editor == <<text, here, selected, opened, timer>>
vars == <<editor, client, wire, doc, call, used>>

Texts == 0..MaxTexts
Message == [kind : {"open", "change"}, file : Files, text : Texts] \cup [kind : {"format"}, file : Files]

TypeOK ==
    /\ text \in [Files -> Texts] /\ here \in BOOLEAN /\ selected \in Files
    /\ client \in {None, "connecting", "ready", "gone", "closed"}
    /\ opened \subseteq Files /\ (timer = None \/ timer \in [file : Files, text : Texts])
    /\ \A i \in DOMAIN wire : wire[i] \in Message
    /\ doc \in [Files -> Texts \cup {None}]
    /\ call = None \/ (call.file \in Files /\ {call.original} \subseteq Texts
                       /\ call.basis \in Texts \cup {None} /\ call.answered \in BOOLEAN)

Init ==
    /\ text = [f \in Files |-> 0] /\ here = TRUE
    /\ selected = CHOOSE f \in Files : TRUE
    /\ client = "connecting" /\ opened = {selected} /\ timer = None
    /\ wire = <<[kind |-> "open", file |-> selected, text |-> 0]>>
    /\ doc = [f \in Files |-> None] /\ call = None
    /\ used = [formats |-> 0, moves |-> 0, upsets |-> 0]

Bound == [formats |-> MaxFormats, moves |-> MaxMoves, upsets |-> MaxUpsets]
Spend(what) == used[what] < Bound[what] /\ used' = [used EXCEPT ![what] = @ + 1]

\* The open or change said to the client; one that is gone drops it.
Said(messages) == IF client \in {"connecting", "ready"} THEN wire \o messages ELSE wire
Opening(f, t) == [kind |-> "open", file |-> f, text |-> t]

-----------------------------------------------------------------------------
(* The editor. *)

\* A bug: a file opened before is sent only when it is typed in.
EffectOnTyping(f, t, typed) ==
    IF f \notin opened
    THEN opened' = opened \cup {f} /\ timer' = None /\ wire' = Said(<<Opening(f, t)>>)
    ELSE opened' = opened /\ timer' = (IF typed THEN [file |-> f, text |-> t] ELSE None) /\ wire' = wire
\* The effect of another file, content or project.
Effect(f, t, typed) ==
    IF f \notin opened
    THEN opened' = opened \cup {f} /\ timer' = None /\ wire' = Said(<<Opening(f, t)>>)
    ELSE opened' = opened /\ timer' = [file |-> f, text |-> t] /\ wire' = wire

type ==
    /\ here /\ text[selected] < MaxTexts /\ client # "closed"
    /\ text' = [text EXCEPT ![selected] = @ + 1]
    /\ Effect(selected, text'[selected], TRUE)
    /\ UNCHANGED <<here, selected, client, doc, call, used>>

select(f) ==
    /\ here /\ f # selected /\ client # "closed" /\ Spend("moves")
    /\ selected' = f
    /\ Effect(f, text[f], FALSE)
    /\ UNCHANGED <<text, here, client, doc, call>>

\* Another project, whose files are not these; the client stays.
leaveProject ==
    /\ here /\ client # "closed" /\ Spend("moves")
    /\ here' = FALSE /\ timer' = None
    /\ UNCHANGED <<text, selected, opened, client, wire, doc, call>>

reopenProject ==
    /\ ~here
    /\ here' = TRUE
    /\ Effect(selected, text[selected], FALSE)
    /\ UNCHANGED <<text, selected, client, doc, call, used>>

timerFires ==
    /\ timer # None
    /\ wire' = Said(<<[kind |-> "change", file |-> timer.file, text |-> timer.text]>>)
    /\ timer' = None
    /\ UNCHANGED <<text, here, selected, opened, client, doc, call, used>>

\* A formatting with no client to ask fails at once, or by its time limit.
formatFile ==
    /\ here /\ call = None /\ client # "closed" /\ Spend("formats")
    /\ call' = IF client = "gone" THEN None
               ELSE [file |-> selected, original |-> text[selected], basis |-> None, answered |-> FALSE]
    /\ wire' = Said(<<[kind |-> "format", file |-> selected]>>)
    /\ UNCHANGED <<editor, client, doc>>

\* The edits are applied if the text shown is the one it was asked for.
formatted ==
    /\ call # None /\ call.answered
    /\ LET applies == call.file = selected /\ call.original = text[selected] /\ text[selected] < MaxTexts
       IN  IF applies
           THEN /\ text' = [text EXCEPT ![selected] = @ + 1]
                /\ IF here THEN Effect(selected, text'[selected], TRUE) ELSE UNCHANGED <<opened, timer, wire>>
           ELSE UNCHANGED <<text, opened, timer, wire>>
    /\ call' = None
    /\ UNCHANGED <<here, selected, client, doc, used>>

\* The workbench closes: what waits is answered with nothing.
close ==
    /\ client # "closed" /\ Spend("upsets")
    /\ client' = "closed" /\ wire' = <<>> /\ call' = None /\ timer' = None
    /\ UNCHANGED <<text, here, selected, opened, doc>>

-----------------------------------------------------------------------------
(* The connection and the server. *)

initialised ==
    /\ client = "connecting"
    /\ client' = "ready"
    /\ UNCHANGED <<editor, wire, doc, call, used>>

\* A bug: the calls under way are forgotten with the connection.
RejectedLater(c) == c
\* What waits is rejected: the formatting ends.
Rejected(c) == IF c # None /\ ~c.answered THEN None ELSE c

disconnect ==
    /\ client \in {"connecting", "ready"} /\ Spend("upsets")
    /\ client' = "gone" /\ wire' = <<>>
    /\ call' = Rejected(call)
    /\ UNCHANGED <<editor, doc>>

serverTakes ==
    /\ client = "ready" /\ wire # <<>>
    /\ LET m == wire[1]
       IN  /\ doc' = IF m.kind = "format" THEN doc ELSE [doc EXCEPT ![m.file] = m.text]
           /\ call' = IF m.kind = "format" /\ call # None THEN [call EXCEPT !.basis = doc[m.file], !.answered = TRUE]
                      ELSE call
    /\ wire' = [i \in 1..(Len(wire) - 1) |-> wire[i + 1]]
    /\ UNCHANGED <<editor, client, used>>

\* The server does not answer within 15 seconds of being asked.
timesOut ==
    /\ client = "ready" /\ call # None /\ ~call.answered /\ Spend("upsets")
    /\ call' = None /\ wire' = SelectSeq(wire, LAMBDA m : m.kind # "format")
    /\ UNCHANGED <<editor, client, doc>>

Next ==
    \/ type \/ leaveProject \/ reopenProject \/ timerFires \/ formatFile \/ formatted \/ close
    \/ initialised \/ disconnect \/ serverTakes \/ timesOut
    \/ \E f \in Files : select(f)

Spec == Init /\ [][Next]_vars

Fairness == WF_vars(timerFires) /\ WF_vars(initialised) /\ WF_vars(serverTakes) /\ WF_vars(formatted)
FairSpec == Spec /\ Fairness

-----------------------------------------------------------------------------
(* While it is connected the server comes to know the text of the file shown, *)
(* wherever the user went within the 200 ms after typing it.                  *)
ServerCatchesUp == <>[](client = "ready" /\ here => doc[selected] = text[selected])

(* A formatting that was asked for ends.                                       *)
FormattingEnds == call # None ~> call = None

(* "File changed during formatting. Request formatting again to preserve your  *)
(* edits." (Workbench.tsx:107): the edits applied were made for the text that  *)
(* they are applied to.                                                        *)
FormatFitsText == [][call # None /\ call' = None /\ text' # text => call.basis = text[call.file]]_vars
=============================================================================
