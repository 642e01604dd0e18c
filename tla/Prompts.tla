-------------------------------- MODULE Prompts --------------------------------
(***************************************************************************)
(* What a conversation promises about its prompts, however they are sent,   *)
(* queued, repeated or interrupted (workspace/service.py and                *)
(* workspace/prompt_queue.py): a prompt is given to a model once at most,   *)
(* alone, and a follow-up only in its turn, as long as its user consents    *)
(* and not after its row was settled.                                       *)
(***************************************************************************)
EXTENDS Naturals, Sequences

CONSTANTS Queued, Direct   \* follow-ups, and prompts sent without the queue

VARIABLES
  line,       \* follow-ups in the order they joined
  settled,    \* follow-ups whose outcome stands, if only as unknown
  consented,  \* follow-ups whose consent is for what is in force
  working,    \* prompts with an active turn
  given       \* prompts given to a model or an engine

vars == <<line, settled, consented, working, given>>

Init == line = <<>> /\ settled = {} /\ consented = {} /\ working = {} /\ given = {}

Joined == {line[i] : i \in DOMAIN line}
Earlier(q) == {line[i] : i \in {j \in DOMAIN line :
                 \E n \in DOMAIN line : line[n] = q /\ j < n}}

Join(q) ==
  /\ q \notin Joined /\ line' = Append(line, q)
  /\ consented' = consented \cup {q}
  /\ UNCHANGED <<settled, working, given>>

\* Consent is given, expires, or is overtaken by a change of what it was for.
Consent ==
  /\ consented' \in SUBSET Queued
  /\ UNCHANGED <<line, settled, working, given>>

MayBeGiven(k) ==
  /\ k \notin given /\ k \notin settled
  /\ k \in Queued => k \in Joined \cap consented /\ Earlier(k) \subseteq settled

\* A turn begins, with its prompt or before it.
Begin(k) ==
  /\ MayBeGiven(k) /\ working = {} /\ working' = {k}
  /\ given' \in {given, given \cup {k}}
  /\ settled' \in {settled, settled \cup {k}}
  /\ UNCHANGED <<line, consented>>

\* The prompt is given to the engine of its turn, which may fail.
Give(k) ==
  /\ MayBeGiven(k) /\ working = {k} /\ working' \in {{k}, {}}
  /\ given' = given \cup {k}
  /\ settled' \in {settled, settled \cup {k}}
  /\ UNCHANGED <<line, consented>>

\* Turns end and rows are settled, after a crash several at once.
End ==
  /\ working' \in SUBSET working
  /\ settled' \in SUBSET Queued /\ settled \subseteq settled'
  /\ UNCHANGED <<line, consented, given>>

Next ==
  \/ \E q \in Queued : Join(q)
  \/ \E k \in Queued \cup Direct : Begin(k) \/ Give(k)
  \/ Consent \/ End

Spec == Init /\ [][Next]_vars
=============================================================================
