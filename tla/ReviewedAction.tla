--------------------------- MODULE ReviewedAction ---------------------------
(***************************************************************************)
(* What the decision broker (auto_review.py) promises about the actions     *)
(* that tools put to it: an action starts at most once, a refused action    *)
(* never starts, and a consequential one starts only after a person         *)
(* approved exactly it.                                                     *)
(***************************************************************************)
CONSTANTS Actions, Sensitive

VARIABLES
  phase,    \* "open", "started", or "closed" without having started
  consent   \* actions a person approved

Init == phase = [a \in Actions |-> "open"] /\ consent = {}

Approve(a) ==
  /\ phase[a] = "open"
  /\ consent' = consent \cup {a}
  /\ UNCHANGED phase

Start(a) ==
  /\ phase[a] = "open"
  /\ a \in Sensitive => a \in consent
  /\ phase' = [phase EXCEPT ![a] = "started"]
  /\ UNCHANGED consent

\* Several actions close at once when an authority ends.
Close(A) ==
  /\ \A a \in A : phase[a] = "open"
  /\ phase' = [a \in Actions |-> IF a \in A THEN "closed" ELSE phase[a]]
  /\ UNCHANGED consent

Next ==
  \/ \E a \in Actions : Approve(a) \/ Start(a)
  \/ \E A \in SUBSET Actions : Close(A)

Spec == Init /\ [][Next]_<<phase, consent>>
=============================================================================
