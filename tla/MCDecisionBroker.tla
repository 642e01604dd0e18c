-------------------------- MODULE MCDecisionBroker --------------------------
(***************************************************************************)
(* Two callers compete for one routine action; a third proposes a           *)
(* consequential one.                                                       *)
(***************************************************************************)
EXTENDS DecisionBroker, TLC
CONSTANTS edit, send, c1, c2, c3, r1, r2, none

MCActions == {edit, send}
MCCallers == {c1, c2, c3}
MCProposes == c1 :> edit @@ c2 :> edit @@ c3 :> send
MCSensitive == {send}
MCReviewers == {r1, r2}

Symmetry == Permutations({c1, c2}) \cup Permutations({r1, r2})
=============================================================================
