------------------------------ MODULE PolicyForm ------------------------------
(***************************************************************************)
(* The form for the device session lifetimes                                 *)
(* (features/SessionPolicyManager.tsx), fenced by the lock of the workspace  *)
(* (features/useAccessLifecycle.ts).  The policy is one row at the host      *)
(* (session_policy.py); administrators change it from any window, and a      *)
(* draft must not replace a policy that the one who drafted it never saw.    *)
(***************************************************************************)
EXTENDS Naturals

CONSTANTS None, Limits,
          MaxEdits, MaxSaves, MaxOthers, MaxUpsets  \* bounds: draft edits, saves,
                     \* others' changes, and locks, failures and reads asked for again

VARIABLES
    host,      \* the policy in force
    policy,    \* the policy the form read last
    draft,     \* the limits in the form; its revision is of the policy it was made from
    dirty, conflict, busy, locked,
    read,      \* the read under way
    save,      \* the save under way
    reviewed,  \* revisions shown in a conflict and accepted to be replaced
    used

form == <<policy, draft, dirty, conflict, busy, locked>>
vars == <<host, form, read, save, reviewed, used>>

Revisions == 1..(MaxSaves + MaxOthers + 1)
Policy == [revision : Revisions, limits : Limits]
Some == CHOOSE l \in Limits : TRUE

TypeOK ==
    /\ host \in Policy /\ {policy, draft} \subseteq Policy \cup {None}
    /\ {dirty, conflict, busy, locked} \subseteq BOOLEAN
    /\ read = None \/ read.answer \in Policy \cup {None}
    /\ save = None \/ (save.sent \in Policy /\ save.wire \in {"sent", "done", "refused", "lost"})
    /\ reviewed \subseteq Revisions

Asked == [answer |-> None]   \* a read without its answer

Init ==
    /\ host = [revision |-> 1, limits |-> Some]
    /\ policy = None /\ draft = None
    /\ dirty = FALSE /\ conflict = FALSE /\ busy = FALSE /\ locked = FALSE
    /\ read = Asked /\ save = None /\ reviewed = {}
    /\ used = [edits |-> 0, saves |-> 0, others |-> 0, upsets |-> 0]

Bound == [edits |-> MaxEdits, saves |-> MaxSaves, others |-> MaxOthers, upsets |-> MaxUpsets]
Spend(what) == used[what] < Bound[what] /\ used' = [used EXCEPT ![what] = @ + 1]

-----------------------------------------------------------------------------
(* Reading.  A read that is begun aborts the one before. *)

hostReads ==
    /\ read = Asked
    /\ read' = [answer |-> host]
    /\ UNCHANGED <<host, form, save, reviewed, used>>

\* A bug: a policy that changed under a draft is no conflict.
ChangedNot(value) == FALSE
Changed(value) == policy = None \/ policy.revision # value.revision

readEnds ==
    /\ read # None /\ read.answer # None
    /\ policy' = read.answer
    /\ draft' = IF dirty THEN draft ELSE read.answer
    /\ conflict' = (dirty /\ (conflict \/ Changed(read.answer)))
    /\ read' = None
    /\ UNCHANGED <<host, dirty, busy, locked, save, reviewed, used>>

readFails ==
    /\ read # None /\ Spend("upsets")
    /\ read' = None
    /\ UNCHANGED <<host, form, save, reviewed>>

refresh ==
    /\ ~busy /\ ~locked /\ Spend("upsets")
    /\ read' = Asked
    /\ UNCHANGED <<host, form, save, reviewed>>

-----------------------------------------------------------------------------
(* Editing and saving. *)

Enabled == draft # None /\ ~busy /\ ~locked

edit(l) ==
    /\ Enabled /\ Spend("edits")
    /\ draft' = [draft EXCEPT !.limits = l]
    /\ dirty' = TRUE
    /\ UNCHANGED <<host, policy, conflict, busy, locked, read, save, reviewed>>

keepDraft ==
    /\ conflict /\ Enabled
    /\ conflict' = FALSE
    /\ reviewed' = reviewed \cup {policy.revision}
    /\ UNCHANGED <<host, policy, draft, dirty, busy, locked, read, save, used>>

useCurrent ==
    /\ conflict /\ Enabled
    /\ draft' = policy /\ dirty' = FALSE /\ conflict' = FALSE
    /\ UNCHANGED <<host, policy, busy, locked, read, save, reviewed, used>>

Free == save = None   \* bound: one save at a time, also across a lock

saveDraft ==
    /\ Enabled /\ ~conflict /\ Free /\ Spend("saves")
    /\ busy' = TRUE
    /\ save' = [sent |-> [draft EXCEPT !.revision = policy.revision], from |-> draft.revision,
                fresh |-> TRUE, wire |-> "sent"]
    /\ UNCHANGED <<host, policy, draft, dirty, conflict, locked, read, reviewed>>

\* A bug: the host replaces the policy whatever its revision.
AnyRevision(q) == TRUE
Current(q) == q.sent.revision = host.revision

hostSaves ==
    /\ save # None /\ save.wire = "sent"
    /\ IF Current(save)
       THEN /\ host' = [revision |-> host.revision + 1, limits |-> save.sent.limits]
            /\ save' = [save EXCEPT !.wire = "done"]
       ELSE save' = [save EXCEPT !.wire = "refused"] /\ UNCHANGED host
    /\ UNCHANGED <<form, read, reviewed, used>>

saveLost ==
    /\ save # None /\ save.wire \in {"sent", "done"} /\ Spend("upsets")
    /\ save' = [save EXCEPT !.wire = "lost"]
    /\ UNCHANGED <<host, form, read, reviewed>>

\* A draft refused because the policy changed stays, and the policy is read again.
saved ==
    /\ save # None /\ save.wire # "sent"
    /\ save' = None
    /\ LET done == save.fresh /\ save.wire = "done"
           now == [save.sent EXCEPT !.revision = @ + 1]
       IN  /\ policy' = IF done THEN now ELSE policy
           /\ draft' = IF done THEN now ELSE draft
           /\ dirty' = (dirty /\ ~done)
           /\ read' = IF save.fresh /\ save.wire = "refused" THEN Asked ELSE read
    /\ busy' = (busy /\ ~save.fresh)
    /\ UNCHANGED <<host, conflict, locked, reviewed, used>>

-----------------------------------------------------------------------------
(* The lock ends what is under way; what was typed stays.  Unlocked, the     *)
(* policy is read again.                                                     *)

lock ==
    /\ ~locked /\ Spend("upsets")
    /\ locked' = TRUE /\ busy' = FALSE /\ read' = None
    /\ save' = IF save = None THEN None ELSE [save EXCEPT !.fresh = FALSE]
    /\ UNCHANGED <<host, policy, draft, dirty, conflict, reviewed>>

unlock ==
    /\ locked
    /\ locked' = FALSE /\ read' = Asked
    /\ UNCHANGED <<host, policy, draft, dirty, conflict, busy, save, reviewed, used>>

othersSave(l) ==
    /\ Spend("others")
    /\ host' = [revision |-> host.revision + 1, limits |-> l]
    /\ UNCHANGED <<form, read, save, reviewed>>

Answers == hostReads \/ readEnds \/ hostSaves \/ saved \/ unlock
Next ==
    \/ Answers \/ readFails \/ refresh \/ keepDraft \/ useCurrent
    \/ saveDraft \/ saveLost \/ lock
    \/ \E l \in Limits : edit(l) \/ othersSave(l)

Spec == Init /\ [][Next]_vars

-----------------------------------------------------------------------------
(* The form replaces only a policy that its draft was made from, or that was  *)
(* shown beside the draft and accepted to be replaced.                        *)
ReplacesSeen == [][
    save # None /\ save.wire = "sent" /\ host' # host /\ used' = used =>
        host.revision \in reviewed \cup {save.from}]_vars
=============================================================================
