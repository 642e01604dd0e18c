------------------------------ MODULE MCDrafts ------------------------------
(***************************************************************************)
(* What a user types, on two small instances: the message box of one        *)
(* conversation in two windows, and a window whose drafts and files return  *)
(* to the main one.  A behaviour is of one of the two; they share no state. *)
(***************************************************************************)
EXTENDS Composer, TLC

CONSTANTS c, d       \* the windows; c is also the conversation of the other instance

Two(a, b) == c :> a @@ d :> b
\* Both windows edit, save and send, and one answer is lost.
Race == [edits |-> Two(1, 1), sends |-> Two(1, 1), saves |-> Two(1, 1), patches |-> Two(0, 0),
         locks |-> 0, faults |-> 1]
\* One window: an edit during a submission, a second submission, and a lock ...
Lock == [edits |-> Two(2, 0), sends |-> Two(2, 0), saves |-> Two(0, 0), patches |-> Two(0, 0),
         locks |-> 1, faults |-> 0]
\* ... or an autosave, lost answers and a change of settings ...
Settings == [Lock EXCEPT !.patches = Two(1, 0), !.saves = Two(1, 0), !.faults = 1, !.locks = 0]
\* ... or a change of settings and a lock ...
LockSettings == [Lock EXCEPT !.patches = Two(1, 0), !.edits = Two(1, 0), !.sends = Two(1, 0)]
\* ... or an autosave, a lost answer, a retry and a lock.
Retry == [Lock EXCEPT !.edits = Two(1, 0), !.saves = Two(1, 0), !.faults = 1]
\* Two windows, and a lock that one of them hears later.
Second == [Race EXCEPT !.sends = Two(0, 0), !.saves = Two(0, 1), !.locks = 1, !.faults = 0]
ComposerBounds == {Race, Lock, Settings, LockSettings, Retry, Second}

Each(m, n) == "main" :> m @@ "child" :> n
Quiet == [drafts |-> Each(0, 0), images |-> Each(0, 0), files |-> Each(0, 0),
          returns |-> 1, faults |-> 1, reloads |-> 1]
\* Both windows write the draft, and the child returns twice.
TwoReturns == [Quiet EXCEPT !.drafts = Each(1, 1), !.returns = 2, !.reloads = 0]
\* Both have an image; pages are closed and opened again.
Images == [Quiet EXCEPT !.drafts = Each(0, 1), !.images = Each(1, 1)]
\* Both edit the file.
Files == [Quiet EXCEPT !.files = Each(1, 2)]
\* The file is edited between two returns.
Again == [Quiet EXCEPT !.files = Each(0, 2), !.returns = 2, !.reloads = 0]
HandoffBounds == {TwoReturns, Images, Files, Again}

VARIABLES
    active,   \* the instance a behaviour is of
    native, handoffHost, handoffDraft, journal, buf, stored, open, pc, attempt, sent,
        toMain, answers, job, work, last, handoffBound, handoffUsed

\* Two windows, one conversation and one file.
Handoff == INSTANCE WindowHandoff WITH Convs <- {c}, Selected <- c, MaxValues <- 3,
        MaxReturns <- 2, Bounds <- HandoffBounds, host <- handoffHost,
        draft <- handoffDraft, bound <- handoffBound, used <- handoffUsed

handoffVars == <<native, handoffHost, handoffDraft, journal, buf, stored, open, pc, attempt,
        sent, toMain, answers, job, work, last, handoffBound, handoffUsed>>
bothVars == <<active, vars, handoffVars>>

\* The other instance stays in one of its initial states.
BothInit ==
    /\ active \in {"composer", "handoff"}
    /\ Init /\ (active = "composer" \/ bound = Lock)
    /\ Handoff!Init /\ (active = "handoff" \/ (native /\ handoffBound = Files))

BothNext ==
    /\ UNCHANGED active
    /\ IF active = "composer" THEN Next ELSE UNCHANGED vars
    /\ IF active = "handoff" THEN Handoff!Next ELSE UNCHANGED handoffVars

BothSpec ==
    /\ BothInit /\ [][BothNext]_bothVars
    /\ \A w \in Windows : WF_vars(active = "composer" /\ Progress(w))
    /\ \A n \in Ids :
         WF_vars(active = "composer" /\ (joinChain(n) \/ post(n) \/ hostTakes(n) \/ settle(n)))
    /\ WF_handoffVars(active = "handoff" /\ Handoff!Child)

-----------------------------------------------------------------------------
\* Nothing the user wrote or attached and did not replace is lost by a window's
\* return, refused, late or repeated (window-state.ts, App.tsx).
NothingIsLost == Handoff!TypeOK /\ Handoff!NothingIsLost

\* A submission ends, whatever is lost or locked meanwhile, and so does a
\* window's return, whatever the main window does (session-writes.ts,
\* browser-windows.ts).
WaitingEnds ==
    /\ active = "composer" => SubmissionEnds
    /\ active = "handoff" => Handoff!ReturnEnds
=============================================================================
