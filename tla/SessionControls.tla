---------------------------- MODULE SessionControls ----------------------------
(***************************************************************************)
(* The controls of a conversation's next turn                                *)
(* (desktop/workspace/src/features/SessionModelControls.tsx,                 *)
(* ReasoningPicker.tsx, SessionSettings.tsx, SessionModePicker.tsx,          *)
(* ChatConnectionSetup.tsx, patch of Chat.tsx).  Every control writes the    *)
(* conversation's settings through one queue, each write first reading the   *)
(* revision it is against.  The views show a copy of the conversation that   *)
(* is refreshed now and then, while other windows change the same settings.  *)
(* Views open and close, and conversations are switched, with writes under   *)
(* way.                                                                       *)
(***************************************************************************)
EXTENDS Naturals, Sequences

CONSTANTS
    Chats, Native,      \* conversations; those of an engine that names efforts
    Skills, TopEffort, None,
    MaxViews, MaxWrites, MaxOthers    \* bounds

Accounts == {"a", "b"}
ModelsOf(account) == CASE account = "a" -> {"m"} [] account = "b" -> {"n"} [] OTHER -> {}
Models == {"m", "n"}
Offered(model) == IF model = "m" THEN 1..TopEffort ELSE {TopEffort}   \* the efforts of a model; 0 is its default
Efforts == 0..TopEffort

VARIABLES
    host,           \* conversation -> what the host has
    seen,           \* conversation -> what the window last read
    shown, panel,   \* the conversation shown, and the dialog open over it
    picker,         \* the effort slider
    setup,          \* the form that connects a conversation to an account
    savingProfile,
    skillList,      \* the skills that can be chosen: None, read or shown
    queue,          \* conversation -> its writes, in order
    counts

vars == <<host, seen, shown, panel, picker, setup, savingProfile, skillList, queue, counts>>

Session == [revision : 0..MaxWrites + MaxOthers, running : BOOLEAN, account : Accounts \cup {"none"}, model : Models,
            effort : Efforts, skills : SUBSET Skills, mode : {"ask", "agent"}, profile : {"quick", "balanced"}]
Panels == {None, "model", "agent", "tools"}

TypeOK ==
    /\ host \in [Chats -> Session] /\ seen \in [Chats -> Session]
    /\ shown \in Chats /\ panel \in Panels
    /\ picker \in [gen : Nat, pending : BOOLEAN, catalogue : {None, "read", "offered", "stale"}, draft : Efforts \cup {None}]
    /\ setup \in [gen : Nat, busy : BOOLEAN, saved : BOOLEAN, pick : Accounts]
    /\ savingProfile \in BOOLEAN
    /\ skillList \in {None, "read", "shown"}
    /\ counts \in [views : 0..MaxViews, writes : 0..MaxWrites, others : 0..MaxOthers]
    /\ \A c \in Chats : \A i \in 1..Len(queue[c]) :
          LET w == queue[c][i] IN
            /\ w.kind \in {"effort", "connect", "profile", "patch"} /\ w.gen \in Nat
            /\ w.of \in Session /\ w.base \in Session \cup {None}
            /\ w.pc \in {"read", "send", "patch", "done"} /\ w.answer \in {None, "ok", "failed"}

\* A record with some of its fields changed.
With(session, changes) == [f \in DOMAIN session |-> IF f \in DOMAIN changes THEN changes[f] ELSE session[f]]
Revised(session, changes) == With([session EXCEPT !.revision = @ + 1], changes)

Begin(c) == [revision |-> 0, running |-> FALSE, account |-> "none", model |-> "m", effort |-> 0,
             skills |-> {}, mode |-> "ask", profile |-> "balanced"]

NoSetup(gen) == [gen |-> gen, busy |-> FALSE, saved |-> FALSE, pick |-> "a"]

Init ==
    /\ host = [c \in Chats |-> Begin(c)] /\ seen = host
    /\ shown = (CHOOSE c \in Chats : c \in Native) /\ panel = None
    /\ picker = [gen |-> 0, pending |-> FALSE, catalogue |-> None, draft |-> None]
    /\ setup = NoSetup(0)
    /\ savingProfile = FALSE /\ skillList = None
    /\ queue = [c \in Chats |-> <<>>]
    /\ counts = [views |-> 0, writes |-> 0, others |-> 0]

-----------------------------------------------------------------------------
(* Views. *)

\* What the slider's capabilities are read for.
selection(c, session) == <<c, session.model, session.account>>

\* A slider that has just appeared, or whose selection has changed: what it
\* awaited is no longer its own.
Fresh(c, opened) ==
    [gen |-> picker.gen + 1, pending |-> FALSE, draft |-> None,
     catalogue |-> IF opened = "model" /\ c \in Native THEN "read" ELSE None]

chatConnectionProblem(c, session) == c \notin Native /\ ModelsOf(session.account) = {}
SetupShown(c, session) == chatConnectionProblem(c, session) /\ ~session.running

Viewed == counts.views < MaxViews /\ counts' = [counts EXCEPT !.views = @ + 1]

\* Another conversation: its dialogs are closed, the settings at their first section.
show(c) ==
    /\ c # shown /\ Viewed
    /\ shown' = c
    /\ panel' = IF panel \in {"agent", "tools"} THEN "agent" ELSE None
    /\ picker' = Fresh(c, None)
    /\ setup' = NoSetup(setup.gen + 1)
    /\ savingProfile' = FALSE /\ skillList' = None
    /\ UNCHANGED <<host, seen, queue>>

open(p) ==
    /\ p \in {"model", "agent"} /\ panel = None /\ Viewed
    /\ panel' = p
    /\ picker' = IF p = "model" THEN Fresh(shown, p) ELSE picker
    /\ savingProfile' = FALSE
    /\ UNCHANGED <<host, seen, shown, setup, skillList, queue>>

close ==
    /\ panel # None /\ Viewed
    /\ panel' = None
    /\ picker' = IF panel = "model" THEN Fresh(shown, None) ELSE picker
    /\ savingProfile' = FALSE /\ skillList' = None
    /\ UNCHANGED <<host, seen, shown, setup, queue>>

setSection(p) ==
    /\ p \in {"agent", "tools"} \ {panel} /\ panel \in {"agent", "tools"}
    /\ panel' = p
    /\ skillList' = IF p = "tools" THEN "read" ELSE None
    /\ UNCHANGED <<host, seen, shown, picker, setup, savingProfile, queue, counts>>

\* The slider's capabilities come, current or stale.
catalogueArrives ==
    /\ picker.catalogue = "read"
    /\ \E how \in {"offered", "stale"} : picker' = [picker EXCEPT !.catalogue = how]
    /\ UNCHANGED <<host, seen, shown, panel, setup, savingProfile, skillList, queue, counts>>

skillsArrive ==
    /\ skillList = "read" /\ skillList' = "shown"
    /\ UNCHANGED <<host, seen, shown, panel, picker, setup, savingProfile, queue, counts>>

\* The window reads a conversation again.
refreshed(c) ==
    /\ seen[c] # host[c]
    /\ seen' = [seen EXCEPT ![c] = host[c]]
    /\ picker' = IF c = shown /\ panel = "model" /\ selection(c, host[c]) # selection(c, seen[c])
                 THEN Fresh(c, panel) ELSE picker
    /\ setup' = IF c = shown /\ SetupShown(c, seen[c]) /\ ~SetupShown(c, host[c]) THEN NoSetup(setup.gen + 1) ELSE setup
    /\ UNCHANGED <<host, shown, panel, savingProfile, skillList, queue, counts>>

-----------------------------------------------------------------------------
(* Controls.  A turn that runs keeps its settings. *)

Now == seen[shown]

\* A write joins the conversation's queue.
Write(kind, changes, gen) ==
    /\ counts.writes < MaxWrites
    /\ counts' = [counts EXCEPT !.writes = @ + 1]
    /\ queue' = [queue EXCEPT ![shown] = Append(@,
         [kind |-> kind, changes |-> changes, gen |-> gen, of |-> Now, base |-> None, pc |-> "read", answer |-> None])]

chooseModel(m) ==
    /\ panel = "model" /\ ~Now.running /\ m # Now.model
    /\ m \in IF shown \in Native THEN Models ELSE ModelsOf(Now.account)
    /\ Write("patch", [model |-> m, effort |-> 0], 0)
    /\ UNCHANGED <<host, seen, shown, panel, picker, setup, savingProfile, skillList>>

chooseAccount(a) ==
    /\ panel = "model" /\ shown \notin Native /\ ~Now.running /\ a # Now.account
    /\ Write("patch", [account |-> a, model |-> CHOOSE m \in ModelsOf(a) : TRUE, effort |-> 0], 0)
    /\ UNCHANGED <<host, seen, shown, panel, picker, setup, savingProfile, skillList>>

setMode(m) ==
    /\ panel = None /\ ~Now.running /\ m # Now.mode
    /\ Write("patch", [mode |-> m], 0)
    /\ UNCHANGED <<host, seen, shown, panel, picker, setup, savingProfile, skillList>>

setProfile(p) ==
    /\ panel = "agent" /\ ~Now.running /\ ~savingProfile /\ p # Now.profile
    /\ savingProfile' = TRUE
    /\ Write("profile", [profile |-> p], 0)
    /\ UNCHANGED <<host, seen, shown, panel, picker, setup, skillList>>

toggleSkill(k) ==
    /\ panel = "tools" /\ skillList = "shown" /\ ~Now.running
    /\ Write("patch", [skills |-> IF k \in Now.skills THEN Now.skills \ {k} ELSE Now.skills \cup {k}], 0)
    /\ UNCHANGED <<host, seen, shown, panel, picker, setup, savingProfile, skillList>>

Slider == panel = "model" /\ shown \in Native /\ ~Now.running /\ picker.catalogue = "offered"

slide(e) ==
    /\ Slider /\ ~picker.pending /\ e \in Offered(Now.model) \cup {0} /\ e # picker.draft
    /\ picker' = [picker EXCEPT !.draft = e]
    /\ UNCHANGED <<host, seen, shown, panel, setup, savingProfile, skillList, queue, counts>>

\* A bug: letting go and leaving the slider are two choices.
AlwaysFree == TRUE
Free == ~picker.pending

\* Letting go of the slider, or leaving it.
choose ==
    /\ Slider /\ Free /\ picker.draft # None /\ picker.draft # Now.effort
    /\ picker' = [picker EXCEPT !.pending = TRUE]
    /\ Write("effort", [effort |-> picker.draft], picker.gen)
    /\ UNCHANGED <<host, seen, shown, panel, setup, savingProfile, skillList>>

pick(a) ==
    /\ panel = None /\ SetupShown(shown, Now) /\ ~setup.busy /\ a # setup.pick
    /\ setup' = [setup EXCEPT !.pick = a, !.saved = FALSE]
    /\ UNCHANGED <<host, seen, shown, panel, picker, savingProfile, skillList, queue, counts>>

connect ==
    /\ panel = None /\ SetupShown(shown, Now) /\ ~setup.busy /\ ~setup.saved
    /\ setup' = [setup EXCEPT !.busy = TRUE]
    /\ Write("connect", [account |-> setup.pick, model |-> CHOOSE m \in ModelsOf(setup.pick) : TRUE, effort |-> 0], setup.gen)
    /\ UNCHANGED <<host, seen, shown, panel, picker, savingProfile, skillList>>

-----------------------------------------------------------------------------
(* Writes: one at a time in each conversation, reading then writing. *)

First(c) == queue[c][1]
FirstBecomes(c, w) == queue' = [queue EXCEPT ![c][1] = w]
Refused(w) == [w EXCEPT !.pc = "done", !.answer = "failed"]

\* A bug: whatever comes back is the slider's.
OwnsAny(w) == TRUE
Owns(w) == CASE w.kind = "effort" -> w.gen = picker.gen
             [] w.kind = "connect" -> w.gen = setup.gen
             [] OTHER -> TRUE

\* A bug: the effort is written whatever the model has become.
AnyModel(w) == TRUE
SameModel(w) == w.base.model = w.of.model /\ w.base.account = w.of.account

hostReads(c) ==
    /\ queue[c] # <<>> /\ First(c).pc = "read"
    /\ First(c).kind = "effort" => Owns(First(c))
    /\ FirstBecomes(c, [First(c) EXCEPT !.base = host[c], !.pc = "send"])
    /\ UNCHANGED <<host, seen, shown, panel, picker, setup, savingProfile, skillList, counts>>

\* An effort whose slider is gone, or was for another model, is not written.
send(c) ==
    /\ queue[c] # <<>> /\ First(c).pc = "send"
    /\ LET w == First(c) IN
         FirstBecomes(c, IF w.kind = "effort" /\ (~Owns(w) \/ ~SameModel(w))
                         THEN Refused(w) ELSE [w EXCEPT !.pc = "patch"])
    /\ UNCHANGED <<host, seen, shown, panel, picker, setup, savingProfile, skillList, counts>>

abandon(c) ==
    /\ queue[c] # <<>> /\ First(c).pc = "read" /\ First(c).kind = "effort" /\ ~Owns(First(c))
    /\ FirstBecomes(c, Refused(First(c)))
    /\ UNCHANGED <<host, seen, shown, panel, picker, setup, savingProfile, skillList, counts>>

\* The host takes changes to the revision it has, and none while a turn runs.
update_session(c) ==
    /\ queue[c] # <<>> /\ First(c).pc = "patch"
    /\ LET accepted == First(c).base.revision = host[c].revision /\ ~host[c].running IN
         /\ host' = IF accepted THEN [host EXCEPT ![c] = Revised(@, First(c).changes)] ELSE host
         /\ FirstBecomes(c, IF accepted THEN [First(c) EXCEPT !.pc = "done", !.answer = "ok"] ELSE Refused(First(c)))
    /\ UNCHANGED <<seen, shown, panel, picker, setup, savingProfile, skillList, counts>>

settle(c) ==
    /\ queue[c] # <<>> /\ First(c).pc = "done"
    /\ queue' = [queue EXCEPT ![c] = Tail(@)]
    /\ LET w == First(c) IN
         /\ picker' = IF w.kind = "effort" /\ Owns(w) THEN [picker EXCEPT !.pending = FALSE, !.draft = None] ELSE picker
         /\ setup' = IF w.kind = "connect" /\ Owns(w)
                     THEN [setup EXCEPT !.busy = FALSE, !.saved = (w.answer = "ok")] ELSE setup
         /\ savingProfile' = IF w.kind = "profile" THEN FALSE ELSE savingProfile
    /\ UNCHANGED <<host, seen, shown, panel, skillList, counts>>

\* Another window writes settings, or a draft; a turn begins or ends.
Other == counts.others < MaxOthers /\ counts' = [counts EXCEPT !.others = @ + 1]
otherWindow(c) ==
    /\ Other
    /\ \E changes \in {[model |-> m, effort |-> 0] : m \in IF c \in Native THEN Models ELSE {}}
                       \cup {[skills |-> s] : s \in SUBSET Skills} \cup {[f \in {} |-> 0]} :
         /\ ~host[c].running
         /\ host' = [host EXCEPT ![c] = Revised(@, changes)]
    /\ UNCHANGED <<seen, shown, panel, picker, setup, savingProfile, skillList, queue>>
turn(c) ==
    /\ Other
    /\ host' = [host EXCEPT ![c].running = ~@]
    /\ UNCHANGED <<seen, shown, panel, picker, setup, savingProfile, skillList, queue>>

Next ==
    \/ \E p \in Panels : open(p) \/ setSection(p)
    \/ close \/ catalogueArrives \/ skillsArrive \/ choose \/ connect
    \/ \E m \in Models : chooseModel(m)
    \/ \E a \in Accounts : chooseAccount(a) \/ pick(a)
    \/ \E m \in {"ask", "agent"} : setMode(m)
    \/ \E p \in {"quick", "balanced"} : setProfile(p)
    \/ \E k \in Skills : toggleSkill(k)
    \/ \E e \in Efforts : slide(e)
    \/ \E c \in Chats : \/ show(c) \/ refreshed(c) \/ hostReads(c) \/ send(c) \/ abandon(c) \/ update_session(c) \/ settle(c)
                        \/ otherWindow(c) \/ turn(c)

Spec == Init /\ [][Next]_vars

-----------------------------------------------------------------------------
(* Properties. *)

\* An effort is written to the conversation.
WritesEffort(c) == update_session(c) /\ host'[c] # host[c] /\ First(c).kind = "effort"

\* An effort is written only to a conversation that still has the model and
\* account it was chosen for, whatever other windows change between the reading
\* of the capabilities and the write: "refuses a change if the current
\* conversation moved to a different model after the slider opened"
\* (reasoning-picker.test.tsx:46; ReasoningPicker.tsx:40-50).
EffortForItsModel ==
    [][\A c \in Chats : WritesEffort(c) =>
          host[c].model = First(c).of.model /\ host[c].account = First(c).of.account]_vars

\* The slider is held exactly while one write of its own is under way, and the
\* connection form likewise, however often they went and came back: "fences
\* A→B→A responses and prevents duplicate commits from pointer release and blur"
\* (reasoning-picker.test.tsx:60), and chat-connection-setup.test.tsx:50.
Own(kind, gen) == {p \in Chats \X (1..MaxWrites) :
                     /\ p[2] <= Len(queue[p[1]])
                     /\ queue[p[1]][p[2]].kind = kind /\ queue[p[1]][p[2]].gen = gen}
HeldByItsOwn ==
    /\ picker.pending <=> Own("effort", picker.gen) # {}
    /\ setup.busy <=> Own("connect", setup.gen) # {}
    /\ \A u, v \in Own("effort", picker.gen) : u = v

\* "Server/cross-window conflicts still surface" (session-writes.ts:3): choosing
\* a skill never takes away another that the user had not been shown.
SkillsKept ==
    [][\A c \in Chats :
          (update_session(c) /\ "skills" \in DOMAIN First(c).changes) =>
              \A k \in host[c].skills \ host'[c].skills : k \in First(c).of.skills]_vars

=============================================================================
