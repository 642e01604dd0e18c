--------------------------- MODULE MCConversation ---------------------------
(***************************************************************************)
(* The panels of a conversation: its cached turns, its activity, its queue,  *)
(* its images, its settings, the team behind it and the tasks of the team,   *)
(* the dialog that hands it to the main agent, the way from one conversation *)
(* to another, and the workbench beside it: editor, language server and      *)
(* reviewed changes.  A behaviour has one of the panels on screen; they      *)
(* share no state.                                                          *)
(*                                                                         *)
(* Each panel comes first, with the invariant it keeps and the lemmas that   *)
(* say so; then the panels together, what they promise, and the theorems.    *)
(***************************************************************************)
EXTENDS Integers, Sequences, FiniteSets, FiniteSetTheorems, SequenceTheorems, TLAPS

CONSTANTS
    None,
    Chats, Occupied, Native,     \* conversations, those with an agent at work, those of
                                 \* an engine that names its efforts
    CachedTurns, FirstTurns, ReportTurns, refreshCohort, PageRows,  \* the cached turns
    Limit, Pictures,             \* the images of a message
    Skills, TopEffort,           \* the settings of a conversation
    NumChildren, People, Owner, MAX_SOURCES,   \* the team behind a conversation
    Roots, FirstRoot, Parallel, Total,         \* the tasks of the team
    Main, New,                   \* the main agent's conversation, and one to be created
    \* Bounds.  The last four are shared by panels: what the user does, what
    \* the panel asks the host, and what others do, or the network, once or more.
    MaxTasks, MaxRows, MaxImages, MaxKeys, MaxLost, MaxViews, MaxWrites, MaxOthers, MaxActs,
    MaxOrders, MaxTeams, MaxEdits, MaxDialogs, MaxMishaps, MaxIds, MaxPosts, MaxChanges,
    MaxSignIns, MaxTexts, MaxReads, MaxRequests, MaxHistories,
    MaxMoves, MaxCalls, MaxUpsets, MaxEvents

\* A message with its images, what a chat's entry of the registry holds, and
\* a message being sent.
ImageMessages == [key : Nat, attachments : Seq(Nat)]
ImageEntries == [attachments : Seq(Nat) \cup {None}, submission : ImageMessages \cup {None}]
ImageFlights == [message : ImageMessages, answer : {"ok", "lost", None}]
\* A request of the adoption.
AdoptionRequests == [of : Chats, id : Nat, rev : Nat, fresh : BOOLEAN, pc : {"sent", "ended"},
                     wire : {"sent", "done", "conflict", "lost"}]

\* Bounds and limits are numbers, some conversation's engine names its efforts, and
\* None is none of what is remembered.
ASSUME ConversationAssumption ==
    /\ {CachedTurns, FirstTurns, refreshCohort, PageRows, Limit, TopEffort, NumChildren,
        MAX_SOURCES, Parallel, Total, MaxTasks, MaxRows, MaxImages, MaxKeys, MaxLost, MaxViews,
        MaxWrites, MaxOthers, MaxActs, MaxOrders, MaxTeams, MaxEdits, MaxDialogs, MaxMishaps,
        MaxIds, MaxPosts, MaxChanges, MaxSignIns, MaxTexts, MaxReads, MaxRequests,
        MaxHistories, MaxMoves, MaxCalls, MaxUpsets, MaxEvents} \subseteq Nat
    /\ FirstRoot \in Roots /\ \E c \in Chats : c \in Native
    /\ None \notin ImageMessages /\ None \notin ImageEntries /\ None \notin ImageFlights
    /\ None \notin AdoptionRequests

VARIABLES
    active,   \* the panel on screen
    cacheHost, cacheGeneration, record, flights, historyFlights, cacheUsed,
    log, task, tool, worker, runSeen, saved, fetch, failures,
    latest, state, rows, settings, queueSession, queueGeneration, observing, queueSeen,
        stopping, stops, focus, interrupt, items, queueRead, review, queueCall, busy,
        queueUsed,
    sessionId, attachments, pendingPrompt, drafts, imagesReading, imagesFlight, posted,
        images, keys, lost,
    controlsHost, controlsSeen, shown, panel, picker, setup, savingProfile, skillList,
        queue, counts,
    child, status, snapRead, received, sourceRead, act, events,
    work, teams, sup, tree, tasksRead, order, squad, mishaps,
    chat, completed, adoptionPending, dialog, adoptionReading, post, upsets,
    auth, placeEpoch, locked, placeSelected, manager, placeSession, list, primary,
        intent, placeFlight, calls, load, poll, registering, placeUsed,
    editorHost, others, place, visible, target, buffers, editorSelected, split,
        editorReads, saves, lists, asks, request, accepted, editorPending, texts,
        editorUsed,
    changesHost, scope, paused, foreground, snapshot, choice, result, rendered,
        changesReads, diffs, serial, changesEpoch, changesUsed,
    text, here, languageSelected, client, opened, timer, wire, doc, languageCall,
        languageUsed

-----------------------------------------------------------------------------
(* The settings of a conversation (SessionControls). *)

\* The settings of the next turn.
Controls == INSTANCE SessionControls WITH host <- controlsHost, seen <- controlsSeen
controlsVars == <<controlsHost, controlsSeen, shown, panel, picker, setup, savingProfile,
        skillList, queue, counts>>

\* A sequence, of whatever is in it.
SeqOf(q) == q \in Seq({q[i] : i \in 1..Len(q)})

LEMMA SeqIsOf == ASSUME NEW S, NEW q \in Seq(S) PROVE SeqOf(q) /\ Len(q) \in Nat
  <1>1. Len(q) \in Nat /\ q = [i \in 1..Len(q) |-> q[i]]
    OBVIOUS
  <1>2. PICK T : T = {q[i] : i \in 1..Len(q)}
    OBVIOUS
  <1>3. \A i \in 1..Len(q) : q[i] \in T
    BY <1>2
  <1>4. q \in [1..Len(q) -> T]
    BY <1>1, <1>3
  <1>5. q \in Seq(T)
    BY <1>1, <1>4
  <1> QED
    BY <1>1, <1>2, <1>5 DEF SeqOf

LEMMA SeqTailed == ASSUME NEW q, SeqOf(q), q # <<>>, NEW r, r = Tail(q)
    PROVE  /\ SeqOf(r) /\ Len(q) \in Nat \ {0} /\ Len(r) = Len(q) - 1
           /\ \A i \in 1..Len(r) : r[i] = q[i + 1]
  <1>1. PICK S : q \in Seq(S)
    BY DEF SeqOf
  <1>2. r \in Seq(S) /\ Len(q) # 0
    BY <1>1
  <1>3. SeqOf(r)
    BY <1>2, SeqIsOf
  <1> QED
    BY <1>1, <1>2, <1>3

LEMMA SeqReplaced == ASSUME NEW q, SeqOf(q), q # <<>>, NEW e, NEW r, r = [q EXCEPT ![1] = e]
    PROVE  /\ SeqOf(r) /\ Len(q) \in Nat \ {0} /\ Len(r) = Len(q) /\ r[1] = e
           /\ \A i \in 1..Len(q) : i # 1 => r[i] = q[i]
  <1>1. PICK S : q \in Seq(S)
    BY DEF SeqOf
  <1>2. q \in Seq(S \cup {e}) /\ Len(q) # 0 /\ 1 \in 1..Len(q)
    BY <1>1
  <1>3. r \in Seq(S \cup {e}) /\ Len(r) = Len(q) /\ r[1] = e
        /\ \A i \in 1..Len(q) : i # 1 => r[i] = q[i]
    BY <1>2
  <1>4. SeqOf(r)
    BY <1>3, SeqIsOf
  <1> QED
    BY <1>2, <1>3, <1>4

ControlsPickers(p) == [gen : Nat, pending : BOOLEAN, catalogue : {p.catalogue}, draft : {p.draft}]
ControlsSetups(p) == [gen : Nat, busy : BOOLEAN, saved : {p.saved}, pick : {p.pick}]
ControlsCounts(n) == [views : {n.views}, writes : Nat, others : {n.others}]
ControlsWrites(w) == [kind : {w.kind}, changes : {w.changes}, gen : {w.gen}, of : {w.of}, base : {w.base},
                      pc : {w.pc}, answer : {w.answer}]
ControlsSession(s) == /\ s = [f \in DOMAIN s |-> s[f]] /\ {"revision", "model", "account", "running"} \subseteq DOMAIN s
                      /\ s.revision \in Nat
ControlsQueues(q) == q = [c \in Chats |-> q[c]] /\ \A c \in Chats : SeqOf(q[c]) /\ Len(q[c]) \in Nat
ControlsShape ==
    /\ picker \in ControlsPickers(picker) /\ setup \in ControlsSetups(setup) /\ counts \in ControlsCounts(counts)
    /\ counts.writes <= MaxWrites /\ shown \in Chats
    /\ ControlsQueues(queue) /\ \A c \in Chats : Len(queue[c]) <= counts.writes
    /\ controlsHost = [c \in Chats |-> controlsHost[c]]
    /\ \A c \in Chats : ControlsSession(controlsHost[c])

\* A control of generation g with writes of its kind in the queues q is held
\* while one of them is under way; there is no other, and none of a later one.
ControlsOwn(q, kind, g, c, i) == i \in 1..Len(q[c]) /\ q[c][i].kind = kind /\ q[c][i].gen = g
ControlsHeld(q, kind, g, held) ==
    /\ held <=> \E c \in Chats : \E i \in Nat : ControlsOwn(q, kind, g, c, i)
    /\ \A c, d \in Chats : \A i, j \in Nat :
         ControlsOwn(q, kind, g, c, i) /\ ControlsOwn(q, kind, g, d, j) => c = d /\ i = j
    /\ \A c \in Chats : \A i \in 1..Len(q[c]) : q[c][i].kind = kind => q[c][i].gen \in Nat /\ q[c][i].gen <= g

\* A write is against a revision that was the host's, and an effort is sent
\* for the model it was chosen for.
ControlsBased(w, h) ==
    /\ w \in ControlsWrites(w) /\ "revision" \notin DOMAIN w.changes
    /\ w.pc \in {"send", "patch"} =>
         /\ w.base.revision \in Nat /\ w.base.revision <= h.revision
         /\ w.base.revision = h.revision => w.base.model = h.model /\ w.base.account = h.account
    /\ w.pc = "patch" /\ w.kind = "effort" => Controls!SameModel(w)
ControlsBases == \A c \in Chats : \A i \in 1..Len(queue[c]) : ControlsBased(queue[c][i], controlsHost[c])

ControlsInv == /\ ControlsShape /\ ControlsBases
               /\ ControlsHeld(queue, "effort", picker.gen, picker.pending)
               /\ ControlsHeld(queue, "connect", setup.gen, setup.busy)

LEMMA ControlsInitInv == Controls!Init => ControlsInv
  <1> SUFFICES ASSUME Controls!Init PROVE ControlsInv
    OBVIOUS
  <1>1. /\ controlsHost = [c \in Chats |-> Controls!Begin(c)]
        /\ picker = [gen |-> 0, pending |-> FALSE, catalogue |-> None, draft |-> None]
        /\ setup = Controls!NoSetup(0) /\ queue = [c \in Chats |-> <<>>]
        /\ counts = [views |-> 0, writes |-> 0, others |-> 0] /\ shown \in Chats
    BY ConversationAssumption DEF Controls!Init
  <1>2. picker \in ControlsPickers(picker) /\ picker.gen = 0 /\ picker.pending = FALSE
    BY <1>1 DEF ControlsPickers
  <1>3. setup \in ControlsSetups(setup) /\ setup.gen = 0 /\ setup.busy = FALSE
    BY <1>1 DEF ControlsSetups, Controls!NoSetup
  <1>4. counts \in ControlsCounts(counts) /\ counts.writes = 0 /\ MaxWrites \in Nat
    BY <1>1, ConversationAssumption DEF ControlsCounts
  <1>5. \A c \in Chats : SeqOf(queue[c]) /\ Len(queue[c]) = 0
    <2>1. <<>> \in Seq({}) /\ Len(<<>>) = 0
      OBVIOUS
    <2> QED
      BY <1>1, <2>1, SeqIsOf
  <1>6. \A c \in Chats : ControlsSession(controlsHost[c])
    <2>1. ASSUME NEW c \in Chats PROVE ControlsSession(Controls!Begin(c))
      BY DEF ControlsSession, Controls!Begin
    <2> QED
      BY <1>1, <2>1
  <1>7. ControlsShape
    BY <1>1, <1>2, <1>3, <1>4, <1>5, <1>6 DEF ControlsShape, ControlsQueues
  <1> QED
    BY <1>2, <1>3, <1>5, <1>7 DEF ControlsInv, ControlsBases, ControlsHeld, ControlsOwn

\* A control that is replaced is free.
LEMMA HeldFresh == ASSUME NEW q, NEW kind, NEW g \in Nat, NEW h, ControlsHeld(q, kind, g, h)
    PROVE  ControlsHeld(q, kind, g + 1, FALSE)
  <1>1. ASSUME NEW c \in Chats, NEW i \in 1..Len(q[c]), q[c][i].kind = kind
        PROVE  q[c][i].gen \in Nat /\ q[c][i].gen <= g
    BY <1>1 DEF ControlsHeld
  <1>2. \A c \in Chats, i \in Nat : ~ControlsOwn(q, kind, g + 1, c, i)
    <2> SUFFICES ASSUME NEW c \in Chats, NEW i \in Nat, ControlsOwn(q, kind, g + 1, c, i) PROVE FALSE
      OBVIOUS
    <2>1. i \in 1..Len(q[c]) /\ q[c][i].kind = kind /\ q[c][i].gen = g + 1
      BY DEF ControlsOwn
    <2> QED
      BY <1>1, <2>1
  <1>3. \A c \in Chats : \A i \in 1..Len(q[c]) :
          q[c][i].kind = kind => q[c][i].gen \in Nat /\ q[c][i].gen <= g + 1
    BY <1>1
  <1> QED
    BY <1>2, <1>3 DEF ControlsHeld

\* Writes that go on as what they are.
LEMMA HeldSame ==
    ASSUME NEW q, NEW r, NEW kind, NEW g, NEW h, ControlsHeld(q, kind, g, h),
           \A c \in Chats : /\ Len(r[c]) = Len(q[c])
                            /\ \A i \in 1..Len(q[c]) : r[c][i].kind = q[c][i].kind /\ r[c][i].gen = q[c][i].gen
    PROVE  ControlsHeld(r, kind, g, h)
  <1>1. \A c \in Chats, i \in Nat : ControlsOwn(r, kind, g, c, i) <=> ControlsOwn(q, kind, g, c, i)
    BY DEF ControlsOwn
  <1>2. ASSUME NEW c \in Chats, NEW i \in 1..Len(r[c]), r[c][i].kind = kind
        PROVE  r[c][i].gen \in Nat /\ r[c][i].gen <= g
    BY <1>2 DEF ControlsHeld
  <1> QED
    BY <1>1, <1>2 DEF ControlsHeld

\* A write joins a queue.
ControlsJoined(q, r, c, e) ==
    /\ Len(q[c]) \in Nat /\ Len(r[c]) = Len(q[c]) + 1 /\ r[c][Len(q[c]) + 1] = e
    /\ \A i \in 1..Len(q[c]) : r[c][i] = q[c][i]
    /\ \A d \in Chats : d # c => r[d] = q[d]

LEMMA HeldJoined ==
    ASSUME NEW q, NEW r, NEW c \in Chats, NEW e, ControlsJoined(q, r, c, e), NEW kind, NEW g, NEW h,
           ControlsHeld(q, kind, g, h), e.kind # kind
    PROVE  ControlsHeld(r, kind, g, h)
  <1>1. \A d \in Chats, i \in Nat : ControlsOwn(r, kind, g, d, i) <=> ControlsOwn(q, kind, g, d, i)
    BY DEF ControlsJoined, ControlsOwn
  <1>2. ASSUME NEW d \in Chats, NEW i \in 1..Len(r[d]), r[d][i].kind = kind
        PROVE  r[d][i].gen \in Nat /\ r[d][i].gen <= g
    <2>1. d # c \/ i \in 1..Len(q[c])
      BY <1>2 DEF ControlsJoined
    <2>2. i \in 1..Len(q[d]) /\ r[d][i] = q[d][i]
      BY <2>1 DEF ControlsJoined
    <2> QED
      BY <1>2, <2>2 DEF ControlsHeld
  <1> QED
    BY <1>1, <1>2 DEF ControlsHeld

LEMMA HeldTaken ==
    ASSUME NEW q, NEW r, NEW c \in Chats, NEW e, ControlsJoined(q, r, c, e), NEW kind, NEW g \in Nat,
           ControlsHeld(q, kind, g, FALSE), e.kind = kind, e.gen = g
    PROVE  ControlsHeld(r, kind, g, TRUE)
  <1>1. \A d \in Chats, i \in Nat : ~ControlsOwn(q, kind, g, d, i)
    BY DEF ControlsHeld
  <1>2. \A d \in Chats, i \in Nat : ControlsOwn(r, kind, g, d, i) <=> d = c /\ i = Len(q[c]) + 1
    BY <1>1 DEF ControlsJoined, ControlsOwn
  <1>3. ASSUME NEW d \in Chats, NEW i \in 1..Len(r[d]), r[d][i].kind = kind
        PROVE  r[d][i].gen \in Nat /\ r[d][i].gen <= g
    <2>1. CASE d = c /\ i = Len(q[c]) + 1
      BY <2>1 DEF ControlsJoined
    <2>2. CASE ~(d = c /\ i = Len(q[c]) + 1)
      <3>1. i \in 1..Len(q[d]) /\ r[d][i] = q[d][i]
        BY <2>2 DEF ControlsJoined
      <3> QED
        BY <1>3, <3>1 DEF ControlsHeld
    <2> QED
      BY <2>1, <2>2
  <1>4. Len(q[c]) + 1 \in Nat
    BY DEF ControlsJoined
  <1> QED
    BY <1>2, <1>3, <1>4 DEF ControlsHeld

\* The first write of a queue leaves it.
ControlsGone(q, r, c) ==
    /\ Len(q[c]) \in Nat \ {0} /\ Len(r[c]) = Len(q[c]) - 1
    /\ \A i \in 1..Len(r[c]) : r[c][i] = q[c][i + 1]
    /\ \A d \in Chats : d # c => r[d] = q[d]

LEMMA HeldGone ==
    ASSUME NEW q, NEW r, NEW c \in Chats, ControlsGone(q, r, c), NEW kind, NEW g, NEW h,
           ControlsHeld(q, kind, g, h)
    PROVE  /\ ~ControlsOwn(q, kind, g, c, 1) => ControlsHeld(r, kind, g, h)
           /\ ControlsOwn(q, kind, g, c, 1) => ControlsHeld(r, kind, g, FALSE)
  <1>1. \A d \in Chats, i \in Nat : ControlsOwn(r, kind, g, d, i) <=>
            IF d = c THEN i # 0 /\ ControlsOwn(q, kind, g, c, i + 1) ELSE ControlsOwn(q, kind, g, d, i)
    BY DEF ControlsGone, ControlsOwn
  <1>2. ASSUME NEW d \in Chats, NEW i \in 1..Len(r[d]), r[d][i].kind = kind
        PROVE  r[d][i].gen \in Nat /\ r[d][i].gen <= g
    <2>1. CASE d = c
      <3>1. i + 1 \in 1..Len(q[c]) /\ r[c][i] = q[c][i + 1]
        BY <2>1 DEF ControlsGone
      <3> QED
        BY <1>2, <2>1, <3>1 DEF ControlsHeld
    <2> QED
      BY <1>2, <2>1 DEF ControlsGone, ControlsHeld
  <1>3. ASSUME NEW d \in Chats, NEW e \in Chats, NEW i \in Nat, NEW j \in Nat,
               ControlsOwn(r, kind, g, d, i), ControlsOwn(r, kind, g, e, j)
        PROVE  d = e /\ i = j
    <2>1. /\ i + 1 \in Nat /\ j + 1 \in Nat
          /\ \A x, y \in Chats : \A m, n \in Nat :
               ControlsOwn(q, kind, g, x, m) /\ ControlsOwn(q, kind, g, y, n) => x = y /\ m = n
      BY DEF ControlsHeld
    <2>2. CASE d = c /\ e = c
      BY <1>1, <1>3, <2>1, <2>2
    <2>3. CASE d = c /\ e # c
      BY <1>1, <1>3, <2>1, <2>3
    <2>4. CASE d # c /\ e = c
      BY <1>1, <1>3, <2>1, <2>4
    <2>5. CASE d # c /\ e # c
      BY <1>1, <1>3, <2>1, <2>5
    <2> QED
      BY <2>2, <2>3, <2>4, <2>5
  <1>4. ASSUME ControlsOwn(q, kind, g, c, 1) PROVE ControlsHeld(r, kind, g, FALSE)
    <2>1. \A d \in Chats, i \in Nat : ControlsOwn(q, kind, g, d, i) => d = c /\ i = 1
      BY <1>4 DEF ControlsHeld
    <2>2. \A d \in Chats, i \in Nat : ~ControlsOwn(r, kind, g, d, i)
      BY <1>1, <2>1
    <2> QED
      BY <1>2, <2>2 DEF ControlsHeld
  <1>5. ASSUME ~ControlsOwn(q, kind, g, c, 1) PROVE ControlsHeld(r, kind, g, h)
    <2>1. ASSUME NEW d \in Chats, NEW i \in Nat, ControlsOwn(q, kind, g, d, i)
          PROVE  \E j \in Nat : ControlsOwn(r, kind, g, d, j)
      <3>1. CASE d = c
        <4>1. i # 1 /\ i \in 1..Len(q[c])
          BY <1>5, <2>1, <3>1 DEF ControlsOwn
        <4>2. PICK j \in Nat : i = j + 1 /\ j # 0
          BY <4>1 DEF ControlsGone
        <4> QED
          BY <1>1, <2>1, <3>1, <4>2
      <3> QED
        BY <1>1, <2>1, <3>1
    <2>2. ASSUME NEW d \in Chats, NEW i \in Nat, ControlsOwn(r, kind, g, d, i)
          PROVE  \E j \in Nat : ControlsOwn(q, kind, g, d, j)
      BY <1>1, <2>2
    <2>3. (\E d \in Chats : \E i \in Nat : ControlsOwn(r, kind, g, d, i)) <=>
          (\E d \in Chats : \E i \in Nat : ControlsOwn(q, kind, g, d, i))
      BY <2>1, <2>2
    <2> QED
      BY <1>2, <1>3, <2>3 DEF ControlsHeld
  <1> QED
    BY <1>4, <1>5

ControlsPickerKept == /\ picker' \in ControlsPickers(picker')
                      /\ picker'.gen = picker.gen /\ picker'.pending = picker.pending
ControlsSetupKept == /\ setup' \in ControlsSetups(setup')
                     /\ setup'.gen = setup.gen /\ setup'.busy = setup.busy
\* Views come and go: a control stays as it is or is replaced.
LEMMA ControlsViewed ==
    ASSUME ControlsInv, UNCHANGED <<controlsHost, queue>>, counts' \in ControlsCounts(counts'),
           counts'.writes = counts.writes, shown' \in Chats,
           ControlsPickerKept \/ \E c, p : picker' = Controls!Fresh(c, p),
           ControlsSetupKept \/ setup' = Controls!NoSetup(setup.gen + 1)
    PROVE  ControlsInv'
  <1>1. picker.gen \in Nat /\ setup.gen \in Nat
    BY DEF ControlsInv, ControlsShape, ControlsPickers, ControlsSetups
  <1>2. picker' \in ControlsPickers(picker') /\ ControlsHeld(queue, "effort", picker'.gen, picker'.pending)
    <2>1. CASE ControlsPickerKept
      BY <2>1 DEF ControlsPickerKept, ControlsInv
    <2>2. CASE \E c, p : picker' = Controls!Fresh(c, p)
      <3>1. PICK cat : picker' = [gen |-> picker.gen + 1, pending |-> FALSE, draft |-> None, catalogue |-> cat]
        BY <2>2 DEF Controls!Fresh
      <3>2. picker' \in ControlsPickers(picker') /\ picker'.gen = picker.gen + 1 /\ picker'.pending = FALSE
        BY <1>1, <3>1 DEF ControlsPickers
      <3> QED
        BY <1>1, <3>2, HeldFresh DEF ControlsInv
    <2> QED
      BY <2>1, <2>2
  <1>3. setup' \in ControlsSetups(setup') /\ ControlsHeld(queue, "connect", setup'.gen, setup'.busy)
    <2>1. CASE ControlsSetupKept
      BY <2>1 DEF ControlsSetupKept, ControlsInv
    <2>2. CASE setup' = Controls!NoSetup(setup.gen + 1)
      <3>1. setup' \in ControlsSetups(setup') /\ setup'.gen = setup.gen + 1 /\ setup'.busy = FALSE
        BY <1>1, <2>2 DEF ControlsSetups, Controls!NoSetup
      <3> QED
        BY <1>1, <3>1, HeldFresh DEF ControlsInv
    <2> QED
      BY <2>1, <2>2
  <1> QED
    BY <1>2, <1>3 DEF ControlsInv, ControlsShape, ControlsBases, ControlsQueues

LEMMA ControlsKept ==
    ASSUME ControlsInv
    PROVE  /\ UNCHANGED picker => ControlsPickerKept
           /\ UNCHANGED setup => ControlsSetupKept
           /\ UNCHANGED shown => shown' \in Chats
           /\ UNCHANGED counts => counts' \in ControlsCounts(counts') /\ counts'.writes = counts.writes
           /\ Controls!Viewed => counts' \in ControlsCounts(counts') /\ counts'.writes = counts.writes
  <1>1. picker \in ControlsPickers(picker) /\ setup \in ControlsSetups(setup) /\ counts \in ControlsCounts(counts)
        /\ shown \in Chats
    BY DEF ControlsInv, ControlsShape
  <1>2. Controls!Viewed => counts' \in ControlsCounts(counts') /\ counts'.writes = counts.writes
    BY <1>1 DEF Controls!Viewed, ControlsCounts
  <1> QED
    BY <1>1, <1>2 DEF ControlsPickerKept, ControlsSetupKept

LEMMA ControlsViews ==
    ASSUME ControlsInv,
           \/ \E c \in Chats : Controls!show(c) \/ Controls!refreshed(c)
           \/ \E p \in Controls!Panels : Controls!open(p) \/ Controls!setSection(p)
           \/ Controls!close \/ Controls!catalogueArrives \/ Controls!skillsArrive
           \/ \E e \in Controls!Efforts : Controls!slide(e)
           \/ \E a \in Controls!Accounts : Controls!pick(a)
    PROVE  ControlsInv'
  <1>1. ASSUME NEW c \in Chats, Controls!show(c) PROVE ControlsInv'
    <2>1. /\ UNCHANGED <<controlsHost, queue>> /\ Controls!Viewed /\ shown' = c
          /\ picker' = Controls!Fresh(c, None) /\ setup' = Controls!NoSetup(setup.gen + 1)
      BY <1>1 DEF Controls!show
    <2> QED
      BY <2>1, ControlsKept, ControlsViewed
  <1>2. ASSUME NEW c \in Chats, Controls!refreshed(c) PROVE ControlsInv'
    <2>1. /\ UNCHANGED <<controlsHost, shown, queue, counts>>
          /\ UNCHANGED picker \/ picker' = Controls!Fresh(c, panel)
          /\ UNCHANGED setup \/ setup' = Controls!NoSetup(setup.gen + 1)
      BY <1>2 DEF Controls!refreshed
    <2> QED
      BY <2>1, ControlsKept, ControlsViewed
  <1>3. ASSUME NEW p, Controls!open(p) PROVE ControlsInv'
    <2>1. /\ UNCHANGED <<controlsHost, shown, queue, setup>> /\ Controls!Viewed
          /\ UNCHANGED picker \/ \E c : picker' = Controls!Fresh(c, p)
      BY <1>3 DEF Controls!open
    <2> QED
      BY <2>1, ControlsKept, ControlsViewed
  <1>4. ASSUME NEW p, Controls!setSection(p) PROVE ControlsInv'
    <2>1. UNCHANGED <<controlsHost, shown, queue, setup, picker, counts>>
      BY <1>4 DEF Controls!setSection
    <2> QED
      BY <2>1, ControlsKept, ControlsViewed
  <1>5. CASE Controls!close
    <2>1. /\ UNCHANGED <<controlsHost, shown, queue, setup>> /\ Controls!Viewed
          /\ UNCHANGED picker \/ \E c : picker' = Controls!Fresh(c, None)
      BY <1>5 DEF Controls!close
    <2> QED
      BY <2>1, ControlsKept, ControlsViewed
  <1>6. CASE Controls!catalogueArrives
    <2>1. /\ UNCHANGED <<controlsHost, shown, queue, setup, counts>>
          /\ \E how : picker' = [picker EXCEPT !.catalogue = how]
      BY <1>6 DEF Controls!catalogueArrives
    <2>2. ControlsPickerKept
      BY <2>1 DEF ControlsInv, ControlsShape, ControlsPickers, ControlsPickerKept
    <2> QED
      BY <2>1, <2>2, ControlsKept, ControlsViewed
  <1>7. CASE Controls!skillsArrive
    <2>1. UNCHANGED <<controlsHost, shown, queue, setup, picker, counts>>
      BY <1>7 DEF Controls!skillsArrive
    <2> QED
      BY <2>1, ControlsKept, ControlsViewed
  <1>8. ASSUME NEW e, Controls!slide(e) PROVE ControlsInv'
    <2>1. UNCHANGED <<controlsHost, shown, queue, setup, counts>> /\ picker' = [picker EXCEPT !.draft = e]
      BY <1>8 DEF Controls!slide
    <2>2. ControlsPickerKept
      BY <2>1 DEF ControlsInv, ControlsShape, ControlsPickers, ControlsPickerKept
    <2> QED
      BY <2>1, <2>2, ControlsKept, ControlsViewed
  <1>9. ASSUME NEW a, Controls!pick(a) PROVE ControlsInv'
    <2>1. UNCHANGED <<controlsHost, shown, queue, picker, counts>> /\ setup' = [setup EXCEPT !.pick = a, !.saved = FALSE]
      BY <1>9 DEF Controls!pick
    <2>2. ControlsSetupKept
      BY <2>1 DEF ControlsInv, ControlsShape, ControlsSetups, ControlsSetupKept
    <2> QED
      BY <2>1, <2>2, ControlsKept, ControlsViewed
  <1> QED
    BY <1>1, <1>2, <1>3, <1>4, <1>5, <1>6, <1>7, <1>8, <1>9

\* A write joins the queue of the conversation shown.
LEMMA ControlsWriteJoins ==
    ASSUME ControlsInv, shown \in Chats, NEW kind, NEW changes, NEW g, Controls!Write(kind, changes, g),
           "revision" \notin DOMAIN changes
    PROVE  \E e : /\ ControlsJoined(queue, queue', shown, e) /\ ControlsQueues(queue')
                  /\ e \in ControlsWrites(e) /\ e.kind = kind /\ e.gen = g /\ e.pc = "read" /\ e.changes = changes
                  /\ counts' \in ControlsCounts(counts') /\ counts'.writes = counts.writes + 1
                  /\ counts.writes < MaxWrites
  <1>1. PICK e : e = [kind |-> kind, changes |-> changes, gen |-> g, of |-> Controls!Now, base |-> None,
                      pc |-> "read", answer |-> None]
    OBVIOUS
  <1>2. e \in ControlsWrites(e) /\ e.kind = kind /\ e.gen = g /\ e.pc = "read" /\ e.changes = changes
    BY <1>1 DEF ControlsWrites
  <1>3. PICK r : r = Append(queue[shown], e)
    OBVIOUS
  <1>4. queue' = [queue EXCEPT ![shown] = r]
    BY <1>1, <1>3 DEF Controls!Write
  <1>5. /\ counts.writes < MaxWrites /\ counts' \in ControlsCounts(counts')
        /\ counts'.writes = counts.writes + 1
    BY DEF Controls!Write, ControlsCounts, ControlsInv, ControlsShape
  <1>6. ControlsQueues(queue)
    BY DEF ControlsInv, ControlsShape
  <1>7. /\ SeqOf(r) /\ Len(queue[shown]) \in Nat /\ Len(r) = Len(queue[shown]) + 1
        /\ r[Len(queue[shown]) + 1] = e /\ \A i \in 1..Len(queue[shown]) : r[i] = queue[shown][i]
    <2>1. PICK q : q = queue[shown]
      OBVIOUS
    <2>2. SeqOf(q) /\ r = Append(q, e)
      BY <1>3, <1>6, <2>1 DEF ControlsQueues
    <2>3. /\ SeqOf(r) /\ Len(q) \in Nat /\ Len(r) = Len(q) + 1 /\ r[Len(q) + 1] = e
          /\ \A i \in 1..Len(q) : r[i] = q[i]
      <3>1. PICK S : q \in Seq(S)
        BY <2>2 DEF SeqOf
      <3>2. q \in Seq(S \cup {e}) /\ r \in Seq(S \cup {e})
        BY <2>2, <3>1
      <3>3. SeqOf(r)
        BY <3>2, SeqIsOf
      <3> QED
        BY <2>2, <3>2, <3>3
    <2> QED
      BY <2>1, <2>3
  <1>8. ControlsJoined(queue, queue', shown, e)
    BY <1>4, <1>6, <1>7 DEF ControlsJoined, ControlsQueues
  <1>9. ControlsQueues(queue')
    BY <1>4, <1>6, <1>7 DEF ControlsQueues
  <1> QED
    BY <1>2, <1>5, <1>8, <1>9

\* What a joining write leaves true.
LEMMA ControlsJoins ==
    ASSUME ControlsInv, shown \in Chats, NEW e, ControlsJoined(queue, queue', shown, e), ControlsQueues(queue'),
           e \in ControlsWrites(e), e.pc = "read", "revision" \notin DOMAIN e.changes,
           counts' \in ControlsCounts(counts'), counts'.writes = counts.writes + 1, counts.writes < MaxWrites,
           picker' \in ControlsPickers(picker'), setup' \in ControlsSetups(setup'), UNCHANGED <<controlsHost, shown>>
    PROVE  ControlsShape' /\ ControlsBases'
  <1>1. counts.writes \in Nat /\ MaxWrites \in Nat
    BY ConversationAssumption DEF ControlsInv, ControlsShape, ControlsCounts
  <1>2. ASSUME NEW c \in Chats PROVE Len(queue'[c]) <= counts'.writes
    <2>1. Len(queue[c]) \in Nat /\ Len(queue[c]) <= counts.writes
      BY DEF ControlsInv, ControlsShape, ControlsQueues
    <2>2. Len(queue'[c]) \in {Len(queue[c]), Len(queue[c]) + 1}
      BY DEF ControlsJoined
    <2> QED
      BY <1>1, <2>1, <2>2
  <1>3. ControlsShape'
    BY <1>1, <1>2 DEF ControlsInv, ControlsShape
  <1>4. ASSUME NEW c \in Chats, NEW i \in 1..Len(queue'[c]) PROVE ControlsBased(queue'[c][i], controlsHost[c])
    <2>1. CASE c = shown /\ i = Len(queue[c]) + 1
      <3>1. queue'[c][i] = e
        BY <2>1 DEF ControlsJoined
      <3> QED
        BY <3>1 DEF ControlsBased
    <2>2. CASE ~(c = shown /\ i = Len(queue[c]) + 1)
      <3>1. i \in 1..Len(queue[c]) /\ queue'[c][i] = queue[c][i]
        BY <2>2 DEF ControlsJoined
      <3> QED
        BY <3>1 DEF ControlsInv, ControlsBases
    <2> QED
      BY <2>1, <2>2
  <1> QED
    BY <1>3, <1>4 DEF ControlsBases

\* A write of no control.
LEMMA ControlsPatches ==
    ASSUME ControlsInv, shown \in Chats, NEW kind, kind \notin {"effort", "connect"}, NEW changes, NEW g,
           Controls!Write(kind, changes, g), "revision" \notin DOMAIN changes,
           UNCHANGED <<controlsHost, shown, picker, setup>>
    PROVE  ControlsInv'
  <1>1. PICK e :  /\ ControlsJoined(queue, queue', shown, e) /\ ControlsQueues(queue')
                  /\ e \in ControlsWrites(e) /\ e.kind = kind /\ e.gen = g /\ e.pc = "read" /\ e.changes = changes
                  /\ counts' \in ControlsCounts(counts') /\ counts'.writes = counts.writes + 1
                  /\ counts.writes < MaxWrites
    BY ControlsWriteJoins
  <1>2. ControlsPickers(picker')= ControlsPickers(picker) /\ picker \in ControlsPickers(picker)
        /\ setup \in ControlsSetups(setup)
    BY DEF ControlsInv, ControlsShape
  <1>3. ControlsShape' /\ ControlsBases'
    BY <1>1, <1>2, ControlsJoins
  <1>4. ControlsHeld(queue', "effort", picker.gen, picker.pending)
    BY <1>1, HeldJoined DEF ControlsInv
  <1>5. ControlsHeld(queue', "connect", setup.gen, setup.busy)
    BY <1>1, HeldJoined DEF ControlsInv
  <1> QED
    BY <1>3, <1>4, <1>5 DEF ControlsInv

LEMMA ControlsChoose == ASSUME ControlsInv, Controls!choose PROVE ControlsInv'
  <1>1. /\ ~picker.pending /\ picker' = [picker EXCEPT !.pending = TRUE] /\ UNCHANGED <<controlsHost, shown, setup>>
        /\ Controls!Write("effort", [effort |-> picker.draft], picker.gen)
    BY DEF Controls!choose, Controls!Free
  <1>2. shown \in Chats /\ picker \in ControlsPickers(picker) /\ setup \in ControlsSetups(setup)
    BY DEF ControlsInv, ControlsShape
  <1>3. picker' \in ControlsPickers(picker') /\ picker'.gen = picker.gen /\ picker'.pending = TRUE
        /\ picker.gen \in Nat /\ picker.pending = FALSE
    BY <1>1, <1>2 DEF ControlsPickers
  <1>4. PICK changes : changes = [effort |-> picker.draft]
    OBVIOUS
  <1>9. "revision" \notin DOMAIN changes
    BY <1>4
  <1>5. PICK e :  /\ ControlsJoined(queue, queue', shown, e) /\ ControlsQueues(queue')
                  /\ e \in ControlsWrites(e) /\ e.kind = "effort" /\ e.gen = picker.gen /\ e.pc = "read"
                  /\ e.changes = changes
                  /\ counts' \in ControlsCounts(counts') /\ counts'.writes = counts.writes + 1
                  /\ counts.writes < MaxWrites
    BY <1>1, <1>2, <1>4, <1>9, ControlsWriteJoins
  <1>6. ControlsShape' /\ ControlsBases'
    BY <1>1, <1>2, <1>3, <1>5, <1>9, ControlsJoins
  <1>7. ControlsHeld(queue', "effort", picker.gen, TRUE)
    BY <1>2, <1>3, <1>5, HeldTaken DEF ControlsInv
  <1>8. ControlsHeld(queue', "connect", setup.gen, setup.busy)
    BY <1>2, <1>5, HeldJoined DEF ControlsInv
  <1> QED
    BY <1>1, <1>3, <1>6, <1>7, <1>8 DEF ControlsInv

LEMMA ControlsConnect == ASSUME ControlsInv, Controls!connect PROVE ControlsInv'
  <1>1. PICK m :
        /\ ~setup.busy /\ setup' = [setup EXCEPT !.busy = TRUE] /\ UNCHANGED <<controlsHost, shown, picker>>
        /\ Controls!Write("connect", [account |-> setup.pick, model |-> m, effort |-> 0], setup.gen)
    BY DEF Controls!connect
  <1>2. shown \in Chats /\ picker \in ControlsPickers(picker) /\ setup \in ControlsSetups(setup)
    BY DEF ControlsInv, ControlsShape
  <1>3. setup' \in ControlsSetups(setup') /\ setup'.gen = setup.gen /\ setup'.busy = TRUE
        /\ setup.gen \in Nat /\ setup.busy = FALSE
    BY <1>1, <1>2 DEF ControlsSetups
  <1>4. PICK changes : changes = [account |-> setup.pick, model |-> m, effort |-> 0]
    OBVIOUS
  <1>9. "revision" \notin DOMAIN changes
    BY <1>4
  <1>5. PICK e :  /\ ControlsJoined(queue, queue', shown, e) /\ ControlsQueues(queue')
                  /\ e \in ControlsWrites(e) /\ e.kind = "connect" /\ e.gen = setup.gen /\ e.pc = "read"
                  /\ e.changes = changes
                  /\ counts' \in ControlsCounts(counts') /\ counts'.writes = counts.writes + 1
                  /\ counts.writes < MaxWrites
    BY <1>1, <1>2, <1>4, <1>9, ControlsWriteJoins
  <1>6. ControlsShape' /\ ControlsBases'
    BY <1>1, <1>2, <1>3, <1>5, <1>9, ControlsJoins
  <1>7. ControlsHeld(queue', "connect", setup.gen, TRUE)
    BY <1>2, <1>3, <1>5, HeldTaken DEF ControlsInv
  <1>8. ControlsHeld(queue', "effort", picker.gen, picker.pending)
    BY <1>2, <1>5, HeldJoined DEF ControlsInv
  <1> QED
    BY <1>1, <1>3, <1>6, <1>7, <1>8 DEF ControlsInv

LEMMA ControlsSettings ==
    ASSUME ControlsInv,
           \/ \E m \in Controls!Models : Controls!chooseModel(m)
           \/ \E a \in Controls!Accounts : Controls!chooseAccount(a)
           \/ \E m \in {"ask", "agent"} : Controls!setMode(m)
           \/ \E p \in {"quick", "balanced"} : Controls!setProfile(p)
           \/ \E k \in Skills : Controls!toggleSkill(k)
    PROVE  ControlsInv'
  <1>1. shown \in Chats /\ UNCHANGED <<controlsHost, shown, picker, setup>>
    BY DEF ControlsInv, ControlsShape, Controls!chooseModel, Controls!chooseAccount, Controls!setMode, Controls!setProfile,
       Controls!toggleSkill
  <1>2. ASSUME NEW m, Controls!chooseModel(m) PROVE ControlsInv'
    <2>1. Controls!Write("patch", [model |-> m, effort |-> 0], 0)
      BY <1>2 DEF Controls!chooseModel
    <2>2. PICK x : x = [model |-> m, effort |-> 0]
      OBVIOUS
    <2>3. "revision" \notin DOMAIN x
      BY <2>2
    <2> QED
      BY <1>1, <2>1, <2>2, <2>3, ControlsPatches
  <1>3. ASSUME NEW a, Controls!chooseAccount(a) PROVE ControlsInv'
    <2>1. PICK m : Controls!Write("patch", [account |-> a, model |-> m, effort |-> 0], 0)
      BY <1>3 DEF Controls!chooseAccount
    <2>2. PICK x : x = [account |-> a, model |-> m, effort |-> 0]
      OBVIOUS
    <2>3. "revision" \notin DOMAIN x
      BY <2>2
    <2> QED
      BY <1>1, <2>1, <2>2, <2>3, ControlsPatches
  <1>4. ASSUME NEW m, Controls!setMode(m) PROVE ControlsInv'
    <2>1. Controls!Write("patch", [mode |-> m], 0)
      BY <1>4 DEF Controls!setMode
    <2>2. PICK x : x = [mode |-> m]
      OBVIOUS
    <2>3. "revision" \notin DOMAIN x
      BY <2>2
    <2> QED
      BY <1>1, <2>1, <2>2, <2>3, ControlsPatches
  <1>5. ASSUME NEW p, Controls!setProfile(p) PROVE ControlsInv'
    <2>1. Controls!Write("profile", [profile |-> p], 0)
      BY <1>5 DEF Controls!setProfile
    <2>2. PICK x : x = [profile |-> p]
      OBVIOUS
    <2>3. "revision" \notin DOMAIN x
      BY <2>2
    <2> QED
      BY <1>1, <2>1, <2>2, <2>3, ControlsPatches
  <1>6. ASSUME NEW k, Controls!toggleSkill(k) PROVE ControlsInv'
    <2>1. PICK z : Controls!Write("patch", [skills |-> z], 0)
      BY <1>6 DEF Controls!toggleSkill
    <2>2. PICK x : x = [skills |-> z]
      OBVIOUS
    <2>3. "revision" \notin DOMAIN x
      BY <2>2
    <2> QED
      BY <1>1, <2>1, <2>2, <2>3, ControlsPatches
  <1> QED
    BY <1>2, <1>3, <1>4, <1>5, <1>6

\* The first write of a conversation's queue is replaced by e: read, sent or answered.
LEMMA ControlsFirst ==
    ASSUME ControlsInv, NEW c \in Chats, queue[c] # <<>>, NEW e, e \in ControlsWrites(e),
           e.kind = queue[c][1].kind, e.gen = queue[c][1].gen,
           Controls!FirstBecomes(c, e)
    PROVE  /\ ControlsQueues(queue') /\ 1 \in 1..Len(queue[c]) /\ queue'[c][1] = e
           /\ \A d \in Chats : Len(queue'[d]) = Len(queue[d])
           /\ \A d \in Chats : \A i \in 1..Len(queue[d]) : d # c \/ i # 1 => queue'[d][i] = queue[d][i]
           /\ ControlsHeld(queue', "effort", picker.gen, picker.pending)
           /\ ControlsHeld(queue', "connect", setup.gen, setup.busy)
  <1>1. PICK q, r : q = queue[c] /\ r = [q EXCEPT ![1] = e]
    OBVIOUS
  <1>2. ControlsQueues(queue)
    BY DEF ControlsInv, ControlsShape
  <1>3. SeqOf(q) /\ q # <<>> /\ queue' = [queue EXCEPT ![c] = r]
    BY <1>1, <1>2 DEF ControlsQueues, Controls!FirstBecomes
  <1>4. /\ SeqOf(r) /\ Len(q) \in Nat \ {0} /\ Len(r) = Len(q) /\ r[1] = e
        /\ \A i \in 1..Len(q) : i # 1 => r[i] = q[i]
    BY <1>1, <1>3, SeqReplaced
  <1>5. queue'[c] = r /\ \A d \in Chats : d # c => queue'[d] = queue[d]
    BY <1>2, <1>3 DEF ControlsQueues
  <1>6. ControlsQueues(queue')
    BY <1>2, <1>3, <1>4 DEF ControlsQueues
  <1>7. \A d \in Chats : Len(queue'[d]) = Len(queue[d])
    BY <1>1, <1>4, <1>5
  <1>8. \A d \in Chats : \A i \in 1..Len(queue[d]) : d # c \/ i # 1 => queue'[d][i] = queue[d][i]
    BY <1>1, <1>4, <1>5
  <1>9. \A d \in Chats : \A i \in 1..Len(queue[d]) :
            queue'[d][i].kind = queue[d][i].kind /\ queue'[d][i].gen = queue[d][i].gen
    BY <1>1, <1>4, <1>5, <1>8
  <1>10. /\ ControlsHeld(queue', "effort", picker.gen, picker.pending)
         /\ ControlsHeld(queue', "connect", setup.gen, setup.busy)
    BY <1>7, <1>9, HeldSame DEF ControlsInv
  <1> QED
    BY <1>1, <1>4, <1>5, <1>6, <1>7, <1>8, <1>10

\* What of it keeps the invariant while the host's conversation stays.
LEMMA ControlsFirstKeeps ==
    ASSUME ControlsInv, NEW c \in Chats, queue[c] # <<>>, NEW e, ControlsBased(e, controlsHost[c]),
           e.kind = queue[c][1].kind, e.gen = queue[c][1].gen,
           Controls!FirstBecomes(c, e),
           UNCHANGED <<controlsHost, shown, picker, setup, counts>>
    PROVE  ControlsInv'
  <1>1. e \in ControlsWrites(e)
    BY DEF ControlsBased
  <1>2. /\ ControlsQueues(queue') /\ queue'[c][1] = e
        /\ \A d \in Chats : Len(queue'[d]) = Len(queue[d])
        /\ \A d \in Chats : \A i \in 1..Len(queue[d]) : d # c \/ i # 1 => queue'[d][i] = queue[d][i]
        /\ ControlsHeld(queue', "effort", picker.gen, picker.pending)
        /\ ControlsHeld(queue', "connect", setup.gen, setup.busy)
    BY <1>1, ControlsFirst
  <1>3. ControlsShape'
    BY <1>2 DEF ControlsInv, ControlsShape
  <1>4. ControlsBases'
    BY <1>2 DEF ControlsInv, ControlsBases
  <1> QED
    BY <1>2, <1>3, <1>4 DEF ControlsInv

LEMMA ControlsWriteIs == ASSUME ControlsInv, NEW c \in Chats, queue[c] # <<>>
    PROVE  /\ 1 \in 1..Len(queue[c]) /\ ControlsBased(queue[c][1], controlsHost[c])
           /\ queue = [d \in Chats |-> queue[d]] /\ SeqOf(queue[c])
           /\ ControlsSession(controlsHost[c]) /\ controlsHost = [d \in Chats |-> controlsHost[d]]
  <1>1. SeqOf(queue[c]) /\ queue = [d \in Chats |-> queue[d]]
        /\ ControlsSession(controlsHost[c]) /\ controlsHost = [d \in Chats |-> controlsHost[d]]
    BY DEF ControlsInv, ControlsShape, ControlsQueues
  <1>2. 1 \in 1..Len(queue[c])
    <2>1. PICK q, S : q = queue[c] /\ q \in Seq(S)
      BY <1>1 DEF SeqOf
    <2>2. Len(q) # 0 /\ Len(q) \in Nat
      BY <2>1
    <2> QED
      BY <2>1, <2>2
  <1> QED
    BY <1>1, <1>2 DEF ControlsInv, ControlsBases

LEMMA ControlsReads == ASSUME ControlsInv, NEW c \in Chats, Controls!hostReads(c) PROVE ControlsInv'
  <1>1. queue[c] # <<>> /\ UNCHANGED <<controlsHost, shown, picker, setup, counts>>
    BY DEF Controls!hostReads
  <1>2. ControlsBased(queue[c][1], controlsHost[c]) /\ ControlsSession(controlsHost[c])
    BY <1>1, ControlsWriteIs
  <1>3. PICK w, h : w = queue[c][1] /\ h = controlsHost[c]
    OBVIOUS
  <1>4. PICK e : e = [w EXCEPT !.base = h, !.pc = "send"]
    OBVIOUS
  <1>5. e \in ControlsWrites(e) /\ e.kind = w.kind /\ e.gen = w.gen /\ e.changes = w.changes /\ e.base = h
        /\ e.pc = "send"
    BY <1>2, <1>3, <1>4 DEF ControlsBased, ControlsWrites
  <1>6. h.revision \in Nat
    BY <1>2, <1>3 DEF ControlsSession
  <1>7. ControlsBased(e, h)
    BY <1>2, <1>3, <1>5, <1>6 DEF ControlsBased
  <1>8. Controls!FirstBecomes(c, e)
    BY <1>3, <1>4 DEF Controls!hostReads, Controls!First
  <1> QED
    BY <1>1, <1>3, <1>5, <1>7, <1>8, ControlsFirstKeeps

LEMMA ControlsSends == ASSUME ControlsInv, NEW c \in Chats, Controls!send(c) \/ Controls!abandon(c) PROVE ControlsInv'
  <1>1. queue[c] # <<>> /\ UNCHANGED <<controlsHost, shown, picker, setup, counts>>
    BY DEF Controls!send, Controls!abandon
  <1>2. PICK w : w = queue[c][1]
    OBVIOUS
  <1>3. ControlsBased(w, controlsHost[c])
    BY <1>1, <1>2, ControlsWriteIs
  <1>4. ASSUME Controls!FirstBecomes(c, Controls!Refused(w)) PROVE ControlsInv'
    <2>1. PICK e : e = [w EXCEPT !.pc = "done", !.answer = "failed"]
      OBVIOUS
    <2>2. e \in ControlsWrites(e) /\ e.kind = w.kind /\ e.gen = w.gen /\ e.changes = w.changes /\ e.pc = "done"
      BY <1>3, <2>1 DEF ControlsBased, ControlsWrites
    <2>3. ControlsBased(e, controlsHost[c])
      BY <1>3, <2>2 DEF ControlsBased
    <2>4. Controls!FirstBecomes(c, e)
      BY <1>4, <2>1 DEF Controls!Refused
    <2> QED
      BY <1>1, <1>2, <2>2, <2>3, <2>4, ControlsFirstKeeps
  <1>5. ASSUME w.pc = "send", w.kind = "effort" => Controls!SameModel(w),
               Controls!FirstBecomes(c, [w EXCEPT !.pc = "patch"])
        PROVE  ControlsInv'
    <2>1. PICK e : e = [w EXCEPT !.pc = "patch"]
      OBVIOUS
    <2>2. /\ e \in ControlsWrites(e) /\ e.kind = w.kind /\ e.gen = w.gen /\ e.changes = w.changes
          /\ e.base = w.base /\ e.of = w.of /\ e.pc = "patch"
      BY <1>3, <2>1 DEF ControlsBased, ControlsWrites
    <2>3. ControlsBased(e, controlsHost[c])
      BY <1>3, <1>5, <2>2 DEF ControlsBased, Controls!SameModel
    <2>4. Controls!FirstBecomes(c, e)
      BY <1>5, <2>1
    <2> QED
      BY <1>1, <1>2, <2>2, <2>3, <2>4, ControlsFirstKeeps
  <1>6. CASE Controls!abandon(c)
    BY <1>2, <1>4, <1>6 DEF Controls!abandon, Controls!First
  <1>7. CASE Controls!send(c)
    <2>1. CASE w.kind = "effort" /\ (~Controls!Owns(w) \/ ~Controls!SameModel(w))
      BY <1>2, <1>4, <1>7, <2>1 DEF Controls!send, Controls!First
    <2>2. CASE ~(w.kind = "effort" /\ (~Controls!Owns(w) \/ ~Controls!SameModel(w)))
      BY <1>2, <1>5, <1>7, <2>2 DEF Controls!send, Controls!First
    <2> QED
      BY <2>1, <2>2
  <1> QED
    BY <1>6, <1>7

\* A conversation of the host with some settings changed, or a turn begun or ended.
LEMMA ControlsRevised ==
    ASSUME NEW s, ControlsSession(s), NEW changes, "revision" \notin DOMAIN changes,
           NEW t, t = Controls!Revised(s, changes)
    PROVE  ControlsSession(t) /\ t.revision = s.revision + 1
  <1>1. PICK u : u = [s EXCEPT !.revision = @ + 1]
    OBVIOUS
  <1>2. u = [f \in DOMAIN s |-> u[f]] /\ DOMAIN u = DOMAIN s /\ u.revision = s.revision + 1
    BY <1>1 DEF ControlsSession
  <1>3. t = [f \in DOMAIN u |-> IF f \in DOMAIN changes THEN changes[f] ELSE u[f]]
    BY <1>1 DEF Controls!With, Controls!Revised
  <1>4. DOMAIN t = DOMAIN s /\ t["revision"] = u["revision"] /\ t = [f \in DOMAIN t |-> t[f]]
    BY <1>2, <1>3 DEF ControlsSession
  <1> QED
    BY <1>2, <1>4 DEF ControlsSession

\* What the host's changes leave of a write under way.
LEMMA ControlsStale ==
    ASSUME NEW w, NEW s, NEW t, ControlsSession(s), ControlsBased(w, s),
           \/ t.revision = s.revision + 1
           \/ t.revision = s.revision /\ t.model = s.model /\ t.account = s.account
    PROVE  ControlsBased(w, t)
  BY DEF ControlsBased, ControlsSession

LEMMA ControlsHostChanges ==
    ASSUME ControlsInv, NEW c \in Chats, UNCHANGED <<shown, picker, setup, queue>>,
           counts' \in ControlsCounts(counts'), counts'.writes = counts.writes,
           NEW t, controlsHost' = [controlsHost EXCEPT ![c] = t], ControlsSession(t),
           \/ t.revision = controlsHost[c].revision + 1
           \/ /\ t.revision = controlsHost[c].revision /\ t.model = controlsHost[c].model
              /\ t.account = controlsHost[c].account
    PROVE  ControlsInv'
  <1>1. controlsHost = [d \in Chats |-> controlsHost[d]] /\ \A d \in Chats : ControlsSession(controlsHost[d])
    BY DEF ControlsInv, ControlsShape
  <1>2. controlsHost'[c] = t /\ \A d \in Chats : d # c => controlsHost'[d] = controlsHost[d]
    BY <1>1
  <1>3. ControlsShape'
    BY <1>1, <1>2 DEF ControlsInv, ControlsShape
  <1>4. ASSUME NEW d \in Chats, NEW i \in 1..Len(queue[d]) PROVE ControlsBased(queue[d][i], controlsHost'[d])
    <2>1. ControlsBased(queue[d][i], controlsHost[d])
      BY DEF ControlsInv, ControlsBases
    <2>2. CASE d = c
      BY <1>1, <1>2, <2>1, <2>2, ControlsStale
    <2> QED
      BY <1>2, <2>1, <2>2
  <1>5. ControlsBases'
    BY <1>4 DEF ControlsBases
  <1> QED
    BY <1>3, <1>5 DEF ControlsInv

LEMMA ControlsOthers == ASSUME ControlsInv, NEW c \in Chats, Controls!otherWindow(c) \/ Controls!turn(c) PROVE ControlsInv'
  <1>1. /\ UNCHANGED <<shown, picker, setup, queue>> /\ counts' = [counts EXCEPT !.others = @ + 1]
    BY DEF Controls!otherWindow, Controls!turn, Controls!Other
  <1>2. counts' \in ControlsCounts(counts') /\ counts'.writes = counts.writes
    BY <1>1 DEF ControlsInv, ControlsShape, ControlsCounts
  <1>3. ControlsSession(controlsHost[c]) /\ controlsHost = [d \in Chats |-> controlsHost[d]]
    BY DEF ControlsInv, ControlsShape
  <1>4. PICK s : s = controlsHost[c]
    OBVIOUS
  <1>5. CASE Controls!otherWindow(c)
    <2>1. PICK changes : /\ controlsHost' = [controlsHost EXCEPT ![c] = Controls!Revised(@, changes)]
                         /\ \/ \E m : changes = [model |-> m, effort |-> 0]
                            \/ \E x : changes = [skills |-> x]
                            \/ changes = [f \in {} |-> 0]
      BY <1>5 DEF Controls!otherWindow
    <2>2. "revision" \notin DOMAIN changes
      BY <2>1
    <2>3. PICK t : t = Controls!Revised(s, changes)
      OBVIOUS
    <2>4. controlsHost' = [controlsHost EXCEPT ![c] = t]
      BY <1>4, <2>1, <2>3
    <2>5. ControlsSession(t) /\ t.revision = s.revision + 1
      BY <1>3, <1>4, <2>2, <2>3, ControlsRevised
    <2> QED
      BY <1>1, <1>2, <1>4, <2>4, <2>5, ControlsHostChanges
  <1>6. CASE Controls!turn(c)
    <2>1. controlsHost' = [controlsHost EXCEPT ![c].running = ~@]
      BY <1>6 DEF Controls!turn
    <2>2. PICK b : b = ~s.running
      OBVIOUS
    <2>3. PICK t : t = [s EXCEPT !.running = b]
      OBVIOUS
    <2>4. controlsHost' = [controlsHost EXCEPT ![c] = t]
      BY <1>4, <2>1, <2>2, <2>3
    <2>5. ControlsSession(t) /\ t.revision = s.revision /\ t.model = s.model /\ t.account = s.account
      BY <1>3, <1>4, <2>3 DEF ControlsSession
    <2> QED
      BY <1>1, <1>2, <1>4, <2>4, <2>5, ControlsHostChanges
  <1> QED
    BY <1>5, <1>6

LEMMA ControlsUpdates == ASSUME ControlsInv, NEW c \in Chats, Controls!update_session(c) PROVE ControlsInv'
  <1>1. /\ queue[c] # <<>> /\ UNCHANGED <<shown, picker, setup, counts>>
        /\ \/ UNCHANGED controlsHost
           \/ controlsHost' = [controlsHost EXCEPT ![c] = Controls!Revised(@, queue[c][1].changes)]
    BY DEF Controls!update_session, Controls!First
  <1>2. PICK w, s : w = queue[c][1] /\ s = controlsHost[c]
    OBVIOUS
  <1>3. ControlsBased(w, s) /\ ControlsSession(s) /\ controlsHost = [d \in Chats |-> controlsHost[d]]
    BY <1>1, <1>2, ControlsWriteIs
  <1>4. PICK e : /\ Controls!FirstBecomes(c, e)
                 /\ e \in ControlsWrites(e) /\ e.kind = w.kind /\ e.gen = w.gen /\ e.changes = w.changes
                 /\ e.pc = "done"
    <2>1. PICK a : Controls!FirstBecomes(c, [w EXCEPT !.pc = "done", !.answer = a])
      BY <1>2 DEF Controls!update_session, Controls!First, Controls!Refused
    <2>2. PICK e : e = [w EXCEPT !.pc = "done", !.answer = a]
      OBVIOUS
    <2>3. e \in ControlsWrites(e) /\ e.kind = w.kind /\ e.gen = w.gen /\ e.changes = w.changes /\ e.pc = "done"
      BY <1>3, <2>2 DEF ControlsBased, ControlsWrites
    <2>4. Controls!FirstBecomes(c, e)
      BY <2>1, <2>2
    <2> QED
      BY <2>3, <2>4
  <1>5. PICK t : /\ ControlsSession(t) /\ controlsHost' = [controlsHost EXCEPT ![c] = t]
                 /\ t.revision = s.revision + 1 \/ t = s
    <2>1. CASE UNCHANGED controlsHost
      BY <1>2, <1>3, <2>1
    <2>2. CASE controlsHost' = [controlsHost EXCEPT ![c] = Controls!Revised(@, queue[c][1].changes)]
      <3>1. PICK t : t = Controls!Revised(s, w.changes)
        OBVIOUS
      <3>2. "revision" \notin DOMAIN w.changes
        BY <1>3 DEF ControlsBased
      <3>3. ControlsSession(t) /\ t.revision = s.revision + 1
        BY <1>3, <3>1, <3>2, ControlsRevised
      <3>4. controlsHost' = [controlsHost EXCEPT ![c] = t]
        BY <1>2, <2>2, <3>1
      <3> QED
        BY <3>3, <3>4
    <2> QED
      BY <1>1, <2>1, <2>2
  <1>6. /\ ControlsQueues(queue') /\ queue'[c][1] = e
        /\ \A d \in Chats : Len(queue'[d]) = Len(queue[d])
        /\ \A d \in Chats : \A i \in 1..Len(queue[d]) : d # c \/ i # 1 => queue'[d][i] = queue[d][i]
        /\ ControlsHeld(queue', "effort", picker.gen, picker.pending)
        /\ ControlsHeld(queue', "connect", setup.gen, setup.busy)
    BY <1>1, <1>2, <1>4, ControlsFirst
  <1>7. controlsHost'[c] = t /\ \A d \in Chats : d # c => controlsHost'[d] = controlsHost[d]
    BY <1>3, <1>5
  <1>8. ControlsShape'
    BY <1>1, <1>3, <1>5, <1>6, <1>7 DEF ControlsInv, ControlsShape
  <1>9. ASSUME NEW d \in Chats, NEW i \in 1..Len(queue'[d]) PROVE ControlsBased(queue'[d][i], controlsHost'[d])
    <2>1. i \in 1..Len(queue[d])
      BY <1>6
    <2>2. ControlsBased(queue[d][i], controlsHost[d])
      BY <2>1 DEF ControlsInv, ControlsBases
    <2>3. CASE d = c /\ i = 1
      <3>1. ControlsBased(e, t)
        BY <1>3, <1>4 DEF ControlsBased
      <3> QED
        BY <1>6, <1>7, <2>3, <3>1
    <2>4. CASE d = c /\ i # 1
      <3>1. ControlsBased(queue[d][i], t)
        BY <1>2, <1>3, <1>5, <2>2, <2>4, ControlsStale
      <3> QED
        BY <1>6, <1>7, <2>1, <2>4, <3>1
    <2>5. CASE d # c
      BY <1>6, <1>7, <2>1, <2>2, <2>5
    <2> QED
      BY <2>3, <2>4, <2>5
  <1>10. ControlsBases'
    BY <1>9 DEF ControlsBases
  <1> QED
    BY <1>1, <1>6, <1>8, <1>10 DEF ControlsInv

LEMMA ControlsSettles == ASSUME ControlsInv, NEW c \in Chats, Controls!settle(c) PROVE ControlsInv'
  <1> DEFINE w == queue[c][1]
  <1>1. /\ queue[c] # <<>> /\ queue' = [queue EXCEPT ![c] = Tail(@)] /\ UNCHANGED <<controlsHost, shown, counts>>
        /\ picker' = IF w.kind = "effort" /\ Controls!Owns(w) THEN [picker EXCEPT !.pending = FALSE, !.draft = None] ELSE picker
        /\ setup' = IF w.kind = "connect" /\ Controls!Owns(w)
                    THEN [setup EXCEPT !.busy = FALSE, !.saved = (w.answer = "ok")] ELSE setup
    BY DEF Controls!settle, Controls!First
  <1>2. ControlsQueues(queue)
    BY DEF ControlsInv, ControlsShape
  <1>3. PICK q, r : q = queue[c] /\ r = Tail(q)
    OBVIOUS
  <1>4. SeqOf(q) /\ q # <<>> /\ queue' = [queue EXCEPT ![c] = r]
    BY <1>1, <1>2, <1>3 DEF ControlsQueues
  <1>5. /\ SeqOf(r) /\ Len(q) \in Nat \ {0} /\ Len(r) = Len(q) - 1
        /\ \A i \in 1..Len(r) : r[i] = q[i + 1]
    <2>1. PICK S : q \in Seq(S)
      BY <1>4 DEF SeqOf
    <2>2. r \in Seq(S) /\ Len(q) # 0
      BY <1>3, <1>4, <2>1
    <2>3. SeqOf(r)
      BY <2>2, SeqIsOf
    <2> QED
      BY <1>3, <2>1, <2>2, <2>3
  <1>6. queue'[c] = r /\ \A d \in Chats : d # c => queue'[d] = queue[d]
    BY <1>2, <1>4 DEF ControlsQueues
  <1>7. ControlsGone(queue, queue', c)
    BY <1>3, <1>5, <1>6 DEF ControlsGone
  <1>8. ControlsQueues(queue')
    BY <1>2, <1>4, <1>5 DEF ControlsQueues
  <1>9. 1 \in 1..Len(queue[c])
    BY <1>3, <1>5
  <1>10. picker' \in ControlsPickers(picker') /\ ControlsHeld(queue', "effort", picker'.gen, picker'.pending)
    <2>1. picker \in ControlsPickers(picker) /\ ControlsHeld(queue, "effort", picker.gen, picker.pending)
      BY DEF ControlsInv, ControlsShape
    <2>2. CASE w.kind = "effort" /\ Controls!Owns(w)
      <3>1. ControlsOwn(queue, "effort", picker.gen, c, 1)
        BY <1>9, <2>2 DEF ControlsOwn, Controls!Owns
      <3>2. picker' \in ControlsPickers(picker') /\ picker'.gen = picker.gen /\ picker'.pending = FALSE
        BY <1>1, <2>1, <2>2 DEF ControlsPickers
      <3> QED
        BY <1>7, <2>1, <3>1, <3>2, HeldGone
    <2>3. CASE ~(w.kind = "effort" /\ Controls!Owns(w))
      <3>1. ~ControlsOwn(queue, "effort", picker.gen, c, 1)
        BY <2>3 DEF ControlsOwn, Controls!Owns
      <3> QED
        BY <1>1, <1>7, <2>1, <2>3, <3>1, HeldGone
    <2> QED
      BY <2>2, <2>3
  <1>11. setup' \in ControlsSetups(setup') /\ ControlsHeld(queue', "connect", setup'.gen, setup'.busy)
    <2>1. setup \in ControlsSetups(setup) /\ ControlsHeld(queue, "connect", setup.gen, setup.busy)
      BY DEF ControlsInv, ControlsShape
    <2>2. CASE w.kind = "connect" /\ Controls!Owns(w)
      <3>1. ControlsOwn(queue, "connect", setup.gen, c, 1)
        BY <1>9, <2>2 DEF ControlsOwn, Controls!Owns
      <3>2. PICK b : setup' = [setup EXCEPT !.busy = FALSE, !.saved = b]
        BY <1>1, <2>2
      <3>3. setup' \in ControlsSetups(setup') /\ setup'.gen = setup.gen /\ setup'.busy = FALSE
        BY <2>1, <3>2 DEF ControlsSetups
      <3> QED
        BY <1>7, <2>1, <3>1, <3>3, HeldGone
    <2>3. CASE ~(w.kind = "connect" /\ Controls!Owns(w))
      <3>1. ~ControlsOwn(queue, "connect", setup.gen, c, 1)
        BY <2>3 DEF ControlsOwn, Controls!Owns
      <3> QED
        BY <1>1, <1>7, <2>1, <2>3, <3>1, HeldGone
    <2> QED
      BY <2>2, <2>3
  <1>12. ControlsShape'
    <2>1. ASSUME NEW d \in Chats PROVE Len(queue'[d]) <= counts.writes
      <3>1. Len(queue[d]) \in Nat /\ Len(queue[d]) <= counts.writes /\ counts.writes \in Nat
        BY DEF ControlsInv, ControlsShape, ControlsQueues, ControlsCounts
      <3>2. Len(queue'[d]) \in {Len(queue[d]), Len(queue[d]) - 1}
        BY <1>3, <1>5, <1>6
      <3> QED
        BY <3>1, <3>2
    <2> QED
      BY <1>1, <1>8, <1>10, <1>11, <2>1 DEF ControlsInv, ControlsShape
  <1>13. ASSUME NEW d \in Chats, NEW i \in 1..Len(queue'[d]) PROVE ControlsBased(queue'[d][i], controlsHost[d])
    <2>1. CASE d = c
      <3>1. i + 1 \in 1..Len(queue[c]) /\ queue'[c][i] = queue[c][i + 1]
        BY <1>7, <2>1 DEF ControlsGone
      <3> QED
        BY <2>1, <3>1 DEF ControlsInv, ControlsBases
    <2> QED
      BY <1>6, <2>1 DEF ControlsInv, ControlsBases
  <1>14. ControlsBases'
    BY <1>1, <1>13 DEF ControlsBases
  <1> QED
    BY <1>10, <1>11, <1>12, <1>14 DEF ControlsInv

LEMMA ControlsNext ==
    ASSUME ControlsInv, Controls!Next \/ UNCHANGED controlsVars
    PROVE  ControlsInv'
  <1>1. CASE UNCHANGED controlsVars
    <2>1. UNCHANGED <<controlsHost, queue, counts, picker, setup, shown>>
      BY <1>1 DEF controlsVars
    <2> QED
      BY <2>1, ControlsKept, ControlsViewed
  <1>2. CASE \/ \E c \in Chats : Controls!show(c) \/ Controls!refreshed(c)
             \/ \E p \in Controls!Panels : Controls!open(p) \/ Controls!setSection(p)
             \/ Controls!close \/ Controls!catalogueArrives \/ Controls!skillsArrive
             \/ \E e \in Controls!Efforts : Controls!slide(e)
             \/ \E a \in Controls!Accounts : Controls!pick(a)
    BY <1>2, ControlsViews
  <1>3. CASE \/ \E m \in Controls!Models : Controls!chooseModel(m)
             \/ \E a \in Controls!Accounts : Controls!chooseAccount(a)
             \/ \E m \in {"ask", "agent"} : Controls!setMode(m)
             \/ \E p \in {"quick", "balanced"} : Controls!setProfile(p)
             \/ \E k \in Skills : Controls!toggleSkill(k)
    BY <1>3, ControlsSettings
  <1>4. CASE \E c \in Chats : \/ Controls!hostReads(c) \/ Controls!send(c) \/ Controls!abandon(c)
                              \/ Controls!update_session(c) \/ Controls!settle(c)
                              \/ Controls!otherWindow(c) \/ Controls!turn(c)
    BY <1>4, ControlsReads, ControlsSends, ControlsUpdates, ControlsSettles, ControlsOthers
  <1> QED
    BY <1>1, <1>2, <1>3, <1>4, ControlsChoose, ControlsConnect DEF Controls!Next

LEMMA ControlsInvImplies == ControlsInv => Controls!HeldByItsOwn
  <1> SUFFICES ASSUME ControlsInv PROVE Controls!HeldByItsOwn
    OBVIOUS
  <1>1. ASSUME NEW kind, NEW g
        PROVE  Controls!Own(kind, g) =
                 {p \in Chats \X (1..MaxWrites) : ControlsOwn(queue, kind, g, p[1], p[2])}
    <2>1. ASSUME NEW p \in Chats \X (1..MaxWrites)
          PROVE  p[2] <= Len(queue[p[1]]) <=> p[2] \in 1..Len(queue[p[1]])
      <3>1. p[1] \in Chats /\ p[2] \in 1..MaxWrites
        OBVIOUS
      <3>2. Len(queue[p[1]]) \in Nat /\ MaxWrites \in Nat
        BY <3>1, ConversationAssumption DEF ControlsInv, ControlsShape, ControlsQueues
      <3> QED
        BY <3>1, <3>2
    <2> QED
      BY <2>1 DEF Controls!Own, ControlsOwn
  <1>2. ASSUME NEW kind, NEW g, NEW h, ControlsHeld(queue, kind, g, h)
        PROVE  /\ h <=> Controls!Own(kind, g) # {}
               /\ \A u, v \in Controls!Own(kind, g) : u = v
    <2>1. ASSUME NEW c \in Chats, NEW i \in Nat, ControlsOwn(queue, kind, g, c, i)
          PROVE  <<c, i>> \in Controls!Own(kind, g)
      <3>1. i \in 1..MaxWrites
        <4>1. i \in 1..Len(queue[c]) /\ Len(queue[c]) \in Nat /\ Len(queue[c]) <= counts.writes
              /\ counts.writes \in Nat /\ counts.writes <= MaxWrites /\ MaxWrites \in Nat
          BY <2>1, ConversationAssumption DEF ControlsOwn, ControlsInv, ControlsShape, ControlsQueues, ControlsCounts
        <4> QED
          BY <4>1
      <3> QED
        BY <1>1, <2>1, <3>1
    <2>2. ASSUME NEW p \in Controls!Own(kind, g)
          PROVE  p[1] \in Chats /\ p[2] \in Nat /\ p = <<p[1], p[2]>> /\ ControlsOwn(queue, kind, g, p[1], p[2])
      <3>1. p \in Chats \X (1..MaxWrites) /\ ControlsOwn(queue, kind, g, p[1], p[2]) /\ MaxWrites \in Nat
        BY <1>1, ConversationAssumption
      <3> QED
        BY <3>1
    <2>3. h <=> Controls!Own(kind, g) # {}
      BY <1>2, <2>1, <2>2 DEF ControlsHeld
    <2>4. ASSUME NEW u \in Controls!Own(kind, g), NEW v \in Controls!Own(kind, g) PROVE u = v
      <3>1. u[1] = v[1] /\ u[2] = v[2]
        BY <1>2, <2>2 DEF ControlsHeld
      <3> QED
        BY <2>2, <3>1
    <2> QED
      BY <2>3, <2>4
  <1>3. ControlsHeld(queue, "effort", picker.gen, picker.pending)
        /\ ControlsHeld(queue, "connect", setup.gen, setup.busy)
    BY DEF ControlsInv
  <1> QED
    BY <1>2, <1>3 DEF Controls!HeldByItsOwn

\* An effort is accepted only against the revision it was compared with.
LEMMA ControlsActs ==
    ASSUME ControlsInv, NEW c \in Chats, Controls!update_session(c), controlsHost'[c] # controlsHost[c],
           Controls!First(c).kind = "effort"
    PROVE  /\ controlsHost[c].model = Controls!First(c).of.model
           /\ controlsHost[c].account = Controls!First(c).of.account
  <1>1. /\ queue[c] # <<>> /\ queue[c][1].pc = "patch" /\ queue[c][1].kind = "effort"
        /\ queue[c][1].base.revision = controlsHost[c].revision
    BY DEF Controls!update_session, Controls!First
  <1>2. ControlsBased(queue[c][1], controlsHost[c])
    BY <1>1, ControlsWriteIs
  <1> QED
    BY <1>1, <1>2 DEF ControlsBased, Controls!SameModel, Controls!First

-----------------------------------------------------------------------------
(* The adoption by the main agent (AdoptionDialog). *)

\* The adoption by the main agent.
Adoption == INSTANCE AdoptionDialog WITH MaxUpsets <- MaxEvents, pending <- adoptionPending,
        reading <- adoptionReading
adoptionVars == <<chat, completed, adoptionPending, dialog, adoptionReading, post, upsets>>

AdoptionIntents(p) == [rev : Nat, id : Adoption!Ids, state : {p.state}]
AdoptionViews(v) == [key : {v.key}, enabled : {v.enabled}, open : {v.open}, stale : {v.stale},
                     review : {v.review}, enrolled : {v.enrolled}]
AdoptionReadings(r) == [of : {r.of}, answer : {r.answer}]
AdoptionPosts == [of : Chats, id : Adoption!Ids, rev : Nat, fresh : BOOLEAN, pc : {"sent", "ended"},
                  wire : {"sent", "done", "conflict", "lost"}]
AdoptionChats(x) == [rev : Nat, enrolled : {x.enrolled}]
AdoptionShape ==
    /\ adoptionPending = [k \in Chats |-> adoptionPending[k]]
    /\ \A k \in Chats : adoptionPending[k] # None => adoptionPending[k] \in AdoptionIntents(adoptionPending[k])
    /\ post = [n \in Adoption!Posts |-> post[n]]
    /\ \A n \in Adoption!Posts : post[n] # None => post[n] \in AdoptionPosts
    /\ dialog \in AdoptionViews(dialog) /\ dialog.key \in Chats
    /\ adoptionReading # None => adoptionReading \in AdoptionReadings(adoptionReading)
    /\ chat = [k \in Chats |-> chat[k]]
    /\ \A k \in Chats : chat[k] \in AdoptionChats(chat[k])

\* What is read and shown is of the chat of the dialog.
ReviewIsOfItsChat ==
    /\ adoptionReading # None =>
         /\ adoptionReading.of = dialog.key
         /\ adoptionReading.answer # None => /\ adoptionReading.answer.of = dialog.key
                                            /\ adoptionReading.answer.rev \in Nat
    /\ dialog.review # None => dialog.review.of = dialog.key
IntentsDiffer == \A k, l \in Chats :
    adoptionPending[k] # None /\ adoptionPending[l] # None
      /\ adoptionPending[k].id = adoptionPending[l].id => k = l
PostIsItsIntent == \A n \in Adoption!Posts, k \in Chats :
    post[n] # None /\ adoptionPending[k] # None /\ post[n].id = adoptionPending[k].id =>
        post[n].of = k /\ post[n].rev = adoptionPending[k].rev
CompletedWasPosted == \A i \in completed : \E n \in Adoption!Posts : post[n] # None /\ post[n].id = i

AdoptionInv == AdoptionShape /\ ReviewIsOfItsChat /\ IntentsDiffer /\ PostIsItsIntent
               /\ CompletedWasPosted /\ Adoption!OneIdOneReview

LEMMA AdoptionInitInv == Adoption!Init => AdoptionInv
  <1> SUFFICES ASSUME Adoption!Init PROVE AdoptionInv
    OBVIOUS
  <1>1. PICK k \in Chats : dialog = Adoption!Shown(k)
    BY DEF Adoption!Init
  <1>2. dialog \in AdoptionViews(dialog) /\ dialog.key = k /\ dialog.review = None
    BY <1>1 DEF Adoption!Shown, AdoptionViews
  <1>3. /\ adoptionPending = [l \in Chats |-> None] /\ post = [n \in Adoption!Posts |-> None]
        /\ completed = {} /\ adoptionReading = None
        /\ chat = [l \in Chats |-> [rev |-> 0, enrolled |-> FALSE]]
    BY DEF Adoption!Init
  <1>4. [rev |-> 0, enrolled |-> FALSE] \in AdoptionChats([rev |-> 0, enrolled |-> FALSE])
    BY DEF AdoptionChats
  <1>5. \A l \in Chats : chat[l] \in AdoptionChats(chat[l])
    BY <1>3, <1>4
  <1> QED
    BY <1>2, <1>3, <1>5 DEF AdoptionInv, AdoptionShape, ReviewIsOfItsChat, IntentsDiffer,
       PostIsItsIntent, CompletedWasPosted, Adoption!OneIdOneReview

\* A request keeps the chat, the id and the revision it was sent with.
SamePosts == /\ post' = [n \in Adoption!Posts |-> post'[n]]
             /\ \A n \in Adoption!Posts :
                  /\ post'[n] = None <=> post[n] = None
                  /\ post[n] # None => /\ post'[n] \in AdoptionPosts /\ post'[n].of = post[n].of
                                       /\ post'[n].id = post[n].id /\ post'[n].rev = post[n].rev
\* An intent stays, with what it asks for, or goes.
SameIntents == /\ adoptionPending' = [k \in Chats |-> adoptionPending'[k]]
               /\ \A k \in Chats : adoptionPending'[k] # None =>
                    /\ adoptionPending[k] # None
                    /\ adoptionPending'[k] \in AdoptionIntents(adoptionPending'[k])
                    /\ adoptionPending'[k].id = adoptionPending[k].id
                    /\ adoptionPending'[k].rev = adoptionPending[k].rev
\* The host's chats keep their shape.
SameChats == /\ chat' = [k \in Chats |-> chat'[k]]
             /\ \A k \in Chats : chat'[k] \in AdoptionChats(chat'[k])
\* The dialog shows what is of its chat.
GoodView == /\ dialog' \in AdoptionViews(dialog') /\ dialog'.key \in Chats
            /\ adoptionReading' # None => adoptionReading' \in AdoptionReadings(adoptionReading')
            /\ ReviewIsOfItsChat'

LEMMA AdoptionSame == ASSUME AdoptionInv PROVE
    /\ UNCHANGED post => SamePosts
    /\ UNCHANGED adoptionPending => SameIntents
    /\ UNCHANGED chat => SameChats
    /\ UNCHANGED <<dialog, adoptionReading>> => GoodView
  BY DEF AdoptionInv, AdoptionShape, SamePosts, SameIntents, SameChats, GoodView, ReviewIsOfItsChat

LEMMA AdoptionKeeps ==
    ASSUME AdoptionInv, SamePosts, SameIntents, SameChats, GoodView, completed' = completed
    PROVE  AdoptionInv'
  <1>1. AdoptionShape' /\ ReviewIsOfItsChat'
    BY DEF AdoptionInv, AdoptionShape, SamePosts, SameIntents, SameChats, GoodView
  <1>2. IntentsDiffer' /\ PostIsItsIntent' /\ CompletedWasPosted' /\ Adoption!OneIdOneReview'
    BY DEF AdoptionInv, SamePosts, SameIntents, IntentsDiffer, PostIsItsIntent,
       CompletedWasPosted, Adoption!OneIdOneReview
  <1> QED
    BY <1>1, <1>2 DEF AdoptionInv

LEMMA AdoptionPreview == ASSUME AdoptionInv, Adoption!preview(TRUE) PROVE AdoptionInv'
  <1> DEFINE p == adoptionPending[dialog.key]
  <1>1. UNCHANGED <<chat, completed, adoptionPending, post>>
    BY DEF Adoption!preview
  <1>2. dialog \in AdoptionViews(dialog) /\ dialog.key \in Chats
    BY DEF AdoptionInv, AdoptionShape
  <1>3. CASE p # None /\ p.state = "sending"
    <2>1. PICK r : r = [of |-> dialog.key, rev |-> p.rev, enrolled |-> FALSE]
      OBVIOUS
    <2>2. PICK o : dialog' = [dialog EXCEPT !.open = o, !.review = r] /\ UNCHANGED adoptionReading
      BY <1>3, <2>1 DEF Adoption!preview
    <2>3. dialog' \in AdoptionViews(dialog') /\ dialog'.key = dialog.key /\ dialog'.review = r
          /\ r.of = dialog.key
      BY <1>2, <2>1, <2>2 DEF AdoptionViews
    <2>4. GoodView
      BY <1>2, <2>2, <2>3 DEF GoodView, AdoptionInv, AdoptionShape, ReviewIsOfItsChat
    <2> QED
      BY <1>1, <2>4, AdoptionSame, AdoptionKeeps
  <1>4. CASE ~(p # None /\ p.state = "sending")
    <2>1. PICK o : dialog' = [dialog EXCEPT !.open = o]
                   /\ adoptionReading' = [of |-> dialog.key, answer |-> None]
      BY <1>4 DEF Adoption!preview
    <2>2. dialog' \in AdoptionViews(dialog') /\ dialog'.key = dialog.key /\ dialog'.review = dialog.review
          /\ adoptionReading' \in AdoptionReadings(adoptionReading')
          /\ adoptionReading'.of = dialog.key /\ adoptionReading'.answer = None
      BY <1>2, <2>1 DEF AdoptionViews, AdoptionReadings
    <2>3. GoodView
      BY <1>2, <2>2 DEF GoodView, AdoptionInv, ReviewIsOfItsChat
    <2> QED
      BY <1>1, <2>3, AdoptionSame, AdoptionKeeps
  <1> QED
    BY <1>3, <1>4

LEMMA AdoptionReviews == ASSUME AdoptionInv, Adoption!hostReviews PROVE AdoptionInv'
  <1>1. UNCHANGED <<chat, completed, adoptionPending, dialog, post>> /\ adoptionReading # None
    BY DEF Adoption!hostReviews
  <1>2. PICK v : /\ v = [of |-> adoptionReading.of, rev |-> chat[adoptionReading.of].rev,
                         enrolled |-> chat[adoptionReading.of].enrolled]
                 /\ adoptionReading' = [adoptionReading EXCEPT !.answer = v]
    BY DEF Adoption!hostReviews
  <1>3. adoptionReading \in AdoptionReadings(adoptionReading)
    BY <1>1 DEF AdoptionInv, AdoptionShape
  <1>4. /\ adoptionReading' \in AdoptionReadings(adoptionReading')
        /\ adoptionReading'.of = adoptionReading.of /\ adoptionReading'.answer = v
        /\ v.of = adoptionReading.of
    BY <1>2, <1>3 DEF AdoptionReadings
  <1>6. v.rev \in Nat
    <2>1. chat[adoptionReading.of] \in AdoptionChats(chat[adoptionReading.of])
      BY <1>1 DEF AdoptionInv, AdoptionShape, ReviewIsOfItsChat
    <2> QED
      BY <1>2, <2>1 DEF AdoptionChats
  <1>5. GoodView
    BY <1>1, <1>4, <1>6 DEF GoodView, AdoptionInv, AdoptionShape, ReviewIsOfItsChat
  <1> QED
    BY <1>1, <1>5, AdoptionSame, AdoptionKeeps

\* The id of a new intent is nobody's.
LEMMA AdoptionNewId == ASSUME AdoptionInv, Adoption!HasNewId
    PROVE  /\ Adoption!NewId \in Adoption!Ids /\ ~Adoption!Known(Adoption!NewId)
           /\ \A n \in Adoption!Posts : post[n] = None \/ post[n].id # Adoption!NewId
  <1> DEFINE T == {i \in Adoption!Ids : \/ Adoption!Known(i)
                                        \/ \E n \in Adoption!Posts : post[n] # None /\ post[n].id = i}
  <1>1. Cardinality(Adoption!Ids) = MaxIds
    <2>1. MaxIds \in Nat
      BY ConversationAssumption
    <2>2. Cardinality(1..MaxIds) = IF 1 > MaxIds THEN 0 ELSE MaxIds - 1 + 1
      BY <2>1, FS_Interval
    <2> QED
      BY <2>1, <2>2 DEF Adoption!Ids
  <1>2. Adoption!Cardinality(T) = Cardinality(T)
    BY DEF Adoption!Cardinality, Cardinality
  <1>3. Cardinality(T) < MaxIds
    BY <1>2 DEF Adoption!HasNewId
  <1>4. PICK i \in Adoption!Ids : i \notin T
    <2>1. T \subseteq Adoption!Ids
      OBVIOUS
    <2>2. T # Adoption!Ids
      <3> SUFFICES ASSUME T = Adoption!Ids PROVE FALSE
        OBVIOUS
      <3>1. Cardinality(T) = MaxIds
        BY <1>1
      <3>2. MaxIds \in Nat
        BY ConversationAssumption
      <3> HIDE DEF T
      <3> QED
        BY <3>1, <3>2, <1>3
    <2> QED
      BY <2>1, <2>2
  <1>5. i \notin completed
    BY <1>4 DEF AdoptionInv, CompletedWasPosted
  <1>6. /\ i \notin completed /\ ~Adoption!Known(i)
        /\ \A n \in Adoption!Posts : post[n] = None \/ post[n].id # i
    BY <1>4, <1>5
  <1> QED
    BY <1>6 DEF Adoption!NewId

LEMMA AdoptionRead == ASSUME AdoptionInv, Adoption!readPreview PROVE AdoptionInv'
  <1> DEFINE k == dialog.key
             v == adoptionReading.answer
  <1>1. /\ UNCHANGED <<chat, completed, post>> /\ adoptionReading # None /\ v # None
        /\ adoptionReading' = None
        /\ dialog' = [dialog EXCEPT !.review = v, !.enrolled = v.enrolled, !.stale = FALSE]
    BY DEF Adoption!readPreview
  <1>2. dialog \in AdoptionViews(dialog) /\ k \in Chats /\ v.of = k /\ v.rev \in Nat
        /\ adoptionPending = [l \in Chats |-> adoptionPending[l]]
    BY <1>1 DEF AdoptionInv, AdoptionShape, ReviewIsOfItsChat
  <1>3. dialog' \in AdoptionViews(dialog') /\ dialog'.key = k /\ dialog'.review = v
    BY <1>1, <1>2 DEF AdoptionViews
  <1>4. GoodView
    BY <1>1, <1>2, <1>3 DEF GoodView, ReviewIsOfItsChat
  <1>5. CASE adoptionPending' = [adoptionPending EXCEPT ![k] = None]
    <2>1. SameIntents
      BY <1>2, <1>5 DEF SameIntents, AdoptionInv, AdoptionShape
    <2> QED
      BY <1>1, <1>4, <2>1, AdoptionSame, AdoptionKeeps
  <1>6. CASE Adoption!Same(adoptionPending[k], v) /\ adoptionPending' = [adoptionPending EXCEPT ![k].rev = v.rev]
    <2>1. PICK p : p = [adoptionPending[k] EXCEPT !.rev = v.rev]
      OBVIOUS
    <2>2. adoptionPending[k] # None /\ adoptionPending[k].rev = v.rev
          /\ adoptionPending[k] \in AdoptionIntents(adoptionPending[k])
      BY <1>2, <1>6 DEF Adoption!Same, AdoptionInv, AdoptionShape
    <2>3. p \in AdoptionIntents(p) /\ p.id = adoptionPending[k].id /\ p.rev = adoptionPending[k].rev
      BY <2>1, <2>2 DEF AdoptionIntents
    <2>4. adoptionPending' = [adoptionPending EXCEPT ![k] = p]
      BY <1>6, <2>1
    <2>5. SameIntents
      BY <1>2, <2>2, <2>3, <2>4 DEF SameIntents, AdoptionInv, AdoptionShape
    <2> QED
      BY <1>1, <1>4, <2>5, AdoptionSame, AdoptionKeeps
  <1>7. CASE /\ Adoption!HasNewId
             /\ adoptionPending' = [adoptionPending EXCEPT ![k] = [rev |-> v.rev, id |-> Adoption!NewId, state |-> "ready"]]
    <2>1. PICK p : p = [rev |-> v.rev, id |-> Adoption!NewId, state |-> "ready"]
      OBVIOUS
    <2>2. p \in AdoptionIntents(p) /\ p.id = Adoption!NewId
      BY <1>2, <1>7, <2>1, AdoptionNewId DEF AdoptionIntents
    <2>3. adoptionPending' = [adoptionPending EXCEPT ![k] = p]
      BY <1>7, <2>1
    <2>4. \A l \in Chats : adoptionPending[l] # None => adoptionPending[l].id # p.id
      BY <1>7, <2>2, AdoptionNewId DEF Adoption!Known
    <2>5. \A n \in Adoption!Posts : post[n] # None => post[n].id # p.id
      BY <1>7, <2>2, AdoptionNewId
    <2>6. adoptionPending'[k] = p /\ \A l \in Chats \ {k} : adoptionPending'[l] = adoptionPending[l]
      BY <1>2, <2>3
    <2>7. AdoptionShape' /\ ReviewIsOfItsChat'
      BY <1>1, <1>2, <1>4, <2>2, <2>3, <2>6 DEF AdoptionInv, AdoptionShape, GoodView
    <2>8. IntentsDiffer' /\ PostIsItsIntent' /\ CompletedWasPosted' /\ Adoption!OneIdOneReview'
      BY <1>1, <2>4, <2>5, <2>6 DEF AdoptionInv, IntentsDiffer, PostIsItsIntent,
         CompletedWasPosted, Adoption!OneIdOneReview
    <2> QED
      BY <2>7, <2>8 DEF AdoptionInv
  <1> QED
    BY <1>5, <1>6, <1>7 DEF Adoption!readPreview

\* A request that settles keeps the rest of what it is.
LEMMA AdoptionPostSet ==
    ASSUME AdoptionInv, NEW n \in Adoption!Posts, post[n] # None, NEW q,
           q \in AdoptionPosts, q # None, q.of = post[n].of, q.id = post[n].id, q.rev = post[n].rev,
           post' = [post EXCEPT ![n] = q]
    PROVE  SamePosts
  BY DEF AdoptionInv, AdoptionShape, SamePosts

LEMMA AdoptionPostShape == ASSUME AdoptionInv, NEW n \in Adoption!Posts, post[n] # None
    PROVE  post[n] \in AdoptionPosts /\ post = [m \in Adoption!Posts |-> post[m]]
  BY DEF AdoptionInv, AdoptionShape

\* No request is the value None.
LEMMA PostIsSome == ASSUME NEW q, q \in AdoptionPosts PROVE q # None
  <1> SUFFICES ASSUME q = None PROVE FALSE
    OBVIOUS
  <1>1. Adoption!Ids \subseteq Nat
    BY ConversationAssumption DEF Adoption!Ids
  <1>2. q \in AdoptionRequests
    BY <1>1 DEF AdoptionPosts, AdoptionRequests
  <1> QED
    BY <1>2, ConversationAssumption

\* Nothing is read, and what the dialog shows is unchanged or is gone.
LEMMA AdoptionShown ==
    ASSUME AdoptionInv, NEW e, NEW v \in {None, dialog.review}, NEW o, NEW s, NEW h,
           dialog' = [dialog EXCEPT !.enabled = e, !.open = o, !.stale = s, !.review = v, !.enrolled = h],
           adoptionReading' \in {None, adoptionReading}
    PROVE  GoodView
  <1>1. dialog \in AdoptionViews(dialog) /\ dialog.key \in Chats
    BY DEF AdoptionInv, AdoptionShape
  <1>2. dialog' \in AdoptionViews(dialog') /\ dialog'.key = dialog.key /\ dialog'.review = v
    BY <1>1 DEF AdoptionViews
  <1> QED
    BY <1>1, <1>2 DEF GoodView, AdoptionInv, AdoptionShape, ReviewIsOfItsChat

LEMMA AdoptionShows == ASSUME AdoptionInv,
           \/ Adoption!readFails \/ Adoption!enable \/ Adoption!disable \/ Adoption!closeDialog
    PROVE  AdoptionInv'
  <1>1. UNCHANGED <<chat, completed, adoptionPending, post>>
    BY DEF Adoption!readFails, Adoption!enable, Adoption!disable, Adoption!closeDialog
  <1>2. dialog \in AdoptionViews(dialog)
    BY DEF AdoptionInv, AdoptionShape
  <1>3. adoptionReading' \in {None, adoptionReading}
    BY DEF Adoption!readFails, Adoption!enable, Adoption!disable, Adoption!closeDialog
  <1>4. \E e, o, s, h : \E v \in {None, dialog.review} :
          dialog' = [dialog EXCEPT !.enabled = e, !.open = o, !.stale = s, !.review = v, !.enrolled = h]
    <2>1. CASE Adoption!readFails
      <3>1. dialog' = [dialog EXCEPT !.enabled = dialog.enabled, !.open = dialog.open, !.stale = TRUE,
                                     !.review = None, !.enrolled = dialog.enrolled]
        BY <1>2, <2>1 DEF Adoption!readFails, AdoptionViews
      <3> QED
        BY <3>1
    <2>2. CASE Adoption!enable
      <3>1. dialog' = [dialog EXCEPT !.enabled = TRUE, !.open = dialog.open, !.stale = dialog.stale,
                                     !.review = dialog.review, !.enrolled = dialog.enrolled]
        BY <1>2, <2>2 DEF Adoption!enable, AdoptionViews
      <3> QED
        BY <3>1
    <2>3. CASE Adoption!disable
      <3>1. dialog' = [dialog EXCEPT !.enabled = FALSE, !.open = FALSE, !.stale = dialog.stale,
                                     !.review = dialog.review, !.enrolled = dialog.enrolled]
        BY <1>2, <2>3 DEF Adoption!disable, AdoptionViews
      <3> QED
        BY <3>1
    <2>4. CASE Adoption!closeDialog
      <3>1. dialog' = [dialog EXCEPT !.enabled = dialog.enabled, !.open = FALSE, !.stale = dialog.stale,
                                     !.review = dialog.review, !.enrolled = dialog.enrolled]
        BY <1>2, <2>4 DEF Adoption!closeDialog, AdoptionViews
      <3> QED
        BY <3>1
    <2> QED
      BY <2>1, <2>2, <2>3, <2>4
  <1>5. GoodView
    BY <1>3, <1>4, AdoptionShown
  <1> QED
    BY <1>1, <1>5, AdoptionSame, AdoptionKeeps

LEMMA AdoptionForgotten == ASSUME AdoptionInv, post' = Adoption!Forgotten PROVE SamePosts
  <1>1. post' = [n \in Adoption!Posts |-> post'[n]]
    BY DEF Adoption!Forgotten
  <1>2. ASSUME NEW n \in Adoption!Posts, post[n] = None PROVE post'[n] = None
    BY <1>2 DEF Adoption!Forgotten
  <1>3. ASSUME NEW n \in Adoption!Posts, post[n] # None
        PROVE  /\ post'[n] # None /\ post'[n] \in AdoptionPosts /\ post'[n].of = post[n].of
               /\ post'[n].id = post[n].id /\ post'[n].rev = post[n].rev
    <2>1. post'[n] = [post[n] EXCEPT !.fresh = FALSE]
      BY <1>3 DEF Adoption!Forgotten
    <2>2. PICK q : q = [post[n] EXCEPT !.fresh = FALSE]
      OBVIOUS
    <2>3. post[n] \in AdoptionPosts
      BY <1>3, AdoptionPostShape
    <2>4. q \in AdoptionPosts /\ q.of = post[n].of /\ q.id = post[n].id /\ q.rev = post[n].rev
      BY <2>2, <2>3 DEF AdoptionPosts
    <2> QED
      BY <2>1, <2>2, <2>4, PostIsSome
  <1> QED
    BY <1>1, <1>2, <1>3 DEF SamePosts

\* A dialog that comes to a chat shows nothing yet.
LEMMA AdoptionFresh ==
    ASSUME AdoptionInv, NEW k \in Chats, dialog' \in AdoptionViews(dialog'), dialog'.key = k,
           dialog'.review = None, adoptionReading' = None
    PROVE  GoodView
  BY DEF GoodView, ReviewIsOfItsChat

LEMMA AdoptionShowChat == ASSUME AdoptionInv, NEW k \in Chats, Adoption!showChat(k) PROVE AdoptionInv'
  <1>1. /\ UNCHANGED <<chat, completed, adoptionPending>> /\ adoptionReading' = None
        /\ post' = Adoption!Forgotten
        /\ dialog' = [Adoption!Shown(k) EXCEPT !.enabled = dialog.enabled]
    BY DEF Adoption!showChat
  <1>3. dialog' \in AdoptionViews(dialog') /\ dialog'.key = k /\ dialog'.review = None
    BY <1>1 DEF AdoptionViews, Adoption!Shown
  <1>2. SamePosts /\ GoodView
    BY <1>1, <1>3, AdoptionForgotten, AdoptionFresh
  <1> QED
    BY <1>1, <1>2, AdoptionSame, AdoptionKeeps

LEMMA AdoptionSignOut == ASSUME AdoptionInv, Adoption!signOut PROVE AdoptionInv'
  <1>1. /\ UNCHANGED <<chat, completed>> /\ adoptionPending' = [k \in Chats |-> None] /\ adoptionReading' = None
        /\ post' = Adoption!Forgotten
    BY DEF Adoption!signOut
  <1>2. PICK k \in Chats : dialog' = Adoption!Shown(k)
    BY DEF Adoption!signOut
  <1>3. dialog' \in AdoptionViews(dialog') /\ dialog'.key = k /\ dialog'.review = None
    BY <1>2 DEF AdoptionViews, Adoption!Shown
  <1>4. SamePosts /\ GoodView
    BY <1>1, <1>3, AdoptionForgotten, AdoptionFresh
  <1>5. SameIntents
    BY <1>1 DEF SameIntents
  <1> QED
    BY <1>1, <1>4, <1>5, AdoptionSame, AdoptionKeeps

LEMMA AdoptionChanges == ASSUME AdoptionInv, NEW k \in Chats, Adoption!chatChanges(k) PROVE AdoptionInv'
  <1>1. UNCHANGED <<completed, adoptionPending, dialog, adoptionReading, post>>
        /\ chat' = [chat EXCEPT ![k].rev = @ + 1]
    BY DEF Adoption!chatChanges
  <1>2. chat = [l \in Chats |-> chat[l]] /\ \A l \in Chats : chat[l] \in AdoptionChats(chat[l])
    BY DEF AdoptionInv, AdoptionShape
  <1>3. PICK x : x = [chat[k] EXCEPT !.rev = @ + 1]
    OBVIOUS
  <1>4. x \in AdoptionChats(x)
    BY <1>2, <1>3 DEF AdoptionChats
  <1>5. chat' = [chat EXCEPT ![k] = x]
    BY <1>1, <1>3
  <1>6. SameChats
    BY <1>2, <1>4, <1>5 DEF SameChats
  <1> QED
    BY <1>1, <1>6, AdoptionSame, AdoptionKeeps

LEMMA AdoptionLoses == ASSUME AdoptionInv, NEW n \in Adoption!Posts, Adoption!hostLoses(n) PROVE AdoptionInv'
  <1>1. UNCHANGED <<chat, completed, adoptionPending, dialog, adoptionReading>> /\ post[n] # None
        /\ post' = [post EXCEPT ![n].wire = "lost"]
    BY DEF Adoption!hostLoses
  <1>2. PICK q : q = [post[n] EXCEPT !.wire = "lost"]
    OBVIOUS
  <1>3. q \in AdoptionPosts /\ q.of = post[n].of /\ q.id = post[n].id /\ q.rev = post[n].rev
    BY <1>1, <1>2, AdoptionPostShape DEF AdoptionPosts
  <1>4. post' = [post EXCEPT ![n] = q]
    BY <1>1, <1>2
  <1>5. SamePosts
    BY <1>1, <1>3, <1>4, PostIsSome, AdoptionPostSet
  <1> QED
    BY <1>1, <1>5, AdoptionSame, AdoptionKeeps

LEMMA AdoptionAdopts == ASSUME AdoptionInv, NEW n \in Adoption!Posts, Adoption!hostAdopts(n) PROVE AdoptionInv'
  <1>1. PICK w \in {"done", "conflict"} :
                 /\ UNCHANGED <<adoptionPending, dialog, adoptionReading>> /\ post[n] # None
                 /\ post' = [post EXCEPT ![n].wire = w]
                 /\ completed' \subseteq completed \cup {post[n].id}
                 /\ chat' = [chat EXCEPT ![post[n].of].enrolled = TRUE] \/ chat' = chat
    BY DEF Adoption!hostAdopts
  <1>2. PICK q : q = [post[n] EXCEPT !.wire = w]
    OBVIOUS
  <1>3. q \in AdoptionPosts /\ q.of = post[n].of /\ q.id = post[n].id /\ q.rev = post[n].rev
    BY <1>1, <1>2, AdoptionPostShape DEF AdoptionPosts
  <1>4. post' = [post EXCEPT ![n] = q]
    BY <1>1, <1>2
  <1>5. SamePosts /\ SameIntents /\ GoodView
    BY <1>1, <1>3, <1>4, PostIsSome, AdoptionPostSet, AdoptionSame
  <1>9. SameChats
    <2>1. CASE chat' = [chat EXCEPT ![post[n].of].enrolled = TRUE]
      <3>1. chat = [l \in Chats |-> chat[l]] /\ \A l \in Chats : chat[l] \in AdoptionChats(chat[l])
        BY DEF AdoptionInv, AdoptionShape
      <3>2. PICK k : k = post[n].of
        OBVIOUS
      <3>3. k \in Chats
        BY <1>1, <3>2, AdoptionPostShape DEF AdoptionPosts
      <3>4. PICK x : x = [chat[k] EXCEPT !.enrolled = TRUE]
        OBVIOUS
      <3>5. x \in AdoptionChats(x)
        BY <3>1, <3>3, <3>4 DEF AdoptionChats
      <3>6. chat' = [chat EXCEPT ![k] = x]
        BY <2>1, <3>2, <3>4
      <3> QED
        BY <3>1, <3>5, <3>6 DEF SameChats
    <2> QED
      BY <1>1, <2>1, AdoptionSame
  <1>6. AdoptionShape' /\ ReviewIsOfItsChat'
    BY <1>5, <1>9 DEF AdoptionInv, AdoptionShape, SamePosts, SameIntents, SameChats, GoodView
  <1>7. IntentsDiffer' /\ PostIsItsIntent' /\ Adoption!OneIdOneReview'
    BY <1>5 DEF AdoptionInv, SamePosts, SameIntents, IntentsDiffer, PostIsItsIntent, Adoption!OneIdOneReview
  <1>8. CompletedWasPosted'
    BY <1>1, <1>5 DEF AdoptionInv, SamePosts, CompletedWasPosted
  <1> QED
    BY <1>6, <1>7, <1>8 DEF AdoptionInv

LEMMA AdoptionInclude == ASSUME AdoptionInv, NEW n \in Adoption!Posts, Adoption!include(n) PROVE AdoptionInv'
  <1> DEFINE k == dialog.key
             p == adoptionPending[k]
  <1>1. /\ UNCHANGED <<chat, completed, dialog, adoptionReading>> /\ post[n] = None /\ p # None
        /\ adoptionPending' = [adoptionPending EXCEPT ![k].state = "sending"]
        /\ post' = [post EXCEPT ![n] = [of |-> k, id |-> p.id, rev |-> p.rev, fresh |-> TRUE,
                                        pc |-> "sent", wire |-> "sent"]]
    BY DEF Adoption!include
  <1>2. PICK q : q = [of |-> k, id |-> p.id, rev |-> p.rev, fresh |-> TRUE, pc |-> "sent", wire |-> "sent"]
    OBVIOUS
  <1>3. PICK r : r = [p EXCEPT !.state = "sending"]
    OBVIOUS
  <1>4. k \in Chats /\ p \in AdoptionIntents(p) /\ adoptionPending = [l \in Chats |-> adoptionPending[l]]
        /\ post = [m \in Adoption!Posts |-> post[m]]
    BY <1>1 DEF AdoptionInv, AdoptionShape
  <1>5. q \in AdoptionPosts /\ q.of = k /\ q.id = p.id /\ q.rev = p.rev
    BY <1>2, <1>4 DEF AdoptionPosts, AdoptionIntents
  <1>6. r \in AdoptionIntents(r) /\ r.id = p.id /\ r.rev = p.rev
    BY <1>3, <1>4 DEF AdoptionIntents
  <1>7. post' = [post EXCEPT ![n] = q] /\ adoptionPending' = [adoptionPending EXCEPT ![k] = r]
    BY <1>1, <1>2, <1>3
  <1>8. q # None
    BY <1>5, PostIsSome
  <1>9. SameIntents /\ GoodView /\ SameChats
    <2>1. GoodView /\ SameChats
      BY <1>1, AdoptionSame
    <2>2. SameIntents
      BY <1>1, <1>4, <1>6, <1>7 DEF SameIntents, AdoptionInv, AdoptionShape
    <2> QED
      BY <2>1, <2>2
  <1>10. post'[n] = q /\ \A m \in Adoption!Posts \ {n} : post'[m] = post[m]
    BY <1>4, <1>7
  <1>11. AdoptionShape' /\ ReviewIsOfItsChat'
    BY <1>4, <1>5, <1>7, <1>9, <1>10 DEF AdoptionInv, AdoptionShape, SameIntents, SameChats, GoodView
  <1>12. IntentsDiffer' /\ CompletedWasPosted'
    BY <1>1, <1>8, <1>9, <1>10 DEF AdoptionInv, SameIntents, IntentsDiffer, CompletedWasPosted
  <1>13. \A m \in Adoption!Posts : post[m] # None /\ post[m].id = p.id => post[m].of = k /\ post[m].rev = p.rev
    BY <1>1, <1>4 DEF AdoptionInv, PostIsItsIntent
  <1>14. Adoption!OneIdOneReview'
    BY <1>5, <1>10, <1>13 DEF AdoptionInv, Adoption!OneIdOneReview
  <1>15. PostIsItsIntent'
    <2> SUFFICES ASSUME NEW m \in Adoption!Posts, NEW l \in Chats, post'[m] # None,
                        adoptionPending'[l] # None, post'[m].id = adoptionPending'[l].id
                 PROVE  post'[m].of = l /\ post'[m].rev = adoptionPending'[l].rev
      BY DEF PostIsItsIntent
    <2>1. adoptionPending[l] # None /\ adoptionPending'[l].id = adoptionPending[l].id
          /\ adoptionPending'[l].rev = adoptionPending[l].rev
      BY <1>9 DEF SameIntents
    <2>2. CASE m = n
      BY <1>1, <1>4, <1>5, <1>10, <2>1, <2>2 DEF AdoptionInv, IntentsDiffer
    <2>3. CASE m # n
      BY <1>10, <2>1, <2>3 DEF AdoptionInv, PostIsItsIntent
    <2> QED
      BY <2>2, <2>3
  <1> QED
    BY <1>11, <1>12, <1>14, <1>15 DEF AdoptionInv

LEMMA AdoptionAnswer == ASSUME AdoptionInv, NEW n \in Adoption!Posts, Adoption!answer(n) PROVE AdoptionInv'
  <1> DEFINE k == post[n].of
             isHere == dialog.key = k
             fresh == post[n].fresh /\ dialog.enabled
  <1>1. /\ UNCHANGED <<chat, completed>> /\ post[n] # None /\ post' = [post EXCEPT ![n].pc = "ended"]
    BY DEF Adoption!answer
  <1>2. PICK q : q = [post[n] EXCEPT !.pc = "ended"]
    OBVIOUS
  <1>3. q \in AdoptionPosts /\ q.of = post[n].of /\ q.id = post[n].id /\ q.rev = post[n].rev
    BY <1>1, <1>2, AdoptionPostShape DEF AdoptionPosts
  <1>4. post' = [post EXCEPT ![n] = q]
    BY <1>1, <1>2
  <1>5. SamePosts
    BY <1>1, <1>3, <1>4, PostIsSome, AdoptionPostSet
  <1>6. dialog \in AdoptionViews(dialog) /\ dialog.key \in Chats
        /\ adoptionPending = [l \in Chats |-> adoptionPending[l]]
    BY DEF AdoptionInv, AdoptionShape
  <1>7. CASE /\ adoptionPending' = [adoptionPending EXCEPT ![k] = None]
             /\ dialog' = IF isHere THEN [dialog EXCEPT !.enrolled = TRUE, !.review = None, !.stale = FALSE]
                          ELSE dialog
             /\ adoptionReading' = IF isHere /\ dialog.enabled THEN [of |-> k, answer |-> None] ELSE adoptionReading
    <2>1. SameIntents
      BY <1>6, <1>7 DEF SameIntents, AdoptionInv, AdoptionShape
    <2>2. PICK r : r = [of |-> k, answer |-> None]
      OBVIOUS
    <2>3. r \in AdoptionReadings(r) /\ r.of = k /\ r.answer = None
      BY <2>2 DEF AdoptionReadings
    <2>4. ASSUME dialog.key = k PROVE GoodView
      <3>1. dialog' = [dialog EXCEPT !.enrolled = TRUE, !.review = None, !.stale = FALSE]
            /\ (adoptionReading' = r \/ adoptionReading' = adoptionReading)
        BY <1>7, <2>2, <2>4
      <3>2. dialog' \in AdoptionViews(dialog') /\ dialog'.key = dialog.key /\ dialog'.review = None
        BY <1>6, <3>1 DEF AdoptionViews
      <3>3. adoptionReading' # None =>
              /\ adoptionReading' \in AdoptionReadings(adoptionReading')
              /\ adoptionReading'.of = dialog.key
              /\ adoptionReading'.answer # None => /\ adoptionReading'.answer.of = dialog.key
                                                   /\ adoptionReading'.answer.rev \in Nat
        BY <2>3, <2>4, <3>1 DEF AdoptionInv, AdoptionShape, ReviewIsOfItsChat
      <3> QED
        BY <1>6, <3>2, <3>3 DEF GoodView, ReviewIsOfItsChat
    <2>5. ASSUME dialog.key # k PROVE GoodView
      <3>1. UNCHANGED <<dialog, adoptionReading>>
        BY <1>7, <2>5
      <3> QED
        BY <3>1, AdoptionSame
    <2>6. GoodView
      BY <2>4, <2>5
    <2> QED
      BY <1>1, <1>5, <2>1, <2>6, AdoptionSame, AdoptionKeeps
  <1>8. CASE /\ adoptionPending' = [adoptionPending EXCEPT ![k] = None]
             /\ dialog' = IF fresh THEN [dialog EXCEPT !.review = None, !.stale = TRUE] ELSE dialog
             /\ UNCHANGED adoptionReading
    <2>1. SameIntents
      BY <1>6, <1>8 DEF SameIntents, AdoptionInv, AdoptionShape
    <2>2. dialog' \in AdoptionViews(dialog') /\ dialog'.key = dialog.key
          /\ dialog'.review \in {None, dialog.review}
      BY <1>6, <1>8 DEF AdoptionViews
    <2>3. GoodView
      BY <1>6, <1>8, <2>2 DEF GoodView, AdoptionInv, AdoptionShape, ReviewIsOfItsChat
    <2> QED
      BY <1>1, <1>5, <2>1, <2>3, AdoptionSame, AdoptionKeeps
  <1>9. CASE /\ Adoption!Mine(n) /\ adoptionPending' = [adoptionPending EXCEPT ![k].state = "uncertain"]
             /\ UNCHANGED <<dialog, adoptionReading>>
    <2>1. PICK r : r = [adoptionPending[k] EXCEPT !.state = "uncertain"]
      OBVIOUS
    <2>2. adoptionPending[k] # None
      BY <1>9 DEF Adoption!Mine
    <2>3. k \in Chats => /\ r \in AdoptionIntents(r) /\ r.id = adoptionPending[k].id
                         /\ r.rev = adoptionPending[k].rev
      BY <2>1, <2>2 DEF AdoptionIntents, AdoptionInv, AdoptionShape
    <2>4. adoptionPending' = [adoptionPending EXCEPT ![k] = r]
      BY <1>9, <2>1
    <2>5. SameIntents
      BY <1>6, <2>2, <2>3, <2>4 DEF SameIntents, AdoptionInv, AdoptionShape
    <2> QED
      BY <1>1, <1>5, <1>9, <2>5, AdoptionSame, AdoptionKeeps
  <1>10. CASE UNCHANGED <<adoptionPending, dialog, adoptionReading>>
    BY <1>1, <1>5, <1>10, AdoptionSame, AdoptionKeeps
  <1> QED
    BY <1>7, <1>8, <1>9, <1>10 DEF Adoption!answer

LEMMA AdoptionNext ==
    ASSUME AdoptionInv, Adoption!Next \/ UNCHANGED adoptionVars
    PROVE  AdoptionInv'
  <1>1. CASE UNCHANGED adoptionVars
    BY <1>1, AdoptionSame, AdoptionKeeps DEF adoptionVars
  <1>2. CASE \E n \in Adoption!Posts : Adoption!include(n) \/ Adoption!Step(n) \/ Adoption!hostLoses(n)
    BY <1>2, AdoptionInclude, AdoptionAdopts, AdoptionAnswer, AdoptionLoses DEF Adoption!Step
  <1>3. CASE \E k \in Chats : Adoption!showChat(k) \/ Adoption!chatChanges(k)
    BY <1>3, AdoptionShowChat, AdoptionChanges
  <1> QED
    BY <1>1, <1>2, <1>3, AdoptionPreview, AdoptionReviews, AdoptionRead, AdoptionShows, AdoptionSignOut
       DEF Adoption!Next

\* Only a confirmation sends a request, and it sends what is shown.
LEMMA AdoptionActs ==
    ASSUME AdoptionInv, Adoption!Next \/ UNCHANGED adoptionVars,
           NEW n \in Adoption!Posts, post[n] = None, post'[n] # None
    PROVE  /\ dialog.review.of = post'[n].of /\ dialog.review.rev = post'[n].rev
           /\ dialog.key = post'[n].of
  <1>0. post = [m \in Adoption!Posts |-> post[m]]
    BY DEF AdoptionInv, AdoptionShape
  <1>1. post # post'
    OBVIOUS
  <1>2. post' # Adoption!Forgotten
    BY DEF Adoption!Forgotten
  <1>3. ASSUME NEW m \in Adoption!Posts, post[m] # None, NEW q PROVE post' # [post EXCEPT ![m] = q]
    BY <1>0, <1>3
  <1>4. PICK m \in Adoption!Posts : Adoption!include(m)
    <2>1. ~(\/ Adoption!preview(TRUE) \/ Adoption!hostReviews \/ Adoption!readPreview \/ Adoption!readFails
            \/ Adoption!enable \/ Adoption!disable \/ Adoption!closeDialog \/ UNCHANGED adoptionVars)
      BY <1>1 DEF Adoption!preview, Adoption!hostReviews, Adoption!readPreview, Adoption!readFails,
         Adoption!enable, Adoption!disable, Adoption!closeDialog, adoptionVars
    <2>2. ~Adoption!signOut /\ \A k \in Chats : ~Adoption!showChat(k) /\ ~Adoption!chatChanges(k)
      BY <1>1, <1>2 DEF Adoption!signOut, Adoption!showChat, Adoption!chatChanges
    <2>3. ASSUME NEW m \in Adoption!Posts PROVE ~Adoption!hostAdopts(m)
      BY <1>3 DEF Adoption!hostAdopts
    <2>4. ASSUME NEW m \in Adoption!Posts PROVE ~Adoption!answer(m)
      BY <1>3 DEF Adoption!answer
    <2>5. ASSUME NEW m \in Adoption!Posts PROVE ~Adoption!hostLoses(m)
      BY <1>3 DEF Adoption!hostLoses
    <2> QED
      BY <2>1, <2>2, <2>3, <2>4, <2>5 DEF Adoption!Next, Adoption!Step
  <1> DEFINE p == adoptionPending[dialog.key]
  <1>5. /\ dialog.review # None /\ Adoption!Agreed(p, dialog.review)
        /\ post' = [post EXCEPT ![m] = [of |-> dialog.key, id |-> p.id, rev |-> p.rev, fresh |-> TRUE,
                                        pc |-> "sent", wire |-> "sent"]]
    BY <1>4 DEF Adoption!include
  <1>6. post'[n].of = dialog.key /\ post'[n].rev = p.rev
    <2>1. PICK q : q = [of |-> dialog.key, id |-> p.id, rev |-> p.rev, fresh |-> TRUE,
                        pc |-> "sent", wire |-> "sent"]
      OBVIOUS
    <2>2. q.of = dialog.key /\ q.rev = p.rev
      BY <2>1
    <2>3. post' = [post EXCEPT ![m] = q]
      BY <1>5, <2>1
    <2>4. m = n
      BY <1>0, <2>3
    <2> QED
      BY <1>0, <2>2, <2>3, <2>4
  <1>7. dialog.review.of = dialog.key
    BY <1>5 DEF AdoptionInv, ReviewIsOfItsChat
  <1> QED
    BY <1>5, <1>6, <1>7 DEF Adoption!Agreed

-----------------------------------------------------------------------------
(* The children of the main agent (CoordinatorPanel). *)

\* The children of the main agent.
Team == INSTANCE CoordinatorPanel WITH Accounts <- People, MaxRequests <- MaxCalls
teamVars == <<child, status, snapRead, received, sourceRead, act, events>>

TeamRows == [control : {"user", "orchestrator"}, revision : Nat, asked : Nat, open : BOOLEAN]
TeamStatus(p) == [account : {p.account}, selected : {p.selected}, foreground : {p.foreground},
                  stale : {p.stale}, locked : {p.locked}, snapshot : {p.snapshot}, flight : {p.flight}]
TeamActs(q) == [kind : {q.kind}, of : {q.of}, row : {q.row}, at : {q.at}, fresh : {q.fresh},
                pc : {q.pc}, wire : {q.wire}]
\* Row r is one that a child, whose row is s, has now or had before.
TeamFormer(r, s) == r.revision <= s.revision /\ (r.revision = s.revision => r.control = s.control)
\* The row of a child after a transfer from the row r.
TeamAfter(r) == [control |-> Team!Other(r.control), revision |-> r.revision + 1, asked |-> 0, open |-> TRUE]
\* Snapshot g shows rows the children ch have or had.
TeamSeen(g, ch) ==
    g # None => /\ g = [k \in Team!Children |-> g[k]]
                /\ \A k \in Team!Children : g[k] \in TeamRows /\ TeamFormer(g[k], ch[k])
\* A transfer was asked for a row the child has or had; once it is done the child
\* has, or had, the row that follows.
TeamActOk(q, ch) ==
    q # None => /\ q \in TeamActs(q) /\ q.of \in Team!Children
                /\ q.kind = "control" =>
                     /\ q.row \in TeamRows /\ TeamFormer(q.row, ch[q.of])
                     /\ q.wire = "done" => TeamFormer(TeamAfter(q.row), ch[q.of])
TeamHost(ch) == ch = [k \in Team!Children |-> ch[k]] /\ \A k \in Team!Children : ch[k] \in TeamRows

TeamInv ==
    /\ TeamHost(child)
    /\ status \in TeamStatus(status) /\ TeamSeen(status.snapshot, child)
    /\ snapRead # None => TeamSeen(snapRead.answer, child)
    /\ act = [n \in Team!Acts |-> act[n]] /\ \A n \in Team!Acts : TeamActOk(act[n], child)

LEMMA TeamInitInv == ASSUME Team!Init PROVE TeamInv
  <1>1. /\ child = [k \in Team!Children |-> [control |-> "orchestrator", revision |-> 0, asked |-> 1, open |-> TRUE]]
        /\ status = Team!Opened(Owner) /\ snapRead = None /\ act = [n \in Team!Acts |-> None]
    BY DEF Team!Init
  <1>2. TeamHost(child)
    BY <1>1 DEF TeamHost, TeamRows
  <1>3. status \in TeamStatus(status) /\ status.snapshot = None
    BY <1>1 DEF Team!Opened, TeamStatus
  <1> QED
    BY <1>1, <1>2, <1>3 DEF TeamInv, TeamSeen, TeamActOk

\* A row that a child had, and a transfer done, stay in its past as the child goes on.
LEMMA TeamFormerIs ==
    ASSUME NEW r, NEW s, NEW t, r.revision \in Nat, s.revision \in Nat, t.revision \in Nat,
           TeamFormer(r, s), TeamFormer(s, t)
    PROVE  TeamFormer(r, t)
  BY DEF TeamFormer

TeamGoesOn == TeamHost(child') /\ \A k \in Team!Children : TeamFormer(child[k], child'[k])

LEMMA TeamStays == ASSUME TeamInv, UNCHANGED child PROVE TeamGoesOn
  BY DEF TeamInv, TeamGoesOn, TeamHost, TeamFormer, TeamRows

LEMMA TeamSeenStays == ASSUME TeamInv, TeamGoesOn, NEW g, TeamSeen(g, child) PROVE TeamSeen(g, child')
  <1> SUFFICES ASSUME g # None, NEW k \in Team!Children PROVE TeamFormer(g[k], child'[k])
    BY DEF TeamSeen
  <1>1. g[k] \in TeamRows /\ child[k] \in TeamRows /\ child'[k] \in TeamRows
    BY DEF TeamSeen, TeamInv, TeamGoesOn, TeamHost
  <1>2. g[k].revision \in Nat /\ child[k].revision \in Nat /\ child'[k].revision \in Nat
    BY <1>1 DEF TeamRows
  <1> QED
    BY <1>2, TeamFormerIs DEF TeamSeen, TeamGoesOn

LEMMA TeamActStays == ASSUME TeamInv, TeamGoesOn, NEW q, TeamActOk(q, child) PROVE TeamActOk(q, child')
  <1> SUFFICES ASSUME q # None, q.kind = "control"
               PROVE  /\ TeamFormer(q.row, child'[q.of])
                      /\ q.wire = "done" => TeamFormer(TeamAfter(q.row), child'[q.of])
    BY DEF TeamActOk
  <1>1. q.of \in Team!Children /\ q.row \in TeamRows
    BY DEF TeamActOk
  <1>2. child[q.of] \in TeamRows /\ child'[q.of] \in TeamRows
    BY <1>1 DEF TeamInv, TeamGoesOn, TeamHost
  <1>3. /\ q.row.revision \in Nat /\ child[q.of].revision \in Nat /\ child'[q.of].revision \in Nat
        /\ TeamAfter(q.row).revision \in Nat
    BY <1>1, <1>2 DEF TeamRows, TeamAfter
  <1> QED
    BY <1>1, <1>3, TeamFormerIs DEF TeamActOk, TeamGoesOn

\* Only the host's part of the invariant has to be shown of the children it changes.
LEMMA TeamKept ==
    ASSUME TeamInv, TeamGoesOn, status' \in TeamStatus(status'), TeamSeen(status'.snapshot, child),
           snapRead' # None => TeamSeen(snapRead'.answer, child),
           act' = [n \in Team!Acts |-> act'[n]], \A n \in Team!Acts : TeamActOk(act'[n], child)
    PROVE  TeamInv'
  <1>1. TeamHost(child)'
    BY DEF TeamGoesOn
  <1>2. TeamSeen(status'.snapshot, child')
    BY TeamSeenStays
  <1>3. snapRead' # None => TeamSeen(snapRead'.answer, child')
    BY TeamSeenStays
  <1>4. \A n \in Team!Acts : TeamActOk(act'[n], child')
    BY TeamActStays
  <1> QED
    BY <1>1, <1>2, <1>3, <1>4 DEF TeamInv

\* An act that only moves on, or is told to nobody, asks for what it asked for.
LEMMA TeamActIs ==
    ASSUME NEW q, q # None, NEW ch, TeamActOk(q, ch), NEW v, NEW r,
           \/ r = [q EXCEPT !.pc = v] \/ r = [q EXCEPT !.fresh = v]
           \/ v # "done" /\ r = [q EXCEPT !.wire = v]
    PROVE  TeamActOk(r, ch) /\ r.kind = q.kind /\ r.of = q.of /\ r.row = q.row /\ (r.wire = q.wire \/ r.wire = v)
  <1>1. q \in TeamActs(q)
    BY DEF TeamActOk
  <1>2. /\ r.kind = q.kind /\ r.of = q.of /\ r.row = q.row /\ r \in TeamActs(r)
        /\ r.wire = q.wire \/ (r.wire = v /\ v # "done")
    BY <1>1 DEF TeamActs
  <1> QED
    BY <1>2 DEF TeamActOk

\* A rendering changes no act's intent.
LEMMA TeamRender ==
    ASSUME NEW p, NEW rec, NEW rd, NEW w, NEW retry, Team!Render(p, rec, rd, w, retry),
           \A n \in Team!Acts : TeamActOk(w[n], child)
    PROVE  /\ status' = p /\ act' = [n \in Team!Acts |-> act'[n]]
           /\ \A n \in Team!Acts : TeamActOk(act'[n], child)
           /\ \A n \in Team!Acts : act'[n].wire = w[n].wire
  <1> DEFINE same == p.account = status.account /\ Team!Visible(p) = Team!Visible(status)
             rec1 == IF same THEN rec ELSE Team!NoneReceived
             waits(q) == IF q.kind = "control" THEN p.account = status.account
                         ELSE Team!Card(p, rec1, q.of) /\ rec1[q.of].request = q.row.asked
                              /\ p.locked = status.locked
  <1>1. /\ status' = p
        /\ act' = [n \in Team!Acts |-> IF w[n] = None THEN None
                                       ELSE [w[n] EXCEPT !.fresh = @ /\ waits(w[n])]]
    BY DEF Team!Render
  <1> HIDE DEF waits
  <1>2. ASSUME NEW n \in Team!Acts, w[n] # None
        PROVE  TeamActOk(act'[n], child) /\ act'[n].wire = w[n].wire
    <2>1. PICK v : v = (w[n].fresh /\ waits(w[n]))
      OBVIOUS
    <2>2. PICK r : r = [w[n] EXCEPT !.fresh = v]
      OBVIOUS
    <2>3. act'[n] = r
      BY <1>1, <1>2, <2>1, <2>2
    <2>4. w[n] \in TeamActs(w[n])
      BY <1>2 DEF TeamActOk
    <2>5. r.wire = w[n].wire
      BY <2>2, <2>4 DEF TeamActs
    <2>6. TeamActOk(r, child)
      BY <1>2, <2>2, TeamActIs
    <2> QED
      BY <2>3, <2>5, <2>6
  <1>3. \A n \in Team!Acts : w[n] = None => act'[n] = None /\ TeamActOk(act'[n], child)
    BY <1>1 DEF TeamActOk
  <1> QED
    BY <1>1, <1>2, <1>3

\* What the panel shows next comes from what it shows: its snapshot is the former
\* one, the one it read or none, or has the row that followed a transfer.
LEMMA TeamShows ==
    ASSUME TeamInv, UNCHANGED child, NEW p, p \in TeamStatus(p), TeamSeen(p.snapshot, child),
           NEW rec, NEW rd, NEW w, NEW retry, Team!Render(p, rec, rd, w, retry),
           \A n \in Team!Acts : TeamActOk(w[n], child),
           snapRead' # None => snapRead' = snapRead \/ snapRead' = Team!Reading
    PROVE  TeamInv'
  <1>1. /\ status' = p /\ act' = [n \in Team!Acts |-> act'[n]]
        /\ \A n \in Team!Acts : TeamActOk(act'[n], child)
    BY TeamRender
  <1>2. TeamGoesOn
    BY TeamStays
  <1>3. snapRead' # None => TeamSeen(snapRead'.answer, child)
    BY DEF TeamInv, Team!Reading, TeamSeen
  <1> QED
    BY <1>1, <1>2, <1>3, TeamKept

LEMMA TeamReads ==
    ASSUME TeamInv, Team!Reads \/ Team!readSnapshotFails \/ Team!readSourceFails
    PROVE  TeamInv'
  <1>1. UNCHANGED child
    BY DEF Team!Reads, Team!refresh, Team!hostSnapshot, Team!readSnapshot, Team!hostTask,
           Team!readSource, Team!readSnapshotFails, Team!readSourceFails
  <1>2. TeamGoesOn
    BY <1>1, TeamStays
  <1>3. CASE Team!refresh \/ Team!hostSnapshot \/ Team!hostTask
    <2>1. UNCHANGED <<status, act>> /\ (snapRead' = snapRead \/ snapRead' = Team!Reading \/ snapRead' = [answer |-> child])
      BY <1>3 DEF Team!refresh, Team!hostSnapshot, Team!hostTask
    <2>2. TeamSeen(child, child)
      <3>1. \A k \in Team!Children : child[k].revision \in Nat
        BY DEF TeamInv, TeamHost, TeamRows
      <3> QED
        BY <3>1 DEF TeamInv, TeamHost, TeamSeen, TeamFormer
    <2>3. snapRead' # None => TeamSeen(snapRead'.answer, child)
      BY <2>1, <2>2 DEF TeamInv, Team!Reading, TeamSeen
    <2> QED
      BY <1>2, <2>1, <2>3, TeamKept DEF TeamInv
  <1>4. CASE Team!readSnapshot
    <2>1. PICK g : g = snapRead.answer
      OBVIOUS
    <2>4. PICK p : p = [status EXCEPT !.snapshot = g, !.stale = FALSE]
      OBVIOUS
    <2>2. p \in TeamStatus(p) /\ p.snapshot = snapRead.answer
      BY <2>1, <2>4 DEF TeamInv, TeamStatus
    <2>3. Team!Render(p, received, sourceRead, act, FALSE) /\ snapRead' = None /\ snapRead # None
      BY <1>4, <2>1, <2>4 DEF Team!readSnapshot, Team!Show
    <2> QED
      BY <1>1, <2>2, <2>3, TeamShows DEF TeamInv
  <1>5. CASE Team!readSnapshotFails
    <2>1. PICK p : p = [status EXCEPT !.stale = TRUE]
      OBVIOUS
    <2>2. p \in TeamStatus(p) /\ p.snapshot = status.snapshot
      BY <2>1 DEF TeamInv, TeamStatus
    <2>3. Team!Render(p, received, sourceRead, act, FALSE) /\ snapRead' = None
      BY <1>5, <2>1 DEF Team!readSnapshotFails, Team!Show
    <2> QED
      BY <1>1, <2>2, <2>3, TeamShows DEF TeamInv
  <1>6. CASE Team!readSource \/ Team!readSourceFails
    <2>1. UNCHANGED snapRead /\ \E rec, rd : Team!Render(status, rec, rd, act, FALSE)
      BY <1>6 DEF Team!readSource, Team!readSourceFails
    <2> QED
      BY <1>1, <2>1, TeamShows DEF TeamInv
  <1> QED
    BY <1>3, <1>4, <1>5, <1>6 DEF Team!Reads

LEMMA TeamMoves ==
    ASSUME TeamInv,
           \/ Team!blur \/ Team!focus \/ Team!lock \/ Team!unlock
           \/ \E k \in Team!Children \cup {Team!Primary} : Team!onOpen(k)
           \/ \E a \in People : Team!signIn(a)
    PROVE  TeamInv'
  <1>1. UNCHANGED child
    BY DEF Team!blur, Team!focus, Team!lock, Team!unlock, Team!onOpen, Team!signIn
  <1>2. CASE Team!blur \/ Team!focus
    <2>1. PICK v, p : p = [status EXCEPT !.foreground = v] /\ Team!Render(p, received, sourceRead, act, FALSE)
                      /\ (snapRead' = None \/ snapRead' = Team!Reading)
      BY <1>2 DEF Team!blur, Team!focus, Team!Show
    <2>2. p \in TeamStatus(p) /\ p.snapshot = status.snapshot
      BY <2>1 DEF TeamInv, TeamStatus
    <2> QED
      BY <1>1, <2>1, <2>2, TeamShows DEF TeamInv
  <1>3. CASE Team!lock
    <2>1. PICK p : p = [status EXCEPT !.locked = TRUE]
      OBVIOUS
    <2>2. Team!Render(p, received, sourceRead, act, FALSE) /\ snapRead' = snapRead
      BY <1>3, <2>1 DEF Team!lock, Team!Show
    <2>3. p \in TeamStatus(p) /\ p.snapshot = status.snapshot
      BY <2>1 DEF TeamInv, TeamStatus
    <2> QED
      BY <1>1, <2>2, <2>3, TeamShows DEF TeamInv
  <1>4. CASE Team!unlock
    <2>1. PICK p : p = [status EXCEPT !.locked = FALSE]
      OBVIOUS
    <2>2. status' = p /\ UNCHANGED <<snapRead, act>>
      BY <1>4, <2>1 DEF Team!unlock
    <2>3. p \in TeamStatus(p) /\ p.snapshot = status.snapshot
      BY <2>1 DEF TeamInv, TeamStatus
    <2> QED
      BY <1>1, <2>2, <2>3, TeamStays, TeamKept DEF TeamInv
  <1>5. ASSUME NEW k \in Team!Children \cup {Team!Primary}, Team!onOpen(k) PROVE TeamInv'
    <2>1. PICK p : p = [status EXCEPT !.selected = k]
      OBVIOUS
    <2>2. Team!Render(p, received, sourceRead, act, FALSE) /\ snapRead' = snapRead
      BY <1>5, <2>1 DEF Team!onOpen, Team!Show
    <2>3. p \in TeamStatus(p) /\ p.snapshot = status.snapshot
      BY <2>1 DEF TeamInv, TeamStatus
    <2> QED
      BY <1>1, <2>2, <2>3, TeamShows DEF TeamInv
  <1>6. ASSUME NEW a \in People, Team!signIn(a) PROVE TeamInv'
    <2>1. PICK q : q = Team!Opened(a)
      OBVIOUS
    <2>2. q \in TeamStatus(q) /\ q.snapshot = None
      BY <2>1 DEF Team!Opened, TeamStatus
    <2>7. PICK f : f = status.foreground
      OBVIOUS
    <2>3. PICK p : p = [q EXCEPT !.foreground = f]
      OBVIOUS
    <2>4. p \in TeamStatus(p) /\ p.snapshot = q.snapshot
      BY <2>2, <2>3 DEF TeamStatus
    <2>5. Team!Render(p, received, sourceRead, act, FALSE) /\ (snapRead' = None \/ snapRead' = Team!Reading)
      BY <1>6, <2>1, <2>3, <2>7 DEF Team!signIn, Team!Show
    <2>6. TeamSeen(p.snapshot, child)
      BY <2>2, <2>4 DEF TeamSeen
    <2> QED
      BY <1>1, <2>4, <2>5, <2>6, TeamShows DEF TeamInv
  <1> QED
    BY <1>2, <1>3, <1>4, <1>5, <1>6

LEMMA TeamChildren == ASSUME TeamInv, NEW k \in Team!Children, Team!others(k) PROVE TeamInv'
  <1>1. UNCHANGED <<status, snapRead, act>>
    BY DEF Team!others
  <1>2. PICK s : s = child[k]
    OBVIOUS
  <1>3. s \in TeamRows /\ child = [d \in Team!Children |-> child[d]]
    BY <1>2 DEF TeamInv, TeamHost
  <1>4. PICK r : /\ child' = [child EXCEPT ![k] = r]
                 /\ \/ r = [[s EXCEPT !.control = Team!Other(s.control)] EXCEPT !.revision = s.revision + 1]
                    \/ r = [s EXCEPT !.open = FALSE]
                    \/ r = [[s EXCEPT !.open = TRUE] EXCEPT !.asked = s.asked + 1]
    BY <1>2, <1>3 DEF Team!others, TeamRows
  <1>5. r \in TeamRows /\ (r.revision = s.revision + 1 \/ (r.revision = s.revision /\ r.control = s.control))
    <2>1. CASE r = [[s EXCEPT !.control = Team!Other(s.control)] EXCEPT !.revision = s.revision + 1]
      <3>1. PICK u : u = [s EXCEPT !.control = Team!Other(s.control)]
        OBVIOUS
      <3>2. u \in TeamRows /\ u.revision = s.revision
        BY <1>3, <3>1 DEF TeamRows, Team!Other
      <3>3. r = [u EXCEPT !.revision = s.revision + 1]
        BY <2>1, <3>1
      <3> QED
        BY <3>2, <3>3 DEF TeamRows
    <2>2. CASE r = [s EXCEPT !.open = FALSE]
      BY <1>3, <2>2 DEF TeamRows
    <2>3. CASE r = [[s EXCEPT !.open = TRUE] EXCEPT !.asked = s.asked + 1]
      <3>1. PICK u : u = [s EXCEPT !.open = TRUE]
        OBVIOUS
      <3>2. u \in TeamRows /\ u.revision = s.revision /\ u.control = s.control /\ u.asked = s.asked
        BY <1>3, <3>1 DEF TeamRows
      <3>3. r = [u EXCEPT !.asked = s.asked + 1]
        BY <2>3, <3>1
      <3> QED
        BY <3>2, <3>3 DEF TeamRows
    <2> QED
      BY <1>4, <2>1, <2>2, <2>3
  <1>6. s.revision \in Nat
    BY <1>3 DEF TeamRows
  <1>7. TeamFormer(s, r)
    BY <1>5, <1>6 DEF TeamFormer
  <1>8. \A d \in Team!Children : child[d] \in TeamRows /\ child[d].revision \in Nat
    BY DEF TeamInv, TeamHost, TeamRows
  <1>9. \A d \in Team!Children : TeamFormer(child[d], child'[d]) /\ child'[d] \in TeamRows
    BY <1>2, <1>3, <1>4, <1>5, <1>7, <1>8 DEF TeamFormer
  <1>10. child' = [d \in Team!Children |-> child'[d]]
    BY <1>3, <1>4
  <1> QED
    BY <1>1, <1>9, <1>10, TeamKept DEF TeamInv, TeamGoesOn, TeamHost

\* The children's rows are in their types, and a write of one child goes on from its row.
LEMMA TeamChildIs ==
    ASSUME TeamInv, NEW k \in Team!Children, NEW r, r \in TeamRows,
           TeamFormer(child[k], r), child' = [child EXCEPT ![k] = r]
    PROVE  TeamGoesOn
  <1>1. \A d \in Team!Children : child[d] \in TeamRows /\ child[d].revision \in Nat
    BY DEF TeamInv, TeamHost, TeamRows
  <1>2. \A d \in Team!Children : TeamFormer(child[d], child[d])
    BY <1>1 DEF TeamFormer
  <1>3. child = [d \in Team!Children |-> child[d]]
    BY DEF TeamInv, TeamHost
  <1>4. \A d \in Team!Children : TeamFormer(child[d], child'[d]) /\ child'[d] \in TeamRows
    BY <1>1, <1>2, <1>3
  <1>5. child' = [d \in Team!Children |-> child'[d]]
    BY <1>3
  <1> QED
    BY <1>4, <1>5 DEF TeamGoesOn, TeamHost

\* A transfer that the host makes.
LEMMA TeamTransfers ==
    ASSUME TeamInv, NEW n \in Team!Acts, Team!control(n), Team!UpToDate(act[n])
    PROVE  TeamInv' /\ child[act[n].of].control = act[n].row.control
  <1>1. PICK q, s, k : q = act[n] /\ k = q.of /\ s = child[k]
    OBVIOUS
  <1>2. /\ q # None /\ q.kind = "control" /\ UNCHANGED <<status, snapRead>>
        /\ act' = [act EXCEPT ![n].wire = "done"] /\ s.revision = q.row.revision
    BY <1>1 DEF Team!control, Team!UpToDate
  <1>3. /\ q \in TeamActs(q) /\ k \in Team!Children /\ q.row \in TeamRows /\ TeamFormer(q.row, s)
        /\ act = [m \in Team!Acts |-> act[m]] /\ child = [d \in Team!Children |-> child[d]] /\ s \in TeamRows
    BY <1>1, <1>2 DEF TeamInv, TeamActOk, TeamHost
  <1>4. s.control = q.row.control
    BY <1>2, <1>3 DEF TeamFormer, TeamRows
  <1>5. PICK r : child' = [child EXCEPT ![k] = r]
                 /\ r = [[s EXCEPT !.control = Team!Other(q.row.control)] EXCEPT !.revision = s.revision + 1]
    BY <1>1, <1>3 DEF Team!control, TeamRows
  <1>6. r \in TeamRows /\ r.revision = s.revision + 1 /\ r.control = Team!Other(q.row.control) /\ s.revision \in Nat
    <2>1. PICK u : u = [s EXCEPT !.control = Team!Other(q.row.control)]
      OBVIOUS
    <2>2. u \in TeamRows /\ u.control = Team!Other(q.row.control)
      BY <1>3, <2>1 DEF TeamRows, Team!Other
    <2>3. r = [u EXCEPT !.revision = s.revision + 1] /\ s.revision \in Nat
      BY <1>3, <1>5, <2>1 DEF TeamRows
    <2> QED
      BY <2>2, <2>3 DEF TeamRows
  <1>7. TeamFormer(s, r) /\ TeamFormer(TeamAfter(q.row), r)
    BY <1>2, <1>6 DEF TeamFormer, TeamAfter
  <1>8. TeamGoesOn
    BY <1>1, <1>3, <1>5, <1>6, <1>7, TeamChildIs
  <1>9. PICK u : u = [q EXCEPT !.wire = "done"]
    OBVIOUS
  <1>10. u \in TeamActs(u) /\ u.kind = q.kind /\ u.of = k /\ u.row = q.row
    BY <1>1, <1>3, <1>9 DEF TeamActs
  <1>11. act' = [act EXCEPT ![n] = u]
    BY <1>1, <1>2, <1>9
  <1>12. TeamFormer(q.row, r)
    BY <1>2, <1>6 DEF TeamFormer
  <1>13. child'[k] = r
    BY <1>3, <1>5
  <1>14. TeamActOk(u, child')
    BY <1>3, <1>7, <1>10, <1>12, <1>13 DEF TeamActOk
  <1>15. \A m \in Team!Acts : TeamActOk(act'[m], child')
    BY <1>3, <1>8, <1>11, <1>14, TeamActStays DEF TeamInv
  <1>16. TeamSeen(status.snapshot, child') /\ (snapRead # None => TeamSeen(snapRead.answer, child'))
    BY <1>8, TeamSeenStays DEF TeamInv
  <1>17. act' = [m \in Team!Acts |-> act'[m]]
    BY <1>3, <1>11
  <1>18. TeamInv'
    BY <1>2, <1>8, <1>15, <1>16, <1>17 DEF TeamInv, TeamGoesOn
  <1> QED
    BY <1>1, <1>4, <1>18

\* An act that moves on, or is answered otherwise than by a transfer.
LEMMA TeamActMoves ==
    ASSUME TeamInv, NEW n \in Team!Acts, act[n] # None, NEW v, NEW w,
           \/ w = [act EXCEPT ![n].pc = v]
           \/ (v # "done" \/ act[n].kind = "decide") /\ w = [act EXCEPT ![n].wire = v]
    PROVE  /\ w = [m \in Team!Acts |-> w[m]] /\ \A m \in Team!Acts : TeamActOk(w[m], child)
           /\ \A m \in Team!Acts : \/ w[m].wire = act[m].wire
                                   \/ w[m].wire = v /\ m = n /\ (v # "done" \/ act[m].kind = "decide")
  <1>1. act = [m \in Team!Acts |-> act[m]] /\ \A m \in Team!Acts : TeamActOk(act[m], child)
    BY DEF TeamInv
  <1>2. PICK q : q = act[n]
    OBVIOUS
  <1>3. q # None /\ q \in TeamActs(q) /\ TeamActOk(q, child)
    BY <1>1, <1>2 DEF TeamActOk
  <1>4. PICK u : w = [act EXCEPT ![n] = u]
                 /\ \/ u = [q EXCEPT !.pc = v]
                    \/ (v # "done" \/ q.kind = "decide") /\ u = [q EXCEPT !.wire = v]
    BY <1>2
  <1>5. /\ u \in TeamActs(u) /\ u.kind = q.kind /\ u.of = q.of /\ u.row = q.row
        /\ u.wire = q.wire \/ (u.wire = v /\ (v # "done" \/ q.kind = "decide"))
    BY <1>3, <1>4 DEF TeamActs
  <1>6. TeamActOk(u, child)
    BY <1>3, <1>5 DEF TeamActOk
  <1>7. w[n] = u /\ \A m \in Team!Acts : m # n => w[m] = act[m]
    BY <1>1, <1>4
  <1>8. w = [m \in Team!Acts |-> w[m]]
    BY <1>1, <1>4
  <1> QED
    BY <1>1, <1>2, <1>5, <1>6, <1>7, <1>8

\* What the panel writes, and what it does with an answer.
LEMMA TeamWrites ==
    ASSUME TeamInv, NEW n \in Team!Acts,
           \/ Team!changeControl(n) \/ Team!controlFails(n) \/ Team!decided(n) \/ Team!hostLoses(n)
           \/ Team!control(n) /\ ~Team!UpToDate(act[n])
           \/ \E k \in Team!Children : Team!decide(n, k)
    PROVE  TeamInv' /\ \A m \in Team!Acts : act[m] # None => act'[m].wire = act[m].wire \/ act'[m].wire # "done"
  <1>1. UNCHANGED child
    BY DEF Team!changeControl, Team!controlFails, Team!decided, Team!hostLoses, Team!control, Team!decide
  <1>2. TeamGoesOn
    BY <1>1, TeamStays
  <1>3. /\ act = [m \in Team!Acts |-> act[m]] /\ \A m \in Team!Acts : TeamActOk(act[m], child)
        /\ status \in TeamStatus(status) /\ TeamSeen(status.snapshot, child)
    BY DEF TeamInv
  <1>4. CASE Team!changeControl(n)
    <2>1. PICK k, q : k = status.selected /\ q = Team!Sent("control", k, status.snapshot[k])
      OBVIOUS
    <2>2. PICK p : p = [status EXCEPT !.flight = n]
      OBVIOUS
    <2>3. PICK w : w = [act EXCEPT ![n] = q]
      OBVIOUS
    <2>4. /\ act[n] = None /\ k \in Team!Children /\ status.snapshot # None /\ UNCHANGED snapRead
          /\ Team!Render(p, received, sourceRead, w, FALSE)
      BY <1>4, <2>1, <2>2, <2>3 DEF Team!changeControl, Team!Unused
    <2>5. /\ q \in TeamActs(q) /\ q.kind = "control" /\ q.of = k /\ q.row = status.snapshot[k] /\ q.wire = "sent"
      BY <2>1 DEF Team!Sent, TeamActs
    <2>6. TeamActOk(q, child)
      BY <1>3, <2>4, <2>5 DEF TeamActOk, TeamSeen
    <2>7. \A m \in Team!Acts : TeamActOk(w[m], child) /\ (m # n => w[m] = act[m])
      BY <1>3, <2>3, <2>6
    <2>8. p \in TeamStatus(p) /\ p.snapshot = status.snapshot
      BY <1>3, <2>2 DEF TeamStatus
    <2>9. TeamInv'
      BY <1>1, <1>3, <2>4, <2>7, <2>8, TeamShows
    <2>10. \A m \in Team!Acts : act'[m].wire = w[m].wire
      BY <2>4, <2>7, TeamRender
    <2> QED
      BY <2>4, <2>7, <2>9, <2>10
  <1>5. CASE Team!controlFails(n)
    <2>8. PICK v : v = (IF status.flight = n THEN None ELSE status.flight)
      OBVIOUS
    <2>1. PICK p : p = [status EXCEPT !.flight = v]
      OBVIOUS
    <2>2. PICK w : w = [act EXCEPT ![n].pc = "ended"]
      OBVIOUS
    <2>3. /\ act[n] # None /\ Team!Render(p, received, sourceRead, w, FALSE)
          /\ snapRead' = snapRead \/ snapRead' = Team!Reading
      BY <1>3, <1>5, <2>1, <2>2, <2>8 DEF TeamStatus, Team!controlFails, Team!Landed, Team!Ended, Team!Asked
    <2>4. p \in TeamStatus(p) /\ p.snapshot = status.snapshot
      BY <1>3, <2>1 DEF TeamStatus
    <2>5. /\ \A m \in Team!Acts : TeamActOk(w[m], child)
          /\ \A m \in Team!Acts : w[m].wire = act[m].wire \/ w[m].wire = "ended"
      BY <2>2, <2>3, TeamActMoves
    <2>6. TeamInv'
      BY <1>1, <1>3, <2>3, <2>4, <2>5, TeamShows
    <2>7. \A m \in Team!Acts : act'[m].wire = w[m].wire
      BY <2>3, <2>5, TeamRender
    <2> QED
      BY <2>5, <2>6, <2>7
  <1>6. CASE Team!decided(n)
    <2>1. PICK w : w = [act EXCEPT ![n].pc = "ended"]
      OBVIOUS
    <2>2. /\ act[n] # None /\ (snapRead' = snapRead \/ snapRead' = Team!Reading)
          /\ \/ \E rec : Team!Render(status, rec, sourceRead, w, TRUE)
             \/ act' = w /\ UNCHANGED status
      BY <1>6, <2>1 DEF Team!decided, Team!Ended, Team!Asked
    <2>6. w = [m \in Team!Acts |-> w[m]]
      BY <1>3, <2>1
    <2>3. /\ \A m \in Team!Acts : TeamActOk(w[m], child)
          /\ \A m \in Team!Acts : w[m].wire = act[m].wire \/ w[m].wire = "ended"
      BY <2>1, <2>2, TeamActMoves
    <2>4. CASE \E rec : Team!Render(status, rec, sourceRead, w, TRUE)
      <3>1. TeamInv'
        BY <1>1, <1>3, <2>2, <2>3, <2>4, TeamShows
      <3>2. \A m \in Team!Acts : act'[m].wire = w[m].wire
        BY <2>3, <2>4, TeamRender
      <3> QED
        BY <2>3, <3>1, <3>2
    <2>5. CASE act' = w /\ UNCHANGED status
      <3>1. snapRead' # None => TeamSeen(snapRead'.answer, child)
        BY <2>2 DEF TeamInv, Team!Reading, TeamSeen
      <3> QED
        BY <1>2, <1>3, <2>3, <2>5, <2>6, <3>1, TeamKept
    <2> QED
      BY <2>2, <2>4, <2>5
  <1>7. CASE Team!hostLoses(n) \/ (Team!control(n) /\ ~Team!UpToDate(act[n]))
    <2>1. PICK v \in {"lost", "refused"} : act' = [act EXCEPT ![n].wire = v] /\ act[n] # None /\ UNCHANGED <<status, snapRead>>
      BY <1>7 DEF Team!hostLoses, Team!control
    <2>2. PICK w : w = [act EXCEPT ![n].wire = v]
      OBVIOUS
    <2>3. w = [m \in Team!Acts |-> w[m]] /\ v # "done"
      BY <1>3, <2>2
    <2>4. /\ \A m \in Team!Acts : TeamActOk(w[m], child)
          /\ \A m \in Team!Acts : w[m].wire = act[m].wire \/ w[m].wire = v
      BY <2>1, <2>2, <2>3, TeamActMoves
    <2> QED
      BY <1>2, <1>3, <2>1, <2>2, <2>3, <2>4, TeamKept DEF TeamInv
  <1>8. ASSUME NEW k \in Team!Children, Team!decide(n, k)
        PROVE TeamInv' /\ \A m \in Team!Acts : act[m] # None => act'[m].wire = act[m].wire \/ act'[m].wire # "done"
    <2>1. PICK row : act' = [act EXCEPT ![n] = Team!Sent("decide", k, row)] /\ UNCHANGED <<status, snapRead>> /\ act[n] = None
      BY <1>8 DEF Team!decide, Team!Unused
    <2>2. PICK q : q = Team!Sent("decide", k, row)
      OBVIOUS
    <2>3. q \in TeamActs(q) /\ q.kind = "decide" /\ q.of = k
      BY <2>2 DEF Team!Sent, TeamActs
    <2>4. TeamActOk(q, child)
      BY <2>3 DEF TeamActOk
    <2>5. \A m \in Team!Acts : TeamActOk(act'[m], child) /\ (m # n => act'[m] = act[m])
      BY <1>3, <2>1, <2>2, <2>4
    <2>6. act' = [m \in Team!Acts |-> act'[m]]
      BY <1>3, <2>1
    <2> QED
      BY <1>2, <1>3, <2>1, <2>5, <2>6, TeamKept DEF TeamInv
  <1> QED
    BY <1>4, <1>5, <1>6, <1>7, <1>8

\* The row of a transfer replaces the one it was asked for.
LEMMA TeamControlled ==
    ASSUME TeamInv, NEW n \in Team!Acts, Team!controlled(n)
    PROVE  TeamInv' /\ \A m \in Team!Acts : act[m] # None => act'[m].wire = act[m].wire \/ act'[m].wire # "done"
  <1>1. /\ act = [m \in Team!Acts |-> act[m]] /\ \A m \in Team!Acts : TeamActOk(act[m], child)
        /\ status \in TeamStatus(status) /\ TeamSeen(status.snapshot, child)
    BY DEF TeamInv
  <1>2. PICK q, k, s : q = act[n] /\ k = q.of /\ s = child[k]
    OBVIOUS
  <1>3. UNCHANGED <<child, snapRead>> /\ q # None /\ q.kind = "control" /\ q.wire = "done"
    BY <1>2 DEF Team!controlled
  <1>4. /\ k \in Team!Children /\ q.row \in TeamRows /\ TeamFormer(q.row, s)
        /\ TeamFormer(TeamAfter(q.row), s) /\ s \in TeamRows
    BY <1>1, <1>2, <1>3 DEF TeamActOk, TeamInv, TeamHost
  <1>5. PICK row : row = [[s EXCEPT !.control = Team!Other(q.row.control)] EXCEPT !.revision = q.row.revision + 1]
    OBVIOUS
  <1>6. row \in TeamRows /\ row.revision = TeamAfter(q.row).revision /\ row.control = TeamAfter(q.row).control
    <2>1. PICK u : u = [s EXCEPT !.control = Team!Other(q.row.control)]
      OBVIOUS
    <2>2. u \in TeamRows /\ u.control = Team!Other(q.row.control)
      BY <1>4, <2>1 DEF TeamRows, Team!Other
    <2>3. row = [u EXCEPT !.revision = q.row.revision + 1] /\ q.row.revision \in Nat
      BY <1>4, <1>5, <2>1 DEF TeamRows
    <2> QED
      BY <2>2, <2>3 DEF TeamRows, TeamAfter
  <1>7. TeamFormer(row, s)
    BY <1>4, <1>6 DEF TeamFormer
  <1>16. PICK v : v = (IF status.flight = n THEN None ELSE status.flight)
    OBVIOUS
  <1>8. PICK l : l = [status EXCEPT !.flight = v]
    OBVIOUS
  <1>17. l \in TeamStatus(l) /\ l.snapshot = status.snapshot
    BY <1>1, <1>8 DEF TeamStatus
  <1>9. l \in TeamStatus(l) /\ l.snapshot = status.snapshot /\ l = Team!Landed(n)
    BY <1>1, <1>8, <1>16, <1>17 DEF Team!Landed, TeamStatus
  <1>10. PICK w : w = [act EXCEPT ![n].pc = "ended"]
    OBVIOUS
  <1>11. PICK p : /\ Team!Render(p, received, sourceRead, w, FALSE)
                  /\ \/ p = l
                     \/ /\ status.snapshot # None
                        /\ p = [[l EXCEPT !.snapshot[k] = row]
                                  EXCEPT !.selected = IF status.selected = q.at /\ q.row.control = "user" THEN Team!Primary ELSE l.selected]
    BY <1>2, <1>5, <1>9, <1>10 DEF Team!controlled, Team!Ended, TeamStatus
  <1>12. p \in TeamStatus(p) /\ TeamSeen(p.snapshot, child)
    <2>1. CASE p = l
      BY <1>1, <1>9, <2>1
    <2>2. CASE /\ status.snapshot # None
               /\ p = [[l EXCEPT !.snapshot[k] = row]
                         EXCEPT !.selected = IF status.selected = q.at /\ q.row.control = "user" THEN Team!Primary ELSE l.selected]
      <3>1. PICK g : g = [l.snapshot EXCEPT ![k] = row]
        OBVIOUS
      <3>2. PICK u : u = (IF status.selected = q.at /\ q.row.control = "user" THEN Team!Primary ELSE l.selected)
        OBVIOUS
      <3>3. p = [[l EXCEPT !.snapshot = g] EXCEPT !.selected = u]
        BY <2>2, <3>1, <3>2
      <3>4. p \in TeamStatus(p) /\ p.snapshot = g
        BY <1>9, <3>3 DEF TeamStatus
      <3>5. TeamSeen(g, child)
        BY <1>1, <1>2, <1>4, <1>6, <1>7, <1>9, <2>2, <3>1 DEF TeamSeen
      <3> QED
        BY <3>4, <3>5
    <2> QED
      BY <1>11, <2>1, <2>2
  <1>13. /\ \A m \in Team!Acts : TeamActOk(w[m], child)
         /\ \A m \in Team!Acts : w[m].wire = act[m].wire \/ w[m].wire = "ended"
    BY <1>2, <1>3, <1>10, TeamActMoves
  <1>14. TeamInv'
    BY <1>3, <1>11, <1>12, <1>13, TeamShows
  <1>15. \A m \in Team!Acts : act'[m].wire = w[m].wire
    BY <1>11, <1>13, TeamRender
  <1> QED
    BY <1>13, <1>14, <1>15

\* A request of a chat decided by the host.
LEMMA TeamDecides ==
    ASSUME TeamInv, NEW n \in Team!Acts, Team!hostDecides(n)
    PROVE  TeamInv' /\ \A m \in Team!Acts : act[m] # None /\ act[m].kind = "control" =>
                            act'[m].wire = act[m].wire \/ act'[m].wire # "done"
  <1>1. PICK q, k, s, v : q = act[n] /\ k = q.of /\ s = child[k] /\ v = act'[n].wire
    OBVIOUS
  <1>2. /\ act = [m \in Team!Acts |-> act[m]] /\ \A m \in Team!Acts : TeamActOk(act[m], child)
        /\ TeamHost(child)
    BY DEF TeamInv
  <1>3. q # None /\ q.kind = "decide" /\ UNCHANGED <<status, snapRead>>
    BY <1>1 DEF Team!hostDecides
  <1>4. k \in Team!Children /\ s \in TeamRows /\ child = [d \in Team!Children |-> child[d]]
    BY <1>1, <1>2, <1>3 DEF TeamActOk, TeamHost
  <1>5. child' = child \/ child' = [child EXCEPT ![k] = [s EXCEPT !.open = FALSE]]
    BY <1>1 DEF Team!hostDecides
  <1>6. TeamGoesOn
    <2>1. CASE child' = child
      BY <2>1, TeamStays
    <2>2. CASE child' = [child EXCEPT ![k] = [s EXCEPT !.open = FALSE]]
      <3>1. PICK r : r = [s EXCEPT !.open = FALSE]
        OBVIOUS
      <3>2. r \in TeamRows /\ r.revision = s.revision /\ r.control = s.control /\ s.revision \in Nat
        BY <1>4, <3>1 DEF TeamRows
      <3>3. TeamFormer(s, r)
        BY <3>2 DEF TeamFormer
      <3> QED
        BY <1>1, <1>4, <2>2, <3>1, <3>2, <3>3, TeamChildIs
    <2> QED
      BY <1>5, <2>1, <2>2
  <1>7. PICK u : act' = [act EXCEPT ![n].wire = u]
    BY DEF Team!hostDecides
  <1>8. PICK w : w = [act EXCEPT ![n].wire = u]
    OBVIOUS
  <1>11. w = [m \in Team!Acts |-> w[m]] /\ act' = w
    BY <1>2, <1>7, <1>8
  <1>9. /\ \A m \in Team!Acts : TeamActOk(w[m], child)
        /\ \A m \in Team!Acts : \/ w[m].wire = act[m].wire
                                \/ w[m].wire = u /\ m = n /\ (u # "done" \/ act[m].kind = "decide")
    BY <1>1, <1>3, <1>7, <1>8, TeamActMoves
  <1>10. TeamInv'
    BY <1>3, <1>6, <1>9, <1>11, TeamKept DEF TeamInv
  <1> QED
    BY <1>9, <1>10, <1>11

LEMMA TeamNext == ASSUME TeamInv, Team!Next \/ UNCHANGED teamVars PROVE TeamInv'
  <1>1. CASE UNCHANGED teamVars
    <2>1. UNCHANGED <<child, status, snapRead, act>>
      BY <1>1 DEF teamVars
    <2> QED
      BY <2>1 DEF TeamInv, TeamHost, TeamStatus, TeamSeen, TeamActOk, TeamActs
  <1>2. CASE Team!Reads \/ Team!readSnapshotFails \/ Team!readSourceFails
    BY <1>2, TeamReads
  <1>3. CASE \/ Team!blur \/ Team!focus \/ Team!lock \/ Team!unlock
             \/ \E k \in Team!Children \cup {Team!Primary} : Team!onOpen(k)
             \/ \E a \in People : Team!signIn(a)
    BY <1>3, TeamMoves
  <1>4. CASE \E k \in Team!Children : Team!others(k)
    BY <1>4, TeamChildren
  <1>5. CASE \E n \in Team!Acts : \/ Team!changeControl(n) \/ Team!Step(n) \/ Team!hostLoses(n)
                                  \/ \E k \in Team!Children : Team!decide(n, k)
    BY <1>5, TeamWrites, TeamControlled, TeamDecides, TeamTransfers DEF Team!Step
  <1> QED
    BY <1>1, <1>2, <1>3, <1>4, <1>5 DEF Team!Next

\* A transfer is made by the host, for the row it was asked for.
LEMMA TeamActsLemma ==
    ASSUME TeamInv, Team!Next \/ UNCHANGED teamVars, NEW n \in Team!Acts,
           act[n] # None, act[n].kind = "control", act[n].wire = "sent", act'[n].wire = "done"
    PROVE  child[act[n].of].control = act[n].row.control
  <1>1. CASE UNCHANGED teamVars \/ Team!refresh \/ Team!hostSnapshot \/ Team!hostTask \/ Team!unlock
             \/ \E k \in Team!Children : Team!others(k)
    <2>1. UNCHANGED act
      BY <1>1 DEF teamVars, Team!refresh, Team!hostSnapshot, Team!hostTask, Team!unlock, Team!others
    <2> QED
      BY <2>1
  <1>2. CASE \/ Team!readSnapshot \/ Team!readSource \/ Team!readSnapshotFails \/ Team!readSourceFails
             \/ Team!blur \/ Team!focus \/ Team!lock
             \/ \E k \in Team!Children \cup {Team!Primary} : Team!onOpen(k)
             \/ \E a \in People : Team!signIn(a)
    <2>1. \E p, rec, rd, retry : Team!Render(p, rec, rd, act, retry)
      BY <1>2 DEF Team!readSnapshot, Team!readSource, Team!readSnapshotFails, Team!readSourceFails,
                  Team!blur, Team!focus, Team!lock, Team!onOpen, Team!signIn, Team!Show
    <2>2. act'[n].wire = act[n].wire
      BY <2>1, TeamRender DEF TeamInv
    <2> QED
      BY <2>2
  <1>3. ASSUME NEW m \in Team!Acts,
               \/ Team!changeControl(m) \/ Team!Step(m) \/ Team!hostLoses(m)
               \/ \E k \in Team!Children : Team!decide(m, k)
        PROVE  child[act[n].of].control = act[n].row.control
    <2>1. Team!control(m) /\ Team!UpToDate(act[m])
      BY <1>3, TeamWrites, TeamControlled, TeamDecides DEF Team!Step
    <2>2. m = n
      BY <2>1 DEF Team!control, TeamInv
    <2> QED
      BY <2>1, <2>2, TeamTransfers
  <1> QED
    BY <1>1, <1>2, <1>3 DEF Team!Next, Team!Reads

-----------------------------------------------------------------------------
(* The tasks of the team (TaskControl). *)

\* A task and its workers.
Tasks == INSTANCE TaskControl WITH First <- FirstRoot, MaxTurns <- MaxDialogs,
        read <- tasksRead
tasksVars == <<work, teams, sup, tree, tasksRead, order, squad, mishaps>>

TaskForms == [size : Nat, filled : BOOLEAN, edit : Nat]
TaskOutcomes == [of : Roots, form : TaskForms, ok : BOOLEAN]
TaskDialogs(selected, agreed) ==
    [root : Roots, generation : Nat, selected : {selected}, edits : Nat, message : Nat,
     agreed : {agreed}, busy : BOOLEAN, building : BOOLEAN, creating : BOOLEAN,
     form : TaskForms, requestId : Nat, result : TaskOutcomes \cup {None}]
TaskTeams == [root : Roots, id : Nat, form : TaskForms, made : Nat, finished : BOOLEAN]
TeamWires == {"sent", "assembling", "done", "refused", "lost", "heard"}
TaskSquads == [root : Roots, origin : Nat, id : Nat, form : TaskForms, ok : BOOLEAN, wire : TeamWires]
OrderWires == {"sent", "done", "refused", "lost", "heard"}
TaskOrders(to, agreed) ==
    [action : {"cancel", "steer", "recover"}, to : {to}, origin : Nat, text : Nat,
     agreed : {agreed}, wire : OrderWires]
TasksShape ==
    /\ sup \in TaskDialogs(sup.selected, sup.agreed)
    /\ teams \subseteq TaskTeams
    /\ order = [n \in Tasks!Orders |-> order[n]]
    /\ \A n \in Tasks!Orders : order[n] # None => order[n] \in TaskOrders(order[n].to, order[n].agreed)
    /\ squad \in [Tasks!Teams -> TaskSquads \cup {None}]


\* Waiting is a request of the dialog on screen that is not answered yet.
SquadWaits(n) == squad[n] # None /\ squad[n].origin = sup.generation /\ squad[n].wire # "heard"
OrderWaits(n) == order[n] # None /\ order[n].origin = sup.generation /\ order[n].wire # "heard"

TeamHasItsId == \A m \in teams : m.id = m.form.edit
OneTeamPerId == \A m, o \in teams : (m.root = o.root /\ m.id = o.id) => m = o
FormHasItsId == sup.requestId = sup.form.edit
SquadHasItsId == \A n \in Tasks!Teams : squad[n] # None =>
    /\ squad[n].id = squad[n].form.edit /\ squad[n].origin <= sup.generation
    /\ squad[n].wire = "assembling" => Tasks!Assembled(squad[n]) # {}
SquadIsOfForm == \A n \in Tasks!Teams : SquadWaits(n) =>
    /\ sup.creating /\ squad[n].root = sup.root /\ squad[n].form = sup.form
    /\ \A m \in Tasks!Teams : SquadWaits(m) => m = n
OrderIsOfText == \A n \in Tasks!Orders :
    /\ order[n] # None => order[n].origin <= sup.generation
    /\ OrderWaits(n) => /\ sup.busy /\ sup.message \in {order[n].text, 0}
                        /\ \A m \in Tasks!Orders : OrderWaits(m) => m = n

TasksInv == TasksShape /\ TeamHasItsId /\ OneTeamPerId /\ FormHasItsId /\ SquadHasItsId
            /\ SquadIsOfForm /\ OrderIsOfText /\ Tasks!OutcomeIsOfThisTeam

LEMMA TasksInvImplies == TasksInv => Tasks!OneTeamPerForm /\ Tasks!OutcomeIsOfThisTeam
  BY DEF TasksInv, TeamHasItsId, OneTeamPerId, Tasks!OneTeamPerForm

TaskNumbers == {Total, Parallel, MaxTeams, MaxOrders, MaxEdits, MaxDialogs} \subseteq Nat
LEMMA TaskNumbersHold == TaskNumbers
  BY ConversationAssumption DEF TaskNumbers

LEMMA TasksInitInv == Tasks!Init => TasksInv
  <1> SUFFICES ASSUME Tasks!Init PROVE TasksInv
    OBVIOUS
  <1>1. /\ sup = Tasks!Opened(FirstRoot, 1, 0) /\ teams = {}
        /\ order = [n \in Tasks!Orders |-> None] /\ squad = [n \in Tasks!Teams |-> None]
    BY DEF Tasks!Init
  <1>2. sup \in TaskDialogs(sup.selected, sup.agreed)
    BY <1>1, ConversationAssumption DEF Tasks!Opened, Tasks!NewForm, TaskDialogs, TaskForms
  <1>3. sup.result = None /\ sup.requestId = sup.form.edit
    BY <1>1 DEF Tasks!Opened, Tasks!NewForm
  <1> QED
    BY <1>1, <1>2, <1>3 DEF TasksInv, TasksShape, TeamHasItsId, OneTeamPerId, FormHasItsId,
       SquadHasItsId, SquadIsOfForm, OrderIsOfText, Tasks!OutcomeIsOfThisTeam, SquadWaits,
       OrderWaits

\* Nothing of what the invariant is about changes.
LEMMA TasksUnchanged == ASSUME TasksInv, UNCHANGED <<sup, teams, order, squad>> PROVE TasksInv'
  BY DEF TasksInv, TasksShape, TeamHasItsId, OneTeamPerId, FormHasItsId, SquadHasItsId,
     SquadIsOfForm, OrderIsOfText, Tasks!OutcomeIsOfThisTeam, SquadWaits, OrderWaits,
     Tasks!Assembled

\* The dialog changes only in what no request depends on.
LEMMA TasksDialogOnly ==
    ASSUME TasksInv, UNCHANGED <<teams, order, squad>>,
           sup' \in TaskDialogs(sup'.selected, sup'.agreed),
           sup'.root = sup.root, sup'.generation = sup.generation,
           sup'.creating = sup.creating,
           sup'.form = sup.form \/ (~sup.creating /\ sup'.result = None),
           sup'.requestId = sup'.form.edit,
           sup'.result \in {sup.result, None},
           sup'.busy = sup.busy,
           sup'.message = sup.message \/ sup'.message = 0 \/ ~sup.busy
    PROVE  TasksInv'
  <1>1. TasksShape' /\ TeamHasItsId' /\ OneTeamPerId' /\ FormHasItsId' /\ SquadHasItsId'
    BY DEF TasksInv, TasksShape, TeamHasItsId, OneTeamPerId, FormHasItsId, SquadHasItsId,
       Tasks!Assembled
  <1>2. SquadIsOfForm' /\ Tasks!OutcomeIsOfThisTeam'
    BY DEF TasksInv, SquadIsOfForm, Tasks!OutcomeIsOfThisTeam, SquadWaits
  <1>3. OrderIsOfText'
    BY DEF TasksInv, OrderIsOfText, OrderWaits
  <1> QED
    BY <1>1, <1>2, <1>3 DEF TasksInv

\* The numbers of what can be built.
LEMMA SlotsIsANumber == Tasks!least(2, Tasks!slots) \in Nat
  <1>1. ASSUME NEW a \in Nat, NEW S \in SUBSET (1..Total) PROVE Tasks!less(a, Tasks!Cardinality(S)) \in Nat
    <2>1. IsFiniteSet(1..Total)
      BY TaskNumbersHold, FS_Interval DEF TaskNumbers
    <2>2. Cardinality(S) \in Nat
      BY <2>1, FS_Subset, FS_CardinalityType
    <2>3. Tasks!Cardinality(S) = Cardinality(S)
      BY DEF Tasks!Cardinality, Cardinality
    <2> QED
      BY <2>2, <2>3 DEF Tasks!less
  <1>2. Tasks!live \subseteq 1..Total /\ Tasks!shown \subseteq 1..Total
    BY DEF Tasks!live, Tasks!shown
  <1>3. Tasks!less(Parallel, Tasks!Cardinality(Tasks!live)) \in Nat
        /\ Tasks!less(Total, Tasks!Cardinality(Tasks!shown)) \in Nat
    BY <1>1, <1>2, ConversationAssumption
  <1>4. \A a, b \in Nat : Tasks!least(a, b) \in Nat
    BY DEF Tasks!least
  <1>5. Tasks!slots \in Nat
    BY <1>3, <1>4 DEF Tasks!slots
  <1> QED
    BY <1>4, <1>5

LEMMA TasksOpen == ASSUME TasksInv, NEW r \in Roots, Tasks!open(r) PROVE TasksInv'
  <1>1. sup' = Tasks!Opened(r, sup.generation + 1, sup.edits + 1)
        /\ UNCHANGED <<teams, order, squad>>
    BY DEF Tasks!open, Tasks!hostVars
  <1>2. sup.generation \in Nat /\ sup.edits \in Nat
    BY DEF TasksInv, TasksShape, TaskDialogs
  <1>3. sup' \in TaskDialogs(sup'.selected, sup'.agreed)
    BY <1>1, <1>2, ConversationAssumption DEF Tasks!Opened, Tasks!NewForm, TaskDialogs, TaskForms
  <1>4. sup'.generation = sup.generation + 1 /\ sup'.result = None
        /\ sup'.requestId = sup'.form.edit
    BY <1>1 DEF Tasks!Opened, Tasks!NewForm
  <1>5. TasksShape' /\ TeamHasItsId' /\ OneTeamPerId' /\ FormHasItsId'
        /\ Tasks!OutcomeIsOfThisTeam'
    BY <1>1, <1>3, <1>4 DEF TasksInv, TasksShape, TeamHasItsId, OneTeamPerId, FormHasItsId,
       Tasks!OutcomeIsOfThisTeam
  <1>6. \A n \in Tasks!Teams : squad[n] # None => squad[n].origin \in Nat /\ squad[n].origin <= sup.generation
    BY DEF TasksInv, TasksShape, SquadHasItsId, TaskSquads
  <1>7. SquadHasItsId' /\ SquadIsOfForm'
    BY <1>1, <1>2, <1>4, <1>6 DEF TasksInv, SquadHasItsId, SquadIsOfForm, SquadWaits, Tasks!Assembled
  <1>8. \A n \in Tasks!Orders : order[n] # None => order[n].origin \in Nat /\ order[n].origin <= sup.generation
    BY DEF TasksInv, TasksShape, OrderIsOfText, TaskOrders
  <1>9. OrderIsOfText'
    BY <1>1, <1>2, <1>4, <1>8 DEF OrderIsOfText, OrderWaits
  <1> QED
    BY <1>5, <1>7, <1>9 DEF TasksInv

LEMMA TasksSelect == ASSUME TasksInv, NEW k, Tasks!select(k) PROVE TasksInv'
  <1>1. UNCHANGED <<teams, order, squad>>
        /\ sup' = [sup EXCEPT !.selected = k, !.message = 0, !.agreed = None]
    BY DEF Tasks!select, Tasks!hostVars
  <1>2. sup \in TaskDialogs(sup.selected, sup.agreed)
    BY DEF TasksInv, TasksShape
  <1>3. /\ sup' \in TaskDialogs(sup'.selected, sup'.agreed)
        /\ sup'.root = sup.root /\ sup'.generation = sup.generation
        /\ sup'.creating = sup.creating /\ sup'.form = sup.form
        /\ sup'.requestId = sup.requestId /\ sup'.result = sup.result /\ sup'.busy = sup.busy
        /\ sup'.message = 0
    BY <1>1, <1>2 DEF TaskDialogs
  <1> QED
    BY <1>1, <1>3, TasksDialogOnly DEF TasksInv, FormHasItsId

LEMMA TasksSetText == ASSUME TasksInv, Tasks!setText PROVE TasksInv'
  <1>1. UNCHANGED <<teams, order, squad>> /\ ~sup.busy
    BY DEF Tasks!setText, Tasks!hostVars, Tasks!QuestionInput
  <1>2. sup \in TaskDialogs(sup.selected, sup.agreed)
    BY DEF TasksInv, TasksShape
  <1>3. PICK e : e = sup.edits + 1 /\ sup' = [sup EXCEPT !.message = e, !.edits = e]
    BY DEF Tasks!setText
  <1>4. e \in Nat
    BY <1>2, <1>3 DEF TaskDialogs
  <1>5. /\ sup' \in TaskDialogs(sup'.selected, sup'.agreed)
        /\ sup'.root = sup.root /\ sup'.generation = sup.generation
        /\ sup'.creating = sup.creating /\ sup'.form = sup.form
        /\ sup'.requestId = sup.requestId /\ sup'.result = sup.result /\ sup'.busy = sup.busy
    BY <1>2, <1>3, <1>4 DEF TaskDialogs
  <1> QED
    BY <1>1, <1>5, TasksDialogOnly DEF TasksInv, FormHasItsId

LEMMA TasksConfirm == ASSUME TasksInv, Tasks!confirmRecovery PROVE TasksInv'
  <1>1. UNCHANGED <<teams, order, squad>>
    BY DEF Tasks!confirmRecovery, Tasks!hostVars
  <1>2. PICK a : sup' = [sup EXCEPT !.agreed = a]
    BY DEF Tasks!confirmRecovery
  <1>3. sup \in TaskDialogs(sup.selected, sup.agreed)
    BY DEF TasksInv, TasksShape
  <1>4. /\ sup' \in TaskDialogs(sup'.selected, sup'.agreed)
        /\ sup'.root = sup.root /\ sup'.generation = sup.generation
        /\ sup'.creating = sup.creating /\ sup'.form = sup.form
        /\ sup'.requestId = sup.requestId /\ sup'.result = sup.result /\ sup'.busy = sup.busy
        /\ sup'.message = sup.message
    BY <1>2, <1>3 DEF TaskDialogs
  <1> QED
    BY <1>1, <1>4, TasksDialogOnly DEF TasksInv, FormHasItsId

LEMMA TasksBuild == ASSUME TasksInv, Tasks!build PROVE TasksInv'
  <1>1. UNCHANGED <<teams, order, squad>>
    BY DEF Tasks!build, Tasks!hostVars
  <1>2. sup \in TaskDialogs(sup.selected, sup.agreed) /\ sup.requestId = sup.form.edit
    BY DEF TasksInv, TasksShape, FormHasItsId
  <1>3. CASE sup.building \/ sup.creating
    <2>1. PICK b \in BOOLEAN : sup' = [sup EXCEPT !.building = b]
      BY <1>3 DEF Tasks!build
    <2>2. /\ sup' \in TaskDialogs(sup'.selected, sup'.agreed)
          /\ sup'.root = sup.root /\ sup'.generation = sup.generation
          /\ sup'.creating = sup.creating /\ sup'.form = sup.form
          /\ sup'.requestId = sup.requestId /\ sup'.result = sup.result
          /\ sup'.busy = sup.busy /\ sup'.message = sup.message
      BY <2>1, <1>2 DEF TaskDialogs
    <2> QED
      BY <1>1, <1>2, <2>2, TasksDialogOnly
  <1>4. CASE ~sup.building /\ ~sup.creating
    <2>1. PICK e, f : /\ e = sup.edits + 1 /\ f = Tasks!NewForm(Tasks!least(2, Tasks!slots), e)
                      /\ sup' = [sup EXCEPT !.building = TRUE, !.form = f, !.result = None,
                                            !.requestId = e, !.edits = e]
      BY <1>4 DEF Tasks!build
    <2>2. e \in Nat /\ f \in TaskForms /\ f.edit = e
      BY <2>1, <1>2, SlotsIsANumber DEF Tasks!NewForm, TaskForms, TaskDialogs
    <2>3. /\ sup' \in TaskDialogs(sup'.selected, sup'.agreed)
          /\ sup'.root = sup.root /\ sup'.generation = sup.generation
          /\ sup'.creating = sup.creating /\ sup'.form = f
          /\ sup'.requestId = e /\ sup'.result = None
          /\ sup'.busy = sup.busy /\ sup'.message = sup.message
      BY <2>1, <2>2, <1>2 DEF TaskDialogs
    <2> QED
      BY <1>1, <1>4, <2>2, <2>3, TasksDialogOnly
  <1> QED
    BY <1>3, <1>4

LEMMA TasksEdit == ASSUME TasksInv, Tasks!editTeam PROVE TasksInv'
  <1>1. UNCHANGED <<teams, order, squad>> /\ ~sup.creating
    BY DEF Tasks!editTeam, Tasks!hostVars
  <1>2. sup \in TaskDialogs(sup.selected, sup.agreed)
    BY DEF TasksInv, TasksShape
  <1>3. PICK size \in 1..Total, filled \in BOOLEAN :
          sup' = Tasks!editMember([size |-> size, filled |-> filled, edit |-> sup.edits + 1])
    BY DEF Tasks!editTeam
  <1>4. PICK f : f = [size |-> size, filled |-> filled, edit |-> sup.edits + 1]
    OBVIOUS
  <1>5. f \in TaskForms /\ f.edit \in Nat
    BY <1>4, <1>2, ConversationAssumption DEF TaskForms, TaskDialogs
  <1>6. sup' = [sup EXCEPT !.form = f, !.requestId = f.edit, !.edits = f.edit, !.result = None]
    BY <1>3, <1>4 DEF Tasks!editMember
  <1>7. /\ sup' \in TaskDialogs(sup'.selected, sup'.agreed)
        /\ sup'.root = sup.root /\ sup'.generation = sup.generation
        /\ sup'.creating = sup.creating /\ sup'.form = f
        /\ sup'.requestId = f.edit /\ sup'.result = None
        /\ sup'.busy = sup.busy /\ sup'.message = sup.message
    BY <1>2, <1>5, <1>6 DEF TaskDialogs
  <1> QED
    BY <1>1, <1>7, TasksDialogOnly

\* An order moves on, on its wire alone.
LEMMA TasksWire ==
    ASSUME TasksInv, UNCHANGED <<sup, teams, squad>>, NEW n \in Tasks!Orders, NEW w \in OrderWires,
           order[n] # None, order[n].wire # "heard", Tasks!Answered(n, w)
    PROVE  TasksInv'
  <1>1. order = [m \in Tasks!Orders |-> order[m]]
        /\ order[n] \in TaskOrders(order[n].to, order[n].agreed)
    BY DEF TasksInv, TasksShape
  <1>2. PICK o : o = [order[n] EXCEPT !.wire = w]
    OBVIOUS
  <1>3. o \in TaskOrders(o.to, o.agreed) /\ o.origin = order[n].origin /\ o.text = order[n].text
    BY <1>1, <1>2 DEF TaskOrders
  <1>4. order' = [order EXCEPT ![n] = o]
    BY <1>2 DEF Tasks!Answered
  <1>5. order' = [m \in Tasks!Orders |-> order'[m]] /\ order'[n] = o
        /\ \A m \in Tasks!Orders \ {n} : order'[m] = order[m]
    BY <1>1, <1>4
  <1>6. TasksShape'
    BY <1>3, <1>5 DEF TasksInv, TasksShape
  <1>7. OrderIsOfText'
    BY <1>3, <1>5 DEF TasksInv, OrderIsOfText, OrderWaits
  <1> QED
    BY <1>6, <1>7 DEF TasksInv, TeamHasItsId, OneTeamPerId, FormHasItsId, SquadHasItsId,
       SquadIsOfForm, Tasks!OutcomeIsOfThisTeam, SquadWaits, Tasks!Assembled

LEMMA TasksControl ==
    ASSUME TasksInv, NEW n \in Tasks!Orders, NEW a \in {"cancel", "steer", "recover"},
           Tasks!control(n, a)
    PROVE  TasksInv'
  <1>1. UNCHANGED <<teams, squad>> /\ ~sup.busy /\ order[n] = None
        /\ sup' = [sup EXCEPT !.busy = TRUE]
    BY DEF Tasks!control, Tasks!hostVars
  <1>2. PICK o, t : /\ t = <<sup.root, Tasks!chosen>>
                    /\ o = [action |-> a, to |-> t, origin |-> sup.generation,
                            text |-> sup.message, agreed |-> sup.agreed, wire |-> "sent"]
                    /\ order' = [order EXCEPT ![n] = o]
    BY DEF Tasks!control
  <1>3. sup \in TaskDialogs(sup.selected, sup.agreed) /\ order = [m \in Tasks!Orders |-> order[m]]
    BY DEF TasksInv, TasksShape
  <1>4. o \in TaskOrders(o.to, o.agreed) /\ o.origin = sup.generation /\ o.text = sup.message
    BY <1>2, <1>3 DEF TaskOrders, TaskDialogs, OrderWires
  <1>5. /\ sup' \in TaskDialogs(sup'.selected, sup'.agreed)
        /\ sup'.root = sup.root /\ sup'.generation = sup.generation
        /\ sup'.creating = sup.creating /\ sup'.form = sup.form
        /\ sup'.requestId = sup.requestId /\ sup'.result = sup.result /\ sup'.busy
        /\ sup'.message = sup.message /\ sup.generation \in Nat
    BY <1>1, <1>3 DEF TaskDialogs
  <1>6. order' = [m \in Tasks!Orders |-> order'[m]] /\ order'[n] = o
        /\ \A m \in Tasks!Orders \ {n} : order'[m] = order[m]
    BY <1>2, <1>3
  <1>7. TasksShape'
    BY <1>1, <1>4, <1>5, <1>6 DEF TasksInv, TasksShape
  <1>8. OrderIsOfText'
    BY <1>1, <1>4, <1>5, <1>6 DEF TasksInv, OrderIsOfText, OrderWaits
  <1> QED
    BY <1>1, <1>5, <1>7, <1>8 DEF TasksInv, TeamHasItsId, OneTeamPerId, FormHasItsId, SquadHasItsId,
       SquadIsOfForm, Tasks!OutcomeIsOfThisTeam, SquadWaits, Tasks!Assembled

LEMMA TasksOrderAnswered ==
    ASSUME TasksInv, NEW n \in Tasks!Orders, Tasks!orderAnswered(n) PROVE TasksInv'
  <1>1. UNCHANGED <<teams, squad>> /\ order[n] # None /\ order[n].wire # "heard"
        /\ Tasks!Answered(n, "heard")
    BY DEF Tasks!orderAnswered, Tasks!hostVars, Tasks!Back
  <1>2. order = [m \in Tasks!Orders |-> order[m]]
        /\ order[n] \in TaskOrders(order[n].to, order[n].agreed)
        /\ sup \in TaskDialogs(sup.selected, sup.agreed)
    BY <1>1 DEF TasksInv, TasksShape
  <1>3. PICK o : o = [order[n] EXCEPT !.wire = "heard"]
    OBVIOUS
  <1>4. o \in TaskOrders(o.to, o.agreed) /\ o.origin = order[n].origin /\ o.wire = "heard"
    BY <1>2, <1>3 DEF TaskOrders, OrderWires
  <1>5. order' = [order EXCEPT ![n] = o]
    BY <1>1, <1>3 DEF Tasks!Answered
  <1>6. order' = [m \in Tasks!Orders |-> order'[m]] /\ order'[n] = o
        /\ \A m \in Tasks!Orders \ {n} : order'[m] = order[m]
    BY <1>2, <1>5
  <1>7. CASE order[n].origin # sup.generation
    <2>1. sup' = sup
      BY <1>7 DEF Tasks!orderAnswered, Tasks!Heard
    <2>2. TasksShape'
      BY <1>1, <1>4, <1>6, <2>1 DEF TasksInv, TasksShape
    <2>3. OrderIsOfText'
      BY <1>4, <1>6, <1>1, <2>1 DEF TasksInv, OrderIsOfText, OrderWaits
    <2> QED
      BY <1>1, <2>1, <2>2, <2>3 DEF TasksInv, TeamHasItsId, OneTeamPerId, FormHasItsId,
         SquadHasItsId, SquadIsOfForm, Tasks!OutcomeIsOfThisTeam, SquadWaits, Tasks!Assembled
  <1>8. CASE order[n].origin = sup.generation
    <2>1. PICK m : m \in {sup.message, 0} /\ sup' = [sup EXCEPT !.busy = FALSE, !.message = m]
      BY <1>8 DEF Tasks!orderAnswered, Tasks!Heard, Tasks!Held
    <2>7. m \in Nat
      BY <1>2, <2>1 DEF TaskDialogs
    <2>2. /\ sup' \in TaskDialogs(sup'.selected, sup'.agreed)
          /\ sup'.root = sup.root /\ sup'.generation = sup.generation
          /\ sup'.creating = sup.creating /\ sup'.form = sup.form
          /\ sup'.requestId = sup.requestId /\ sup'.result = sup.result
      BY <1>2, <2>1, <2>7 DEF TaskDialogs
    <2>3. TasksShape'
      BY <1>1, <1>4, <1>6, <2>2 DEF TasksInv, TasksShape
    <2>4. \A k \in Tasks!Orders : OrderWaits(k) => k = n
      BY <1>1, <1>8 DEF TasksInv, OrderIsOfText, OrderWaits
    <2>5. \A k \in Tasks!Orders : ~OrderWaits(k)'
      BY <2>4, <2>2, <1>4, <1>6 DEF OrderWaits
    <2>6. OrderIsOfText'
      BY <1>4, <1>6, <1>1, <2>2, <2>5 DEF TasksInv, OrderIsOfText
    <2> QED
      BY <1>1, <2>2, <2>3, <2>6 DEF TasksInv, TeamHasItsId, OneTeamPerId, FormHasItsId,
         SquadHasItsId, SquadIsOfForm, Tasks!OutcomeIsOfThisTeam, SquadWaits, Tasks!Assembled
  <1> QED
    BY <1>7, <1>8

-----------------------------------------------------------------------------
\* A request for a team moves on; its dialog, its id and its form stay, and so
\* does every team, or what is made of it is finished.
LEMMA TasksSquadMoves ==
    ASSUME TasksInv, UNCHANGED <<sup, order>>, NEW n \in Tasks!Teams, squad[n] # None,
           squad[n].wire # "heard", NEW q \in TaskSquads, squad' = [squad EXCEPT ![n] = q],
           q.root = squad[n].root, q.origin = squad[n].origin, q.id = squad[n].id,
           q.form = squad[n].form,
           teams' \subseteq TaskTeams, TeamHasItsId', OneTeamPerId',
           \A m \in teams : \E o \in teams' : o.root = m.root /\ o.id = m.id,
           q.wire = "assembling" => \E o \in teams' : o.root = q.root /\ o.id = q.id
    PROVE  TasksInv'
  <1>1. squad' \in [Tasks!Teams -> TaskSquads \cup {None}] /\ squad'[n] = q
        /\ \A m \in Tasks!Teams \ {n} : squad'[m] = squad[m]
    BY DEF TasksInv, TasksShape
  <1>2. TasksShape'
    BY <1>1 DEF TasksInv, TasksShape
  <1>3. ASSUME NEW m \in Tasks!Teams, m # n, squad[m] # None, squad[m].wire = "assembling"
        PROVE  Tasks!Assembled(squad[m])' # {}
    <2>1. PICK o \in teams : o.root = squad[m].root /\ o.id = squad[m].id
      BY <1>3 DEF TasksInv, SquadHasItsId, Tasks!Assembled
    <2>2. PICK o2 \in teams' : o2.root = squad[m].root /\ o2.id = squad[m].id
      BY <2>1
    <2> QED
      BY <1>1, <1>3, <2>2 DEF Tasks!Assembled
  <1>4. SquadHasItsId'
    BY <1>1, <1>3 DEF TasksInv, SquadHasItsId, Tasks!Assembled
  <1>5. SquadIsOfForm'
    BY <1>1 DEF TasksInv, SquadIsOfForm, SquadWaits
  <1> QED
    BY <1>2, <1>4, <1>5 DEF TasksInv, FormHasItsId, OrderIsOfText, Tasks!OutcomeIsOfThisTeam,
       OrderWaits

LEMMA TasksTeamLost == ASSUME TasksInv, NEW n \in Tasks!Teams, Tasks!teamLost(n) PROVE TasksInv'
  <1>1. UNCHANGED <<sup, order, teams>> /\ squad[n] # None /\ squad[n].wire # "heard"
        /\ squad' = [squad EXCEPT ![n].wire = "lost"]
    BY DEF Tasks!teamLost, Tasks!hostVars, Tasks!Back
  <1>2. PICK q : q = [squad[n] EXCEPT !.wire = "lost"]
    OBVIOUS
  <1>3. squad[n] \in TaskSquads
    BY <1>1 DEF TasksInv, TasksShape
  <1>4. /\ q \in TaskSquads /\ q.root = squad[n].root /\ q.origin = squad[n].origin
        /\ q.id = squad[n].id /\ q.form = squad[n].form /\ q.wire = "lost"
    BY <1>2, <1>3 DEF TaskSquads, TeamWires
  <1>5. squad' = [squad EXCEPT ![n] = q] /\ teams' \subseteq TaskTeams /\ TeamHasItsId' /\ OneTeamPerId'
    BY <1>1, <1>2 DEF TasksInv, TasksShape, TeamHasItsId, OneTeamPerId
  <1> QED
    BY <1>1, <1>4, <1>5, TasksSquadMoves


LEMMA TasksAssembles ==
    ASSUME TasksInv, NEW n \in Tasks!Teams, Tasks!hostAssembles(n) PROVE TasksInv'
  <1> DEFINE p == squad[n]
             again == \E m \in Tasks!Assembled(p) : m.finished /\ m.form = p.form
             ended == IF again THEN "done" ELSE "refused"
             whole == \E m \in Tasks!Assembled(p) : again /\ m.made = m.form.size
             team == [root |-> p.root, id |-> p.id, form |-> p.form, made |-> 0, finished |-> FALSE]
  <1>1. UNCHANGED <<sup, order>> /\ p # None /\ p.wire = "sent"
    BY DEF Tasks!hostAssembles
  <1>2. p \in TaskSquads /\ p.id = p.form.edit
    BY <1>1 DEF TasksInv, TasksShape, SquadHasItsId
  <1>3. CASE Tasks!Assembled(p) # {} \/ ~Tasks!Allowed(p)
    <2>1. squad' = [squad EXCEPT ![n].wire = ended, ![n].ok = whole] /\ UNCHANGED teams
      BY <1>3, Zenon DEF Tasks!hostAssembles
    <2>2. PICK w, ok : w = ended /\ ok = whole
      OBVIOUS
    <2>3. w \in {"done", "refused"} /\ ok \in BOOLEAN
      BY <2>2
    <2>4. PICK q : q = [[p EXCEPT !.wire = w] EXCEPT !.ok = ok]
      OBVIOUS
    <2>5. /\ q \in TaskSquads /\ q.root = p.root /\ q.origin = p.origin
          /\ q.id = p.id /\ q.form = p.form /\ q.wire = w
      BY <1>2, <2>3, <2>4 DEF TaskSquads, TeamWires
    <2>6. squad' = [squad EXCEPT ![n].wire = w, ![n].ok = ok]
      BY <2>1, <2>2
    <2> HIDE DEF again, ended, whole
    <2>7. squad' = [squad EXCEPT ![n] = q]
      BY <2>4, <2>6 DEF TasksInv, TasksShape
    <2>8. teams' \subseteq TaskTeams /\ TeamHasItsId' /\ OneTeamPerId'
      BY <2>1 DEF TasksInv, TasksShape, TeamHasItsId, OneTeamPerId
    <2> QED
      BY <1>1, <2>1, <2>3, <2>5, <2>7, <2>8, TasksSquadMoves
  <1>4. CASE ~(Tasks!Assembled(p) # {} \/ ~Tasks!Allowed(p))
    <2>1. PICK t : t = team
      OBVIOUS
    <2>2. squad' = [squad EXCEPT ![n].wire = "assembling"] /\ teams' = teams \cup {t}
      BY <1>4, <2>1, Zenon DEF Tasks!hostAssembles
    <2>3. t \in TaskTeams /\ t.root = p.root /\ t.id = p.id /\ t.id = t.form.edit
      BY <1>2, <2>1 DEF TaskTeams, TaskSquads
    <2>4. PICK q : q = [p EXCEPT !.wire = "assembling"]
      OBVIOUS
    <2>5. /\ q \in TaskSquads /\ q.root = p.root /\ q.origin = p.origin
          /\ q.id = p.id /\ q.form = p.form
      BY <1>2, <2>4 DEF TaskSquads, TeamWires
    <2>6. squad' = [squad EXCEPT ![n] = q]
      BY <2>2, <2>4
    <2>7. \A m \in teams : ~(m.root = t.root /\ m.id = t.id)
      BY <1>4, <2>3 DEF Tasks!Assembled
    <2>8. teams' \subseteq TaskTeams /\ TeamHasItsId' /\ OneTeamPerId'
      BY <2>2, <2>3, <2>7 DEF TasksInv, TasksShape, TeamHasItsId, OneTeamPerId
    <2>9. /\ \A m \in teams : \E o \in teams' : o.root = m.root /\ o.id = m.id
          /\ \E o \in teams' : o.root = q.root /\ o.id = q.id
      BY <2>2, <2>3, <2>5
    <2> QED
      BY <1>1, <2>5, <2>6, <2>8, <2>9, TasksSquadMoves
  <1> QED
    BY <1>3, <1>4

LEMMA TasksSpawns ==
    ASSUME TasksInv, NEW n \in Tasks!Teams, Tasks!hostSpawns(n) PROVE TasksInv'
  <1> DEFINE p == squad[n]
             chosen == CHOOSE m \in Tasks!Assembled(p) : TRUE
  <1>1. UNCHANGED <<sup, order>> /\ p # None /\ p.wire = "assembling"
    BY DEF Tasks!hostSpawns
  <1>2. p \in TaskSquads /\ Tasks!Assembled(p) # {}
    BY <1>1 DEF TasksInv, TasksShape, SquadHasItsId
  <1>3. PICK made \in {p.form.size} \cup (IF mishaps < MaxMishaps THEN {0} ELSE {}) :
          /\ teams' = (teams \ {chosen}) \cup {[chosen EXCEPT !.made = made, !.finished = TRUE]}
          /\ squad' = [squad EXCEPT ![n].wire = "done", ![n].ok = (made = p.form.size)]
    BY Zenon DEF Tasks!hostSpawns
  <1>4. made \in Nat
    BY <1>2 DEF TaskSquads, TaskForms
  <1>5. PICK t : t = chosen
    OBVIOUS
  <1>6. t \in Tasks!Assembled(p)
    BY <1>2, <1>5
  <1>7. t \in teams /\ t \in TaskTeams /\ t.root = p.root /\ t.id = p.id
    BY <1>6 DEF Tasks!Assembled, TasksInv, TasksShape
  <1>8. PICK u : u = [t EXCEPT !.made = made, !.finished = TRUE]
    OBVIOUS
  <1>9. u \in TaskTeams /\ u.root = t.root /\ u.id = t.id /\ u.form = t.form
    BY <1>4, <1>7, <1>8 DEF TaskTeams
  <1>10. teams' = (teams \ {t}) \cup {u}
    BY <1>3, <1>5, <1>8
  <1>11. PICK ok : ok = (made = p.form.size)
    OBVIOUS
  <1>12. ok \in BOOLEAN
    BY <1>11
  <1>13. PICK q : q = [[p EXCEPT !.wire = "done"] EXCEPT !.ok = ok]
    OBVIOUS
  <1>14. /\ q \in TaskSquads /\ q.root = p.root /\ q.origin = p.origin
         /\ q.id = p.id /\ q.form = p.form /\ q.wire = "done"
    BY <1>2, <1>12, <1>13 DEF TaskSquads, TeamWires
  <1>15. squad' = [squad EXCEPT ![n].wire = "done", ![n].ok = ok]
    BY <1>3, <1>11
  <1>16. squad' = [squad EXCEPT ![n] = q]
    BY <1>13, <1>15 DEF TasksInv, TasksShape
  <1>17. teams' \subseteq TaskTeams /\ TeamHasItsId' /\ OneTeamPerId'
    BY <1>7, <1>9, <1>10 DEF TasksInv, TasksShape, TeamHasItsId, OneTeamPerId
  <1>18. \A m \in teams : \E o \in teams' : o.root = m.root /\ o.id = m.id
    BY <1>9, <1>10
  <1> QED
    BY <1>1, <1>14, <1>16, <1>17, <1>18, TasksSquadMoves

LEMMA TasksCreate ==
    ASSUME TasksInv, NEW n \in Tasks!Teams, Tasks!createTeam(n) PROVE TasksInv'
  <1>1. UNCHANGED <<order, teams>> /\ ~sup.creating /\ sup.result = None /\ squad[n] = None
        /\ sup' = [sup EXCEPT !.creating = TRUE]
    BY DEF Tasks!createTeam, Tasks!hostVars
  <1>2. PICK q : /\ q = [root |-> sup.root, origin |-> sup.generation, id |-> sup.requestId,
                         form |-> sup.form, ok |-> FALSE, wire |-> "sent"]
                 /\ squad' = [squad EXCEPT ![n] = q]
    BY DEF Tasks!createTeam, Tasks!requestId
  <1>3. sup \in TaskDialogs(sup.selected, sup.agreed) /\ sup.requestId = sup.form.edit
    BY DEF TasksInv, TasksShape, FormHasItsId
  <1>4. /\ q \in TaskSquads /\ q.root = sup.root /\ q.origin = sup.generation
        /\ q.id = sup.form.edit /\ q.form = sup.form /\ q.wire = "sent"
    BY <1>2, <1>3 DEF TaskSquads, TeamWires, TaskDialogs
  <1>5. /\ sup' \in TaskDialogs(sup'.selected, sup'.agreed)
        /\ sup'.root = sup.root /\ sup'.generation = sup.generation
        /\ sup'.creating /\ sup'.form = sup.form /\ sup'.busy = sup.busy
        /\ sup'.requestId = sup.requestId /\ sup'.result = sup.result
        /\ sup'.message = sup.message /\ sup.generation \in Nat
    BY <1>1, <1>3 DEF TaskDialogs
  <1>6. squad' \in [Tasks!Teams -> TaskSquads \cup {None}] /\ squad'[n] = q
        /\ \A m \in Tasks!Teams \ {n} : squad'[m] = squad[m]
    BY <1>2, <1>4 DEF TasksInv, TasksShape
  <1>7. TasksShape'
    BY <1>1, <1>5, <1>6 DEF TasksInv, TasksShape
  <1>8. SquadHasItsId'
    BY <1>1, <1>4, <1>5, <1>6 DEF TasksInv, SquadHasItsId, Tasks!Assembled
  <1>9. \A m \in Tasks!Teams : ~SquadWaits(m)
    BY <1>1 DEF TasksInv, SquadIsOfForm
  <1>10. SquadIsOfForm'
    BY <1>4, <1>5, <1>6, <1>9 DEF SquadIsOfForm, SquadWaits
  <1> QED
    BY <1>1, <1>5, <1>7, <1>8, <1>10 DEF TasksInv, TeamHasItsId, OneTeamPerId, FormHasItsId,
       Tasks!OutcomeIsOfThisTeam, OrderIsOfText, OrderWaits

LEMMA TasksTeamAnswered ==
    ASSUME TasksInv, NEW n \in Tasks!Teams, Tasks!teamAnswered(n) PROVE TasksInv'
  <1> DEFINE p == squad[n]
  <1>1. UNCHANGED <<order, teams>> /\ p # None /\ p.wire # "heard"
        /\ squad' = [squad EXCEPT ![n].wire = "heard"]
    BY DEF Tasks!teamAnswered, Tasks!hostVars, Tasks!Back
  <1>2. PICK q : q = [p EXCEPT !.wire = "heard"]
    OBVIOUS
  <1>3. p \in TaskSquads /\ sup \in TaskDialogs(sup.selected, sup.agreed)
    BY <1>1 DEF TasksInv, TasksShape
  <1>4. /\ q \in TaskSquads /\ q.root = p.root /\ q.origin = p.origin
        /\ q.id = p.id /\ q.form = p.form /\ q.wire = "heard"
    BY <1>2, <1>3 DEF TaskSquads, TeamWires
  <1>5. squad' = [squad EXCEPT ![n] = q]
    BY <1>1, <1>2
  <1>6. CASE p.origin # sup.generation
    <2>1. sup' = sup /\ teams' \subseteq TaskTeams /\ TeamHasItsId' /\ OneTeamPerId'
      BY <1>1, <1>6 DEF Tasks!teamAnswered, Tasks!Heard, TasksInv, TasksShape, TeamHasItsId, OneTeamPerId
    <2> QED
      BY <1>1, <1>4, <1>5, <2>1, TasksSquadMoves
  <1>7. CASE p.origin = sup.generation
    <2>1. PICK r : /\ r = IF p.wire = "done" THEN [of |-> p.root, form |-> p.form, ok |-> p.ok] ELSE sup.result
                   /\ sup' = [sup EXCEPT !.creating = FALSE, !.result = r]
      BY <1>7 DEF Tasks!teamAnswered, Tasks!Heard
    <2>2. SquadWaits(n)
      BY <1>1, <1>7 DEF SquadWaits
    <2>3. p.root = sup.root /\ p.form = sup.form /\ \A m \in Tasks!Teams : SquadWaits(m) => m = n
      BY <2>2 DEF TasksInv, SquadIsOfForm
    <2>4. /\ r \in TaskOutcomes \cup {None}
          /\ r # None => r.of = sup.root /\ r.form = sup.form
      BY <1>3, <2>1, <2>3 DEF TaskOutcomes, TaskSquads, TaskDialogs, TasksInv, Tasks!OutcomeIsOfThisTeam
    <2>5. /\ sup' \in TaskDialogs(sup'.selected, sup'.agreed)
          /\ sup'.root = sup.root /\ sup'.generation = sup.generation
          /\ sup'.form = sup.form /\ sup'.busy = sup.busy
          /\ sup'.requestId = sup.requestId /\ sup'.result = r
          /\ sup'.message = sup.message
      BY <1>3, <2>1, <2>4 DEF TaskDialogs
    <2>6. squad' \in [Tasks!Teams -> TaskSquads \cup {None}] /\ squad'[n] = q
          /\ \A m \in Tasks!Teams \ {n} : squad'[m] = squad[m]
      BY <1>4, <1>5 DEF TasksInv, TasksShape
    <2>7. TasksShape'
      BY <1>1, <2>5, <2>6 DEF TasksInv, TasksShape
    <2>8. SquadHasItsId'
      BY <1>1, <1>4, <2>5, <2>6 DEF TasksInv, SquadHasItsId, Tasks!Assembled
    <2>9. \A m \in Tasks!Teams : ~SquadWaits(m)'
      BY <1>4, <2>3, <2>5, <2>6 DEF SquadWaits
    <2>10. SquadIsOfForm' /\ Tasks!OutcomeIsOfThisTeam'
      BY <2>4, <2>5, <2>9 DEF SquadIsOfForm, Tasks!OutcomeIsOfThisTeam
    <2> QED
      BY <1>1, <2>5, <2>7, <2>8, <2>10 DEF TasksInv, TeamHasItsId, OneTeamPerId, FormHasItsId,
         OrderIsOfText, OrderWaits
  <1> QED
    BY <1>6, <1>7

LEMMA TasksRestart == ASSUME TasksInv, Tasks!restart PROVE TasksInv'
  <1>1. UNCHANGED <<sup, order, teams>>
        /\ squad' = [n \in Tasks!Teams |-> IF Tasks!Back(squad[n], {"assembling"})
                                           THEN [squad[n] EXCEPT !.wire = "lost"] ELSE squad[n]]
    BY DEF Tasks!restart
  <1>2. ASSUME NEW n \in Tasks!Teams
        PROVE  \/ squad'[n] = squad[n]
               \/ /\ squad[n] # None /\ squad[n] \in TaskSquads /\ squad[n].wire = "assembling"
                  /\ squad'[n] \in TaskSquads /\ squad'[n].wire = "lost"
                  /\ squad'[n].root = squad[n].root /\ squad'[n].origin = squad[n].origin
                  /\ squad'[n].id = squad[n].id /\ squad'[n].form = squad[n].form
    <2>1. CASE squad[n] # None /\ squad[n].wire = "assembling"
      <3>1. squad'[n] = [squad[n] EXCEPT !.wire = "lost"] /\ squad[n] \in TaskSquads
        BY <1>1, <2>1 DEF Tasks!Back, TasksInv, TasksShape
      <3>2. PICK q : q = [squad[n] EXCEPT !.wire = "lost"]
        OBVIOUS
      <3>3. /\ q \in TaskSquads /\ q.wire = "lost" /\ q.root = squad[n].root
            /\ q.origin = squad[n].origin /\ q.id = squad[n].id /\ q.form = squad[n].form
        BY <3>1, <3>2 DEF TaskSquads, TeamWires
      <3> QED
        BY <2>1, <3>1, <3>2, <3>3
    <2>2. CASE ~(squad[n] # None /\ squad[n].wire = "assembling")
      BY <1>1, <2>2 DEF Tasks!Back
    <2> QED
      BY <2>1, <2>2
  <1>3. squad' \in [Tasks!Teams -> TaskSquads \cup {None}]
    <2>1. \A n \in Tasks!Teams : squad'[n] \in TaskSquads \cup {None}
      BY <1>2 DEF TasksInv, TasksShape
    <2> QED
      BY <1>1, <2>1
  <1>4. TasksShape'
    BY <1>1, <1>3 DEF TasksInv, TasksShape
  <1>5. SquadHasItsId'
    BY <1>1, <1>2 DEF TasksInv, SquadHasItsId, Tasks!Assembled
  <1>6. \A n \in Tasks!Teams : SquadWaits(n)' =>
            /\ SquadWaits(n) /\ squad'[n].root = squad[n].root /\ squad'[n].form = squad[n].form
    BY <1>1, <1>2 DEF SquadWaits
  <1>7. SquadIsOfForm'
    BY <1>1, <1>6 DEF TasksInv, SquadIsOfForm
  <1> QED
    BY <1>1, <1>4, <1>5, <1>7 DEF TasksInv, TeamHasItsId, OneTeamPerId, FormHasItsId,
       Tasks!OutcomeIsOfThisTeam, OrderIsOfText, OrderWaits

LEMMA TasksNext == ASSUME TasksInv, Tasks!Next \/ UNCHANGED tasksVars PROVE TasksInv'
  <1>1. CASE Tasks!hostReads \/ Tasks!treeArrives \/ Tasks!readFails \/ Tasks!poll
    BY <1>1, TasksUnchanged DEF Tasks!hostReads, Tasks!treeArrives, Tasks!readFails, Tasks!poll, Tasks!hostVars
  <1>2. ASSUME NEW t \in Tasks!Tasks, Tasks!works(t) PROVE TasksInv'
    BY <1>2, TasksUnchanged DEF Tasks!works
  <1>3. CASE UNCHANGED tasksVars
    BY <1>3, TasksUnchanged DEF tasksVars
  <1>4. ASSUME NEW n \in Tasks!Orders PROVE
          /\ Tasks!steer(n) \/ Tasks!recover(n) \/ Tasks!cancel(n) => TasksInv'
          /\ Tasks!hostObeys(n) \/ Tasks!orderLost(n) => TasksInv'
    <2>1. Tasks!steer(n) => Tasks!control(n, "steer")
      BY DEF Tasks!steer, Tasks!handleSubmit
    <2>2. Tasks!recover(n) => Tasks!control(n, "recover")
      BY DEF Tasks!recover
    <2>3. Tasks!cancel(n) => Tasks!control(n, "cancel")
      BY DEF Tasks!cancel
    <2>4. ASSUME Tasks!hostObeys(n) PROVE TasksInv'
      <3>1. PICK w \in {"refused", "done"} : Tasks!Answered(n, w)
        BY <2>4 DEF Tasks!hostObeys
      <3>2. UNCHANGED <<sup, teams, squad>> /\ order[n] # None /\ order[n].wire = "sent"
        BY <2>4 DEF Tasks!hostObeys, Tasks!HostTakes
      <3> QED
        BY <3>1, <3>2, TasksWire DEF OrderWires
    <2>5. ASSUME Tasks!orderLost(n) PROVE TasksInv'
      <3>1. UNCHANGED <<sup, teams, squad>> /\ order[n] # None /\ order[n].wire # "heard"
            /\ Tasks!Answered(n, "lost")
        BY <2>5 DEF Tasks!orderLost, Tasks!hostVars
      <3> QED
        BY <3>1, TasksWire DEF OrderWires
    <2> QED
      BY <2>1, <2>2, <2>3, <2>4, <2>5, TasksControl
  <1> QED
    BY <1>1, <1>2, <1>3, <1>4, TasksOpen, TasksSelect, TasksSetText, TasksConfirm, TasksBuild,
       TasksEdit, TasksOrderAnswered, TasksCreate, TasksAssembles, TasksSpawns, TasksTeamLost,
       TasksTeamAnswered, TasksRestart DEF Tasks!Next

\* TextIsDelivered of one step.
LEMMA TasksActs == ASSUME TasksInv, Tasks!Next \/ UNCHANGED tasksVars
    PROVE  \A n \in Tasks!Orders : (Tasks!orderAnswered(n) /\ sup'.message # sup.message)
                                     => order[n].text = sup.message
  <1> SUFFICES ASSUME NEW n \in Tasks!Orders, Tasks!orderAnswered(n), sup'.message # sup.message
               PROVE  order[n].text = sup.message
    OBVIOUS
  <1>1. order[n] # None /\ order[n].wire # "heard" /\ sup' # sup
    BY DEF Tasks!orderAnswered, Tasks!Back
  <1>2. order[n].origin = sup.generation
    BY <1>1 DEF Tasks!orderAnswered, Tasks!Heard
  <1>3. PICK m : m \in {sup.message, 0} /\ sup' = [sup EXCEPT !.busy = FALSE, !.message = m]
    BY <1>2 DEF Tasks!orderAnswered, Tasks!Heard, Tasks!Held
  <1>4. sup'.message = m
    BY <1>3 DEF TasksInv, TasksShape, TaskDialogs
  <1>5. sup.message \in {order[n].text, 0}
    BY <1>1, <1>2 DEF TasksInv, OrderIsOfText, OrderWaits
  <1> QED
    BY <1>3, <1>4, <1>5

-----------------------------------------------------------------------------
(* The queue (FollowUps). *)

\* The task under way and the prompts queued behind it.
Queue == INSTANCE FollowUps WITH Working <- Occupied, session <- queueSession, generation <- queueGeneration,
        seen <- queueSeen, read <- queueRead, call <- queueCall, used <- queueUsed
queueVars == <<latest, state, rows, settings, queueSession, queueGeneration, observing,
        queueSeen, stopping, stops, focus, interrupt, items, queueRead, review, queueCall,
        busy, queueUsed>>

QueueRows(r) == [id : Nat, of : {r.of}, revision : Nat, status : {r.status}, digest : {r.digest},
                 interrupts : {r.interrupts}]
QueueCalls(q) == [kind : {q.kind}, item : {q.item}, digest : {q.digest}, of : {q.of},
                  ticket : {q.ticket}, answer : {q.answer}]
QueueReads(q) == [of : {q.of}, ticket : {q.ticket}, rows : {q.rows}]
QueueStops(s) == [call : {s.call}, task : {s.task}, done : {s.done}]
QueueShape ==
    /\ queueUsed \in [tasks : Nat, rows : Nat, moves : Nat, calls : Nat]
    /\ \A r \in rows : r \in QueueRows(r)
    /\ \A s \in stops : s \in QueueStops(s)
    /\ queueRead # None => queueRead \in QueueReads(queueRead)
    /\ queueCall # None => queueCall \in QueueCalls(queueCall)

StopIsGuarded == \A s \in stops : s.task \in stopping
ListIsOfItsChat == queueRead # None /\ queueRead.rows # None =>
                       \A r \in queueRead.rows : r.of = queueRead.of
CallIsOfItsChat == queueCall # None => queueCall.item.of = queueCall.of
RowsHaveIds == /\ \A r \in rows : r.id <= queueUsed.rows
               /\ \A r, o \in rows : r.id = o.id => r = o

\* A prompt as it was seen is the host's, unless its revision has grown since.
SeenRow(i) == \E r \in rows : /\ r.id = i.id /\ i.revision \in Nat /\ i.revision <= r.revision
                              /\ i.revision = r.revision => i = r
WhatIsSeen == /\ \A i \in items : SeenRow(i)
              /\ queueRead # None /\ queueRead.rows # None => \A i \in queueRead.rows : SeenRow(i)
              /\ review # None => SeenRow(review.item)
              /\ queueCall # None => SeenRow(queueCall.item)

QueueInv == QueueShape /\ StopIsGuarded /\ Queue!OneStop /\ ListIsOfItsChat /\ CallIsOfItsChat
            /\ Queue!ItemsAreHere /\ RowsHaveIds /\ WhatIsSeen

LEMMA QueueInitInv == Queue!Init => QueueInv
  <1> SUFFICES ASSUME Queue!Init PROVE QueueInv
    OBVIOUS
  <1>1. /\ rows = {} /\ stops = {} /\ items = {} /\ queueRead = None /\ review = None
        /\ queueCall = None /\ queueUsed = [tasks |-> 0, rows |-> 0, moves |-> 0, calls |-> 0]
    BY DEF Queue!Init
  <1>2. queueUsed \in [tasks : Nat, rows : Nat, moves : Nat, calls : Nat]
    BY <1>1
  <1> QED
    BY <1>1, <1>2 DEF QueueInv, QueueShape, StopIsGuarded, Queue!OneStop, ListIsOfItsChat,
       CallIsOfItsChat, Queue!ItemsAreHere, RowsHaveIds, WhatIsSeen

\* What is spent is still counted.
LEMMA QueueSpends == ASSUME QueueShape, NEW what \in {"tasks", "rows", "moves", "calls"},
                            Queue!Spend(what)
    PROVE  /\ queueUsed' \in [tasks : Nat, rows : Nat, moves : Nat, calls : Nat]
           /\ queueUsed'.rows = IF what = "rows" THEN queueUsed.rows + 1 ELSE queueUsed.rows
  BY DEF QueueShape, Queue!Spend

\* The rows are as they were, but for one that is replaced.
LEMMA QueueReplaces ==
    ASSUME QueueShape, RowsHaveIds, NEW r \in rows, NEW new, new \in QueueRows(new), new.id = r.id,
           new.revision = r.revision, new.of = r.of, Queue!Replace(r, new),
           queueUsed'.rows = queueUsed.rows
    PROVE  /\ \A o \in rows' : o \in QueueRows(o)
           /\ RowsHaveIds'
           /\ \A i : SeenRow(i) => SeenRow(i)'
           /\ \A o \in rows' : o \in rows
                 \/ (o.id = r.id /\ o.status = new.status /\ o.digest = new.digest)
  <1>1. PICK n : n = [new EXCEPT !.revision = @ + 1]
    OBVIOUS
  <1>2. /\ n \in QueueRows(n) /\ n.id = r.id /\ n.revision = r.revision + 1
        /\ n.status = new.status /\ n.digest = new.digest
    BY <1>1 DEF QueueRows
  <1>3. rows' = (rows \ {r}) \cup {n}
    BY <1>1 DEF Queue!Replace
  <1>4. \A o \in rows : o.id \in Nat /\ o.revision \in Nat
    BY DEF QueueShape, QueueRows
  <1>5. RowsHaveIds'
    BY <1>2, <1>3 DEF RowsHaveIds
  <1>6. ASSUME NEW i, SeenRow(i) PROVE SeenRow(i)'
    <2>1. PICK o \in rows : /\ o.id = i.id /\ i.revision \in Nat /\ i.revision <= o.revision
                            /\ i.revision = o.revision => i = o
      BY <1>6 DEF SeenRow
    <2>2. CASE o = r
      BY <2>1, <2>2, <1>2, <1>3, <1>4 DEF SeenRow
    <2>3. CASE o # r
      BY <2>1, <2>3, <1>3 DEF SeenRow
    <2> QED
      BY <2>2, <2>3
  <1> QED
    BY <1>2, <1>3, <1>5, <1>6 DEF QueueShape

\* The rows are still those that were seen, and nothing new is seen.
LEMMA QueueStays ==
    ASSUME QueueInv, UNCHANGED <<stops, stopping>>,
           queueSession' = queueSession \/ (items' = {} /\ review' = None),
           queueUsed' \in [tasks : Nat, rows : Nat, moves : Nat, calls : Nat],
           \A r \in rows' : r \in QueueRows(r), RowsHaveIds',
           \A i : SeenRow(i) => SeenRow(i)',
           items' \in {items, {}}, review' \in {review, None}, queueRead' \in {queueRead, None},
           queueCall' \in {queueCall, None}
    PROVE  QueueInv'
  <1>1. QueueShape' /\ StopIsGuarded' /\ Queue!OneStop' /\ ListIsOfItsChat' /\ CallIsOfItsChat'
        /\ Queue!ItemsAreHere'
    BY DEF QueueInv, QueueShape, StopIsGuarded, Queue!OneStop, ListIsOfItsChat, CallIsOfItsChat,
       Queue!ItemsAreHere
  <1>2. WhatIsSeen'
    BY DEF QueueInv, WhatIsSeen
  <1> QED
    BY <1>1, <1>2 DEF QueueInv

QueueUsedShape == queueUsed \in [tasks : Nat, rows : Nat, moves : Nat, calls : Nat]
LEMMA QueueRowsStay == ASSUME QueueInv, UNCHANGED rows, QueueUsedShape', queueUsed'.rows = queueUsed.rows
    PROVE  /\ \A o \in rows' : o \in QueueRows(o)
           /\ RowsHaveIds'
           /\ \A i : SeenRow(i) => SeenRow(i)'
  BY DEF QueueInv, QueueShape, RowsHaveIds, SeenRow

LEMMA QueueNothing ==
    ASSUME QueueInv, UNCHANGED <<stops, stopping, rows>>, QueueUsedShape',
           queueUsed'.rows = queueUsed.rows,
           queueSession' = queueSession \/ (items' = {} /\ review' = None),
           items' \in {items, {}}, review' \in {review, None}, queueRead' \in {queueRead, None},
           queueCall' \in {queueCall, None}
    PROVE  QueueInv'
  BY QueueRowsStay, QueueStays DEF QueueUsedShape

LEMMA QueueUsedStays == ASSUME QueueInv PROVE
    /\ UNCHANGED queueUsed => QueueUsedShape' /\ queueUsed'.rows = queueUsed.rows
    /\ \A what \in {"tasks", "moves", "calls"} : Queue!Spend(what) =>
           QueueUsedShape' /\ queueUsed'.rows = queueUsed.rows
  BY QueueSpends DEF QueueInv, QueueShape, QueueUsedShape

\* The host goes on with a task or blocks a prompt.
LEMMA QueueReplaced ==
    ASSUME QueueInv, NEW r \in rows, NEW new, new \in QueueRows(new), new.id = r.id,
           new.revision = r.revision, new.of = r.of, Queue!Replace(r, new), QueueUsedShape',
           queueUsed'.rows = queueUsed.rows,
           UNCHANGED <<queueSession, stops, stopping, items, review, queueRead, queueCall>>
    PROVE  QueueInv'
  BY QueueReplaces, QueueStays DEF QueueInv, QueueUsedShape

LEMMA QueueTaskStarts == ASSUME QueueInv, Queue!taskStarts PROVE QueueInv'
  <1>1. QueueUsedShape' /\ queueUsed'.rows = queueUsed.rows
        /\ UNCHANGED <<queueSession, stops, stopping, items, review, queueRead, queueCall>>
    BY QueueUsedStays DEF Queue!taskStarts, Queue!tasks, Queue!queue
  <1>2. CASE UNCHANGED rows
    BY <1>1, <1>2, QueueNothing
  <1>3. ASSUME NEW r \in rows, Queue!Replace(r, [r EXCEPT !.status = "dispatched"]) PROVE QueueInv'
    <2>1. PICK new : new = [r EXCEPT !.status = "dispatched"]
      OBVIOUS
    <2>2. /\ new \in QueueRows(new) /\ new.id = r.id /\ new.revision = r.revision
          /\ new.of = r.of /\ Queue!Replace(r, new)
      BY <1>3, <2>1 DEF QueueInv, QueueShape, QueueRows
    <2> QED
      BY <1>1, <2>2, QueueReplaced
  <1> QED
    BY <1>2, <1>3 DEF Queue!taskStarts

LEMMA QueueBlocks == ASSUME QueueInv, Queue!hostBlocks PROVE QueueInv'
  <1>1. QueueUsedShape' /\ queueUsed'.rows = queueUsed.rows
        /\ UNCHANGED <<queueSession, stops, stopping, items, review, queueRead, queueCall>>
    BY QueueUsedStays DEF Queue!hostBlocks, Queue!tasks, Queue!queue
  <1>2. PICK r \in rows : Queue!Replace(r, [r EXCEPT !.status = "blocked"])
    BY DEF Queue!hostBlocks
  <1>3. PICK new : new = [r EXCEPT !.status = "blocked"]
    OBVIOUS
  <1>4. /\ new \in QueueRows(new) /\ new.id = r.id /\ new.revision = r.revision
        /\ new.of = r.of /\ Queue!Replace(r, new)
    BY <1>2, <1>3 DEF QueueInv, QueueShape, QueueRows
  <1> QED
    BY <1>1, <1>4, QueueReplaced

LEMMA QueueAdds == ASSUME QueueInv, Queue!Spend("rows"), NEW j, Queue!Queued(j),
        UNCHANGED <<queueSession, stops, stopping, items, review, queueRead, queueCall>>
    PROVE  QueueInv'
  <1>1. PICK n : n = [id |-> queueUsed.rows + 1, of |-> queueSession, revision |-> 0,
                      status |-> "queued", digest |-> settings[queueSession], interrupts |-> j]
    OBVIOUS
  <1>2. rows' = rows \cup {n}
    BY <1>1 DEF Queue!Queued
  <1>3. QueueUsedShape' /\ queueUsed'.rows = queueUsed.rows + 1 /\ queueUsed.rows \in Nat
    BY QueueSpends DEF QueueUsedShape, QueueInv, QueueShape
  <1>4. n \in QueueRows(n) /\ n.id = queueUsed.rows + 1
    BY <1>1, <1>3 DEF QueueRows
  <1>5. \A r \in rows : r.id \in Nat /\ r.id <= queueUsed.rows
    BY DEF QueueInv, QueueShape, RowsHaveIds, QueueRows
  <1>6. (\A r \in rows' : r \in QueueRows(r)) /\ RowsHaveIds' /\ \A i : SeenRow(i) => SeenRow(i)'
    BY <1>2, <1>3, <1>4, <1>5 DEF QueueInv, QueueShape, RowsHaveIds, SeenRow
  <1> QED
    BY <1>3, <1>6, QueueStays DEF QueueUsedShape

-----------------------------------------------------------------------------
\* The calls that cancel a task.
LEMMA QueueStopping ==
    ASSUME QueueInv, UNCHANGED <<queueSession, rows, items, review, queueRead, queueCall>>,
           QueueUsedShape', queueUsed'.rows = queueUsed.rows,
           \A s \in stops' : s \in QueueStops(s), StopIsGuarded', Queue!OneStop'
    PROVE  QueueInv'
  BY QueueRowsStay DEF QueueInv, QueueShape, QueueUsedShape, ListIsOfItsChat, CallIsOfItsChat,
     Queue!ItemsAreHere, WhatIsSeen

LEMMA QueueStopTask == ASSUME QueueInv, Queue!stopTask PROVE QueueInv'
  <1>1. QueueUsedShape' /\ queueUsed'.rows = queueUsed.rows
        /\ UNCHANGED <<queueSession, rows, items, review, queueRead, queueCall>>
    BY QueueUsedStays DEF Queue!stopTask, Queue!host, Queue!queue
  <1>2. PICK s : s = [call |-> queueUsed'.calls, task |-> queueSeen.id, done |-> FALSE]
    OBVIOUS
  <1>3. s \in QueueStops(s) /\ s.task = queueSeen.id
    BY <1>2 DEF QueueStops
  <1>4. stops' = stops \cup {s} /\ stopping' = stopping \cup {s.task} /\ s.task \notin stopping
    BY <1>2, <1>3 DEF Queue!stopTask, Queue!Stopping
  <1> QED
    BY <1>1, <1>3, <1>4, QueueStopping DEF QueueInv, QueueShape, StopIsGuarded, Queue!OneStop

LEMMA QueueHostStops == ASSUME QueueInv, Queue!hostStops PROVE QueueInv'
  <1>1. QueueUsedShape' /\ queueUsed'.rows = queueUsed.rows /\ stopping' = stopping
        /\ UNCHANGED <<queueSession, rows, items, review, queueRead, queueCall>>
    BY QueueUsedStays DEF Queue!hostStops, Queue!queue
  <1>2. PICK s \in stops : stops' = (stops \ {s}) \cup {[s EXCEPT !.done = TRUE]}
    BY DEF Queue!hostStops
  <1>3. PICK t : t = [s EXCEPT !.done = TRUE]
    OBVIOUS
  <1>4. t \in QueueStops(t) /\ t.task = s.task
    BY <1>3 DEF QueueInv, QueueShape, QueueStops
  <1> QED
    BY <1>1, <1>2, <1>3, <1>4, QueueStopping DEF QueueInv, QueueShape, StopIsGuarded, Queue!OneStop

LEMMA QueueStopEnds == ASSUME QueueInv, Queue!stopEnds PROVE QueueInv'
  <1>1. QueueUsedShape' /\ queueUsed'.rows = queueUsed.rows
        /\ UNCHANGED <<queueSession, rows, items, review, queueRead, queueCall>>
    BY QueueUsedStays DEF Queue!stopEnds, Queue!queue, Queue!host
  <1>2. PICK s \in stops : stops' = stops \ {s} /\ stopping' = stopping \ {s.task}
    BY DEF Queue!stopEnds
  <1> QED
    BY <1>1, <1>2, QueueStopping DEF QueueInv, QueueShape, StopIsGuarded, Queue!OneStop

-----------------------------------------------------------------------------
\* The list, and what is asked about a prompt of it.
LEMMA QueueSeen ==
    ASSUME QueueInv, UNCHANGED <<queueSession, stops, stopping, rows>>, QueueUsedShape',
           queueUsed'.rows = queueUsed.rows, Queue!ItemsAreHere', ListIsOfItsChat',
           CallIsOfItsChat',
           queueRead' # None => queueRead' \in QueueReads(queueRead'),
           queueCall' # None => queueCall' \in QueueCalls(queueCall'),
           \A i \in items' : SeenRow(i),
           queueRead' # None /\ queueRead'.rows # None => \A i \in queueRead'.rows : SeenRow(i),
           review' # None => SeenRow(review'.item),
           queueCall' # None => SeenRow(queueCall'.item)
    PROVE  QueueInv'
  <1>1. QueueShape' /\ StopIsGuarded' /\ Queue!OneStop' /\ RowsHaveIds'
    BY QueueRowsStay DEF QueueInv, QueueShape, QueueUsedShape, StopIsGuarded, Queue!OneStop
  <1>2. WhatIsSeen'
    BY QueueRowsStay DEF WhatIsSeen
  <1> QED
    BY <1>1, <1>2 DEF QueueInv

LEMMA QueueRefresh == ASSUME QueueInv, Queue!refresh PROVE QueueInv'
  <1>1. QueueUsedShape' /\ queueUsed'.rows = queueUsed.rows
        /\ UNCHANGED <<queueSession, stops, stopping, rows, items, review, queueCall>>
    BY QueueUsedStays DEF Queue!refresh, Queue!host, Queue!tasks
  <1>2. queueRead' = [of |-> queueSession, ticket |-> queueGeneration, rows |-> None]
    BY DEF Queue!refresh
  <1>3. queueRead' \in QueueReads(queueRead') /\ queueRead'.rows = None
    BY <1>2 DEF QueueReads
  <1> QED
    BY <1>1, <1>3, QueueSeen DEF QueueInv, QueueShape, Queue!ItemsAreHere, ListIsOfItsChat,
       CallIsOfItsChat, WhatIsSeen

LEMMA QueueLists == ASSUME QueueInv, Queue!hostLists PROVE QueueInv'
  <1>1. QueueUsedShape' /\ queueUsed'.rows = queueUsed.rows
        /\ UNCHANGED <<queueSession, stops, stopping, rows, items, review, queueCall>>
    BY QueueUsedStays DEF Queue!hostLists, Queue!host, Queue!tasks
  <1>2. PICK S : S = {r \in rows : r.of = queueRead.of} /\ queueRead' = [queueRead EXCEPT !.rows = S]
    BY DEF Queue!hostLists
  <1>3. queueRead \in QueueReads(queueRead)
    BY DEF QueueInv, QueueShape, Queue!hostLists
  <1>4. queueRead' \in QueueReads(queueRead') /\ queueRead'.rows = S /\ queueRead'.of = queueRead.of
    BY <1>2, <1>3 DEF QueueReads
  <1>5. \A i \in rows : SeenRow(i)
    BY DEF SeenRow, QueueInv, QueueShape, QueueRows
  <1>6. ListIsOfItsChat' /\ \A i \in queueRead'.rows : SeenRow(i)
    BY <1>2, <1>4, <1>5 DEF ListIsOfItsChat
  <1> QED
    BY <1>1, <1>4, <1>6, QueueSeen DEF QueueInv, QueueShape, Queue!ItemsAreHere,
       CallIsOfItsChat, WhatIsSeen

LEMMA QueueListed == ASSUME QueueInv, Queue!listed PROVE QueueInv'
  <1>1. QueueUsedShape' /\ queueUsed'.rows = queueUsed.rows /\ queueRead # None /\ queueRead' = None
        /\ UNCHANGED <<queueSession, stops, stopping, rows, review, queueCall>>
    BY QueueUsedStays DEF Queue!listed, Queue!host, Queue!tasks
  <1>2. \/ items' = items
        \/ items' = queueRead.rows /\ queueRead.rows # None /\ queueRead.of = queueSession
    BY DEF Queue!listed, Queue!Fresh
  <1>3. Queue!ItemsAreHere' /\ \A i \in items' : SeenRow(i)
    BY <1>1, <1>2 DEF QueueInv, Queue!ItemsAreHere, ListIsOfItsChat, WhatIsSeen
  <1> QED
    BY <1>1, <1>3, QueueSeen DEF QueueInv, QueueShape, ListIsOfItsChat, CallIsOfItsChat, WhatIsSeen

LEMMA QueueAsk ==
    ASSUME QueueInv, NEW kind, NEW i, NEW digest, i.of = queueSession, SeenRow(i),
           Queue!Ask(kind, i, digest)
    PROVE  QueueInv'
  <1>1. QueueUsedShape' /\ queueUsed'.rows = queueUsed.rows
        /\ UNCHANGED <<queueSession, stops, stopping, rows, items, review, queueRead>>
    BY QueueUsedStays DEF Queue!Ask, Queue!host, Queue!tasks
  <1>2. queueCall' = [kind |-> kind, item |-> i, digest |-> digest, of |-> queueSession,
                      ticket |-> queueGeneration, answer |-> "none"]
    BY DEF Queue!Ask
  <1>3. queueCall' \in QueueCalls(queueCall') /\ queueCall'.item = i /\ queueCall'.of = queueSession
    BY <1>2 DEF QueueCalls
  <1> QED
    BY <1>1, <1>3, QueueSeen DEF QueueInv, QueueShape, ListIsOfItsChat, CallIsOfItsChat,
       Queue!ItemsAreHere, WhatIsSeen

LEMMA QueueCallEnds == ASSUME QueueInv, Queue!callEnds PROVE QueueInv'
  <1>1. QueueUsedShape' /\ queueUsed'.rows = queueUsed.rows /\ queueCall # None /\ queueCall' = None
        /\ UNCHANGED <<queueSession, stops, stopping, rows, items, queueRead>>
    BY QueueUsedStays DEF Queue!callEnds, Queue!host, Queue!tasks
  <1>2. \/ review' \in {review, None}
        \/ /\ review' = [item |-> queueCall.item, digest |-> queueCall.digest]
           /\ queueCall.of = queueSession
    BY DEF Queue!callEnds, Queue!Fresh
  <1>3. review' # None => SeenRow(review'.item) /\ review'.item.of = queueSession
    BY <1>1, <1>2 DEF QueueInv, Queue!ItemsAreHere, CallIsOfItsChat, WhatIsSeen
  <1> QED
    BY <1>1, <1>3, QueueSeen DEF QueueInv, QueueShape, ListIsOfItsChat, CallIsOfItsChat,
       Queue!ItemsAreHere, WhatIsSeen

\* The host serves what is asked, about a row of its own.
LEMMA QueueServes == ASSUME QueueInv, Queue!hostServes PROVE QueueInv'
  <1>1. QueueUsedShape' /\ queueUsed'.rows = queueUsed.rows /\ queueCall # None
        /\ UNCHANGED <<queueSession, stops, stopping, items, review, queueRead>>
    BY QueueUsedStays DEF Queue!hostServes, Queue!tasks
  <1> DEFINE ok(r) ==
        CASE queueCall.kind = "review" -> TRUE
          [] queueCall.kind = "cancel" -> r.status \in {"queued", "blocked"} /\ r.revision = queueCall.item.revision
          [] queueCall.kind = "renew" -> r.status = "blocked" /\ Queue!Agrees(queueCall, r) /\ r.revision = queueCall.item.revision
  <1>a. PICK r \in rows :
          /\ queueCall' = [queueCall EXCEPT !.answer = IF ok(r) THEN "done" ELSE "failed",
                             !.digest = IF queueCall.kind = "review" THEN settings[r.of] ELSE @]
          /\ IF ok(r) /\ queueCall.kind = "cancel" THEN Queue!Replace(r, [r EXCEPT !.status = "cancelled"])
             ELSE IF ok(r) /\ queueCall.kind = "renew"
                  THEN Queue!Replace(r, [r EXCEPT !.status = "queued", !.digest = settings[r.of]])
             ELSE UNCHANGED rows
    BY DEF Queue!hostServes
  <1> HIDE DEF ok
  <1>b. PICK answer, digest :
          /\ answer = IF ok(r) THEN "done" ELSE "failed"
          /\ digest = IF queueCall.kind = "review" THEN settings[r.of] ELSE queueCall.digest
    OBVIOUS
  <1>2. /\ queueCall' = [queueCall EXCEPT !.answer = answer, !.digest = digest]
        /\ \/ Queue!Replace(r, [r EXCEPT !.status = "cancelled"])
           \/ Queue!Replace(r, [r EXCEPT !.status = "queued", !.digest = settings[r.of]])
           \/ UNCHANGED rows
    BY <1>a, <1>b
  <1>3. queueCall \in QueueCalls(queueCall)
    BY <1>1 DEF QueueInv, QueueShape
  <1>4. /\ queueCall' \in QueueCalls(queueCall') /\ queueCall'.item = queueCall.item
        /\ queueCall'.of = queueCall.of
    BY <1>2, <1>3 DEF QueueCalls
  <1>5. /\ \A o \in rows' : o \in QueueRows(o)
        /\ RowsHaveIds'
        /\ \A i : SeenRow(i) => SeenRow(i)'
    <2>1. CASE Queue!Replace(r, [r EXCEPT !.status = "cancelled"])
      <3>1. PICK new : new = [r EXCEPT !.status = "cancelled"]
        OBVIOUS
      <3>2. /\ new \in QueueRows(new) /\ new.id = r.id /\ new.revision = r.revision
            /\ new.of = r.of /\ Queue!Replace(r, new)
        BY <2>1, <3>1 DEF QueueInv, QueueShape, QueueRows
      <3> QED
        BY <1>1, <3>2, QueueReplaces DEF QueueInv
    <2>2. CASE Queue!Replace(r, [r EXCEPT !.status = "queued", !.digest = settings[r.of]])
      <3>1. PICK d, new : d = settings[r.of] /\ new = [r EXCEPT !.status = "queued", !.digest = d]
        OBVIOUS
      <3>2. /\ new \in QueueRows(new) /\ new.id = r.id /\ new.revision = r.revision
            /\ new.of = r.of /\ Queue!Replace(r, new)
        BY <2>2, <3>1 DEF QueueInv, QueueShape, QueueRows
      <3> QED
        BY <1>1, <3>2, QueueReplaces DEF QueueInv
    <2>3. CASE UNCHANGED rows
      BY <1>1, <2>3, QueueRowsStay
    <2> QED
      BY <1>2, <2>1, <2>2, <2>3
  <1>6. QueueShape' /\ StopIsGuarded' /\ Queue!OneStop' /\ ListIsOfItsChat' /\ CallIsOfItsChat'
        /\ Queue!ItemsAreHere'
    BY <1>1, <1>4, <1>5 DEF QueueInv, QueueShape, QueueUsedShape, StopIsGuarded, Queue!OneStop,
       ListIsOfItsChat, CallIsOfItsChat, Queue!ItemsAreHere
  <1>7. WhatIsSeen'
    BY <1>1, <1>4, <1>5 DEF QueueInv, WhatIsSeen
  <1> QED
    BY <1>5, <1>6, <1>7 DEF QueueInv

LEMMA QueueNext == ASSUME QueueInv, Queue!Next \/ UNCHANGED queueVars PROVE QueueInv'
  <1>1. CASE \/ Queue!taskMoves \/ Queue!settingsChange \/ Queue!hostInterrupts
             \/ Queue!openChat \/ Queue!replacePanel \/ Queue!observe \/ Queue!refreshed
             \/ Queue!reviewCurrentTask \/ Queue!focusApproval \/ Queue!openInterrupt
             \/ Queue!cancelInterrupt \/ Queue!closeReview
    <2>1. QueueUsedShape' /\ queueUsed'.rows = queueUsed.rows
      BY <1>1, QueueUsedStays DEF Queue!taskMoves, Queue!settingsChange, Queue!hostInterrupts,
         Queue!openChat, Queue!replacePanel, Queue!observe, Queue!refreshed,
         Queue!reviewCurrentTask, Queue!focusApproval, Queue!openInterrupt,
         Queue!cancelInterrupt, Queue!closeReview
    <2>2. /\ UNCHANGED <<stops, stopping, rows>>
          /\ queueSession' = queueSession \/ (items' = {} /\ review' = None)
          /\ items' \in {items, {}} /\ review' \in {review, None}
          /\ queueRead' \in {queueRead, None} /\ queueCall' \in {queueCall, None}
      BY <1>1 DEF Queue!taskMoves, Queue!settingsChange, Queue!hostInterrupts,
         Queue!openChat, Queue!replacePanel, Queue!observe, Queue!refreshed,
         Queue!reviewCurrentTask, Queue!focusApproval, Queue!openInterrupt,
         Queue!cancelInterrupt, Queue!closeReview, Queue!Reset, Queue!host, Queue!queue, Queue!tasks
    <2> QED
      BY <2>1, <2>2, QueueNothing
  <1>2. CASE Queue!confirmInterrupt \/ Queue!queueFollowUp
    <2>1. /\ UNCHANGED <<queueSession, stops, stopping, items, review, queueRead, queueCall>>
          /\ Queue!Spend("rows") /\ \E j : Queue!Queued(j)
      BY <1>2 DEF Queue!confirmInterrupt, Queue!queueFollowUp, Queue!queue, Queue!tasks
    <2> QED
      BY <2>1, QueueAdds
  <1>3. CASE Queue!askReview \/ Queue!askCancel \/ Queue!askRenew
    <2>1. \E kind, i, digest : i.of = queueSession /\ SeenRow(i) /\ Queue!Ask(kind, i, digest)
      BY <1>3 DEF Queue!askReview, Queue!askCancel, Queue!askRenew, QueueInv, Queue!ItemsAreHere,
         WhatIsSeen
    <2> QED
      BY <2>1, QueueAsk
  <1>4. CASE UNCHANGED queueVars
    <2>1. QueueUsedShape' /\ queueUsed'.rows = queueUsed.rows
      BY <1>4, QueueUsedStays DEF queueVars
    <2> QED
      BY <1>4, <2>1, QueueNothing DEF queueVars
  <1> QED
    BY <1>1, <1>2, <1>3, <1>4, QueueTaskStarts, QueueBlocks, QueueStopTask, QueueHostStops,
       QueueStopEnds, QueueRefresh, QueueLists, QueueListed, QueueCallEnds, QueueServes
       DEF Queue!Next, Queue!Window, Queue!Host

\* ContinuesAsReviewed of one step: only a renewed consent lets a prompt go on.
LEMMA QueueActs == ASSUME QueueInv, Queue!Next \/ UNCHANGED queueVars
    PROVE  \A r \in rows' : \A old \in rows :
             old.id = r.id /\ old.status = "blocked" /\ r.status = "queued" =>
               queueCall.kind = "renew" /\ queueCall.item = old /\ r.digest = queueCall.digest
  <1> SUFFICES ASSUME NEW r \in rows', NEW old \in rows, old.id = r.id, old.status = "blocked",
                      r.status = "queued"
               PROVE  queueCall.kind = "renew" /\ queueCall.item = old /\ r.digest = queueCall.digest
    OBVIOUS
  <1>1. r \notin rows
    BY DEF QueueInv, RowsHaveIds
  <1>2. ASSUME NEW o \in rows, NEW new, new \in QueueRows(new), new.id = o.id,
               new.revision = o.revision, new.of = o.of, Queue!Replace(o, new),
               queueUsed'.rows = queueUsed.rows
        PROVE  o = old /\ new.status = "queued" /\ r.digest = new.digest
    <2>1. r.id = o.id /\ r.status = new.status /\ r.digest = new.digest
      BY <1>1, <1>2, QueueReplaces DEF QueueInv
    <2> QED
      BY <2>1 DEF QueueInv, RowsHaveIds
  <1>3. ~Queue!taskStarts
    <2> SUFFICES ASSUME Queue!taskStarts PROVE FALSE
      OBVIOUS
    <2>1. PICK o \in rows : Queue!Replace(o, [o EXCEPT !.status = "dispatched"])
      BY <1>1 DEF Queue!taskStarts
    <2>2. PICK new : new = [o EXCEPT !.status = "dispatched"]
      OBVIOUS
    <2>3. /\ new \in QueueRows(new) /\ new.id = o.id /\ new.revision = o.revision
          /\ new.of = o.of /\ Queue!Replace(o, new) /\ new.status = "dispatched"
      BY <2>1, <2>2 DEF QueueInv, QueueShape, QueueRows
    <2>4. queueUsed'.rows = queueUsed.rows
      BY QueueUsedStays DEF Queue!taskStarts
    <2> QED
      BY <1>2, <2>3, <2>4
  <1>4. ~Queue!hostBlocks
    <2> SUFFICES ASSUME Queue!hostBlocks PROVE FALSE
      OBVIOUS
    <2>1. PICK o \in rows : Queue!Replace(o, [o EXCEPT !.status = "blocked"])
      BY DEF Queue!hostBlocks
    <2>2. PICK new : new = [o EXCEPT !.status = "blocked"]
      OBVIOUS
    <2>3. /\ new \in QueueRows(new) /\ new.id = o.id /\ new.revision = o.revision
          /\ new.of = o.of /\ Queue!Replace(o, new) /\ new.status = "blocked"
      BY <2>1, <2>2 DEF QueueInv, QueueShape, QueueRows
    <2>4. queueUsed'.rows = queueUsed.rows
      BY QueueUsedStays DEF Queue!hostBlocks
    <2> QED
      BY <1>2, <2>3, <2>4
  <1>5. ~(Queue!confirmInterrupt \/ Queue!queueFollowUp)
    <2> SUFFICES ASSUME Queue!confirmInterrupt \/ Queue!queueFollowUp PROVE FALSE
      OBVIOUS
    <2>1. PICK j : Queue!Queued(j)
      BY DEF Queue!confirmInterrupt, Queue!queueFollowUp
    <2>2. r.id = queueUsed.rows + 1
      BY <1>1, <2>1 DEF Queue!Queued
    <2>3. old.id \in Nat /\ old.id <= queueUsed.rows /\ queueUsed.rows \in Nat
      BY DEF QueueInv, QueueShape, RowsHaveIds, QueueRows
    <2> QED
      BY <2>2, <2>3
  <1>6. Queue!hostServes
    BY <1>1, <1>3, <1>4, <1>5 DEF Queue!Next, Queue!Window, Queue!Host, queueVars,
       Queue!taskMoves, Queue!settingsChange, Queue!hostInterrupts, Queue!openChat,
       Queue!replacePanel, Queue!observe, Queue!refreshed, Queue!reviewCurrentTask,
       Queue!focusApproval, Queue!openInterrupt, Queue!cancelInterrupt, Queue!closeReview,
       Queue!Reset, Queue!stopTask, Queue!hostStops, Queue!stopEnds, Queue!askReview,
       Queue!askCancel, Queue!askRenew, Queue!Ask, Queue!refresh, Queue!hostLists,
       Queue!listed, Queue!callEnds, Queue!host, Queue!queue, Queue!tasks
  <1>7. queueUsed'.rows = queueUsed.rows /\ queueCall # None
    BY <1>6 DEF Queue!hostServes
  <1>8. PICK o \in rows :
          /\ o.id = queueCall.item.id
          /\ \/ Queue!Replace(o, [o EXCEPT !.status = "cancelled"])
             \/ /\ Queue!Replace(o, [o EXCEPT !.status = "queued", !.digest = settings[o.of]])
                /\ queueCall.kind = "renew" /\ queueCall.digest = settings[o.of]
                /\ o.revision = queueCall.item.revision
    BY <1>1, <1>6 DEF Queue!hostServes, Queue!Agrees
  <1>9. ~Queue!Replace(o, [o EXCEPT !.status = "cancelled"])
    <2> SUFFICES ASSUME Queue!Replace(o, [o EXCEPT !.status = "cancelled"]) PROVE FALSE
      OBVIOUS
    <2>1. PICK new : new = [o EXCEPT !.status = "cancelled"]
      OBVIOUS
    <2>2. /\ new \in QueueRows(new) /\ new.id = o.id /\ new.revision = o.revision
          /\ new.of = o.of /\ Queue!Replace(o, new) /\ new.status = "cancelled"
      BY <2>1 DEF QueueInv, QueueShape, QueueRows
    <2> QED
      BY <1>2, <1>7, <2>2
  <1>10. PICK digest, new : digest = settings[o.of] /\ new = [o EXCEPT !.status = "queued", !.digest = digest]
    OBVIOUS
  <1>11. /\ new \in QueueRows(new) /\ new.id = o.id /\ new.revision = o.revision
         /\ new.of = o.of /\ Queue!Replace(o, new) /\ new.digest = settings[o.of]
    BY <1>8, <1>9, <1>10 DEF QueueInv, QueueShape, QueueRows
  <1>12. o = old /\ r.digest = queueCall.digest
    BY <1>2, <1>7, <1>8, <1>9, <1>11
  <1>13. queueCall.item = o
    BY <1>7, <1>8, <1>9 DEF QueueInv, WhatIsSeen, SeenRow, RowsHaveIds
  <1> QED
    BY <1>8, <1>9, <1>12, <1>13

-----------------------------------------------------------------------------
(* The way between conversations (WorkspaceNavigation). *)

\* The way between conversations.
Place == INSTANCE WorkspaceNavigation WITH epoch <- placeEpoch, selected <- placeSelected,
        session <- placeSession, flight <- placeFlight, used <- placeUsed
placeVars == <<auth, placeEpoch, locked, placeSelected, manager, placeSession, list,
        primary, intent, placeFlight, calls, load, poll, registering, placeUsed>>

PlaceCalls(q) == [what : {q.what}, fence : {q.fence}, automatic : {q.automatic}, intent : {q.intent},
                  by : {q.by}, pc : {q.pc}, left : {q.left}]
\* A request is of the sign-in that its answer is compared with.
PlaceAsked(q) == q.by = q.fence.auth /\ q.by # 0
PlaceGoodCalls ==
    /\ calls = [k \in Place!Calls |-> calls[k]]
    /\ \A k \in Place!Calls : calls[k] # None => calls[k] \in PlaceCalls(calls[k]) /\ PlaceAsked(calls[k])
\* Nobody has anything to read before signing in.
PlaceIsEmpty ==
    auth = 0 => placeFlight = None /\ poll = None /\ placeSession = None /\ list = 0 /\ primary = None
                /\ locked = FALSE
\* What was read, and is being read, is for the present sign-in.
PlaceIsOwn ==
    /\ placeFlight # None => placeFlight.by = auth
    /\ poll # None => poll.by = auth
    /\ placeSession # None => placeSession.by = auth
    /\ primary # None => primary.by = auth
    /\ list # 0 => list = auth
PlaceInv ==
    /\ auth \in Nat /\ placeEpoch.signIns \in Nat
    /\ placeEpoch \in [n : {placeEpoch.n}, signIns : {placeEpoch.signIns}]
    /\ PlaceGoodCalls /\ PlaceIsEmpty /\ PlaceIsOwn
    /\ load # None => PlaceAsked(load)

LEMMA PlaceInitInv == Place!Init => PlaceInv
  <1> SUFFICES ASSUME Place!Init PROVE PlaceInv
    OBVIOUS
  <1>1. /\ auth = 0 /\ placeEpoch = [n |-> 0, signIns |-> 0] /\ calls = [k \in Place!Calls |-> None]
        /\ placeSession = None /\ list = 0 /\ primary = None /\ placeFlight = None /\ load = None
        /\ poll = None /\ locked = FALSE
    BY DEF Place!Init
  <1>2. placeEpoch \in [n : {placeEpoch.n}, signIns : {placeEpoch.signIns}] /\ placeEpoch.signIns = 0
    BY <1>1
  <1> QED
    BY <1>1, <1>2 DEF PlaceInv, PlaceGoodCalls, PlaceIsEmpty, PlaceIsOwn

LEMMA PlaceInvImplies == PlaceInv => Place!ShownToItsReader
  BY DEF PlaceInv, PlaceIsOwn, Place!ShownToItsReader

\* A call that is answered, ends or is left behind is the call that was made.
LEMMA PlaceCallSet ==
    ASSUME NEW q, q \in PlaceCalls(q), PlaceAsked(q), NEW v, NEW r,
           r = [q EXCEPT !.pc = v] \/ r = [q EXCEPT !.left = v]
    PROVE  r \in PlaceCalls(r) /\ PlaceAsked(r)
  BY DEF PlaceCalls, PlaceAsked

LEMMA PlaceEnds ==
    ASSUME PlaceGoodCalls, NEW k \in Place!Calls, calls[k] # None, NEW v,
           calls' = [calls EXCEPT ![k].pc = v]
    PROVE  PlaceGoodCalls'
  <1>1. PICK r : r = [calls[k] EXCEPT !.pc = v]
    OBVIOUS
  <1>2. r \in PlaceCalls(r) /\ PlaceAsked(r)
    BY <1>1, PlaceCallSet DEF PlaceGoodCalls
  <1>3. calls' = [calls EXCEPT ![k] = r]
    BY <1>1
  <1> QED
    BY <1>2, <1>3 DEF PlaceGoodCalls

LEMMA PlaceLeft ==
    ASSUME PlaceGoodCalls, NEW q, q = Place!Left(calls)
    PROVE  /\ q = [k \in Place!Calls |-> q[k]]
           /\ \A k \in Place!Calls : q[k] # None => q[k] \in PlaceCalls(q[k]) /\ PlaceAsked(q[k])
  <1>1. ASSUME NEW k \in Place!Calls, q[k] # None PROVE q[k] \in PlaceCalls(q[k]) /\ PlaceAsked(q[k])
    <2>1. calls[k] # None /\ q[k] = [calls[k] EXCEPT !.left = TRUE]
      BY <1>1 DEF Place!Left
    <2>2. PICK r : r = [calls[k] EXCEPT !.left = TRUE]
      OBVIOUS
    <2>3. r \in PlaceCalls(r) /\ PlaceAsked(r)
      BY <2>1, <2>2, PlaceCallSet DEF PlaceGoodCalls
    <2> QED
      BY <2>1, <2>2, <2>3
  <1> QED
    BY <1>1 DEF Place!Left

\* A new call is of the sign-in of the window.
LEMMA PlaceCalled ==
    ASSUME PlaceInv, auth # 0, NEW q \in {calls, Place!Left(calls)}, NEW k \in Place!Calls,
           NEW w, NEW a, NEW i, calls' = [q EXCEPT ![k] = Place!Call(w, a, i, auth)]
    PROVE  PlaceGoodCalls'
  <1>1. PICK r : r = Place!Call(w, a, i, auth)
    OBVIOUS
  <1>2. r \in PlaceCalls(r) /\ PlaceAsked(r)
    BY <1>1 DEF Place!Call, Place!fence, PlaceCalls, PlaceAsked
  <1>3. /\ q = [l \in Place!Calls |-> q[l]]
        /\ \A l \in Place!Calls : q[l] # None => q[l] \in PlaceCalls(q[l]) /\ PlaceAsked(q[l])
    <2>1. CASE q = calls
      BY <2>1 DEF PlaceInv, PlaceGoodCalls
    <2>2. CASE q = Place!Left(calls)
      BY <2>2, PlaceLeft DEF PlaceInv
    <2> QED
      BY <2>1, <2>2
  <1>4. calls' = [q EXCEPT ![k] = r]
    BY <1>1
  <1> QED
    BY <1>2, <1>3, <1>4 DEF PlaceGoodCalls

\* The user goes somewhere.
LEMMA PlaceGoes ==
    ASSUME PlaceInv, Place!setManager \/ (\E c \in Chats : Place!openConversation(c))
                     \/ (\E c \in Chats \cup {""} : Place!onPop(c))
    PROVE  PlaceInv'
  <1>1. /\ auth # 0 /\ calls' = Place!Left(calls) /\ UNCHANGED <<auth, placeEpoch, list, primary, placeFlight, load>>
        /\ poll' \in {poll, None} /\ placeSession' \in {placeSession, None}
    BY DEF Place!setManager, Place!openConversation, Place!onPop
  <1>2. PlaceGoodCalls'
    BY <1>1, PlaceLeft DEF PlaceInv, PlaceGoodCalls
  <1> QED
    BY <1>1, <1>2 DEF PlaceInv, PlaceIsEmpty, PlaceIsOwn

LEMMA PlaceAsks ==
    ASSUME PlaceInv, NEW k \in Place!Calls,
           Place!createConversation(k) \/ \E f \in BOOLEAN : Place!openMainAgent(k, f)
    PROVE  PlaceInv'
  <1>1. /\ auth # 0 /\ UNCHANGED <<auth, placeEpoch, placeSession, list, primary, load, poll>>
    BY DEF Place!createConversation, Place!openMainAgent, Place!shown
  <1>2. CASE Place!createConversation(k)
    <2>1. UNCHANGED placeFlight /\ calls' = [Place!Left(calls) EXCEPT ![k] = Place!Call("new", FALSE, intent', auth)]
      BY <1>2 DEF Place!createConversation
    <2>2. PlaceGoodCalls'
      BY <1>1, <2>1, PlaceCalled
    <2> QED
      BY <1>1, <2>1, <2>2 DEF PlaceInv, PlaceIsEmpty, PlaceIsOwn
  <1>3. ASSUME NEW f \in BOOLEAN, Place!openMainAgent(k, f) PROVE PlaceInv'
    <2>1. /\ placeFlight' = IF placeFlight = None THEN [by |-> auth] ELSE placeFlight
          /\ calls' = [(IF f THEN calls ELSE Place!Left(calls)) EXCEPT
                         ![k] = Place!Call("main", f, intent', placeFlight'.by)]
      BY <1>3 DEF Place!openMainAgent
    <2>2. placeFlight'.by = auth
      BY <2>1 DEF PlaceInv, PlaceIsOwn
    <2>3. PICK q : q = IF f THEN calls ELSE Place!Left(calls)
      OBVIOUS
    <2>4. q \in {calls, Place!Left(calls)} /\ calls' = [q EXCEPT ![k] = Place!Call("main", f, intent', auth)]
      BY <2>1, <2>2, <2>3
    <2>5. PlaceGoodCalls'
      BY <1>1, <2>4, PlaceCalled
    <2> QED
      BY <1>1, <2>2, <2>5 DEF PlaceInv, PlaceIsEmpty, PlaceIsOwn
  <1> QED
    BY <1>2, <1>3

LEMMA PlaceEnsures == ASSUME PlaceInv, NEW f \in BOOLEAN, Place!hostEnsures(f) PROVE PlaceInv'
  <1>1. UNCHANGED <<auth, placeEpoch, locked, placeSession, list, primary, load, poll>> /\ placeFlight' = None
    BY DEF Place!hostEnsures, Place!shown
  <1>2. PICK v : calls' = [k \in Place!Calls |->
          IF calls[k] # None /\ calls[k].what = "main" /\ calls[k].pc = "asked" /\ calls[k].by = placeFlight.by
          THEN [calls[k] EXCEPT !.pc = v] ELSE calls[k]]
    BY DEF Place!hostEnsures, Place!shown
  <1>3. ASSUME NEW k \in Place!Calls, calls'[k] # None
        PROVE  calls'[k] \in PlaceCalls(calls'[k]) /\ PlaceAsked(calls'[k])
    <2>1. CASE calls'[k] = calls[k]
      BY <1>3, <2>1 DEF PlaceInv, PlaceGoodCalls
    <2>2. CASE calls[k] # None /\ calls'[k] = [calls[k] EXCEPT !.pc = v]
      <3>1. PICK r : r = [calls[k] EXCEPT !.pc = v]
        OBVIOUS
      <3>2. r \in PlaceCalls(r) /\ PlaceAsked(r)
        BY <2>2, <3>1, PlaceCallSet DEF PlaceInv, PlaceGoodCalls
      <3> QED
        BY <2>2, <3>1, <3>2
    <2> QED
      BY <1>2, <2>1, <2>2
  <1>4. PlaceGoodCalls'
    BY <1>2, <1>3 DEF PlaceGoodCalls
  <1> QED
    BY <1>1, <1>4 DEF PlaceInv, PlaceIsEmpty, PlaceIsOwn

LEMMA PlaceCreates == ASSUME PlaceInv, NEW k \in Place!Calls, NEW f \in BOOLEAN, Place!hostCreates(k, f) PROVE PlaceInv'
  <1>1. UNCHANGED <<auth, placeEpoch, locked, placeFlight, placeSession, list, primary, load, poll>>
        /\ calls[k] # None
        /\ calls' = [calls EXCEPT ![k].pc = IF f THEN "failed" ELSE "answered"]
    BY DEF Place!hostCreates, Place!shown
  <1>2. PlaceGoodCalls'
    BY <1>1, PlaceEnds DEF PlaceInv
  <1> QED
    BY <1>1, <1>2 DEF PlaceInv, PlaceIsEmpty, PlaceIsOwn

\* An answer for another sign-in is not used.
LEMMA PlaceCurrent ==
    ASSUME PlaceInv, NEW q, PlaceAsked(q), Place!Current(q.fence)
    PROVE  q.by = auth /\ auth # 0
  BY DEF PlaceAsked, Place!Current, Place!fence

LEMMA PlaceReloads == ASSUME PlaceInv, auth # 0, Place!Reloads PROVE load' # None => PlaceAsked(load')
  BY DEF PlaceInv, Place!Reloads, Place!LoadAsked, Place!fence, PlaceAsked

LEMMA PlaceAnswers ==
    ASSUME PlaceInv, NEW k \in Place!Calls, Place!mainOpens(k) \/ Place!created(k)
    PROVE  PlaceInv'
  <1>1. UNCHANGED <<auth, placeEpoch, locked, placeFlight, list>> /\ calls[k] # None
        /\ calls' = [calls EXCEPT ![k].pc = "ended"]
    BY DEF Place!mainOpens, Place!created
  <1>2. PlaceGoodCalls'
    BY <1>1, PlaceEnds DEF PlaceInv
  <1>3. PlaceAsked(calls[k])
    BY <1>1 DEF PlaceInv, PlaceGoodCalls
  <1>4. CASE UNCHANGED <<primary, placeSession, poll, load>>
    BY <1>1, <1>2, <1>4 DEF PlaceInv, PlaceIsEmpty, PlaceIsOwn
  <1>5. CASE /\ Place!Current(calls[k].fence) /\ Place!Reloads
             /\ primary' = primary \/ primary' = [id |-> Main, by |-> calls[k].by]
             /\ \/ UNCHANGED <<placeSession, poll>>
                \/ Place!Opens(calls[k], Main) \/ Place!Opens(calls[k], New)
    <2>1. calls[k].by = auth /\ auth # 0
      BY <1>3, <1>5, PlaceCurrent
    <2>2. load' # None => PlaceAsked(load')
      BY <1>5, <2>1, PlaceReloads
    <2>3. primary' # None => primary'.by = auth
      BY <1>5, <2>1 DEF PlaceInv, PlaceIsOwn
    <2>4. (placeSession' # None => placeSession'.by = auth) /\ (poll' # None => poll'.by = auth)
      BY <1>5, <2>1 DEF PlaceInv, PlaceIsOwn, Place!Opens
    <2> QED
      BY <1>1, <1>2, <2>1, <2>2, <2>3, <2>4 DEF PlaceInv, PlaceIsEmpty, PlaceIsOwn
  <1> QED
    BY <1>4, <1>5 DEF Place!mainOpens, Place!created

LEMMA PlaceSignsIn == ASSUME PlaceInv, NEW route, Place!signIn(route) PROVE PlaceInv'
  <1>1. /\ auth = 0 /\ auth' = placeEpoch.signIns + 1
        /\ placeEpoch' = [n |-> placeEpoch.n + 1, signIns |-> placeEpoch.signIns + 1]
        /\ load' = [fence |-> [n |-> placeEpoch'.n, auth |-> auth'], by |-> auth']
        /\ UNCHANGED <<placeSession, list, primary, placeFlight, calls, poll, locked>>
    BY DEF Place!signIn
  <1>2. auth' \in Nat /\ auth' # 0 /\ placeEpoch'.signIns \in Nat
        /\ placeEpoch' \in [n : {placeEpoch'.n}, signIns : {placeEpoch'.signIns}]
    BY <1>1 DEF PlaceInv
  <1>3. PlaceAsked(load')
    BY <1>1, <1>2 DEF PlaceAsked
  <1> QED
    BY <1>1, <1>2, <1>3 DEF PlaceInv, PlaceGoodCalls, PlaceIsEmpty, PlaceIsOwn

LEMMA PlaceLocks ==
    ASSUME PlaceInv, Place!signedOut \/ (\E e \in BOOLEAN : Place!lock(e) \/ Place!unlock(e))
    PROVE  PlaceInv'
  <1>1. CASE Place!signedOut
    <2>1. /\ auth' = 0 /\ placeEpoch' = [placeEpoch EXCEPT !.n = @ + 1]
          /\ placeSession' = None /\ list' = 0 /\ primary' = None /\ placeFlight' = None /\ poll' = None
          /\ locked' = FALSE /\ UNCHANGED <<calls, load>>
      BY <1>1 DEF Place!signedOut
    <2>2. placeEpoch'.signIns = placeEpoch.signIns
          /\ placeEpoch' \in [n : {placeEpoch'.n}, signIns : {placeEpoch'.signIns}]
      BY <2>1 DEF PlaceInv
    <2> QED
      BY <2>1, <2>2 DEF PlaceInv, PlaceGoodCalls, PlaceIsEmpty, PlaceIsOwn
  <1>2. ASSUME NEW e \in BOOLEAN, Place!lock(e) PROVE PlaceInv'
    <2>1. /\ auth # 0 /\ UNCHANGED <<auth, placeSession, list, primary, placeFlight, calls, load>> /\ poll' = None
          /\ placeEpoch' = IF e THEN [placeEpoch EXCEPT !.n = @ + 1] ELSE placeEpoch
      BY <1>2 DEF Place!lock, Place!shown
    <2>2. placeEpoch'.signIns = placeEpoch.signIns
          /\ placeEpoch' \in [n : {placeEpoch'.n}, signIns : {placeEpoch'.signIns}]
      BY <2>1 DEF PlaceInv
    <2> QED
      BY <2>1, <2>2 DEF PlaceInv, PlaceGoodCalls, PlaceIsEmpty, PlaceIsOwn
  <1>3. ASSUME NEW e \in BOOLEAN, Place!unlock(e) PROVE PlaceInv'
    <2>1. /\ UNCHANGED <<auth, placeEpoch, placeSession, list, primary, placeFlight, calls, poll>>
          /\ load' \in {load, Place!LoadAsked} /\ locked /\ locked' = FALSE
      BY <1>3 DEF Place!unlock, Place!shown
    <2>2. load' # None => PlaceAsked(load')
      <3>1. auth # 0
        BY <2>1 DEF PlaceInv, PlaceIsEmpty
      <3> QED
        BY <2>1, <3>1 DEF PlaceInv, Place!LoadAsked, Place!fence, PlaceAsked
    <2> QED
      BY <2>1, <2>2 DEF PlaceInv, PlaceGoodCalls, PlaceIsEmpty, PlaceIsOwn
  <1> QED
    BY <1>1, <1>2, <1>3

LEMMA PlaceReads == ASSUME PlaceInv, Place!loaded \/ Place!startPoll \/ Place!polled PROVE PlaceInv'
  <1>1. CASE Place!loaded
    <2>1. /\ load # None /\ load' = None /\ list' = IF Place!Current(load.fence) THEN load.by ELSE list
          /\ UNCHANGED <<auth, placeEpoch, locked, placeSession, primary, placeFlight, calls, poll>>
      BY <1>1 DEF Place!loaded
    <2>2. list' = list \/ (list' = auth /\ auth # 0)
      BY <2>1, PlaceCurrent DEF PlaceInv
    <2> QED
      BY <2>1, <2>2 DEF PlaceInv, PlaceGoodCalls, PlaceIsEmpty, PlaceIsOwn
  <1>2. CASE Place!startPoll
    <2>1. /\ auth # 0 /\ poll' = [id |-> placeSelected, by |-> auth]
          /\ UNCHANGED <<auth, placeEpoch, placeSession, list, primary, placeFlight, calls, load>>
      BY <1>2 DEF Place!startPoll, Place!shown
    <2> QED
      BY <2>1 DEF PlaceInv, PlaceGoodCalls, PlaceIsEmpty, PlaceIsOwn
  <1>3. CASE Place!polled
    <2>1. /\ poll # None /\ placeSession' = poll /\ poll' = None
          /\ UNCHANGED <<auth, placeEpoch, list, primary, placeFlight, calls, load>>
      BY <1>3 DEF Place!polled
    <2> QED
      BY <2>1 DEF PlaceInv, PlaceGoodCalls, PlaceIsEmpty, PlaceIsOwn
  <1> QED
    BY <1>1, <1>2, <1>3

LEMMA PlaceNext ==
    ASSUME PlaceInv, Place!Next \/ UNCHANGED placeVars
    PROVE  PlaceInv'
  <1>1. CASE UNCHANGED placeVars
    BY <1>1 DEF placeVars, PlaceInv, PlaceGoodCalls, PlaceIsEmpty, PlaceIsOwn
  <1>2. CASE \E k \in Place!Calls, f \in BOOLEAN :
               \/ Place!openMainAgent(k, f) \/ Place!createConversation(k) \/ Place!hostCreates(k, f)
               \/ Place!mainOpens(k) \/ Place!created(k)
    BY <1>2, PlaceAsks, PlaceCreates, PlaceAnswers
  <1>3. CASE \E c \in Chats \cup {""} : Place!signIn(c) \/ Place!onPop(c)
    BY <1>3, PlaceSignsIn, PlaceGoes
  <1> QED
    BY <1>1, <1>2, <1>3, PlaceGoes, PlaceEnsures, PlaceLocks, PlaceReads DEF Place!Next

\* A call that was left behind wished to go where the user no longer goes.
PlaceWish(q, n) == q.intent \in 0..n /\ (q.left => q.intent < n)
PlaceWishes == intent \in Nat /\ \A k \in Place!Calls : calls[k] # None => PlaceWish(calls[k], intent)

\* The user goes somewhere, and leaves the calls behind.
LEMMA PlaceLeaves ==
    ASSUME PlaceInv, PlaceWishes, NEW q, q = Place!Left(calls), NEW k \in Place!Calls, q[k] # None
    PROVE  PlaceWish(q[k], intent + 1)
  <1>1. calls[k] # None /\ q[k] = [calls[k] EXCEPT !.left = TRUE]
    BY DEF Place!Left
  <1> QED
    BY <1>1 DEF PlaceInv, PlaceGoodCalls, PlaceCalls, PlaceWishes, PlaceWish

\* A call that is answered or ends wishes what it wished.
LEMMA PlaceWaits ==
    ASSUME PlaceInv, PlaceWishes, NEW k \in Place!Calls, calls[k] # None, NEW v, NEW r, r = [calls[k] EXCEPT !.pc = v]
    PROVE  PlaceWish(r, intent) /\ r.pc = v
  BY DEF PlaceInv, PlaceGoodCalls, PlaceCalls, PlaceWishes, PlaceWish

LEMMA PlaceCallWish == ASSUME NEW w, NEW a, NEW n \in Nat, NEW b PROVE PlaceWish(Place!Call(w, a, n, b), n)
  BY DEF Place!Call, PlaceWish

LEMMA PlaceInitWishes == Place!Init => PlaceWishes
  <1> SUFFICES ASSUME Place!Init PROVE PlaceWishes
    OBVIOUS
  <1>1. intent = 0 /\ calls = [k \in Place!Calls |-> None]
    BY DEF Place!Init
  <1> QED
    BY <1>1 DEF PlaceWishes

LEMMA PlaceWishesNext ==
    ASSUME PlaceInv, PlaceWishes, Place!Next \/ UNCHANGED placeVars
    PROVE  PlaceWishes'
  <1>1. CASE UNCHANGED <<intent, calls>>
    BY <1>1 DEF PlaceWishes
  <1>2. CASE intent' = intent + 1 /\ calls' = Place!Left(calls)
    BY <1>2, PlaceLeaves DEF PlaceWishes
  <1>3. CASE \E k \in Place!Calls : \/ Place!createConversation(k) \/ \E f \in BOOLEAN : Place!openMainAgent(k, f)
    <2>1. PICK k \in Place!Calls : \E q, w, a, b :
            /\ \/ intent' = intent /\ q = calls
               \/ intent' = intent + 1 /\ q = Place!Left(calls)
            /\ calls' = [q EXCEPT ![k] = Place!Call(w, a, intent', b)]
      <3>1. ASSUME NEW k \in Place!Calls, Place!createConversation(k)
            PROVE  \E q, w, a, b : /\ \/ intent' = intent /\ q = calls
                                      \/ intent' = intent + 1 /\ q = Place!Left(calls)
                                   /\ calls' = [q EXCEPT ![k] = Place!Call(w, a, intent', b)]
        <4>1. /\ intent' = intent + 1
              /\ calls' = [Place!Left(calls) EXCEPT ![k] = Place!Call("new", FALSE, intent', auth)]
          BY <3>1 DEF Place!createConversation
        <4> QED
          BY <4>1
      <3>2. ASSUME NEW k \in Place!Calls, NEW f \in BOOLEAN, Place!openMainAgent(k, f)
            PROVE  \E q, w, a, b : /\ \/ intent' = intent /\ q = calls
                                      \/ intent' = intent + 1 /\ q = Place!Left(calls)
                                   /\ calls' = [q EXCEPT ![k] = Place!Call(w, a, intent', b)]
        <4>1. /\ intent' = IF f THEN intent ELSE intent + 1
              /\ calls' = [(IF f THEN calls ELSE Place!Left(calls)) EXCEPT
                             ![k] = Place!Call("main", f, intent', placeFlight'.by)]
          BY <3>2 DEF Place!openMainAgent
        <4>2. PICK q : q = IF f THEN calls ELSE Place!Left(calls)
          OBVIOUS
        <4>3. /\ \/ intent' = intent /\ q = calls
                 \/ intent' = intent + 1 /\ q = Place!Left(calls)
              /\ calls' = [q EXCEPT ![k] = Place!Call("main", f, intent', placeFlight'.by)]
          BY <4>1, <4>2
        <4> QED
          BY <4>3
      <3> QED
        BY <1>3, <3>1, <3>2
    <2>2. PICK q : \E w, a, b :
            /\ \/ intent' = intent /\ q = calls
               \/ intent' = intent + 1 /\ q = Place!Left(calls)
            /\ calls' = [q EXCEPT ![k] = Place!Call(w, a, intent', b)]
      BY <2>1
    <2>3. intent' \in Nat
      BY <2>2 DEF PlaceWishes
    <2>4. PICK r : calls' = [q EXCEPT ![k] = r] /\ PlaceWish(r, intent')
      BY <2>2, <2>3, PlaceCallWish
    <2>5. ASSUME NEW l \in Place!Calls, q[l] # None PROVE PlaceWish(q[l], intent')
      BY <2>2, <2>5, PlaceLeaves DEF PlaceWishes
    <2>6. q = [l \in Place!Calls |-> q[l]]
      BY <2>2, PlaceLeft DEF PlaceInv, PlaceGoodCalls
    <2> QED
      BY <2>3, <2>4, <2>5, <2>6 DEF PlaceWishes
  <1>4. CASE /\ UNCHANGED intent
             /\ \A k \in Place!Calls : calls'[k] # None =>
                  calls[k] # None /\ (calls'[k] = calls[k] \/ \E v : calls'[k] = [calls[k] EXCEPT !.pc = v])
    BY <1>4, PlaceWaits DEF PlaceWishes
  <1>5. ASSUME NEW f \in BOOLEAN, Place!hostEnsures(f) PROVE PlaceWishes'
    BY <1>4, <1>5 DEF Place!hostEnsures
  <1>6. ASSUME NEW k \in Place!Calls, NEW f \in BOOLEAN, Place!hostCreates(k, f) \/ Place!mainOpens(k) \/ Place!created(k)
        PROVE  PlaceWishes'
    <2>1. UNCHANGED intent /\ calls[k] # None /\ \E v : calls' = [calls EXCEPT ![k].pc = v]
      BY <1>6 DEF Place!hostCreates, Place!mainOpens, Place!created, Place!shown
    <2> QED
      BY <1>4, <2>1 DEF PlaceInv, PlaceGoodCalls
  <1> QED
    BY <1>1, <1>2, <1>3, <1>5, <1>6
    DEF Place!Next, placeVars, Place!signedOut, Place!setManager, Place!loaded, Place!startPoll, Place!polled,
        Place!lock, Place!unlock, Place!signIn, Place!onPop, Place!openConversation, Place!shown

\* An answer takes the user somewhere only if he has not gone elsewhere.
LEMMA PlaceKeepsUser ==
    ASSUME PlaceInv, PlaceWishes, Place!Next \/ UNCHANGED placeVars, NEW k \in Place!Calls,
           calls[k] # None, calls[k].pc = "answered", calls'[k].pc = "ended", placeSelected' # placeSelected
    PROVE  ~calls[k].left
  <1>1. CASE Place!mainOpens(k) \/ Place!created(k)
    <2>1. calls[k].intent = intent
      BY <1>1 DEF Place!mainOpens, Place!created, Place!StillWanted
    <2> QED
      BY <2>1 DEF PlaceWishes, PlaceWish
  <1>2. CASE UNCHANGED calls \/ UNCHANGED placeSelected
    BY <1>2
  <1>3. ASSUME NEW l \in Place!Calls, Place!mainOpens(l) \/ Place!created(l) PROVE l = k
    BY <1>3 DEF Place!mainOpens, Place!created, PlaceInv, PlaceGoodCalls
  <1>4. CASE calls' = Place!Left(calls)
    BY <1>4 DEF Place!Left, PlaceInv, PlaceGoodCalls, PlaceCalls
  <1> QED
    BY <1>1, <1>2, <1>3, <1>4
    DEF Place!Next, placeVars, Place!signedOut, Place!setManager, Place!loaded, Place!startPoll, Place!polled,
        Place!lock, Place!unlock, Place!signIn, Place!onPop, Place!openConversation, Place!shown,
        Place!openMainAgent, Place!createConversation, Place!hostEnsures, Place!hostCreates

-----------------------------------------------------------------------------
(* The images of a message (ChatImages). *)

\* The images of a message.
Images == INSTANCE ChatImages WITH reading <- imagesReading, flight <- imagesFlight
imagesVars == <<sessionId, attachments, pendingPrompt, drafts, imagesReading, imagesFlight,
        posted, images, keys, lost>>

ImagesShape ==
    /\ sessionId \in Chats /\ attachments \in Seq(Nat) /\ images \in Nat /\ keys \in Nat
    /\ pendingPrompt \in ImageMessages \cup {None}
    /\ drafts \in [Chats -> ImageEntries \cup {None}]
    /\ imagesReading \subseteq [file : Nat, chat : Chats, base : Seq(Nat)]
    /\ imagesFlight \in [Chats -> ImageFlights \cup {None}]
    /\ posted \subseteq [chat : Chats, message : ImageMessages]

\* Message m of chat k is shown as under way, is being sent or was posted.
IsKnown(k, m) == \/ m = Images!Pending(drafts[k])
                 \/ imagesFlight[k] # None /\ m = imagesFlight[k].message
                 \/ \E p \in posted : p.chat = k /\ p.message = m

PendingIsStored == pendingPrompt = Images!Pending(drafts[sessionId])
FlightHasDraft == \A k \in Chats : imagesFlight[k] # None => drafts[k] # None
KeysAreGiven == \A k \in Chats, m \in ImageMessages : IsKnown(k, m) => m.key <= keys
OneMessagePerKey == \A k, l \in Chats, m, o \in ImageMessages :
    IsKnown(k, m) /\ IsKnown(l, o) /\ m.key = o.key => k = l /\ m = o

ImagesInv == ImagesShape /\ PendingIsStored /\ FlightHasDraft /\ KeysAreGiven /\ OneMessagePerKey

LEMMA ImagesInvImplies == ImagesInv => Images!SameKeySameImages
  <1> SUFFICES ASSUME ImagesInv, NEW p \in posted, NEW q \in posted, p.message.key = q.message.key
               PROVE  p = q
    BY DEF Images!SameKeySameImages
  <1>1. p \in [chat : Chats, message : ImageMessages] /\ q \in [chat : Chats, message : ImageMessages]
    BY DEF ImagesInv, ImagesShape
  <1>2. p.chat = q.chat /\ p.message = q.message
    BY <1>1 DEF ImagesInv, OneMessagePerKey, IsKnown
  <1> QED
    BY <1>1, <1>2

LEMMA ImagesInitInv == Images!Init => ImagesInv
  BY ConversationAssumption, EmptySeq DEF Images!Init, ImagesInv, ImagesShape, PendingIsStored, FlightHasDraft,
     KeysAreGiven, OneMessagePerKey, IsKnown, Images!Pending

LEMMA ImagesHeld == ASSUME ImagesShape, NEW e \in ImageEntries \cup {None}
    PROVE  Images!Held(e) \in Seq(Nat) /\ Images!Pending(e) \in ImageMessages \cup {None}
  BY EmptySeq DEF Images!Held, Images!Pending, ImageEntries

\* What is known does not grow.
LEMMA ImagesKnown ==
    ASSUME ImagesInv, ImagesShape', PendingIsStored', FlightHasDraft', UNCHANGED keys,
           \A k \in Chats, m \in ImageMessages : IsKnown(k, m)' => IsKnown(k, m)
    PROVE  ImagesInv'
  BY DEF ImagesInv, KeysAreGiven, OneMessagePerKey

\* The images of a chat change, not the message under way.
LEMMA ImagesEdited ==
    ASSUME ImagesInv, NEW k \in Chats, NEW next \in Seq(Nat), Images!editAttachments(k, next),
           UNCHANGED <<sessionId, pendingPrompt, imagesFlight, posted, keys>>, images' \in Nat,
           imagesReading' \subseteq [file : Nat, chat : Chats, base : Seq(Nat)]
    PROVE  ImagesInv'
  <1>1. PICK e : e = [attachments |-> next, submission |-> Images!Pending(drafts[k])]
    OBVIOUS
  <1>2. drafts' = [drafts EXCEPT ![k] = e] /\ attachments' = next
    BY <1>1 DEF Images!editAttachments
  <1>3. Images!Pending(drafts[k]) \in ImageMessages \cup {None}
    BY ImagesHeld DEF ImagesInv, ImagesShape
  <1>4. e \in ImageEntries /\ e.submission = Images!Pending(drafts[k])
    BY <1>1, <1>3 DEF ImageEntries
  <1>5. e # None
    BY <1>4, ConversationAssumption
  <1>6. Images!Pending(e) = Images!Pending(drafts[k])
    BY <1>4, <1>5 DEF Images!Pending
  <1>7. ImagesShape'
    BY <1>2, <1>4 DEF ImagesInv, ImagesShape
  <1>8. /\ \A l \in Chats : Images!Pending(drafts'[l]) = Images!Pending(drafts[l])
        /\ FlightHasDraft'
    BY <1>2, <1>5, <1>6 DEF ImagesInv, ImagesShape, FlightHasDraft
  <1>9. PendingIsStored' /\ \A l \in Chats, m \in ImageMessages : IsKnown(l, m)' => IsKnown(l, m)
    BY <1>8 DEF ImagesInv, ImagesShape, PendingIsStored, IsKnown
  <1> QED
    BY <1>7, <1>8, <1>9, ImagesKnown

LEMMA ImagesUpload == ASSUME ImagesInv, Images!upload PROVE ImagesInv'
  <1>1. PICK r : /\ r = [file |-> images', chat |-> sessionId, base |-> attachments]
                 /\ imagesReading' = imagesReading \cup {r}
    BY DEF Images!upload
  <1>2. images' \in Nat
    BY DEF Images!upload, ImagesInv, ImagesShape
  <1>3. r \in [file : Nat, chat : Chats, base : Seq(Nat)]
    BY <1>1, <1>2 DEF ImagesInv, ImagesShape
  <1>4. UNCHANGED <<sessionId, attachments, pendingPrompt, drafts, imagesFlight, posted, keys>>
    BY DEF Images!upload
  <1> QED
    BY <1>1, <1>2, <1>3, <1>4 DEF ImagesInv, ImagesShape, PendingIsStored, FlightHasDraft,
       KeysAreGiven, OneMessagePerKey, IsKnown

LEMMA ImagesUploaded == ASSUME ImagesInv, NEW r \in imagesReading, Images!uploaded(r) PROVE ImagesInv'
  <1>1. r \in [file : Nat, chat : Chats, base : Seq(Nat)]
    BY DEF ImagesInv, ImagesShape
  <1>2. Append(r.base, r.file) \in Seq(Nat)
    BY <1>1
  <1>3. /\ UNCHANGED <<sessionId, pendingPrompt, imagesFlight, posted, keys, images>>
        /\ Images!editAttachments(r.chat, Append(r.base, r.file))
        /\ imagesReading' \subseteq imagesReading
    BY DEF Images!uploaded
  <1>4. images' \in Nat /\ imagesReading' \subseteq [file : Nat, chat : Chats, base : Seq(Nat)]
    BY <1>3 DEF ImagesInv, ImagesShape
  <1> QED
    BY <1>1, <1>2, <1>3, <1>4, ImagesEdited

LEMMA PartOfASeq == ASSUME NEW s \in Seq(Nat), NEW i \in Nat, NEW k \in Int, i >= 1, k <= Len(s)
                    PROVE  SubSeq(s, i, k) \in Seq(Nat)
  <1>1. \A j \in i..k : s[j] \in Nat
    BY ElementOfSeq, LenProperties
  <1> QED
    BY <1>1, SubSeqProperties

LEMMA ImagesIncoming == ASSUME ImagesInv, Images!incoming PROVE ImagesInv'
  <1> DEFINE base == IF drafts[sessionId] = None \/ drafts[sessionId].attachments = None
                     THEN attachments ELSE Images!Held(drafts[sessionId])
             all == Append(base, images')
             last == IF Len(all) < Limit THEN Len(all) ELSE Limit
  <1>1. base \in Seq(Nat)
    BY ImagesHeld DEF ImagesInv, ImagesShape
  <1>2. images' \in Nat
    BY DEF Images!incoming, ImagesInv, ImagesShape
  <1> HIDE DEF base
  <1>3. all \in Seq(Nat)
    BY <1>1, <1>2
  <1>4. last \in Int /\ last <= Len(all)
    <2>1. Len(all) \in Nat
      BY <1>3, LenProperties
    <2>2. Limit \in Nat
      BY ConversationAssumption
    <2> HIDE DEF all
    <2> QED
      BY <2>1, <2>2
  <1>5. SubSeq(all, 1, last) \in Seq(Nat)
    BY <1>3, <1>4, PartOfASeq
  <1>6. /\ UNCHANGED <<sessionId, pendingPrompt, imagesFlight, posted, keys, imagesReading>>
        /\ Images!editAttachments(sessionId, SubSeq(all, 1, last))
    BY DEF Images!incoming, base
  <1>7. sessionId \in Chats /\ imagesReading' \subseteq [file : Nat, chat : Chats, base : Seq(Nat)]
    BY <1>6 DEF ImagesInv, ImagesShape
  <1> QED
    BY <1>2, <1>5, <1>6, <1>7, ImagesEdited

LEMMA ImagesRemove ==
    ASSUME ImagesInv, NEW i \in DOMAIN attachments, Images!AttachmentRemove(Images!Attachments[i])
    PROVE  ImagesInv'
  <1>1. Images!Attachments[i].onRemove = i
    BY DEF Images!Attachments, Images!Attachment
  <1>2. attachments \in Seq(Nat) /\ i \in 1..Len(attachments) /\ Len(attachments) \in Nat
    BY LenProperties DEF ImagesInv, ImagesShape
  <1>3. SubSeq(attachments, 1, i - 1) \in Seq(Nat) /\ SubSeq(attachments, i + 1, Len(attachments)) \in Seq(Nat)
    BY <1>2, PartOfASeq
  <1>4. Images!RemoveAt(attachments, i) \in Seq(Nat)
    BY <1>3, ConcatProperties DEF Images!RemoveAt
  <1>5. /\ UNCHANGED <<sessionId, pendingPrompt, imagesFlight, posted, keys, imagesReading, images>>
        /\ Images!editAttachments(sessionId, Images!RemoveAt(attachments, i))
    BY <1>1 DEF Images!AttachmentRemove
  <1>6. sessionId \in Chats /\ images' \in Nat
        /\ imagesReading' \subseteq [file : Nat, chat : Chats, base : Seq(Nat)]
    BY <1>5 DEF ImagesInv, ImagesShape
  <1> QED
    BY <1>4, <1>5, <1>6, ImagesEdited

LEMMA ImagesRemoveLast == ASSUME ImagesInv, Images!onRemoveLast PROVE ImagesInv'
  <1>1. attachments \in Seq(Nat) /\ Len(attachments) \in Nat
    BY LenProperties DEF ImagesInv, ImagesShape
  <1>2. Images!Front(attachments) \in Seq(Nat)
    BY <1>1, PartOfASeq DEF Images!Front
  <1>3. /\ UNCHANGED <<sessionId, pendingPrompt, imagesFlight, posted, keys, imagesReading, images>>
        /\ Images!editAttachments(sessionId, Images!Front(attachments))
    BY DEF Images!onRemoveLast
  <1>4. sessionId \in Chats /\ images' \in Nat
        /\ imagesReading' \subseteq [file : Nat, chat : Chats, base : Seq(Nat)]
    BY <1>3 DEF ImagesInv, ImagesShape
  <1> QED
    BY <1>2, <1>3, <1>4, ImagesEdited

LEMMA ImagesShow == ASSUME ImagesInv, NEW k \in Chats, Images!show(k) PROVE ImagesInv'
  <1>1. /\ UNCHANGED <<drafts, imagesReading, imagesFlight, posted, images, keys>> /\ sessionId' = k
        /\ attachments' = Images!Held(drafts[k]) /\ pendingPrompt' = Images!Pending(drafts[k])
    BY DEF Images!show
  <1>2. ImagesShape'
    BY <1>1, ImagesHeld DEF ImagesInv, ImagesShape
  <1> QED
    BY <1>1, <1>2 DEF ImagesInv, PendingIsStored, FlightHasDraft, KeysAreGiven, OneMessagePerKey, IsKnown

\* A message is sent: the one under way again, or a new one under a new key.
LEMMA ImagesSend == ASSUME ImagesInv, Images!send PROVE ImagesInv'
  <1> DEFINE message == Images!Message(keys')
             held == IF drafts[sessionId] = None \/ drafts[sessionId].attachments = None
                     THEN attachments ELSE Images!Held(drafts[sessionId])
  <1>1. keys' \in Nat /\ keys' >= keys /\ (pendingPrompt = None => keys' = keys + 1)
    BY DEF Images!send, ImagesInv, ImagesShape
  <1>2. PICK m : m = message
    OBVIOUS
  <1>3. /\ m \in ImageMessages
        /\ \/ pendingPrompt # None /\ m = pendingPrompt /\ keys' = keys
           \/ pendingPrompt = None /\ m.key = keys'
    <2>1. CASE pendingPrompt = None
      BY <1>1, <1>2, <2>1 DEF Images!Message, ImageMessages, ImagesInv, ImagesShape
    <2>2. CASE pendingPrompt # None
      BY <1>2, <2>2 DEF Images!Message, Images!send, ImagesInv, ImagesShape
    <2> QED
      BY <2>1, <2>2
  <1>4. held \in Seq(Nat)
    BY ImagesHeld DEF ImagesInv, ImagesShape
  <1>5. PICK h : h = held
    OBVIOUS
  <1>6. PICK e, f : e = [attachments |-> h, submission |-> m] /\ f = [message |-> m, answer |-> None]
    OBVIOUS
  <1>7. /\ imagesFlight' = [imagesFlight EXCEPT ![sessionId] = f]
        /\ drafts' = [drafts EXCEPT ![sessionId] = e]
        /\ Images!Update(e)
        /\ UNCHANGED <<sessionId, imagesReading, posted, images>>
    BY <1>2, <1>5, <1>6 DEF Images!send
  <1>8. e \in ImageEntries /\ e.submission = m /\ f \in ImageFlights /\ f.message = m
    BY <1>3, <1>4, <1>5, <1>6 DEF ImageEntries, ImageFlights
  <1>9. e # None /\ m # None /\ f # None
    BY <1>3, <1>8, ConversationAssumption
  <1>10. attachments' \in Seq(Nat) /\ pendingPrompt' = m /\ Images!Pending(e) = m
    BY <1>7, <1>8, <1>9, ImagesHeld DEF Images!Update, Images!Pending, ImagesInv
  <1>11. sessionId \in Chats
    BY DEF ImagesInv, ImagesShape
  <1>12. ImagesShape'
    BY <1>1, <1>3, <1>7, <1>8, <1>10 DEF ImagesInv, ImagesShape
  <1>13. drafts'[sessionId] = e /\ imagesFlight'[sessionId] = f
         /\ \A k \in Chats \ {sessionId} : drafts'[k] = drafts[k] /\ imagesFlight'[k] = imagesFlight[k]
    BY <1>7, <1>11 DEF ImagesInv, ImagesShape
  <1>14. PendingIsStored' /\ FlightHasDraft'
    BY <1>7, <1>9, <1>10, <1>13 DEF ImagesInv, PendingIsStored, FlightHasDraft
  <1>15. \A k \in Chats, o \in ImageMessages : IsKnown(k, o)' => IsKnown(k, o) \/ (k = sessionId /\ o = m)
    BY <1>7, <1>8, <1>10, <1>13 DEF IsKnown
  <1>16. CASE pendingPrompt # None
    <2>1. IsKnown(sessionId, m) /\ UNCHANGED keys
      BY <1>3, <1>16 DEF IsKnown, ImagesInv, PendingIsStored
    <2> QED
      BY <1>12, <1>14, <1>15, <2>1, ImagesKnown
  <1>17. CASE pendingPrompt = None
    <2>1. m.key = keys + 1 /\ keys' = keys + 1
      BY <1>1, <1>3, <1>17
    <2>2. \A k \in Chats, o \in ImageMessages : IsKnown(k, o) => o.key \in Nat /\ o.key <= keys
      BY DEF ImagesInv, KeysAreGiven, ImageMessages
    <2>3. keys \in Nat
      BY DEF ImagesInv, ImagesShape
    <2>4. KeysAreGiven'
      BY <1>15, <2>1, <2>2, <2>3 DEF KeysAreGiven
    <2>5. OneMessagePerKey'
      BY <1>15, <2>1, <2>2, <2>3 DEF ImagesInv, OneMessagePerKey
    <2> QED
      BY <1>12, <1>14, <2>4, <2>5 DEF ImagesInv
  <1> QED
    BY <1>16, <1>17

LEMMA ImagesTaken == ASSUME ImagesInv, NEW k \in Chats, Images!hostTakes(k) PROVE ImagesInv'
  <1>1. imagesFlight[k] # None
        /\ UNCHANGED <<sessionId, attachments, pendingPrompt, drafts, imagesReading, images, keys>>
    BY DEF Images!hostTakes
  <1>2. PICK answer \in {"ok", "lost"} : imagesFlight' = [imagesFlight EXCEPT ![k].answer = answer]
    BY DEF Images!hostTakes
  <1>3. PICK f, p : f = [imagesFlight[k] EXCEPT !.answer = answer]
                    /\ p = [chat |-> k, message |-> imagesFlight[k].message]
    OBVIOUS
  <1>4. imagesFlight[k] \in ImageFlights
    BY <1>1 DEF ImagesInv, ImagesShape
  <1>5. f \in ImageFlights /\ f.message = imagesFlight[k].message
        /\ p \in [chat : Chats, message : ImageMessages] /\ p.message = f.message /\ p.chat = k
    BY <1>3, <1>4 DEF ImageFlights
  <1>6. imagesFlight' = [imagesFlight EXCEPT ![k] = f] /\ posted' = posted \cup {p}
    BY <1>2, <1>3 DEF Images!hostTakes
  <1>7. ImagesShape'
    BY <1>1, <1>5, <1>6 DEF ImagesInv, ImagesShape
  <1>8. imagesFlight'[k] = f /\ \A l \in Chats \ {k} : imagesFlight'[l] = imagesFlight[l]
    BY <1>6 DEF ImagesInv, ImagesShape
  <1>9. PendingIsStored' /\ FlightHasDraft'
    BY <1>1, <1>8 DEF ImagesInv, PendingIsStored, FlightHasDraft
  <1>10. \A l \in Chats, m \in ImageMessages : IsKnown(l, m)' => IsKnown(l, m)
    BY <1>1, <1>5, <1>6, <1>8 DEF IsKnown
  <1> QED
    BY <1>1, <1>7, <1>9, <1>10, ImagesKnown

LEMMA ImagesSettle == ASSUME ImagesInv, NEW k \in Chats, Images!settle(k) PROVE ImagesInv'
  <1>1. /\ imagesFlight[k] # None /\ imagesFlight' = [imagesFlight EXCEPT ![k] = None]
        /\ UNCHANGED <<sessionId, imagesReading, posted, images, keys>>
        /\ Images!Update(drafts'[sessionId])
    BY DEF Images!settle
  <1>2. PICK e : /\ drafts' = [drafts EXCEPT ![k] = e]
                 /\ \/ e = drafts[k]
                    \/ e = [attachments |-> None, submission |-> None]
                    \/ e = [drafts[k] EXCEPT !.submission = None]
    BY DEF Images!settle
  <1>3. drafts[k] \in ImageEntries
    BY <1>1 DEF ImagesInv, ImagesShape, FlightHasDraft
  <1>4. e \in ImageEntries /\ e.submission \in {drafts[k].submission, None}
    BY <1>2, <1>3 DEF ImageEntries
  <1>5. e # None /\ drafts[k] # None
    BY <1>3, <1>4, ConversationAssumption
  <1>6. drafts'[k] = e /\ imagesFlight'[k] = None
        /\ \A l \in Chats \ {k} : drafts'[l] = drafts[l] /\ imagesFlight'[l] = imagesFlight[l]
    BY <1>1, <1>2 DEF ImagesInv, ImagesShape
  <1>7. drafts' \in [Chats -> ImageEntries \cup {None}]
    BY <1>2, <1>4 DEF ImagesInv, ImagesShape
  <1>8. sessionId \in Chats /\ drafts'[sessionId] \in ImageEntries \cup {None}
    BY <1>7 DEF ImagesInv, ImagesShape
  <1>9. attachments' \in Seq(Nat) /\ pendingPrompt' = Images!Pending(drafts'[sessionId])
        /\ pendingPrompt' \in ImageMessages \cup {None}
    BY <1>1, <1>8, ImagesHeld DEF Images!Update, ImagesInv, ImagesShape
  <1>10. ImagesShape' /\ PendingIsStored'
    BY <1>1, <1>7, <1>9 DEF ImagesInv, ImagesShape, PendingIsStored
  <1>11. FlightHasDraft'
    BY <1>6 DEF ImagesInv, FlightHasDraft
  <1>12. \A l \in Chats, m \in ImageMessages : IsKnown(l, m)' => IsKnown(l, m)
    BY <1>1, <1>4, <1>5, <1>6, ConversationAssumption DEF IsKnown, Images!Pending
  <1> QED
    BY <1>1, <1>10, <1>11, <1>12, ImagesKnown

LEMMA ImagesNext == ASSUME ImagesInv, Images!Next \/ UNCHANGED imagesVars PROVE ImagesInv'
  <1>1. CASE UNCHANGED imagesVars
    BY <1>1 DEF imagesVars, ImagesInv, ImagesShape, PendingIsStored, FlightHasDraft,
       KeysAreGiven, OneMessagePerKey, IsKnown
  <1> QED
    BY <1>1, ImagesShow, ImagesTaken, ImagesSettle, ImagesUpload, ImagesIncoming,
       ImagesRemoveLast, ImagesSend, ImagesUploaded, ImagesRemove DEF Images!Next

-----------------------------------------------------------------------------
(* The editor (EditorBuffers). *)

\* The editor, on a checkout of each conversation.
Editor == INSTANCE EditorBuffers WITH Places <- Chats, host <- editorHost,
        selected <- editorSelected, reads <- editorReads, pending <- editorPending,
        used <- editorUsed
editorVars == <<editorHost, others, place, visible, target, buffers, editorSelected, split,
        editorReads, saves, lists, asks, request, accepted, editorPending, texts,
        editorUsed>>

EditorLists == {"tree", "quick"}
EditorAsks(a) == [list : EditorLists, of : {a.of}, stopped : {a.stopped}]
\* The lists are of the checkout shown, and so is what a quick opener asked for
\* that was not stopped.
EditorAsked ==
    /\ lists = [l \in EditorLists |-> lists[l]]
    /\ Editor!ListsAreHere
    /\ \A a \in asks : a \in EditorAsks(a) /\ (a.list = "quick" /\ ~a.stopped => a.of = place)

LEMMA EditorAsk == ASSUME NEW a, NEW l \in EditorLists, NEW p, NEW s, a = [list |-> l, of |-> p, stopped |-> s]
    PROVE  a \in EditorAsks(a) /\ a.list = l /\ a.of = p /\ a.stopped = s
  BY DEF EditorAsks

LEMMA EditorInitAsked == Editor!Init => EditorAsked
  <1> SUFFICES ASSUME Editor!Init PROVE EditorAsked
    OBVIOUS
  <1>1. PICK a : a = [list |-> "tree", of |-> place, stopped |-> FALSE]
    OBVIOUS
  <1>2. asks = {a} /\ lists = [l \in EditorLists |-> None]
    BY <1>1 DEF Editor!Init, EditorLists
  <1>3. a \in EditorAsks(a) /\ a.list = "tree"
    BY <1>1, EditorAsk DEF EditorLists
  <1> QED
    BY <1>2, <1>3 DEF EditorAsked, EditorLists, Editor!ListsAreHere

\* A list call that is stopped asks for what it asked for.
LEMMA EditorStops == ASSUME NEW a, a \in EditorAsks(a), NEW b, b = [a EXCEPT !.stopped = TRUE]
    PROVE  b \in EditorAsks(b) /\ b.stopped
  BY DEF EditorAsks

LEMMA EditorArrives == ASSUME EditorAsked, NEW p, place' = p, Editor!Arrive(p) PROVE EditorAsked'
  <1>1. CASE p = place
    BY <1>1 DEF Editor!Arrive, EditorAsked, Editor!ListsAreHere
  <1>2. CASE p # place
    <2>1. PICK b : b = [list |-> "tree", of |-> p, stopped |-> FALSE]
      OBVIOUS
    <2>2. b \in EditorAsks(b) /\ b.list = "tree"
      BY <2>1, EditorAsk DEF EditorLists
    <2>3. /\ lists' = [l \in EditorLists |-> None]
          /\ asks' = {a \in asks : a.list = "tree"} \cup Editor!Stop({a \in asks : a.list = "quick"}) \cup {b}
      BY <1>2, <2>1 DEF Editor!Arrive, EditorLists
    <2>4. ASSUME NEW a \in asks' PROVE a \in EditorAsks(a) /\ (a.list = "quick" /\ ~a.stopped => a.of = place')
      <3>1. CASE a \in asks /\ a.list = "tree"
        BY <3>1 DEF EditorAsked
      <3>2. CASE a \in Editor!Stop({x \in asks : x.list = "quick"})
        <4>1. PICK x \in asks : a = [x EXCEPT !.stopped = TRUE]
          BY <3>2 DEF Editor!Stop
        <4>2. x \in EditorAsks(x)
          BY DEF EditorAsked
        <4> QED
          BY <4>1, <4>2, EditorStops
      <3> QED
        BY <2>2, <2>3, <2>4, <3>1, <3>2
    <2> QED
      BY <2>3, <2>4 DEF EditorAsked, Editor!ListsAreHere, EditorLists
  <1> QED
    BY <1>1, <1>2

LEMMA EditorMoves == ASSUME EditorAsked, Editor!go \/ Editor!checkoutChosen PROVE EditorAsked'
  <1>1. CASE Editor!go
    <2>1. PICK p \in Chats, v \in BOOLEAN : Editor!Effects(request, p, v) /\ Editor!Arrive(p)
      BY <1>1 DEF Editor!go
    <2> QED
      BY <2>1, EditorArrives DEF Editor!Effects
  <1>2. CASE Editor!checkoutChosen
    <2>1. CASE Editor!Effects(request, target, visible) /\ Editor!Arrive(target)
      BY <2>1, EditorArrives DEF Editor!Effects
    <2>2. CASE UNCHANGED <<place, lists, asks>>
      BY <2>2 DEF EditorAsked, Editor!ListsAreHere
    <2> QED
      BY <1>2, <2>1, <2>2 DEF Editor!checkoutChosen
  <1> QED
    BY <1>1, <1>2

LEMMA EditorOpensQuick == ASSUME EditorAsked, Editor!quickOpen PROVE EditorAsked'
  <1>1. PICK b : b = [list |-> "quick", of |-> place, stopped |-> FALSE]
    OBVIOUS
  <1>2. b \in EditorAsks(b) /\ b.of = place
    BY <1>1, EditorAsk DEF EditorLists
  <1>3. UNCHANGED <<place, lists>> /\ asks' = asks \cup {b}
    BY <1>1 DEF Editor!quickOpen
  <1> QED
    BY <1>2, <1>3 DEF EditorAsked, Editor!ListsAreHere

LEMMA EditorListed == ASSUME EditorAsked, Editor!listArrives PROVE EditorAsked'
  <1>1. PICK a \in asks : /\ asks' = asks \ {a} /\ UNCHANGED place
                          /\ lists' = IF Editor!Fresh(a) THEN [lists EXCEPT ![a.list] = a.of] ELSE lists
    BY DEF Editor!listArrives
  <1>2. Editor!Fresh(a) => a.of = place
    BY DEF EditorAsked, EditorAsks, EditorLists, Editor!Fresh
  <1> QED
    BY <1>1, <1>2 DEF EditorAsked, Editor!ListsAreHere

LEMMA EditorOpensFile == ASSUME EditorAsked, Editor!openFile PROVE EditorAsked'
  <1>1. UNCHANGED <<place, lists, asks>>
    BY DEF Editor!openFile, Editor!Effects
  <1> QED
    BY <1>1 DEF EditorAsked, Editor!ListsAreHere

LEMMA EditorAskedNext ==
    ASSUME EditorAsked, Editor!Next \/ UNCHANGED editorVars
    PROVE  EditorAsked'
  <1>1. CASE UNCHANGED <<place, lists, asks>>
    BY <1>1 DEF EditorAsked, Editor!ListsAreHere
  <1>2. CASE \/ Editor!chooseCheckout \/ Editor!open \/ Editor!hostReads \/ Editor!opened
             \/ Editor!readFails \/ Editor!locate \/ Editor!edit \/ Editor!saveBuffer
    BY <1>1, <1>2 DEF Editor!chooseCheckout, Editor!open, Editor!hostReads, Editor!opened,
       Editor!readFails, Editor!locate, Editor!edit, Editor!saveBuffer
  <1>3. CASE \/ Editor!hostSaves \/ Editor!saveLost \/ Editor!saveEnds \/ Editor!close \/ Editor!select
             \/ Editor!otherWrites \/ UNCHANGED editorVars
    BY <1>1, <1>3 DEF Editor!hostSaves, Editor!saveLost, Editor!saveEnds, Editor!close, Editor!select,
       Editor!otherWrites, editorVars
  <1> QED
    BY <1>2, <1>3, EditorMoves, EditorOpensQuick, EditorListed, EditorOpensFile DEF Editor!Next

\* What the editor remembers of a file, of a save and of a read, with the
\* shape of each.
EditorRows(b) == [key : {b.key}, content : {b.content}, revision : {b.revision}, dirty : {b.dirty}]
EditorSaves(s) == [key : {s.key}, place : {s.place}, content : {s.content}, revision : {s.revision},
                   answer : {s.answer}]
EditorReads(f) == [id : {f.id}, key : {f.key}, by : {f.by}, stopped : BOOLEAN, text : {f.text}]

\* Every text was written before: the next one is nobody's yet.
EditorHost == /\ editorHost \in [Chats -> 0..texts] /\ texts \in Nat
              /\ others = [p \in Chats |-> others[p]]
              /\ place \in Chats /\ (target # None => target \in Chats)
\* A clean row is its revision.
RowIsGood(b) == b \in EditorRows(b) /\ b.key \in Chats /\ b.content \in 0..texts
                /\ (~b.dirty => b.content = b.revision)
RowsAreGood == SeqOf(buffers) /\ \A i \in 1..Len(buffers) : RowIsGood(buffers[i])
SaveIsGood(s) == s \in EditorSaves(s) /\ s.key \in Chats /\ s.content \in 0..texts
\* A read for a request that was not stopped is for the request and the place
\* shown.
ReadIsWanted(f) ==
    /\ f \in EditorReads(f) /\ f.key \in Chats /\ (f.text # None => f.text \in 0..texts)
    /\ f.by # None /\ ~f.stopped => visible /\ request = f.by /\ place = f.by.place
EditorFiles == EditorHost /\ RowsAreGood /\ (\A s \in saves : SaveIsGood(s))
               /\ \A f \in editorReads : ReadIsWanted(f)

LEMMA EditorInitFiles == Editor!Init => EditorFiles
  <1> SUFFICES ASSUME Editor!Init PROVE EditorFiles
    OBVIOUS
  <1>1. /\ editorHost = [p \in Chats |-> 0] /\ others = [p \in Chats |-> None] /\ texts = 0
        /\ place \in Chats /\ target = None /\ buffers = <<>> /\ saves = {} /\ editorReads = {}
    BY ConversationAssumption DEF Editor!Init
  <1>2. SeqOf(buffers) /\ Len(buffers) = 0
    <2>1. buffers \in Seq({0}) /\ Len(buffers) = 0
      BY <1>1
    <2> QED
      BY <2>1, SeqIsOf
  <1> QED
    BY <1>1, <1>2 DEF EditorFiles, EditorHost, RowsAreGood

\* What is known of texts stays known as more are written.
LEMMA EditorKeeps ==
    ASSUME EditorFiles, texts' \in Nat, texts <= texts'
    PROVE  /\ \A b : RowIsGood(b) => RowIsGood(b)'
           /\ \A s : SaveIsGood(s) => SaveIsGood(s)'
           /\ UNCHANGED buffers => RowsAreGood'
           /\ UNCHANGED <<editorHost, others, place, target>> => EditorHost'
  BY DEF EditorFiles, EditorHost, RowsAreGood, RowIsGood, SaveIsGood

LEMMA EditorKeepsReads ==
    ASSUME EditorFiles, texts' \in Nat, texts <= texts', UNCHANGED <<visible, request, place>>, NEW f, ReadIsWanted(f)
    PROVE  ReadIsWanted(f)'
  BY DEF EditorFiles, EditorHost, ReadIsWanted

\* The place, the request or what is shown changes: what waited for it is
\* stopped, and what is read for the new request is read where it is shown.
LEMMA EditorEffects ==
    ASSUME EditorFiles, NEW r, NEW p \in Chats, NEW v, Editor!Effects(r, p, v),
           UNCHANGED <<editorHost, others, buffers, saves, texts>>, target' \in {target, None}
    PROVE  EditorFiles'
  <1> DEFINE asked == {f \in editorReads : f.by # None}
  <1>1. PICK new : new = [id |-> editorUsed.reads + 1, key |-> p, by |-> r, stopped |-> FALSE, text |-> None]
    OBVIOUS
  <1>2. PICK more : more \in {{}, {new}} /\ (more # {} => Editor!Accepts(r, p, v))
                    /\ editorReads' = (editorReads \ asked) \cup Editor!Stop(asked) \cup more
    BY <1>1 DEF Editor!Effects
  <1>3. request' = r /\ place' = p /\ visible' = v
    BY DEF Editor!Effects
  <1>4. ASSUME NEW f \in editorReads' PROVE ReadIsWanted(f)'
    <2>1. CASE f \in editorReads \ asked
      BY <2>1 DEF EditorFiles, ReadIsWanted
    <2>2. CASE f \in Editor!Stop(asked)
      <3>1. PICK x \in editorReads : f = [x EXCEPT !.stopped = TRUE]
        BY <2>2 DEF Editor!Stop
      <3>2. ReadIsWanted(x)
        BY DEF EditorFiles
      <3> QED
        BY <3>1, <3>2 DEF ReadIsWanted, EditorReads
    <2>3. CASE f = new /\ more # {}
      BY <1>1, <1>2, <1>3, <2>3 DEF ReadIsWanted, EditorReads, Editor!Accepts
    <2> QED
      BY <1>2, <2>1, <2>2, <2>3
  <1> QED
    BY <1>3, <1>4 DEF EditorFiles, EditorHost, RowsAreGood, RowIsGood, SaveIsGood

LEMMA EditorMovesFiles ==
    ASSUME EditorFiles, Editor!go \/ Editor!checkoutChosen \/ Editor!openFile
    PROVE  EditorFiles'
  <1>1. CASE Editor!go
    BY <1>1, EditorEffects DEF Editor!go
  <1>2. CASE Editor!openFile
    <2>1. place \in Chats
      BY DEF EditorFiles, EditorHost
    <2> QED
      BY <1>2, <2>1, EditorEffects DEF Editor!openFile
  <1>3. CASE Editor!checkoutChosen /\ Editor!Effects(request, target, visible)
    <2>1. PICK t : t = target
      OBVIOUS
    <2>2. t \in Chats /\ Editor!Effects(request, t, visible)
      BY <1>3, <2>1 DEF Editor!checkoutChosen, EditorFiles, EditorHost
    <2> QED
      BY <1>3, <2>2, EditorEffects DEF Editor!checkoutChosen
  <1>4. CASE Editor!checkoutChosen /\ UNCHANGED <<place, visible, request, editorReads>>
    BY <1>4, EditorKeeps DEF Editor!checkoutChosen, EditorFiles, EditorHost, ReadIsWanted
  <1> QED
    BY <1>1, <1>2, <1>3, <1>4 DEF Editor!checkoutChosen

\* Nothing that is read, written or saved changes.
LEMMA EditorRests ==
    ASSUME EditorFiles, \/ Editor!chooseCheckout \/ Editor!quickOpen \/ Editor!listArrives \/ Editor!locate
                        \/ Editor!select \/ UNCHANGED editorVars
    PROVE  EditorFiles'
  <1>1. /\ UNCHANGED <<editorHost, others, place, visible, buffers, saves, editorReads, request, texts>>
        /\ target' # None => target' = target \/ target' \in Chats
    BY DEF Editor!chooseCheckout, Editor!quickOpen, Editor!listArrives, Editor!locate, Editor!select,
       editorVars, Editor!editor, Editor!navigation
  <1> QED
    BY <1>1 DEF EditorFiles, EditorHost, RowsAreGood, RowIsGood, SaveIsGood, ReadIsWanted

LEMMA EditorReadsFiles ==
    ASSUME EditorFiles, Editor!open \/ Editor!hostReads \/ Editor!readFails
    PROVE  EditorFiles'
  <1>1. /\ UNCHANGED <<editorHost, others, place, visible, target, buffers, saves, request, texts>>
    BY DEF Editor!open, Editor!hostReads, Editor!readFails, Editor!editor, Editor!navigation
  <1>2. texts \in Nat /\ place \in Chats
    BY DEF EditorFiles, EditorHost
  <1>3. ASSUME NEW f \in editorReads', f \notin editorReads PROVE ReadIsWanted(f)'
    <2>1. CASE Editor!open
      <3>1. f = [id |-> editorUsed.reads + 1, key |-> place, by |-> None, stopped |-> FALSE, text |-> None]
        BY <1>3, <2>1 DEF Editor!open
      <3> QED
        BY <1>1, <1>2, <3>1 DEF ReadIsWanted, EditorReads
    <2>2. CASE Editor!hostReads
      <3>1. PICK o \in editorReads : f = [o EXCEPT !.text = editorHost[o.key]]
        BY <1>3, <2>2 DEF Editor!hostReads
      <3>2. ReadIsWanted(o)
        BY DEF EditorFiles
      <3>3. PICK t : t = editorHost[o.key]
        OBVIOUS
      <3>4. t \in 0..texts /\ f = [o EXCEPT !.text = t]
        BY <3>1, <3>2, <3>3 DEF EditorFiles, EditorHost, ReadIsWanted
      <3> QED
        BY <1>1, <3>2, <3>4 DEF ReadIsWanted, EditorReads
    <2>3. CASE Editor!readFails
      BY <1>3, <2>3 DEF Editor!readFails
    <2> QED
      BY <2>1, <2>2, <2>3
  <1>4. ASSUME NEW f \in editorReads PROVE ReadIsWanted(f)'
    BY <1>1, <1>2, EditorKeepsReads DEF EditorFiles
  <1> QED
    BY <1>1, <1>2, <1>3, <1>4, EditorKeeps DEF EditorFiles

\* The rows are the former ones, others that are good, or fewer of them.
LEMMA EditorOpened == ASSUME EditorFiles, Editor!opened PROVE EditorFiles'
  <1>1. PICK f \in editorReads :
          /\ f.text # None /\ editorReads' = editorReads \ {f}
          /\ \/ UNCHANGED buffers
             \/ buffers' = Append(buffers, [key |-> f.key, content |-> f.text, revision |-> f.text, dirty |-> FALSE])
    BY DEF Editor!opened
  <1>2. UNCHANGED <<editorHost, others, place, visible, target, saves, request, texts>> /\ texts \in Nat
    BY DEF Editor!opened, Editor!navigation, EditorFiles, EditorHost
  <1>3. PICK b : b = [key |-> f.key, content |-> f.text, revision |-> f.text, dirty |-> FALSE]
    OBVIOUS
  <1>4. RowIsGood(b)
    BY <1>1, <1>3 DEF EditorFiles, ReadIsWanted, RowIsGood, EditorRows
  <1>5. RowsAreGood'
    <2>1. CASE UNCHANGED buffers
      BY <1>2, <2>1, EditorKeeps
    <2>2. CASE buffers' = Append(buffers, b)
      <3>1. /\ SeqOf(buffers') /\ Len(buffers) \in Nat /\ Len(buffers') = Len(buffers) + 1
            /\ \A i \in 1..Len(buffers) : buffers'[i] = buffers[i]
            /\ buffers'[Len(buffers) + 1] = b
        <4>1. PICK S : buffers \in Seq(S)
          BY DEF EditorFiles, RowsAreGood, SeqOf
        <4>2. buffers \in Seq(S \cup {b}) /\ b \in S \cup {b}
          BY <4>1
        <4>3. /\ buffers' \in Seq(S \cup {b}) /\ Len(buffers) \in Nat /\ Len(buffers') = Len(buffers) + 1
              /\ \A i \in 1..Len(buffers) : buffers'[i] = buffers[i]
              /\ buffers'[Len(buffers) + 1] = b
          BY <2>2, <4>2
        <4> QED
          BY <4>3, SeqIsOf
      <3>2. ASSUME NEW i \in 1..Len(buffers') PROVE RowIsGood(buffers'[i])
        <4>1. CASE i \in 1..Len(buffers)
          BY <3>1, <4>1 DEF EditorFiles, RowsAreGood
        <4> QED
          BY <1>4, <3>1, <4>1
      <3> QED
        BY <1>2, <3>1, <3>2 DEF RowsAreGood, RowIsGood
    <2> QED
      BY <1>1, <1>3, <2>1, <2>2
  <1> QED
    BY <1>1, <1>2, <1>5, EditorKeeps, EditorKeepsReads DEF EditorFiles

\* Every row of a key is changed, the others are kept.
LEMMA EditorEach ==
    ASSUME SeqOf(buffers), NEW key, NEW changed,
           buffers' = [i \in DOMAIN buffers |-> IF buffers[i].key = key THEN changed[i] ELSE buffers[i]]
    PROVE  SeqOf(buffers') /\ Len(buffers') = Len(buffers)
           /\ \A i \in 1..Len(buffers) : buffers'[i] = IF buffers[i].key = key THEN changed[i] ELSE buffers[i]
  <1>1. PICK S : buffers \in Seq(S)
    BY DEF SeqOf
  <1>2. DOMAIN buffers = 1..Len(buffers) /\ Len(buffers) \in Nat
    BY <1>1
  <1>3. buffers' \in Seq({buffers'[i] : i \in 1..Len(buffers)}) /\ Len(buffers') = Len(buffers)
    BY <1>2
  <1> QED
    BY <1>2, <1>3 DEF SeqOf

LEMMA EditorEdits == ASSUME EditorFiles, Editor!edit PROVE EditorFiles'
  <1>1. /\ UNCHANGED <<editorHost, others, place, visible, target, saves, editorReads, request>>
        /\ texts' = texts + 1 /\ texts \in Nat
    BY DEF Editor!edit, Editor!NewText, Editor!navigation, EditorFiles, EditorHost
  <1>2. PICK key : buffers' = [i \in DOMAIN buffers |->
          IF buffers[i].key = key THEN [buffers[i] EXCEPT !.content = texts', !.dirty = TRUE] ELSE buffers[i]]
    BY DEF Editor!edit, Editor!Each
  <1>3. PICK changed : changed = [i \in DOMAIN buffers |-> [buffers[i] EXCEPT !.content = texts', !.dirty = TRUE]]
    OBVIOUS
  <1>4. buffers' = [i \in DOMAIN buffers |-> IF buffers[i].key = key THEN changed[i] ELSE buffers[i]]
    BY <1>2, <1>3
  <1>5. SeqOf(buffers') /\ Len(buffers') = Len(buffers)
        /\ \A i \in 1..Len(buffers) : buffers'[i] = IF buffers[i].key = key THEN changed[i] ELSE buffers[i]
    BY <1>4, EditorEach DEF EditorFiles, RowsAreGood
  <1>6. ASSUME NEW i \in 1..Len(buffers) PROVE RowIsGood(buffers[i])' 
    <2>1. RowIsGood(buffers[i])
      BY DEF EditorFiles, RowsAreGood
    <2>2. PICK b : b = [buffers[i] EXCEPT !.content = texts', !.dirty = TRUE]
      OBVIOUS
    <2>3. b \in EditorRows(b) /\ b.key = buffers[i].key /\ b.content = texts' /\ b.dirty = TRUE
      BY <2>1, <2>2 DEF RowIsGood, EditorRows
    <2>4. changed[i] = b
      <3>1. i \in DOMAIN buffers
        <4>1. PICK S : buffers \in Seq(S)
          BY DEF EditorFiles, RowsAreGood, SeqOf
        <4> QED
          BY <4>1
      <3> QED
        BY <1>3, <2>2, <3>1
    <2>5. buffers'[i] = b \/ buffers'[i] = buffers[i]
      BY <1>5, <2>4
    <2> QED
      BY <1>1, <2>1, <2>3, <2>5 DEF RowIsGood
  <1>7. RowsAreGood'
    BY <1>5, <1>6 DEF RowsAreGood
  <1> QED
    BY <1>1, <1>7, EditorKeeps, EditorKeepsReads DEF EditorFiles

LEMMA EditorWrites ==
    ASSUME EditorFiles, Editor!saveBuffer \/ Editor!hostSaves \/ Editor!saveLost
    PROVE  EditorFiles'
  <1>1. /\ UNCHANGED <<others, place, visible, target, buffers, editorReads, request, texts>>
        /\ texts \in Nat
    BY DEF Editor!saveBuffer, Editor!hostSaves, Editor!saveLost, Editor!editor, Editor!navigation,
       EditorFiles, EditorHost
  <1>2. ASSUME NEW s \in saves', s \notin saves PROVE SaveIsGood(s)
    <2>1. CASE Editor!saveBuffer
      <3>1. PICK i \in DOMAIN buffers :
              s = [key |-> buffers[i].key, place |-> place, content |-> buffers[i].content,
                   revision |-> buffers[i].revision, answer |-> "none"]
        BY <1>2, <2>1 DEF Editor!saveBuffer
      <3>2. RowIsGood(buffers[i])
        <4>1. PICK S : buffers \in Seq(S)
          BY DEF EditorFiles, RowsAreGood, SeqOf
        <4> QED
          BY <4>1 DEF EditorFiles, RowsAreGood
      <3> QED
        BY <3>1, <3>2 DEF SaveIsGood, EditorSaves, RowIsGood
    <2>2. CASE Editor!hostSaves \/ Editor!saveLost
      <3>1. PICK o \in saves : \E a : s = [o EXCEPT !.answer = a]
        BY <1>2, <2>2 DEF Editor!hostSaves, Editor!saveLost
      <3>2. SaveIsGood(o)
        BY DEF EditorFiles
      <3> QED
        BY <3>1, <3>2 DEF SaveIsGood, EditorSaves
    <2> QED
      BY <2>1, <2>2
  <1>3. editorHost' \in [Chats -> 0..texts]
    <2>1. CASE UNCHANGED editorHost
      BY <2>1 DEF EditorFiles, EditorHost
    <2>2. CASE Editor!hostSaves
      <3>1. PICK s \in saves : editorHost' = editorHost \/ editorHost' = [editorHost EXCEPT ![s.key] = s.content]
        BY <2>2 DEF Editor!hostSaves
      <3> QED
        BY <3>1 DEF EditorFiles, EditorHost, SaveIsGood
    <2> QED
      BY <2>1, <2>2 DEF Editor!saveBuffer, Editor!saveLost
  <1>4. ASSUME NEW s \in saves' PROVE SaveIsGood(s)'
    BY <1>1, <1>2 DEF EditorFiles, SaveIsGood
  <1>5. EditorHost'
    BY <1>1, <1>3 DEF EditorFiles, EditorHost
  <1> QED
    BY <1>1, <1>4, <1>5, EditorKeeps, EditorKeepsReads DEF EditorFiles

LEMMA EditorSaved == ASSUME EditorFiles, Editor!saveEnds PROVE EditorFiles'
  <1>1. /\ UNCHANGED <<editorHost, others, place, visible, target, editorReads, request, texts>>
        /\ texts \in Nat
    BY DEF Editor!saveEnds, Editor!navigation, EditorFiles, EditorHost
  <1>2. PICK s \in saves : /\ saves' = saves \ {s}
          /\ \/ UNCHANGED buffers
             \/ buffers' = Editor!Each(s.key, LAMBDA b : Editor!Saved(b, s))
    BY DEF Editor!saveEnds
  <1>3. SaveIsGood(s)
    BY DEF EditorFiles
  <1>4. CASE UNCHANGED buffers
    BY <1>1, <1>2, <1>4, EditorKeeps, EditorKeepsReads DEF EditorFiles
  <1>5. CASE buffers' = Editor!Each(s.key, LAMBDA b : Editor!Saved(b, s))
    <2>1. PICK changed : changed = [i \in DOMAIN buffers |-> Editor!Saved(buffers[i], s)]
      OBVIOUS
    <2>2. PICK key : key = s.key
      OBVIOUS
    <2>3. buffers' = [i \in DOMAIN buffers |-> IF buffers[i].key = key THEN changed[i] ELSE buffers[i]]
      BY <1>5, <2>1, <2>2 DEF Editor!Each
    <2>4. SeqOf(buffers') /\ Len(buffers') = Len(buffers)
          /\ \A i \in 1..Len(buffers) : buffers'[i] = IF buffers[i].key = key THEN changed[i] ELSE buffers[i]
      BY <2>3, EditorEach DEF EditorFiles, RowsAreGood
    <2>5. ASSUME NEW i \in 1..Len(buffers) PROVE RowIsGood(buffers'[i])
      <3>1. RowIsGood(buffers[i])
        BY DEF EditorFiles, RowsAreGood
      <3>2. PICK b : b = Editor!Saved(buffers[i], s)
        OBVIOUS
      <3>3. PICK d : d = (buffers[i].content # s.content)
        OBVIOUS
      <3>4. b = [buffers[i] EXCEPT !.revision = s.content, !.dirty = d]
        BY <3>2, <3>3 DEF Editor!Saved
      <3>5. b \in EditorRows(b) /\ b.key = buffers[i].key /\ b.content = buffers[i].content
            /\ b.revision = s.content /\ b.dirty = d
        BY <3>1, <3>4 DEF RowIsGood, EditorRows
      <3>6. ~b.dirty => b.content = b.revision
        BY <3>3, <3>5
      <3>7. changed[i] = b
        <4>1. PICK S : buffers \in Seq(S)
          BY DEF EditorFiles, RowsAreGood, SeqOf
        <4> QED
          BY <2>1, <3>2, <4>1
      <3>8. buffers'[i] = b \/ buffers'[i] = buffers[i]
        BY <2>4, <3>7
      <3> QED
        BY <3>1, <3>5, <3>6, <3>8 DEF RowIsGood
    <2>6. RowsAreGood'
      BY <1>1, <2>4, <2>5 DEF RowsAreGood, RowIsGood
    <2> QED
      BY <1>1, <1>2, <2>6, EditorKeeps, EditorKeepsReads DEF EditorFiles
  <1> QED
    BY <1>2, <1>4, <1>5

LEMMA EditorCloses == ASSUME EditorFiles, Editor!close PROVE EditorFiles'
  <1>1. /\ UNCHANGED <<editorHost, others, place, visible, target, saves, editorReads, request, texts>>
        /\ texts \in Nat
    BY DEF Editor!close, Editor!navigation, EditorFiles, EditorHost
  <1>2. DOMAIN buffers = 1..Len(buffers) /\ Len(buffers) \in Nat
    <2>1. PICK S : buffers \in Seq(S)
      BY DEF EditorFiles, RowsAreGood, SeqOf
    <2> QED
      BY <2>1
  <1>3. PICK key : Editor!Drop(key)
    BY DEF Editor!close
  <1>4. Editor!Rest(key) \subseteq 1..Len(buffers)
    BY <1>2 DEF Editor!Rest
  <1>5. PICK n \in Nat : \E at \in [1..n -> Editor!Rest(key)] : buffers' = [i \in 1..n |-> buffers[at[i]]]
    BY <1>2, <1>3 DEF Editor!Drop
  <1>6. PICK at \in [1..n -> Editor!Rest(key)] : buffers' = [i \in 1..n |-> buffers[at[i]]]
    BY <1>5
  <1>7. buffers' \in Seq({buffers'[i] : i \in 1..n}) /\ Len(buffers') = n
    BY <1>6
  <1>8. ASSUME NEW i \in 1..n PROVE RowIsGood(buffers'[i])
    BY <1>4, <1>6 DEF EditorFiles, RowsAreGood
  <1>9. RowsAreGood'
    BY <1>1, <1>7, <1>8 DEF RowsAreGood, RowIsGood, SeqOf
  <1> QED
    BY <1>1, <1>9, EditorKeeps, EditorKeepsReads DEF EditorFiles

LEMMA EditorOthers == ASSUME EditorFiles, Editor!otherWrites PROVE EditorFiles'
  <1>1. /\ UNCHANGED <<place, visible, target, buffers, saves, editorReads, request>>
        /\ texts' = texts + 1 /\ texts \in Nat
        /\ \E p \in Chats : editorHost' = [editorHost EXCEPT ![p] = texts'] /\ others' = [others EXCEPT ![p] = texts']
    BY DEF Editor!otherWrites, Editor!NewText, Editor!editor, Editor!navigation, EditorFiles, EditorHost
  <1>2. EditorHost'
    BY <1>1 DEF EditorFiles, EditorHost
  <1> QED
    BY <1>1, <1>2, EditorKeeps, EditorKeepsReads DEF EditorFiles

LEMMA EditorNextFiles == ASSUME EditorFiles, Editor!Next \/ UNCHANGED editorVars PROVE EditorFiles'
  BY EditorMovesFiles, EditorRests, EditorReadsFiles, EditorOpened, EditorEdits, EditorWrites, EditorSaved,
     EditorCloses, EditorOthers DEF Editor!Next

EditorInv == EditorAsked /\ EditorFiles

LEMMA EditorInitInv == Editor!Init => EditorInv
  BY EditorInitAsked, EditorInitFiles DEF EditorInv

LEMMA EditorNext == ASSUME EditorInv, Editor!Next \/ UNCHANGED editorVars PROVE EditorInv'
  BY EditorAskedNext, EditorNextFiles DEF EditorInv

LEMMA EditorInvImplies == EditorInv => Editor!CleanIsSaved /\ Editor!ListsAreHere
  <1> SUFFICES ASSUME EditorInv PROVE Editor!CleanIsSaved
    BY DEF EditorInv, EditorAsked
  <1>1. PICK S : buffers \in Seq(S)
    BY DEF EditorInv, EditorFiles, RowsAreGood, SeqOf
  <1>2. DOMAIN buffers = 1..Len(buffers)
    BY <1>1
  <1> QED
    BY <1>2 DEF EditorInv, EditorFiles, RowsAreGood, RowIsGood, Editor!CleanIsSaved

\* A text of someone else goes when a save that read it comes, or when someone
\* else writes again.
LEMMA EditorReplaces ==
    ASSUME EditorInv, Editor!Next \/ UNCHANGED editorVars, NEW p \in Chats,
           editorHost'[p] # editorHost[p], editorHost[p] = others[p], others' = others
    PROVE  \E s \in saves : s.key = p /\ s.revision = others[p] /\ s.content = editorHost'[p]
  <1>1. editorHost \in [Chats -> 0..texts] /\ texts \in Nat /\ others = [q \in Chats |-> others[q]]
    BY DEF EditorInv, EditorFiles, EditorHost
  <1>2. CASE Editor!hostSaves
    <2>1. PICK s \in saves : editorHost' = IF Editor!Current(s) THEN [editorHost EXCEPT ![s.key] = s.content] ELSE editorHost
      BY <1>2 DEF Editor!hostSaves
    <2>2. Editor!Current(s) /\ s.key = p /\ editorHost'[p] = s.content
      BY <1>1, <2>1
    <2> QED
      BY <2>2 DEF Editor!Current
  <1>3. CASE Editor!otherWrites
    <2>1. PICK q \in Chats : /\ editorHost' = [editorHost EXCEPT ![q] = texts'] /\ others' = [others EXCEPT ![q] = texts']
                             /\ texts' = texts + 1
      BY <1>3 DEF Editor!otherWrites, Editor!NewText
    <2>2. q = p /\ others[p] = texts + 1
      BY <1>1, <2>1
    <2> QED
      BY <1>1, <2>2
  <1>4. UNCHANGED editorHost \/ Editor!hostSaves \/ Editor!otherWrites
    BY DEF Editor!Next, editorVars, Editor!go, Editor!chooseCheckout, Editor!checkoutChosen, Editor!quickOpen,
       Editor!listArrives, Editor!open, Editor!hostReads, Editor!opened, Editor!readFails, Editor!openFile,
       Editor!locate, Editor!edit, Editor!saveBuffer, Editor!saveLost, Editor!saveEnds, Editor!close, Editor!select
  <1> QED
    BY <1>2, <1>3, <1>4

\* A read for a request that ends, and changes what is open, is one that is
\* still wanted.
LEMMA EditorRequests ==
    ASSUME EditorInv, Editor!Next \/ UNCHANGED editorVars, NEW f \in editorReads,
           f.by # None, f \notin editorReads', buffers' # buffers \/ editorSelected' # editorSelected
    PROVE  visible /\ request = f.by /\ place = f.by.place
  <1>1. ReadIsWanted(f)
    BY DEF EditorInv, EditorFiles
  <1>2. CASE f.stopped = FALSE
    BY <1>1, <1>2 DEF ReadIsWanted
  <1>3. CASE \E r, p, v : Editor!Effects(r, p, v)
    <2>1. PICK r, p, v : Editor!Effects(r, p, v)
      BY <1>3
    <2>2. [f EXCEPT !.stopped = TRUE] \in editorReads'
      BY <2>1 DEF Editor!Effects, Editor!Stop
    <2>3. f.stopped # TRUE
      BY <1>1, <2>2 DEF ReadIsWanted, EditorReads
    <2> QED
      BY <1>1, <1>2, <2>3 DEF ReadIsWanted, EditorReads
  <1>4. CASE Editor!opened
    BY <1>4 DEF Editor!opened, Editor!Opens
  <1>5. CASE \/ UNCHANGED editorReads \/ UNCHANGED <<buffers, editorSelected>>
    BY <1>5
  <1> QED
    BY <1>3, <1>4, <1>5
    DEF Editor!Next, editorVars, Editor!go, Editor!chooseCheckout, Editor!checkoutChosen, Editor!quickOpen,
       Editor!listArrives, Editor!open, Editor!hostReads, Editor!readFails, Editor!openFile, Editor!locate,
       Editor!edit, Editor!saveBuffer, Editor!hostSaves, Editor!saveLost, Editor!saveEnds, Editor!close,
       Editor!select, Editor!otherWrites, Editor!editor

-----------------------------------------------------------------------------
(* The cached turns (ConversationCache). *)

\* The cached turns.
Cache == INSTANCE ConversationCache WITH MaxTurns <- CachedTurns, Reports <- ReportTurns,
        First <- FirstTurns, Page <- PageRows, MaxChanges <- MaxEvents, host <- cacheHost,
        generation <- cacheGeneration, used <- cacheUsed
cacheVars == <<cacheHost, cacheGeneration, record, flights, historyFlights, cacheUsed>>

CacheRecords(r) == [owner : {r.owner}, turns : {r.turns}, cursor : {r.cursor}, start : {r.start},
                    hasEarlier : {r.hasEarlier}, liveOffset : {r.liveOffset}, reportOffset : {r.reportOffset}]
CacheInv == record # None => record \in CacheRecords(record) /\ record.owner = cacheGeneration

LEMMA CacheInitInv == Cache!Init => CacheInv
  BY DEF Cache!Init, CacheInv

LEMMA CacheFetch == ASSUME CacheInv, NEW f, Cache!fetch(f) PROVE CacheInv'
  <1> DEFINE old == IF record = None THEN [Cache!NoRecord EXCEPT !.owner = f.owner] ELSE record
             page == f.page.rows
  <1>1. UNCHANGED cacheGeneration
    BY DEF Cache!fetch
  <1>2. CASE Cache!assertGeneration(f)
    <2>1. PICK o : o = old
      OBVIOUS
    <2>2. o \in CacheRecords(o) /\ o.owner = cacheGeneration
      <3>1. CASE record = None
        BY <1>2, <2>1, <3>1 DEF Cache!NoRecord, CacheRecords, Cache!assertGeneration
      <3>2. CASE record # None
        BY <2>1, <3>2 DEF CacheInv
      <3> QED
        BY <3>1, <3>2
    <2>3. PICK t, cu, st, he :
            /\ t = Cache!With(Cache!Refreshed(o.turns, f.meta), page) /\ cu = Cache!endCursor(page, o.cursor)
            /\ st = (IF f.cached \/ page = <<>> THEN o.start ELSE page[1].id)
            /\ he = (IF f.cached THEN o.hasEarlier ELSE f.page.earlier)
      OBVIOUS
    <2>4. record' = [o EXCEPT !.turns = t, !.cursor = cu, !.liveOffset = f.refresh.liveOffset,
                              !.reportOffset = f.refresh.reportOffset, !.start = st, !.hasEarlier = he]
      BY <1>2, <2>1, <2>3 DEF Cache!fetch, Cache!Committed
    <2>5. record' \in CacheRecords(record') /\ record'.owner = o.owner
      BY <2>2, <2>4 DEF CacheRecords
    <2> QED
      BY <1>1, <2>2, <2>5 DEF CacheInv
  <1>3. CASE ~Cache!assertGeneration(f)
    BY <1>1, <1>3 DEF Cache!fetch, CacheInv
  <1> QED
    BY <1>2, <1>3

LEMMA CacheHistory == ASSUME CacheInv, NEW h, Cache!fetchHistory(h) PROVE CacheInv'
  <1>1. UNCHANGED cacheGeneration
    BY DEF Cache!fetchHistory
  <1>2. CASE Cache!assertGeneration(h) /\ record # None
    <2>1. record \in CacheRecords(record) /\ record.owner = cacheGeneration
      BY <1>2 DEF CacheInv
    <2>2. \E t, st, he : record' = [record EXCEPT !.turns = t, !.start = st, !.hasEarlier = he]
      BY <1>2 DEF Cache!fetchHistory
    <2>3. PICK t, st, he : record' = [record EXCEPT !.turns = t, !.start = st, !.hasEarlier = he]
      BY <2>2
    <2>4. record' \in CacheRecords(record') /\ record'.owner = record.owner
      BY <2>1, <2>3 DEF CacheRecords
    <2> QED
      BY <1>1, <2>1, <2>4 DEF CacheInv
  <1>3. CASE ~(Cache!assertGeneration(h) /\ record # None)
    BY <1>1, <1>3 DEF Cache!fetchHistory, CacheInv
  <1> QED
    BY <1>2, <1>3

LEMMA CacheNext ==
    ASSUME CacheInv, Cache!Next \/ UNCHANGED cacheVars
    PROVE  CacheInv'
  <1>1. CASE Cache!hostGoesOn \/ Cache!read \/ Cache!history \/ UNCHANGED cacheVars
    BY <1>1 DEF Cache!hostGoesOn, Cache!read, Cache!history, cacheVars, CacheInv
  <1>2. CASE Cache!FlightStep
    <2>1. ASSUME NEW f, Cache!hostMeta(f) \/ Cache!hostPage(f) PROVE CacheInv'
      BY <2>1 DEF Cache!hostMeta, Cache!hostPage, CacheInv
    <2> QED
      BY <1>2, <2>1, CacheFetch DEF Cache!FlightStep
  <1>3. ASSUME NEW f, Cache!readFails(f) PROVE CacheInv'
    BY <1>3 DEF Cache!readFails, CacheInv
  <1>4. ASSUME NEW h, Cache!hostHistory(h) PROVE CacheInv'
    BY <1>4 DEF Cache!hostHistory, CacheInv
  <1>5. CASE Cache!clear
    BY <1>5 DEF Cache!clear, CacheInv
  <1> QED
    BY <1>1, <1>2, <1>3, <1>4, <1>5, CacheHistory DEF Cache!Next

-----------------------------------------------------------------------------
(* The panels whose promises are only model-checked. *)

\* The activity, on a log of four events of which the host keeps three.
Run == INSTANCE RunActivity WITH Tools <- {None}, Window <- 3, MaxLog <- 4, MaxTurns <- 1,
        MaxFailures <- 0, seen <- runSeen
runVars == <<log, task, tool, worker, runSeen, saved, fetch, failures>>

\* The review of changes, on two changed files of each conversation's checkout.
Changes == INSTANCE ChangeReview WITH Scopes <- Chats, Paths <- {"f", "g"}, MaxReads <- 2,
        MaxDiffs <- 2, MaxVersion <- 1, MaxUpsets <- 2, host <- changesHost,
        reads <- changesReads, epoch <- changesEpoch, used <- changesUsed
changesVars == <<changesHost, scope, paused, foreground, snapshot, choice, result, rendered,
        changesReads, diffs, serial, changesEpoch, changesUsed>>

\* The language server, on a file of each conversation.
Language == INSTANCE LanguageDocuments WITH Files <- Chats, MaxTexts <- 2, MaxFormats <- 1,
        MaxMoves <- 2, MaxUpsets <- 1, selected <- languageSelected, call <- languageCall,
        used <- languageUsed
languageVars == <<text, here, languageSelected, client, opened, timer, wire, doc,
        languageCall, languageUsed>>

-----------------------------------------------------------------------------
(* All panels. *)

vars == <<active, cacheVars, runVars, queueVars, imagesVars, controlsVars, teamVars,
        tasksVars, adoptionVars, placeVars, editorVars, changesVars, languageVars>>

\* A panel that is not on screen is in one of its initial states.
Init ==
    /\ active \in {"cache", "run", "queue", "images", "controls", "team", "tasks", "adoption", "place", "editor", "changes", "language"}
    /\ Cache!Init
    /\ Run!Init
    /\ Queue!Init
    /\ Images!Init /\ (active = "images" \/ sessionId = CHOOSE e \in Chats : TRUE)
    /\ Controls!Init
    /\ Team!Init
    /\ Tasks!Init
    /\ Adoption!Init /\ (active = "adoption" \/ dialog.key = CHOOSE e \in Chats : TRUE)
    /\ Place!Init
    /\ Editor!Init
    /\ Changes!Init
    /\ Language!Init

\* One panel is on screen; the others stay as they are.
Next ==
    /\ UNCHANGED active
    /\ IF active = "cache" THEN Cache!Next ELSE UNCHANGED cacheVars
    /\ IF active = "run" THEN Run!Next ELSE UNCHANGED runVars
    /\ IF active = "queue" THEN Queue!Next ELSE UNCHANGED queueVars
    /\ IF active = "images" THEN Images!Next ELSE UNCHANGED imagesVars
    /\ IF active = "controls" THEN Controls!Next ELSE UNCHANGED controlsVars
    /\ IF active = "team" THEN Team!Next ELSE UNCHANGED teamVars
    /\ IF active = "tasks" THEN Tasks!Next ELSE UNCHANGED tasksVars
    /\ IF active = "adoption" THEN Adoption!Next ELSE UNCHANGED adoptionVars
    /\ IF active = "place" THEN Place!Next ELSE UNCHANGED placeVars
    /\ IF active = "editor" THEN Editor!Next ELSE UNCHANGED editorVars
    /\ IF active = "changes" THEN Changes!Next ELSE UNCHANGED changesVars
    /\ IF active = "language" THEN Language!Next ELSE UNCHANGED languageVars

Spec == Init /\ [][Next]_vars

-----------------------------------------------------------------------------
\* Every panel keeps its state within its type.
TypeOK ==
    /\ Cache!TypeOK /\ Run!TypeOK /\ Queue!TypeOK /\ Images!TypeOK
    /\ Controls!TypeOK /\ Team!TypeOK /\ Tasks!TypeOK /\ Adoption!TypeOK
    /\ Place!TypeOK /\ Editor!TypeOK /\ Changes!TypeOK /\ Language!TypeOK

\* What is asked once is asked under one identity, however often an answer is
\* lost: a team form makes one team (TaskSupervisor.tsx), a reviewed adoption
\* one request (OrchestratorAdoption.tsx), a key of a message names one set of images
\* (Chat.tsx), and an agent is stopped by one call (PromptQueue.tsx).
OneRequestPerIntent ==
    /\ Tasks!OneTeamPerForm /\ Adoption!OneIdOneReview
    /\ Images!SameKeySameImages /\ Queue!OneStop

\* An answer that comes after the user went on never appears in the wrong
\* place: queued prompts, cached turns, settings being written, the outcome of
\* a team, lists of files and the session itself are those of what is on
\* screen, and of who reads it.
AnswersStayHome ==
    /\ Queue!ItemsAreHere /\ Cache!CacheIsOwn /\ Controls!HeldByItsOwn
    /\ Tasks!OutcomeIsOfThisTeam /\ Editor!ListsAreHere /\ Place!ShownToItsReader

\* What the user reviewed is what the host does or refuses: an interrupted
\* conversation goes on with the prompt that was shown, a child is handed over
\* and a conversation adopted in the state that was shown, an effort is written
\* for the model it was chosen for, a worker gets the text typed for it.
ActsAsReviewed ==
    /\ Queue!ContinuesAsReviewed /\ Team!TransferAsSeen /\ Adoption!ConfirmedAsSeen
    /\ Controls!EffortForItsModel /\ Tasks!TextIsDelivered

\* Pages, streams and polls that overlap are put together without a gap or a
\* repetition, and nothing goes back: the cached turns are a window of the
\* host's, the activity is one the host reported, no text is there twice, a
\* message has no more images than it may, and a review of changes never shows an
\* older state of the checkout, whichever read answers last (session-changes.ts).
ShownAsReported ==
    /\ []Cache!CacheIsWindow /\ []Run!ShownAsReported /\ []Run!TextOnce /\ []Images!AtMostLimit
    /\ Changes!NeverBack

\* Saving and moving lose nobody's work: a buffer marked clean is what was
\* saved, a save does not replace what another program wrote since the buffer
\* was read, a request to open a file stays in its conversation, and a load
\* that ends late does not take the user away from where he went.
WorkIsKept ==
    /\ []Editor!CleanIsSaved /\ Editor!OthersKept /\ Editor!RequestStaysHome
    /\ Place!UserKeepsPlace

-----------------------------------------------------------------------------
(* The conversation: each panel keeps its invariant, on screen or not.       *)

Inv ==
    /\ CacheInv /\ QueueInv /\ ImagesInv /\ ControlsInv /\ TeamInv /\ TasksInv
    /\ AdoptionInv /\ PlaceInv /\ PlaceWishes /\ EditorInv

LEMMA InitInv == Init => Inv
  BY CacheInitInv, QueueInitInv, ImagesInitInv, ControlsInitInv, TeamInitInv, TasksInitInv,
     AdoptionInitInv, PlaceInitInv, PlaceInitWishes, EditorInitInv
  DEF Init, Inv

\* A panel takes a step of its own or none.
LEMMA PanelSteps ==
    ASSUME [Next]_vars
    PROVE  /\ Cache!Next \/ UNCHANGED cacheVars
           /\ Queue!Next \/ UNCHANGED queueVars
           /\ Images!Next \/ UNCHANGED imagesVars
           /\ Controls!Next \/ UNCHANGED controlsVars
           /\ Team!Next \/ UNCHANGED teamVars
           /\ Tasks!Next \/ UNCHANGED tasksVars
           /\ Adoption!Next \/ UNCHANGED adoptionVars
           /\ Place!Next \/ UNCHANGED placeVars
           /\ Editor!Next \/ UNCHANGED editorVars
  <1>1. CASE Next
    BY <1>1 DEF Next
  <1>2. CASE UNCHANGED vars
    BY <1>2 DEF vars
  <1> QED
    BY <1>1, <1>2

LEMMA NextInv == Inv /\ [Next]_vars => Inv'
  <1> SUFFICES ASSUME Inv, [Next]_vars PROVE Inv'
    OBVIOUS
  <1>1. CacheInv' /\ QueueInv' /\ ImagesInv'
    BY PanelSteps, CacheNext, QueueNext, ImagesNext DEF Inv
  <1>2. ControlsInv' /\ TeamInv' /\ TasksInv'
    BY PanelSteps, ControlsNext, TeamNext, TasksNext DEF Inv
  <1>3. AdoptionInv' /\ PlaceInv' /\ PlaceWishes' /\ EditorInv'
    BY PanelSteps, AdoptionNext, PlaceNext, PlaceWishesNext, EditorNext DEF Inv
  <1> QED
    BY <1>1, <1>2, <1>3 DEF Inv

LEMMA Invariance == Spec => []Inv
  BY InitInv, NextInv, PTL DEF Spec

\* What is asked once is asked under one identity, however often an answer is lost
\* and the request repeated: two teams have different ids (TaskSupervisor.tsx), two
\* posts of an adoption with one id are of one review (OrchestratorAdoption.tsx), two
\* messages with one key are one (Chat.tsx), and an agent is stopped by one call
\* (PromptQueue.tsx).
THEOREM AskedUnderOneIdentity == Spec => []OneRequestPerIntent
  <1>1. Inv => OneRequestPerIntent
    BY TasksInvImplies, ImagesInvImplies
    DEF Inv, AdoptionInv, QueueInv, OneRequestPerIntent
  <1> QED
    BY <1>1, Invariance, PTL

\* Whatever a panel shows of an answer was asked by who looks at it now, of what he
\* looks at: the queue, the cached turns, the settings being written, the outcome of a
\* team, the lists of files and the session (prompt-queue.test.tsx:31,
\* workspace-data.ts, reasoning-picker.test.tsx:60, Workbench.tsx, App.tsx).
THEOREM NoAnswerElsewhere == Spec => []AnswersStayHome
  <1>1. Inv => AnswersStayHome
    BY TasksInvImplies, ControlsInvImplies, PlaceInvImplies, EditorInvImplies
    DEF Inv, QueueInv, CacheInv, Cache!CacheIsOwn, AnswersStayHome
  <1> QED
    BY <1>1, Invariance, PTL

\* The host continues, transfers, adopts, writes and delivers only what was reviewed,
\* whatever changed while the request was under way: it compares the digest, the
\* revision or the model the user saw (PromptQueue.tsx, OrchestratorStatus.tsx,
\* OrchestratorAdoption.tsx, ReasoningPicker, TaskSupervisor.tsx).
THEOREM HostDoesWhatWasReviewed == Spec => ActsAsReviewed
  <1>1. Inv /\ [Next]_vars => [\A r \in rows' : \A old \in rows :
             old.id = r.id /\ old.status = "blocked" /\ r.status = "queued" =>
               queueCall.kind = "renew" /\ queueCall.item = old /\ r.digest = queueCall.digest]_(Queue!vars)
    BY PanelSteps, QueueActs DEF Inv
  <1>2. Inv /\ [Next]_vars => [\A n \in Team!Acts :
             act[n] # None /\ act[n].kind = "control" /\ act[n].wire = "sent" /\ act'[n].wire = "done" =>
               child[act[n].of].control = act[n].row.control]_teamVars
    BY PanelSteps, TeamActsLemma DEF Inv
  <1>3. Inv /\ [Next]_vars => [\A n \in Adoption!Posts : post[n] = None /\ post'[n] # None =>
               /\ dialog.review.of = post'[n].of /\ dialog.review.rev = post'[n].rev
               /\ dialog.key = post'[n].of]_adoptionVars
    BY PanelSteps, AdoptionActs DEF Inv
  <1>4. Inv /\ [Next]_vars => [\A c \in Chats : Controls!WritesEffort(c) =>
               controlsHost[c].model = Controls!First(c).of.model
               /\ controlsHost[c].account = Controls!First(c).of.account]_controlsVars
    BY ControlsActs DEF Inv, Controls!WritesEffort
  <1>5. Inv /\ [Next]_vars => [\A n \in Tasks!Orders :
             (Tasks!orderAnswered(n) /\ sup'.message # sup.message) => order[n].text = sup.message]_tasksVars
    BY PanelSteps, TasksActs DEF Inv
  <1>6. Spec => Queue!ContinuesAsReviewed
    BY <1>1, Invariance, PTL DEF Spec, Queue!ContinuesAsReviewed
  <1>7. Spec => Team!TransferAsSeen
    BY <1>2, Invariance, PTL DEF Spec, Team!TransferAsSeen, Team!vars, teamVars
  <1>8. Spec => Adoption!ConfirmedAsSeen
    BY <1>3, Invariance, PTL DEF Spec, Adoption!ConfirmedAsSeen, Adoption!vars, adoptionVars
  <1>9. Spec => Controls!EffortForItsModel
    BY <1>4, Invariance, PTL DEF Spec, Controls!EffortForItsModel, Controls!vars, controlsVars
  <1>10. Spec => Tasks!TextIsDelivered
    BY <1>5, Invariance, PTL DEF Spec, Tasks!TextIsDelivered, Tasks!vars, tasksVars
  <1> QED
    BY <1>6, <1>7, <1>8, <1>9, <1>10 DEF ActsAsReviewed

\* Saving and moving lose nobody's work (Workbench.tsx, project_files.py, App.tsx): a
\* buffer that closes without a question is what its revision says, a text of another
\* window or an agent is replaced only by who read it, and an answer opens a file or a
\* conversation only where the user still is.
THEOREM WorkStays == Spec => WorkIsKept
  <1>1. Inv => Editor!CleanIsSaved
    BY EditorInvImplies DEF Inv
  <1>2. Inv /\ [Next]_vars => [\A p \in Chats :
             editorHost'[p] # editorHost[p] /\ editorHost[p] = others[p] /\ others' = others =>
               \E s \in saves : s.key = p /\ s.revision = others[p] /\ s.content = editorHost'[p]]_editorVars
    BY PanelSteps, EditorReplaces DEF Inv
  <1>3. Inv /\ [Next]_vars => [\A f \in editorReads :
             f.by # None /\ f \notin editorReads' /\ (buffers' # buffers \/ editorSelected' # editorSelected) =>
               visible /\ request = f.by /\ place = f.by.place]_editorVars
    BY PanelSteps, EditorRequests DEF Inv
  <1>4. Inv /\ [Next]_vars => [\A k \in Place!Calls :
             calls[k] # None /\ calls[k].pc = "answered" /\ calls'[k].pc = "ended" /\ placeSelected' # placeSelected
               => ~calls[k].left]_(Place!vars)
    BY PanelSteps, PlaceKeepsUser DEF Inv
  <1>5. Spec => []Editor!CleanIsSaved
    BY <1>1, Invariance, PTL
  <1>6. Spec => Editor!OthersKept
    BY <1>2, Invariance, PTL DEF Spec, Editor!OthersKept, Editor!vars, editorVars
  <1>7. Spec => Editor!RequestStaysHome
    BY <1>3, Invariance, PTL DEF Spec, Editor!RequestStaysHome, Editor!vars, editorVars
  <1>8. Spec => Place!UserKeepsPlace
    BY <1>4, Invariance, PTL DEF Spec, Place!UserKeepsPlace
  <1> QED
    BY <1>5, <1>6, <1>7, <1>8 DEF WorkIsKept
=============================================================================
