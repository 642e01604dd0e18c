---------------------------- MODULE ComputerCapture ----------------------------
(***************************************************************************)
(* Watching and controlling the host's screen: the panel of the workspace    *)
(* (features/ComputerSurface.tsx) and the host's viewers, one per socket      *)
(* (desktop/session.py): a loop that serves the panel's messages and a pump   *)
(* that captures frames.  The window may lose the focus or be locked, a sign- *)
(* in may be renewed, another window may stop the viewer.                     *)
(*                                                                         *)
(* React runs the effect's cleanup after the state it depends on has changed: *)
(* at once after a click, later otherwise.  Displays, the recorder, WebRTC    *)
(* and what a frame shows are left out.                                      *)
(***************************************************************************)
EXTENDS Naturals, Sequences

CONSTANTS MaxSockets, MaxClicks, MaxKeys, MaxUpsets,  \* bounds: sockets, buttons,
                               \* keys pressed, and locks, blurs, denials, closed sockets
          Backlog                \* messages of a viewer on their way

VARIABLES
    ui,       \* the panel
    link,     \* the sockets, in the order they were opened
    viewer,   \* the host's viewer of each socket, Nobody before, over after
    mayControl,  \* the host grants desktop-control and the input permission
    used

vars == <<ui, link, viewer, mayControl, used>>

Sockets == 1..Len(link)
\* A socket without its viewer.
Nobody == [over |-> FALSE, none |-> TRUE]
Live(s) == viewer[s] # Nobody /\ ~viewer[s].over

TypeOK ==
    /\ DOMAIN viewer = Sockets /\ mayControl \in BOOLEAN
    /\ ui.socket \in 0..Len(link) /\ (ui.connected => ui.socket # 0)
    /\ \A s \in Sockets :
         /\ link[s].state \in {"opening", "open", "closed"} /\ Len(link[s].down) <= Backlog + 4
         /\ Live(s) => viewer[s].pump \in {"idle", "grabbed", "checked"}

Init ==
    /\ ui = [active |-> TRUE, blocked |-> FALSE, started |-> FALSE, effect |-> FALSE, renewing |-> FALSE,
             socket |-> 0, connected |-> FALSE, controlling |-> FALSE, pending |-> FALSE,
             paused |-> FALSE, frame |-> FALSE]
    /\ link = <<>> /\ viewer = <<>> /\ mayControl = TRUE
    /\ used = [clicks |-> 0, keys |-> 0, upsets |-> 0]

Bound == [clicks |-> MaxClicks, keys |-> MaxKeys, upsets |-> MaxUpsets]
Spend(what) == used[what] < Bound[what] /\ used' = [used EXCEPT ![what] = @ + 1]

-----------------------------------------------------------------------------
(* The panel. *)

\* send: a socket that is not open takes nothing.
Sent(s, ms) == IF s # 0 /\ link[s].state = "open" THEN [link EXCEPT ![s].up = @ \o ms] ELSE link
CloseOf(l, s) == IF s = 0 THEN l ELSE [l EXCEPT ![s].state = "closed"]

\* Mutant: the last frame stays.
StopKeepsFrame(u) ==
    [u EXCEPT !.started = FALSE, !.connected = FALSE, !.controlling = FALSE, !.pending = FALSE, !.paused = FALSE]
\* stop.
StopOf(u) ==
    [u EXCEPT !.started = FALSE, !.connected = FALSE, !.controlling = FALSE, !.pending = FALSE,
              !.paused = FALSE, !.frame = FALSE]
\* The cleanup of the effect: release the input, pause and close.
CleanOf(u) == [u EXCEPT !.effect = FALSE, !.renewing = FALSE, !.socket = 0]
\* Mutant: the socket is released and paused, not closed.
CleanedOnly == link' = Sent(ui.socket, <<"release", "pause">>)
Cleaned == link' = CloseOf(Sent(ui.socket, <<"release", "pause">>), ui.socket)

\* open: a new socket.
Opened(u) ==
    /\ Len(link) < MaxSockets
    /\ ui' = [u EXCEPT !.socket = Len(link) + 1]
    /\ link' = Append(link, [state |-> "opening", up |-> <<>>, down |-> <<>>])
    /\ viewer' = Append(viewer, Nobody)

\* "Watch this machine".
watch ==
    /\ ui.active /\ ~ui.started /\ ~ui.effect /\ Spend("clicks")
    /\ Opened([ui EXCEPT !.blocked = FALSE, !.started = TRUE, !.effect = TRUE])
    /\ UNCHANGED mayControl

\* "Stop watching", and "Retry computer capture" after the socket was lost.
stop ==
    /\ ui.active /\ ui.started /\ Spend("clicks")
    /\ \/ ui' = CleanOf(StopOf(ui))
       \/ ~ui.connected /\ ui' = CleanOf([ui EXCEPT !.started = FALSE])
    /\ Cleaned /\ UNCHANGED <<viewer, mayControl>>

\* Mutant: the panel is in control before the host says so.
AwaitingNot(u) == [u EXCEPT !.controlling = ~@]
Awaiting(u) == [u EXCEPT !.pending = TRUE]
\* "Take control" and "Return to watch"; "Pause capture" and "Resume capture".
toggleControl ==
    /\ ui.active /\ ui.connected /\ ~ui.pending /\ Spend("clicks")
    /\ ui' = Awaiting(ui)
    /\ link' = Sent(ui.socket, <<IF ui.controlling THEN "watch" ELSE "control">>)
    /\ UNCHANGED <<viewer, mayControl>>
togglePause ==
    /\ ui.active /\ ui.connected /\ Spend("clicks")
    /\ link' = Sent(ui.socket, <<IF ui.paused THEN "resume" ELSE "pause">>)
    /\ UNCHANGED <<ui, viewer, mayControl>>

\* A key is pressed on the canvas; leaving it releases the keys.
key ==
    /\ ui.active /\ ui.controlling /\ Spend("keys")
    /\ \E m \in {"key", "release"} : link' = Sent(ui.socket, <<m>>)
    /\ UNCHANGED <<ui, viewer, mayControl>>

\* termx-locked: the socket is closed before the effect's cleanup runs.
lock ==
    /\ Spend("upsets") /\ ui.effect
    /\ ui' = StopOf([ui EXCEPT !.blocked = TRUE]) /\ link' = CloseOf(link, ui.socket)
    /\ UNCHANGED <<viewer, mayControl>>

\* useObservationActive: the window is no longer the one in front.
blur ==
    /\ Spend("upsets") /\ ui.active /\ ui' = [ui EXCEPT !.active = FALSE]
    /\ UNCHANGED <<link, viewer, mayControl>>
focus ==
    /\ ~ui.active /\ ~ui.effect /\ ui' = [ui EXCEPT !.active = TRUE]
    /\ UNCHANGED <<link, viewer, mayControl, used>>

\* The effects of started and active.
cleanUp ==
    /\ ui.effect /\ ~(ui.started /\ ui.active)
    /\ ui' = CleanOf(IF ui.active THEN ui ELSE StopOf(ui)) /\ Cleaned
    /\ UNCHANGED <<viewer, mayControl, used>>

\* activeNow.current and observationBlocked.current
Watched(u) == u.active /\ ~u.blocked

\* onmessage.
Shown(u, m) ==
    IF ~Watched(u) THEN u ELSE
    CASE m = "frame" -> [u EXCEPT !.frame = TRUE]
      [] m = "paused" -> [u EXCEPT !.paused = TRUE]
      [] m = "resumed" -> [u EXCEPT !.paused = FALSE]
      [] m = "hello" -> [u EXCEPT !.controlling = FALSE]
      [] m = "control" -> [u EXCEPT !.controlling = TRUE, !.pending = FALSE]
      [] m \in {"watch", "denied"} -> [u EXCEPT !.controlling = FALSE, !.pending = FALSE]

\* Mutant: a socket opened after a renewed sign-in does not repeat the pause.
GreetingsOnce(u) == <<"watch">>
\* onopen.
Greetings(u) == IF u.paused THEN <<"watch", "pause">> ELSE <<"watch">>

\* What comes on a socket of an effect cleaned up is not heard.
Heard == ui.effect /\ ui.socket # 0 /\ link[ui.socket].down # <<>>
Arrived == [link EXCEPT ![ui.socket].down = Tail(@)]
hear ==
    /\ Heard
    /\ LET s == ui.socket  m == Head(link[s].down)
       IN  /\ m \in {"open", "frame", "paused", "resumed", "hello", "control", "watch", "denied"}
           /\ link[s].state # "closed"
           /\ IF m # "open" THEN ui' = Shown(ui, m) /\ link' = Arrived
              ELSE IF ~ui.active THEN UNCHANGED ui /\ link' = CloseOf(Arrived, s)
              ELSE /\ ui' = [ui EXCEPT !.connected = TRUE]
                   /\ link' = [Arrived EXCEPT ![s].up = @ \o Greetings(ui)]
    /\ UNCHANGED <<viewer, mayControl, used>>

\* onclose: with the sign-in changed, it is renewed and the socket opened again.
closed ==
    /\ Heard /\ Head(link[ui.socket].down) \in {"4401", "1000", "lost"}
    /\ LET u == [ui EXCEPT !.connected = FALSE, !.controlling = FALSE, !.pending = FALSE, !.frame = FALSE]
       IN  ui' = CASE Head(link[ui.socket].down) = "4401" -> [u EXCEPT !.renewing = TRUE]
                   [] Head(link[ui.socket].down) = "1000" -> StopOf(u)
                   [] OTHER -> u
    /\ link' = CloseOf(Arrived, ui.socket) /\ UNCHANGED <<viewer, mayControl, used>>
renewed ==
    /\ ui.effect /\ ui.renewing
    /\ \/ ui.active /\ Opened([ui EXCEPT !.renewing = FALSE])
       \/ ui' = [ui EXCEPT !.renewing = FALSE] /\ UNCHANGED <<link, viewer>>
    /\ UNCHANGED <<mayControl, used>>

-----------------------------------------------------------------------------
(* The host. *)

Fresh == [over |-> FALSE, viewOnly |-> TRUE, resume |-> TRUE, stop |-> FALSE, pump |-> "idle",
          applied |-> FALSE, held |-> FALSE]

\* attach: the viewer begins by watching.  A socket that a panel locked meanwhile
\* opens after its renewal is closed by the cleanup before the host has it.
attach(s) ==
    /\ link[s].state = "opening" /\ viewer[s] = Nobody /\ (s = ui.socket => ui.started)
    /\ viewer' = [viewer EXCEPT ![s] = Fresh]
    /\ link' = [link EXCEPT ![s].state = "open", ![s].down = <<"open", "hello">>]
    /\ UNCHANGED <<ui, mayControl, used>>

Protected == {"key", "release", "control"}

\* Mutant: the key is not noted as applied.
AppliedNot(v) == [v EXCEPT !.held = TRUE]
Applied(v) == [v EXCEPT !.held = TRUE, !.applied = TRUE]

\* What a message makes of the viewer, and the answer.
Served(v, m) ==
    CASE m \in Protected /\ ~mayControl -> [to |-> [v EXCEPT !.viewOnly = TRUE], answer |-> <<"denied">>]
      [] m = "control" /\ mayControl -> [to |-> [v EXCEPT !.viewOnly = FALSE], answer |-> <<"control">>]
      [] m = "watch" -> [to |-> [v EXCEPT !.viewOnly = TRUE], answer |-> <<"watch">>]
      [] m = "pause" -> [to |-> [v EXCEPT !.resume = FALSE], answer |-> IF v.resume THEN <<"paused">> ELSE <<>>]
      [] m = "resume" -> [to |-> [v EXCEPT !.resume = TRUE], answer |-> IF v.resume THEN <<>> ELSE <<"resumed">>]
      [] m = "key" /\ mayControl /\ v.viewOnly -> [to |-> v, answer |-> <<"denied">>]
      [] m = "key" /\ mayControl /\ ~v.viewOnly -> [to |-> Applied(v), answer |-> <<>>]
      [] m = "release" /\ mayControl -> [to |-> [v EXCEPT !.held = FALSE], answer |-> <<>>]

serve(s) ==
    /\ Live(s) /\ link[s].up # <<>> /\ ~viewer[s].stop
    /\ LET r == Served(viewer[s], Head(link[s].up))
       IN  /\ viewer' = [viewer EXCEPT ![s] = r.to]
           /\ link' = [link EXCEPT ![s].up = Tail(@),
                                   ![s].down = IF link[s].state = "open" THEN @ \o r.answer ELSE @]
    /\ UNCHANGED <<ui, mayControl, used>>

\* The pump: a frame is captured, found wanted, and sent after its
\* authorization was looked at once more.
grab(s) ==
    /\ Live(s) /\ viewer[s].pump = "idle" /\ viewer[s].resume /\ ~viewer[s].stop
    /\ viewer' = [viewer EXCEPT ![s].pump = "grabbed"] /\ UNCHANGED <<ui, link, mayControl, used>>
check(s) ==
    /\ Live(s) /\ viewer[s].pump = "grabbed"
    /\ viewer' = [viewer EXCEPT ![s].pump = IF viewer[s].stop \/ ~viewer[s].resume THEN "idle" ELSE "checked"]
    /\ UNCHANGED <<ui, link, mayControl, used>>
publish(s) ==
    /\ Live(s) /\ viewer[s].pump = "checked" /\ Len(link[s].down) < Backlog
    /\ viewer' = [viewer EXCEPT ![s].pump = "idle"]
    /\ link' = [link EXCEPT ![s].down = IF link[s].state = "open" /\ ~viewer[s].stop THEN Append(@, "frame") ELSE @]
    /\ UNCHANGED <<ui, mayControl, used>>

\* attach, finally: the keys held are released, if any input was applied.
Gone(v) == [over |-> TRUE, held |-> v.held /\ ~v.applied]

\* The socket is closed by the panel, its messages served.
leave(s) ==
    /\ Live(s) /\ (viewer[s].stop \/ (link[s].state = "closed" /\ link[s].up = <<>>))
    /\ viewer' = [viewer EXCEPT ![s] = Gone(@)] /\ UNCHANGED <<ui, link, mayControl, used>>

\* The guard closes the sockets of a sign-in that changed, stop_viewer those that
\* a lock or another window ends, and the network any.
hostCloses(s) ==
    /\ Live(s) /\ ~viewer[s].stop /\ Spend("upsets")
    /\ viewer' = [viewer EXCEPT ![s].stop = TRUE]
    /\ \E code \in {"4401", "1000", "lost"} :
         link' = [link EXCEPT ![s].down = Append(@, code), ![s].up = <<>>]
    /\ UNCHANGED <<ui, mayControl>>
revoke ==
    /\ Spend("upsets") /\ mayControl' = ~mayControl /\ UNCHANGED <<ui, link, viewer>>

-----------------------------------------------------------------------------
Host == \E s \in Sockets : attach(s) \/ serve(s) \/ leave(s)
Pump == \E s \in Sockets : grab(s) \/ check(s) \/ publish(s)
Next ==
    \/ watch \/ stop \/ toggleControl \/ togglePause \/ key \/ lock \/ blur \/ focus \/ cleanUp
    \/ hear \/ closed \/ renewed \/ Host \/ Pump \/ revoke
    \/ \E s \in Sockets : hostCloses(s)

Spec == Init /\ [][Next]_vars
\* React runs its effects, the panel hears its socket and the host serves it.
FairSpec == Spec /\ WF_vars(cleanUp) /\ WF_vars(hear) /\ WF_vars(closed) /\ WF_vars(Host) /\ WF_vars(Pump)

-----------------------------------------------------------------------------
(* Properties. *)

\* What a queue of answers makes of a flag of the panel: the last one that turns it
\* on or off decides.
Says(messages, on, off, now) ==
    LET noneAfter(n) == \A k \in DOMAIN messages : k > n => messages[k] \notin off
    IN  \/ now /\ noneAfter(0)
        \/ \E n \in DOMAIN messages : messages[n] \in on /\ noneAfter(n)
Connected(s) == ui.effect /\ ui.socket = s /\ s # 0 /\ link[s].state = "open" /\ Live(s) /\ ~viewer[s].stop

\* "closes capture and control on workspace lock" (computer.test.tsx): a panel
\* that is stopped shows no frame and holds no control, whatever its former
\* socket still brings before the effect is cleaned up (ComputerSurface.tsx:20-24).
StoppedIsDark == ui.started \/ ~(ui.frame \/ ui.controlling \/ ui.connected)

\* "You are in control" is what the host granted last: the panel shows it until
\* the answer that ends it is on its way (ComputerSurface.tsx:28-32, session.py:304-321).
ControlIsGranted ==
    \A s \in Sockets : Connected(s) /\ Watched(ui) =>
        (Says(link[s].down, {"control"}, {"hello", "watch", "denied"}, ui.controlling) <=> ~viewer[s].viewOnly)

\* "Capture paused" is true or about to be: a user's pause survives the socket
\* that a renewed sign-in replaces (ComputerSurface.tsx:23, :35).
PausedIsPaused ==
    \A s \in Sockets : Connected(s) /\ ui.connected /\ Watched(ui)
                         /\ Says(link[s].down, {"paused"}, {"resumed"}, ui.paused) =>
        ~viewer[s].resume \/ \E n \in DOMAIN link[s].up : link[s].up[n] = "pause"

\* No key stays down on the host when its viewer is gone, however it went
\* (session.py:436-452).
InputIsReleased == \A s \in Sockets : viewer[s].over => ~viewer[s].held

\* A panel that is locked, hidden or stopped ends its capture on the host
\* (ComputerSurface.tsx:17, :20, :36).
CaptureEnds == \A s \in 1..MaxSockets :
    (s \in Sockets /\ Live(s) /\ (s # ui.socket \/ ~ui.started)) ~> (s \in Sockets /\ viewer[s].over)

\* "don't deliver a frame after "paused" was acknowledged" (session.py:253): a
\* frame is sent only while the capture is not paused.
NoFrameWhilePaused ==
    [][\A s \in Sockets : viewer[s] # Nobody /\ viewer[s].over = FALSE /\ link'[s].down # link[s].down
         /\ link'[s].down = Append(link[s].down, "frame") => viewer[s].resume]_vars
=============================================================================
