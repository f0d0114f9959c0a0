----------------------------- MODULE LiveClient -----------------------------
(***************************************************************************)
(* The browser component of a live recording: begin, stop, finish, the     *)
(* handlers of its websockets, and the cleanup when the view is left.      *)
(*                                                                         *)
(* A handler runs to its end or to its next await, so that is one step.  A *)
(* call of begin waits for the permission, and for the audio context to    *)
(* resume; in between every other handler may run.  What a call creates    *)
(* has the number of the call: its stream, its socket, its audio context.  *)
(***************************************************************************)
EXTENDS Naturals, Sequences, LiveSocket

CONSTANT MaxBegins   \* bound on the calls of begin

ASSUME ClientAssumption == MaxBegins \in Nat

Begins == 1..MaxBegins

VARIABLES
    state,     \* root.__lowiLive; 0 is null
    buttons,   \* which buttons are enabled
    mounted,   \* the view is shown
    at,        \* where each call of begin is
    tracks,    \* the tracks of its stream are live
    graph,     \* its audio context runs and is connected
    sock,      \* readyState of its socket
    wire,      \* the server's end of it
    asked,     \* sockets on which "stop" was sent
    carried,   \* history: whose audio was sent on each socket
    current,   \* history: the recording that was started last
    reports    \* history: the calls of setTriggerValue

page == <<state, buttons, mounted>>
audio == <<tracks, graph>>
net == <<sock, wire, asked, carried>>
vars == <<page, at, audio, net, current, reports>>

Idle == [ws |-> 0, stream |-> 0, ctx |-> 0, running |-> FALSE, stopping |-> FALSE,
         finished |-> FALSE]

Fresh == [start |-> TRUE, stop |-> FALSE]

Init ==
    /\ state = Idle /\ buttons = Fresh /\ mounted = TRUE
    /\ at = [b \in Begins |-> "none"]
    /\ tracks = [b \in Begins |-> FALSE] /\ graph = [b \in Begins |-> FALSE]
    /\ sock = [b \in Begins |-> "none"] /\ wire = [b \in Begins |-> NewWire]
    /\ asked = {} /\ carried = [b \in Begins |-> {}]
    /\ current = 0 /\ reports = <<>>

Suspended(b) == at[b] \in {"asking", "resuming"}

Goto(b, label) == at' = [at EXCEPT ![b] = label]

Without(f, bs) == [b \in Begins |-> f[b] /\ b \notin bs]

\* ws.close(): onclose follows later.
HungUp(sockets, s) ==
    [b \in Begins |-> IF b = s /\ sockets[b] \in {"connecting", "open"} THEN "closing"
                      ELSE sockets[b]]

\* Mutant of StopCapture: the audio context is forgotten.
StopTracksOnly(ended) ==
    /\ tracks' = Without(tracks, {state.stream} \cup ended)
    /\ UNCHANGED graph

\* stopCapture, perhaps after a track has ended by itself.
StopCapture(ended) ==
    /\ tracks' = Without(tracks, {state.stream} \cup ended)
    /\ graph' = Without(graph, {state.ctx})

Report(by, failed) ==
    [of |-> current, by |-> by, failed |-> failed, amid |-> \E b \in Begins : Suspended(b)]

\* Mutant of Finish: finished is not looked at.
FinishAgain(failed, by, sockets, ended) ==
    /\ state' = [Idle EXCEPT !.finished = TRUE] /\ buttons' = Fresh
    /\ StopCapture(ended)
    /\ sock' = HungUp(sockets, state.ws)
    /\ reports' = Append(reports, Report(by, failed))

\* finish, when the readyState of the sockets and the tracks have come to be
\* what the arguments say.  It does nothing of a recording that is finished.
Finish(failed, by, sockets, ended) ==
    IF state.finished
    THEN /\ sock' = sockets /\ tracks' = Without(tracks, ended)
         /\ UNCHANGED <<state, buttons, graph, reports>>
    ELSE /\ state' = [Idle EXCEPT !.finished = TRUE] /\ buttons' = Fresh
         /\ StopCapture(ended)
         /\ sock' = HungUp(sockets, state.ws)
         /\ reports' = Append(reports, Report(by, failed))
----------------------------------------------------------------------------
(***************************************************************************)
(* begin.                                                                  *)
(***************************************************************************)

\* Start was clicked.
Begin(b) ==
    /\ mounted /\ buttons.start /\ ~state.running /\ ~state.stopping
    /\ at[b] = "none" /\ \A c \in 1..(b - 1) : at[c] # "none"
    /\ buttons' = [start |-> FALSE, stop |-> TRUE]
    /\ Goto(b, "asking")
    /\ UNCHANGED <<state, mounted, audio, net, current, reports>>

\* The stream is there.  The context that an earlier recording left stays.
Granted(b) ==
    /\ at[b] = "asking"
    /\ state' = [state EXCEPT !.ws = b, !.stream = b, !.running = TRUE, !.stopping = FALSE,
                              !.finished = FALSE]
    /\ tracks' = [tracks EXCEPT ![b] = TRUE]
    /\ sock' = [sock EXCEPT ![b] = "connecting"]
    /\ current' = b
    /\ Goto(b, "resuming")
    /\ UNCHANGED <<buttons, mounted, graph, wire, asked, carried, reports>>

\* The context runs, and is the one that stopCapture will close.
Resumed(b) ==
    /\ at[b] = "resuming"
    /\ graph' = [graph EXCEPT ![b] = TRUE]
    /\ state' = [state EXCEPT !.ctx = b]
    /\ Goto(b, "over")
    /\ UNCHANGED <<buttons, mounted, tracks, net, current, reports>>

\* Mutant of Raises: the stream goes on.
RaisesAndListens(b) ==
    /\ Suspended(b)
    /\ state' = [Idle EXCEPT !.finished = state.finished, !.stream = state.stream]
    /\ buttons' = Fresh
    /\ graph' = Without(graph, {state.ctx})
    /\ sock' = HungUp(sock, state.ws)
    /\ Goto(b, "over")
    /\ UNCHANGED <<mounted, tracks, wire, asked, carried, current, reports>>

\* No permission, no tab audio, or no audio graph: what begin has made is
\* closed, but the recording does not count as finished.
Raises(b) ==
    /\ Suspended(b)
    /\ state' = [Idle EXCEPT !.finished = state.finished] /\ buttons' = Fresh
    /\ StopCapture({})
    /\ sock' = HungUp(sock, state.ws)
    /\ Goto(b, "over")
    /\ UNCHANGED <<mounted, wire, asked, carried, current, reports>>

\* The stream is there, but its socket cannot be made: the address is wrong, or
\* insecure.  stopCapture does not know the stream yet, which stays on.
SocketThrows(b) ==
    /\ at[b] = "asking"
    /\ state' = [Idle EXCEPT !.finished = state.finished] /\ buttons' = Fresh
    /\ tracks' = [Without(tracks, {state.stream}) EXCEPT ![b] = TRUE]
    /\ graph' = Without(graph, {state.ctx})
    /\ sock' = HungUp(sock, state.ws)
    /\ Goto(b, "over")
    /\ UNCHANGED <<mounted, wire, asked, carried, current, reports>>

BeginStep(b) == Granted(b) \/ SocketThrows(b) \/ Resumed(b) \/ Raises(b)
----------------------------------------------------------------------------
(***************************************************************************)
(* The handlers of the buttons, the streams and the sockets.               *)
(***************************************************************************)

\* stop.  Without an open socket the recording is finished at once.
Stop(ended) ==
    /\ state.running /\ ~state.stopping
    /\ IF \E b \in Begins : b = state.ws /\ sock[b] = "open"
       THEN /\ state' = [state EXCEPT !.stopping = TRUE, !.stream = 0, !.ctx = 0]
            /\ buttons' = [buttons EXCEPT !.stop = FALSE]
            /\ StopCapture(ended)
            /\ asked' = asked \cup {state.ws}
            /\ UNCHANGED <<sock, reports>>
       ELSE Finish(TRUE, 0, sock, ended) /\ UNCHANGED asked

ClickStop ==
    /\ mounted /\ buttons.stop
    /\ Stop({})
    /\ UNCHANGED <<mounted, at, wire, carried, current>>

\* The user or the system has ended a track, of whatever recording.  One that
\* never got a socket has no handler.
TrackEnds(b) ==
    /\ tracks[b]
    /\ \/ sock[b] # "none" /\ Stop({b})
       \/ /\ ~state.running \/ state.stopping \/ sock[b] = "none"
          /\ tracks' = Without(tracks, {b})
          /\ UNCHANGED <<state, buttons, graph, sock, asked, reports>>
    /\ UNCHANGED <<mounted, at, wire, carried, current>>

\* A context sends on whatever socket is the current one.
SendAudio(b) ==
    /\ graph[b] /\ state.running
    /\ \E s \in Begins :
           /\ s = state.ws /\ sock[s] = "open"
           /\ carried' = [carried EXCEPT ![s] = @ \cup {b}]
    /\ UNCHANGED <<page, at, audio, sock, wire, asked, current, reports>>

Opens(s) ==
    /\ sock[s] = "connecting" /\ Accepted(wire[s])
    /\ sock' = [sock EXCEPT ![s] = "open"]
    /\ UNCHANGED <<page, at, audio, wire, asked, carried, current, reports>>

\* Mutant of HearStopped: the message "finalizing" is taken for it.
HearFinalizing(s) ==
    /\ sock[s] = "open" /\ "finalizing" \in wire[s].told
    /\ Finish(FALSE, s, HungUp(sock, s), {})
    /\ UNCHANGED <<mounted, at, wire, asked, carried, current>>

\* The last message of the server, whose close comes next.
HearStopped(s) ==
    /\ sock[s] = "open" /\ "stopped" \in wire[s].told
    /\ Finish(FALSE, s, HungUp(sock, s), {})
    /\ UNCHANGED <<mounted, at, wire, asked, carried, current>>

\* Mutant of OnClose: only a socket that was not told to stop ends a recording.
OnCloseUnlessStopping(s) ==
    /\ IF state.stopping
       THEN /\ sock' = [sock EXCEPT ![s] = "closed"]
            /\ UNCHANGED <<state, buttons, audio, reports>>
       ELSE Finish(TRUE, s, [sock EXCEPT ![s] = "closed"], {})
    /\ UNCHANGED <<mounted, at, wire, asked, carried, current>>

\* onclose does not ask whether its socket is still the current one.
OnClose(s) ==
    /\ Finish(TRUE, s, [sock EXCEPT ![s] = "closed"], {})
    /\ UNCHANGED <<mounted, at, wire, asked, carried, current>>

\* The close is the end of the server's words, of those of ours, or of the
\* connection.
Closes(s) ==
    /\ \/ sock[s] = "closing"
       \/ sock[s] \in {"connecting", "open"} /\ ~wire[s].open /\ "stopped" \notin wire[s].told
    /\ OnClose(s)

Drops(s) == sock[s] \in {"connecting", "open"} /\ OnClose(s)

\* The view is left: the server is asked to stop, and nothing is reset.
Leave ==
    /\ mounted /\ mounted' = FALSE
    /\ asked' = asked \cup {s \in Begins : /\ s = state.ws /\ sock[s] = "open"
                                           /\ state.running \/ state.stopping}
    /\ StopCapture({})
    /\ state' = [state EXCEPT !.ws = 0, !.stream = 0, !.ctx = 0]
    /\ sock' = HungUp(sock, state.ws)
    /\ UNCHANGED <<buttons, at, wire, carried, current, reports>>
----------------------------------------------------------------------------
(***************************************************************************)
(* The server, by its promise.                                             *)
(***************************************************************************)
ServerMoves(s, moves) ==
    /\ sock[s] \notin {"none", "closed"}
    /\ \E w \in moves : wire' = [wire EXCEPT ![s] = w]
    /\ UNCHANGED <<page, at, audio, sock, asked, carried, current, reports>>

ServerTalks(s) == wire[s].open /\ ServerMoves(s, Talks(wire[s]) \ {wire[s]})
ServerEnds(s) == wire[s].open /\ ServerMoves(s, Ends(wire[s]))
----------------------------------------------------------------------------
Next ==
    \/ \E b \in Begins : Begin(b) \/ BeginStep(b) \/ TrackEnds(b) \/ SendAudio(b)
    \/ ClickStop \/ Leave
    \/ \E s \in Begins : Opens(s) \/ HearStopped(s) \/ Closes(s) \/ Drops(s)
    \/ \E s \in Begins : ServerTalks(s) \/ ServerEnds(s)

Spec == Init /\ [][Next]_vars

\* The browser delivers what has arrived, and the server ends a session it was
\* asked to stop (LiveCapture!CaptureEnds).
Fairness ==
    \A s \in Begins :
        /\ WF_vars(HearStopped(s)) /\ WF_vars(Closes(s))
        /\ WF_vars(s \in asked /\ ServerEnds(s))

FairSpec == Spec /\ Fairness
----------------------------------------------------------------------------
TypeOK ==
    /\ state \in [ws : 0..MaxBegins, stream : 0..MaxBegins, ctx : 0..MaxBegins,
                  running : BOOLEAN, stopping : BOOLEAN, finished : BOOLEAN]
    /\ buttons \in [start : BOOLEAN, stop : BOOLEAN] /\ mounted \in BOOLEAN
    /\ at \in [Begins -> {"none", "asking", "resuming", "over"}]
    /\ tracks \in [Begins -> BOOLEAN] /\ graph \in [Begins -> BOOLEAN]
    /\ sock \in [Begins -> {"none", "connecting", "open", "closing", "closed"}]
    /\ wire \in [Begins -> Wire]
    /\ asked \subseteq Begins /\ carried \in [Begins -> SUBSET Begins]
    /\ current \in 0..MaxBegins
    /\ reports \in Seq([of : 0..MaxBegins, by : 0..MaxBegins, failed : BOOLEAN, amid : BOOLEAN])
    /\ Len(reports) <= MaxBegins

\* No recording was finished while a call of begin was suspended.  finish does
\* not know of such a call, which then goes on as if nothing had happened.
Undisturbed == \A i \in DOMAIN reports : ~reports[i].amid

\* The stream of a call of begin whose socket could not be made: it is on, and
\* nothing refers to it.
Lost(b) == tracks[b] /\ sock[b] = "none"

\* The microphone is on only for the recording that runs, and whoever sees the
\* view can stop that one: whatever ended a recording has released it.  The
\* exceptions are what begin loses: a stream without a socket, and what goes on
\* when a recording is finished amid a call.
MicrophoneReleased ==
    Undisturbed => \A b \in Begins :
        tracks[b] => \/ Lost(b)
                     \/ /\ state.running /\ state.stream = b /\ ~state.stopping
                        /\ mounted => buttons.stop /\ ~buttons.start

\* A socket carries the audio of its own recording only, though the processor
\* of a context sends on whatever socket is current.
AudioIsOwn == Undisturbed => \A s \in Begins : carried[s] \subseteq {s}

\* A recording is reported once, whatever of stop, message, close and cleanup
\* comes first, and a success is the word of its own server.
ReportsAreTrue ==
    /\ \A i, j \in DOMAIN reports : reports[i].of = reports[j].of => i = j
    /\ Undisturbed => \A i \in DOMAIN reports :
           ~reports[i].failed => /\ reports[i].by = reports[i].of
                                 /\ "stopped" \in wire[reports[i].of].told

\* Who has clicked Stop can start again, or has left.
StopIsAnswered == state.stopping ~> (~state.stopping /\ buttons.start) \/ ~mounted
=============================================================================
