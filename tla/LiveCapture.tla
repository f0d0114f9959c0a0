----------------------------- MODULE LiveCapture -----------------------------
(***************************************************************************)
(* One live session: the websocket handler, its receiver task, the thread  *)
(* that stores a segment, the browser and the realtime provider.           *)
(*                                                                         *)
(* The handler and the receiver share one event loop, so what each does    *)
(* between two awaits is one step.  Audio is counted in chunks; a text is  *)
(* the number of the utterance it is of, 0 a blank one.  Chunks and events *)
(* wait in order until they are received.                                  *)
(***************************************************************************)
EXTENDS Naturals, Sequences, SequencesExt, LiveSocket

CONSTANTS
    MaxChunks,    \* what live_max_minutes allows
    Utterances,   \* bound on what the provider transcribes
    MaxEvents     \* bound on the events that wait to be received

ASSUME CaptureAssumption ==
    MaxChunks \in Nat /\ Utterances \in Nat /\ MaxEvents \in Nat

VARIABLES
    handler,      \* where live_websocket is
    reason,       \* why capturing ended
    session,      \* status of the live_sessions row, "none" before it exists
    heard,        \* chunks counted in audio_bytes
    pcm,          \* chunks in the PCM file
    receiver,     \* where _receive_from_elevenlabs is
    stopping,     \* stop_event
    parts,        \* texts of the live transcript
    lastPartial,  \* last_partial["text"]
    thread,       \* text the _store_segment thread is about to store, 0: none
    rows,         \* texts of the live_segments rows
    saved,        \* finalize_live_session: "no", "committed", "queued"
    browser,      \* "live", "stopped" (it sent stop), "gone"
    inbox,        \* what the browser sent and the handler has not received
    sock,         \* the server has not closed the websocket
    told,         \* message types the browser was sent
    shown,        \* texts the browser was sent as final
    upstream,     \* "none", "open", "dropped" by the provider, "closed"
    events,       \* what the provider sent and the receiver has not received
    spoken,       \* utterances the provider committed
    hinted        \* it sent a partial of the next one

server == <<handler, reason, session, heard, pcm>>
log == <<parts, lastPartial, rows, shown>>
provider == <<upstream, events, spoken, hinted>>
vars == <<server, receiver, stopping, log, thread, saved, browser, inbox, sock, told, provider>>

Init ==
    /\ handler = "start" /\ reason = "disconnect" /\ session = "none"
    /\ heard = 0 /\ pcm = 0
    /\ receiver = "none" /\ stopping = FALSE /\ thread = 0
    /\ parts = <<>> /\ lastPartial = 0 /\ rows = <<>> /\ shown = <<>>
    /\ saved = "no"
    /\ browser = "live" /\ inbox = <<>> /\ sock = TRUE /\ told = {}
    /\ upstream = "none" /\ events = <<>> /\ spoken = 0 /\ hinted = FALSE

\* Mutant of Tell: sending is not stopped by the close.
TellAnyway(type) == told' = IF browser # "gone" THEN told \cup {type} ELSE told

\* A send to the browser; the code ignores the exception when it is gone.
Tell(type) == told' = IF sock /\ browser # "gone" THEN told \cup {type} ELSE told

Goto(label) == handler' = label
----------------------------------------------------------------------------
(***************************************************************************)
(* The handler up to the audio loop.                                       *)
(***************************************************************************)

\* A bad ticket or a meeting of someone else closes the socket; otherwise the
\* session row is committed.
Open ==
    /\ handler = "start"
    /\ \/ Goto("refused") /\ sock' = FALSE /\ UNCHANGED session
       \/ Goto("accepting") /\ session' = "recording" /\ UNCHANGED sock
    /\ UNCHANGED <<reason, heard, pcm, receiver, stopping, log, thread, saved, browser, inbox,
                   told, provider>>

\* accept() and the first message are outside every try: when the browser has
\* left they may raise, and the handler is gone.
Accept ==
    /\ handler = "accepting"
    /\ \/ Goto("filing") /\ Tell("connecting")
       \/ browser = "gone" /\ Goto("died") /\ UNCHANGED told
    /\ UNCHANGED <<reason, session, heard, pcm, receiver, stopping, log, thread, saved, browser,
                   inbox, sock, provider>>

OpenFile ==
    /\ handler = "filing"
    /\ \/ Goto("dialing") /\ UNCHANGED <<session, sock, told>>
       \/ Goto("ended") /\ session' = "failed" /\ Tell("error") /\ sock' = FALSE
    /\ UNCHANGED <<reason, heard, pcm, receiver, stopping, log, thread, saved, browser, inbox,
                   provider>>

Dial ==
    /\ handler = "dialing"
    /\ \/ Goto("greeting") /\ upstream' = "open" /\ UNCHANGED <<reason, told>>
       \/ Goto("closing") /\ reason' = "error" /\ Tell("error") /\ UNCHANGED upstream
    /\ UNCHANGED <<session, heard, pcm, receiver, stopping, log, thread, saved, browser, inbox,
                   sock, events, spoken, hinted>>

\* The receiver starts after "ready" was sent, which may raise as well.
Greet ==
    /\ handler = "greeting"
    /\ \/ Goto("capturing") /\ Tell("ready") /\ receiver' = "receiving"
          /\ UNCHANGED <<reason, upstream>>
       \/ browser = "gone" /\ Goto("closing") /\ reason' = "error" /\ upstream' = "closed"
          /\ UNCHANGED <<told, receiver>>
    /\ UNCHANGED <<session, heard, pcm, stopping, log, thread, saved, browser, inbox, sock,
                   events, spoken, hinted>>

----------------------------------------------------------------------------
(***************************************************************************)
(* _receive_from_browser.                                                  *)
(***************************************************************************)
Receives(message) ==
    /\ handler = "capturing" /\ inbox # <<>> /\ Head(inbox) = message
    /\ inbox' = Tail(inbox)

\* Mutant of ReceiveChunk: the limit is looked at after the write.
WriteThenCheck ==
    /\ Receives("chunk")
    /\ heard' = heard + 1 /\ pcm' = pcm + 1
    /\ IF heard + 1 > MaxChunks THEN reason' = "too_large" /\ Goto("cancelling")
       ELSE UNCHANGED <<reason, handler>>
    /\ UNCHANGED <<session, receiver, stopping, log, thread, saved, browser, sock, told, provider>>

\* A chunk over the limit ends the session; another one is written to the file
\* and passed on, which raises when the provider has dropped the connection and
\* the drop was noticed.
ReceiveChunk ==
    /\ Receives("chunk")
    /\ heard' = heard + 1
    /\ \/ /\ heard + 1 > MaxChunks
          /\ Tell("error") /\ reason' = "too_large" /\ Goto("cancelling")
          /\ UNCHANGED pcm
       \/ /\ heard + 1 <= MaxChunks
          /\ pcm' = pcm + 1
          /\ \/ UNCHANGED <<reason, handler>>
             \/ upstream = "dropped" /\ reason' = "error" /\ Goto("cancelling")
          /\ UNCHANGED told
    /\ UNCHANGED <<session, receiver, stopping, log, thread, saved, browser, sock, provider>>

ReceiveStop ==
    /\ Receives("stop")
    /\ reason' = "stop" /\ stopping' = TRUE /\ Goto("tailing")
    /\ UNCHANGED <<session, heard, pcm, receiver, log, thread, saved, browser, sock, told,
                   provider>>

ReceiveDisconnect ==
    /\ Receives("disconnect")
    /\ reason' = "disconnect" /\ Goto("cancelling")
    /\ UNCHANGED <<session, heard, pcm, receiver, stopping, log, thread, saved, browser, sock,
                   told, provider>>

----------------------------------------------------------------------------
(***************************************************************************)
(* The handler after the audio loop.                                       *)
(***************************************************************************)

\* The tail asks the provider to commit; when that fails nobody waits.
SendTail ==
    /\ handler = "tailing"
    /\ \/ Goto("waiting")
       \/ upstream = "dropped" /\ Goto("cancelling")
    /\ UNCHANGED <<reason, session, heard, pcm, receiver, stopping, log, thread, saved, browser,
                   inbox, sock, told, provider>>

\* Mutant of WaitOver: wait_for without a timeout.
WaitForReceiver ==
    /\ handler = "waiting" /\ receiver = "done"
    /\ Goto("cancelling")
    /\ UNCHANGED <<reason, session, heard, pcm, receiver, stopping, log, thread, saved, browser,
                   inbox, sock, told, provider>>

\* The receiver returned, or 3.5 seconds have passed.
WaitOver ==
    /\ handler = "waiting"
    /\ Goto("cancelling")
    /\ UNCHANGED <<reason, session, heard, pcm, receiver, stopping, log, thread, saved, browser,
                   inbox, sock, told, provider>>

\* Mutant of CancelReceiver: the task is left running.
ForgetReceiver ==
    /\ handler = "cancelling"
    /\ Goto("closing")
    /\ UNCHANGED <<reason, session, heard, pcm, receiver, stopping, log, thread, saved, browser,
                   inbox, sock, told, provider>>

\* The receiver is cancelled at whatever it awaits; a thread it waits for goes
\* on.  Then the provider's connection is closed.
CancelReceiver ==
    /\ handler = "cancelling"
    /\ receiver' = "done" /\ upstream' = "closed" /\ Goto("closing")
    /\ UNCHANGED <<reason, session, heard, pcm, stopping, log, thread, saved, browser, inbox,
                   sock, told, events, spoken, hinted>>

\* Mutant of FailCapture: the row is forgotten.
CloseOnly ==
    /\ handler = "closing" /\ reason = "error"
    /\ sock' = FALSE /\ Goto("ended")
    /\ UNCHANGED <<reason, session, heard, pcm, receiver, stopping, log, thread, saved, browser,
                   inbox, told, provider>>

\* After an error the session is failed and the PCM file is removed.
FailCapture ==
    /\ handler = "closing" /\ reason = "error"
    /\ session' = "failed" /\ sock' = FALSE /\ Goto("ended")
    /\ UNCHANGED <<reason, heard, pcm, receiver, stopping, log, thread, saved, browser, inbox,
                   told, provider>>

\* Mutant of BeginFinalizing: a blank partial is taken as well.
TakeBlankPartial ==
    /\ handler = "closing" /\ reason # "error"
    /\ parts' = IF parts = <<>> THEN <<lastPartial>> ELSE parts
    /\ Tell("finalizing") /\ Goto("finalizing")
    /\ UNCHANGED <<reason, session, heard, pcm, receiver, stopping, lastPartial, rows, shown,
                   thread, saved, browser, inbox, sock, provider>>

\* Without committed text the last partial is the transcript.
BeginFinalizing ==
    /\ handler = "closing" /\ reason # "error"
    /\ parts' = IF parts = <<>> /\ lastPartial # 0 THEN <<lastPartial>> ELSE parts
    /\ Tell("finalizing") /\ Goto("finalizing")
    /\ UNCHANGED <<reason, session, heard, pcm, receiver, stopping, lastPartial, rows, shown,
                   thread, saved, browser, inbox, sock, provider>>

\* The handler's last step.
End(type, status) ==
    /\ Tell(type) /\ session' = status /\ sock' = FALSE /\ Goto("ended")
    /\ UNCHANGED <<reason, heard, pcm, receiver, stopping, log, thread, browser, inbox, provider>>

\* finalize_live_session without audio returns normally.
FinalizeSilence ==
    /\ handler = "finalizing" /\ heard = 0
    /\ End("stopped", "failed") /\ UNCHANGED saved

\* Its transaction with the recording and the transcript.
FinalizeCommit ==
    /\ handler = "finalizing" /\ heard > 0
    /\ session' = "finalizing" /\ saved' = "committed" /\ Goto("queueing")
    /\ UNCHANGED <<reason, heard, pcm, receiver, stopping, log, thread, browser, inbox, sock,
                   told, provider>>

FinalizeEnqueue ==
    /\ handler = "queueing"
    /\ saved' = "queued" /\ End("stopped", "finalizing")

\* Mutant of FinalizeRaises: the exception is swallowed.
FinalizeHidesError ==
    /\ handler \in {"finalizing", "queueing"} /\ heard > 0
    /\ End("stopped", "failed") /\ UNCHANGED saved

\* It marks the session failed and raises, before or after its commit.
FinalizeRaises ==
    /\ handler \in {"finalizing", "queueing"} /\ heard > 0
    /\ End("error", "failed") /\ UNCHANGED saved

HandlerStep ==
    \/ Open \/ Accept \/ OpenFile \/ Dial \/ Greet
    \/ ReceiveChunk \/ ReceiveStop \/ ReceiveDisconnect
    \/ SendTail \/ WaitOver \/ CancelReceiver
    \/ FailCapture \/ BeginFinalizing
    \/ FinalizeSilence \/ FinalizeCommit \/ FinalizeEnqueue \/ FinalizeRaises

----------------------------------------------------------------------------
(***************************************************************************)
(* _receive_from_elevenlabs, and the thread it stores a segment with.      *)
(***************************************************************************)
Event(kind, text) == [kind |-> kind, text |-> text]

receiverLeavesAlone == <<server, stopping, saved, browser, inbox, upstream, spoken, hinted>>

TakeEvent(kind) ==
    /\ receiver = "receiving" /\ events # <<>> /\ Head(events).kind = kind
    /\ events' = Tail(events)

ReceivePartial ==
    /\ TakeEvent("partial")
    /\ lastPartial' = Head(events).text
    /\ UNCHANGED <<receiverLeavesAlone, receiver, thread, parts, rows, shown, sock, told>>

\* A text that is not blank joins the transcript and goes to the thread.
Commit(kind) ==
    /\ TakeEvent(kind)
    /\ LET text == Head(events).text IN
       IF text = 0 THEN UNCHANGED <<parts, thread, receiver>>
       ELSE parts' = Append(parts, text) /\ thread' = text /\ receiver' = "storing"
    /\ UNCHANGED <<receiverLeavesAlone, lastPartial, rows, shown, sock, told>>

\* Mutant of ReceiveCopy: the copy counts as committed.
StoreCopy == Commit("timestamped")

\* The copy with timestamps is passed over.
ReceiveCopy ==
    /\ TakeEvent("timestamped")
    /\ UNCHANGED <<receiverLeavesAlone, receiver, log, thread, sock, told>>

\* The receiver reports an error and closes the browser's socket.
Abort == Tell("error") /\ sock' = FALSE /\ receiver' = "done"

\* It does so for an error event even while the handler is finishing.
ReceiveError ==
    /\ TakeEvent("error")
    /\ Abort
    /\ UNCHANGED <<receiverLeavesAlone, log, thread>>

\* An exception is an error too, unless the browser has asked to stop.
Raise ==
    IF stopping THEN receiver' = "done" /\ UNCHANGED <<told, sock>> ELSE Abort

ReceiveFails ==
    /\ receiver = "receiving" /\ events = <<>> /\ upstream = "dropped"
    /\ Raise
    /\ UNCHANGED <<receiverLeavesAlone, events, log, thread>>

\* _store_segment goes on when the receiver has been cancelled.
StoreSegment ==
    /\ thread # 0
    /\ rows' = Append(rows, thread) /\ thread' = 0
    /\ UNCHANGED <<receiverLeavesAlone, events, receiver, parts, lastPartial, shown, sock, told>>

StoreFails ==
    /\ thread # 0
    /\ thread' = 0
    /\ IF receiver = "storing" THEN Raise ELSE UNCHANGED <<receiver, told, sock>>
    /\ UNCHANGED <<receiverLeavesAlone, events, log>>

ShowFinal ==
    /\ receiver = "storing" /\ thread = 0
    /\ receiver' = "receiving"
    /\ shown' = IF sock /\ browser # "gone" THEN Append(shown, Last(parts)) ELSE shown
    /\ UNCHANGED <<receiverLeavesAlone, events, parts, lastPartial, rows, thread, sock, told>>

ReceiverStep ==
    \/ ReceivePartial \/ Commit("committed") \/ ReceiveCopy \/ ReceiveError \/ ReceiveFails
    \/ ShowFinal
----------------------------------------------------------------------------
(***************************************************************************)
(* The provider.  A partial is of the utterance that is committed next; an *)
(* utterance is committed with the text alone, or with its copy after it.  *)
(***************************************************************************)
Emit(es) ==
    /\ upstream = "open" /\ Len(events) + Len(es) <= MaxEvents
    /\ events' = events \o es

ProviderHints ==
    /\ ~hinted /\ spoken < Utterances
    /\ Emit(<<Event("partial", spoken + 1)>>) /\ hinted' = TRUE
    /\ UNCHANGED <<server, receiver, stopping, log, thread, saved, browser, inbox, sock, told,
                   upstream, spoken>>

ProviderCommits ==
    /\ spoken < Utterances
    /\ \E copies \in {<<>>, <<Event("timestamped", spoken + 1)>>} :
           Emit(<<Event("committed", spoken + 1)>> \o copies)
    /\ spoken' = spoken + 1 /\ hinted' = FALSE
    /\ UNCHANGED <<server, receiver, stopping, log, thread, saved, browser, inbox, sock, told,
                   upstream>>

ProviderHasNothing ==
    /\ \E kind \in {"committed", "error"} : Emit(<<Event(kind, 0)>>)
    /\ UNCHANGED <<server, receiver, stopping, log, thread, saved, browser, inbox, sock, told,
                   upstream, spoken, hinted>>

ProviderDrops ==
    /\ upstream = "open" /\ upstream' = "dropped"
    /\ UNCHANGED <<server, receiver, stopping, log, thread, saved, browser, inbox, sock, told,
                   events, spoken, hinted>>

ProviderStep == ProviderHints \/ ProviderCommits \/ ProviderHasNothing \/ ProviderDrops
----------------------------------------------------------------------------
(***************************************************************************)
(* The browser.  It sends once the socket is accepted, and may leave at    *)
(* any time.                                                               *)
(***************************************************************************)
Sends(message) ==
    /\ browser = "live" /\ sock /\ "connecting" \in told
    /\ inbox' = Append(inbox, message)
    /\ UNCHANGED <<server, receiver, stopping, log, thread, saved, sock, told, provider>>

\* One chunk more than the limit may be counted or wait.
SendChunk ==
    /\ heard + Len(inbox) <= MaxChunks
    /\ Sends("chunk") /\ UNCHANGED browser

SendStop == Sends("stop") /\ browser' = "stopped"

Departs ==
    /\ browser # "gone"
    /\ browser' = "gone" /\ inbox' = Append(inbox, "disconnect")
    /\ UNCHANGED <<server, receiver, stopping, log, thread, saved, sock, told, provider>>

Leave == sock /\ Departs

SeesClose == ~sock /\ Departs

BrowserStep == SendChunk \/ SendStop \/ Leave \/ SeesClose
----------------------------------------------------------------------------
Next == HandlerStep \/ ReceiverStep \/ StoreSegment \/ StoreFails \/ ProviderStep \/ BrowserStep

Spec == Init /\ [][Next]_vars

\* The event loop runs whoever can go on, the thread ends, and a browser that
\* is there notices that its socket was closed.
Fairness ==
    /\ WF_vars(HandlerStep) /\ WF_vars(ReceiverStep)
    /\ WF_vars(StoreSegment \/ StoreFails) /\ WF_vars(SeesClose)

FairSpec == Spec /\ Fairness
----------------------------------------------------------------------------
Over == {"refused", "died", "ended"}

HandlerTypes ==
    /\ handler \in Over \cup {"start", "accepting", "filing", "dialing", "greeting", "capturing",
                              "tailing", "waiting", "cancelling", "closing", "finalizing",
                              "queueing"}
    /\ reason \in {"disconnect", "stop", "too_large", "error"}
    /\ session \in {"none", "recording", "finalizing", "failed"}
    /\ heard \in Nat /\ pcm \in Nat /\ stopping \in BOOLEAN
    /\ saved \in {"no", "committed", "queued"}

LogTypes ==
    /\ receiver \in {"none", "receiving", "storing", "done"}
    /\ parts \in Seq(1..Utterances) /\ rows \in Seq(1..Utterances)
    /\ shown \in Seq(1..Utterances)
    /\ lastPartial \in 0..Utterances /\ thread \in 0..Utterances

BrowserTypes ==
    /\ browser \in {"live", "stopped", "gone"} /\ sock \in BOOLEAN
    /\ inbox \in Seq({"chunk", "stop", "disconnect"})
    /\ told \subseteq {"connecting", "ready", "finalizing", "stopped", "error"}

ProviderTypes ==
    /\ upstream \in {"none", "open", "dropped", "closed"}
    /\ events \in Seq([kind : {"partial", "committed", "timestamped", "error"},
                       text : 0..Utterances])
    /\ spoken \in 0..Utterances /\ hinted \in BOOLEAN

TypeOK == HandlerTypes /\ LogTypes /\ BrowserTypes /\ ProviderTypes

\* What was said is told once and in order, and in one order of places: the
\* browser shows as final only what has a row, a row is of a text the transcript
\* has, and the transcript misses nothing before what it has.
LogsAgree ==
    /\ IsPrefix(shown, rows) /\ IsPrefix(rows, parts)
    /\ \A i \in DOMAIN parts : parts[i] = i

\* The transcript and the segments are read after the receiver is gone: from
\* the moment finalizing starts they stay as they are, although the provider
\* may go on sending and a thread may still be storing.
TranscriptIsFrozen ==
    [][(handler \in {"finalizing", "queueing", "ended"}) => (parts' = parts)]_vars

\* The browser is told "stopped" only when the pipeline job was queued, or when
\* there was no audio to process; a failure on the way is told as an error.
StoppedMeansQueued == "stopped" \in told => saved = "queued" \/ heard = 0

\* A handler that returned left no session recording: it handed it to the
\* pipeline or failed it, whoever of browser, provider and storage ended it.
EndedIsResolved ==
    handler = "ended" =>
        \/ session = "finalizing" /\ saved = "queued"
        \/ session = "failed"

\* The file never holds more audio than the limit, and holds all that was
\* counted unless the limit was hit.
AudioWithinLimit ==
    /\ pcm <= MaxChunks
    /\ heard # pcm => reason = "too_large"

\* The browser sees a server that keeps LiveSocket, although handler and receiver
\* both send and close: LiveClient is checked against no more than that.
ServerEnd == [open |-> sock, told |-> told \cap Words]

SocketContract ==
    ServerEnd = NewWire /\ [][ServerEnd' \in Moves(ServerEnd)]_ServerEnd

\* Once the browser has asked to stop or has left, the handler returns: no
\* silence of the provider and no lost connection keeps it waiting.
CaptureEnds == (browser # "live" /\ handler # "start") ~> handler \in Over

----------------------------------------------------------------------------
(***************************************************************************)
(* What the theorems rest on.                                              *)
(***************************************************************************)

\* The receiver lives between "ready" and the end of the connection to the
\* provider; audio is counted as it is written until the limit is hit.
Phases ==
    /\ handler \in {"start", "accepting", "filing", "dialing", "greeting"} => receiver = "none"
    /\ handler \in {"closing", "finalizing", "queueing", "ended"} => receiver \in {"none", "done"}
    /\ handler \in {"start", "accepting", "filing", "dialing", "greeting", "capturing"} =>
           heard = pcm
    /\ "stopped" \in told => handler = "ended"

Counts(s) == \A i \in 1..Len(s) : s[i] = i

Visible == sock /\ browser # "gone"

\* Transcript, rows and what the browser saw count the utterances, and how far
\* each has come is told by where the receiver is.
LogsCount ==
    /\ Counts(parts) /\ Counts(rows) /\ Counts(shown)
    /\ Len(shown) <= Len(rows) /\ Len(rows) <= Len(parts)
    /\ thread # 0 => thread = Len(parts) /\ thread = Len(rows) + 1
    /\ receiver = "none" => parts = <<>> /\ lastPartial = 0
    /\ receiver \in {"none", "receiving"} =>
           thread = 0 /\ Len(rows) = Len(parts) /\ (Visible => Len(shown) = Len(parts))
    /\ receiver = "storing" =>
           /\ parts # <<>>
           /\ thread = 0 => Len(rows) = Len(parts)
           /\ Visible => Len(shown) = Len(parts) - 1

Said(event) == event.kind = "committed" /\ event.text # 0

\* What waits to be received: every utterance the transcript does not have yet,
NothingLost ==
    /\ Len(parts) <= spoken
    /\ \A i \in 1..Len(events) : Said(events[i]) => events[i].text \in Len(parts) + 1 .. spoken
    /\ \A u \in Len(parts) + 1 .. spoken :
           \E i \in 1..Len(events) : Said(events[i]) /\ events[i].text = u

\* in order,
InOrder ==
    \A i, j \in 1..Len(events) :
        i < j /\ Said(events[i]) /\ Said(events[j]) => events[i].text < events[j].text

\* and each partial after what it follows and not after the utterance it is of.
HintsAhead ==
    /\ lastPartial <= Len(parts) + 1
    /\ \A i \in 1..Len(events) : events[i].kind = "partial" =>
           /\ events[i].text <= spoken + 1
           /\ \A j \in 1..Len(events) : Said(events[j]) =>
                  IF j < i THEN events[j].text < events[i].text
                  ELSE events[j].text >= events[i].text

EventsFollow == receiver # "done" => NothingLost /\ InOrder /\ HintsAhead

\* The transcript that finalizing may make of the last partial.
FirstPartial == parts = <<>> => lastPartial \in {0, 1}

\* The strengthening of LogsAgree that every step keeps.
CaptureInv == Phases /\ LogsCount /\ EventsFollow /\ FirstPartial
----------------------------------------------------------------------------
\* "The live connection ended with an error. Any audio that reached the server
\* was saved." (frontend/app.py:294): audio that is in the file is finalized,
\* whatever ended the session.
ReceivedAudioIsFinalized == handler = "ended" /\ pcm > 0 => reason # "error"
=============================================================================
