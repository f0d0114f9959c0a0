--------------------------- MODULE LiveClientProofs ---------------------------
(***************************************************************************)
(* Theorems about LiveClient, for any number of calls of begin.            *)
(***************************************************************************)
EXTENDS LiveClient, FiniteSetTheorems, TLAPS

Reports == [of : 0..MaxBegins, by : 0..MaxBegins, failed : BOOLEAN, amid : BOOLEAN]

ReadyStates == {"none", "connecting", "open", "closing", "closed"}

\* TypeOK, without the bound on the reports.
Typed ==
    /\ state \in [ws : 0..MaxBegins, stream : 0..MaxBegins, ctx : 0..MaxBegins,
                  running : BOOLEAN, stopping : BOOLEAN, finished : BOOLEAN]
    /\ buttons \in [start : BOOLEAN, stop : BOOLEAN] /\ mounted \in BOOLEAN
    /\ at \in [Begins -> {"none", "asking", "resuming", "over"}]
    /\ tracks \in [Begins -> BOOLEAN] /\ graph \in [Begins -> BOOLEAN]
    /\ sock \in [Begins -> ReadyStates]
    /\ wire \in [Begins -> Wire]
    /\ asked \subseteq Begins /\ carried \in [Begins -> SUBSET Begins]
    /\ current \in 0..MaxBegins
    /\ reports \in Seq(Reports)

\* A recording was started before it is reported, and is reported before it
\* counts as finished.
Begun(b) == at[b] \notin {"none", "asking"}

Reporting ==
    /\ \A i \in DOMAIN reports : reports[i].of # 0 /\ Begun(reports[i].of)
    /\ \A i, j \in DOMAIN reports : reports[i].of = reports[j].of => i = j
    /\ ~state.finished => \A i \in DOMAIN reports : reports[i].of # current
    /\ current = 0 => ~state.running /\ \A s \in Begins : sock[s] = "none"
    /\ current # 0 => Begun(current)

\* While nothing is finished amid a call of begin: only one call is suspended,
\* and the buttons tell where it is.
Calls ==
    /\ \A b, c \in Begins : Suspended(b) /\ Suspended(c) => b = c
    /\ \A b \in Begins : Suspended(b) => ~buttons.start
    /\ \A b \in Begins : at[b] = "asking" => ~state.running /\ buttons.stop
    /\ \A b \in Begins : at[b] = "resuming" => state.running /\ current = b

\* What the page refers to is of the recording that was started last.
Recording ==
    /\ state.running => ~state.finished /\ ~buttons.start
    /\ state.running /\ ~state.stopping => buttons.stop
    /\ ~state.running => ~state.stopping /\ state.ws = 0 /\ state.stream = 0 /\ state.ctx = 0
    /\ state.ws \in {0, current} /\ state.stream \in {0, current}
    /\ state.ctx \in {0, current}

\* What works is what the page refers to, but for lost streams.  A call that
\* waits for its stream has no socket yet.
Devices ==
    /\ \A b \in Begins : tracks[b] => Lost(b) \/ (state.stream = b /\ ~state.stopping)
    /\ \A b \in Begins : sock[b] # "none" => Begun(b)
    /\ \A b \in Begins : graph[b] => state.ctx = b
    /\ \A s \in Begins : sock[s] \in {"connecting", "open"} => state.ws = s
    /\ \A s \in Begins : carried[s] \subseteq {s}

Successes ==
    \A i \in DOMAIN reports :
        ~reports[i].failed => /\ reports[i].by = reports[i].of
                              /\ "stopped" \in wire[reports[i].of].told

Own == Calls /\ Recording /\ Devices /\ Successes

\* The inductive invariant.
Inv == Typed /\ Reporting /\ (Undisturbed => Own)
----------------------------------------------------------------------------
(***************************************************************************)
(* Types.                                                                  *)
(***************************************************************************)
LEMMA BeginsTyped ==
    /\ Begins = 1..MaxBegins /\ 0..MaxBegins = Begins \cup {0} /\ 0 \notin Begins
    /\ Begins \subseteq 0..MaxBegins /\ 0 \in 0..MaxBegins
BY ClientAssumption DEF Begins

LEMMA IdleTyped ==
    ASSUME NEW finished \in BOOLEAN
    PROVE  [Idle EXCEPT !.finished = finished]
             \in [ws : 0..MaxBegins, stream : 0..MaxBegins, ctx : 0..MaxBegins,
                  running : BOOLEAN, stopping : BOOLEAN, finished : BOOLEAN]
BY BeginsTyped DEF Idle

LEMMA HungUpTyped ==
    ASSUME NEW sockets \in [Begins -> ReadyStates], NEW s
    PROVE  HungUp(sockets, s) \in [Begins -> ReadyStates]
BY DEF HungUp, ReadyStates

LEMMA StopCaptureTyped ==
    ASSUME Typed, NEW ended, StopCapture(ended)
    PROVE  tracks' \in [Begins -> BOOLEAN] /\ graph' \in [Begins -> BOOLEAN]
BY DEF Typed, StopCapture, Without

LEMMA FinishTyped ==
    ASSUME Typed, NEW failed \in BOOLEAN, NEW by \in 0..MaxBegins,
           NEW sockets \in [Begins -> ReadyStates], NEW ended,
           Finish(failed, by, sockets, ended)
    PROVE  /\ state' \in [ws : 0..MaxBegins, stream : 0..MaxBegins, ctx : 0..MaxBegins,
                          running : BOOLEAN, stopping : BOOLEAN, finished : BOOLEAN]
           /\ buttons' \in [start : BOOLEAN, stop : BOOLEAN]
           /\ tracks' \in [Begins -> BOOLEAN] /\ graph' \in [Begins -> BOOLEAN]
           /\ sock' \in [Begins -> ReadyStates]
           /\ reports' \in Seq(Reports)
<1>1. CASE state.finished
  BY <1>1 DEF Typed, Finish, Without
<1>2. CASE ~state.finished
  <2>1. tracks' \in [Begins -> BOOLEAN] /\ graph' \in [Begins -> BOOLEAN]
    BY <1>2, StopCaptureTyped DEF Finish
  <2>2. sock' \in [Begins -> ReadyStates]
    BY <1>2, HungUpTyped DEF Finish
  <2>3. Report(by, failed) \in Reports
    BY DEF Report, Reports, Typed
  <2>4. /\ state' = [Idle EXCEPT !.finished = TRUE] /\ buttons' = Fresh
        /\ reports' = Append(reports, Report(by, failed))
    BY <1>2 DEF Finish
  <2>5. reports \in Seq(Reports)
    BY DEF Typed
  <2>6. reports' \in Seq(Reports)
    BY <2>3, <2>4, <2>5
  <2>7. Fresh \in [start : BOOLEAN, stop : BOOLEAN]
    BY DEF Fresh
  <2> QED
    BY <2>1, <2>2, <2>4, <2>6, <2>7, IdleTyped
<1> QED
  BY <1>1, <1>2

\* Either branch of Stop.
LEMMA StopTyped ==
    ASSUME Typed, NEW ended, Stop(ended), UNCHANGED <<mounted, at, wire, carried, current>>
    PROVE  Typed'
<1>1. CASE \E b \in Begins : b = state.ws /\ sock[b] = "open"
  <2>1. tracks' \in [Begins -> BOOLEAN] /\ graph' \in [Begins -> BOOLEAN]
    BY <1>1, StopCaptureTyped DEF Stop
  <2>2. state' = [state EXCEPT !.stopping = TRUE, !.stream = 0, !.ctx = 0]
    BY <1>1 DEF Stop
  <2>3. state' \in [ws : 0..MaxBegins, stream : 0..MaxBegins, ctx : 0..MaxBegins,
                    running : BOOLEAN, stopping : BOOLEAN, finished : BOOLEAN]
    BY <2>2, BeginsTyped DEF Typed
  <2>4. buttons' \in [start : BOOLEAN, stop : BOOLEAN]
    BY <1>1 DEF Stop, Typed
  <2>5. asked' \subseteq Begins /\ UNCHANGED <<sock, reports>>
    BY <1>1 DEF Stop, Typed
  <2> QED
    BY <2>1, <2>3, <2>4, <2>5 DEF Typed
<1>2. CASE ~\E b \in Begins : b = state.ws /\ sock[b] = "open"
  <2>1. Finish(TRUE, 0, sock, ended) /\ UNCHANGED asked
    BY <1>2 DEF Stop
  <2>2. sock \in [Begins -> ReadyStates] /\ 0 \in 0..MaxBegins
    BY BeginsTyped DEF Typed
  <2> QED
    BY <2>1, <2>2, FinishTyped DEF Typed
<1> QED
  BY <1>1, <1>2

LEMMA TypedInit == Init => Typed
<1> SUFFICES ASSUME Init PROVE Typed
  OBVIOUS
<1>1. state \in [ws : 0..MaxBegins, stream : 0..MaxBegins, ctx : 0..MaxBegins,
                 running : BOOLEAN, stopping : BOOLEAN, finished : BOOLEAN]
  BY BeginsTyped DEF Init, Idle
<1>2. NewWire \in Wire
  BY DEF NewWire, Wire
<1> QED
  BY <1>1, <1>2, BeginsTyped DEF Init, Typed, Fresh, ReadyStates

LEMMA MovesTyped ==
    ASSUME NEW w \in Wire
    PROVE  Talks(w) \subseteq Wire /\ Ends(w) \subseteq Wire
<1>1. \A v \in Wire, word \in Words : Says(v, word) \in Wire
  BY DEF Says, Wire
<1>2. \A v \in Wire : Closed(v) \in Wire
  BY DEF Closed, Wire
<1>3. {"connecting", "finalizing", "stopped"} = Words
  BY DEF Words
<1>4. Says(w, "connecting") \in Wire /\ Says(w, "finalizing") \in Wire
      /\ Says(w, "stopped") \in Wire
  BY <1>1, <1>3
<1>5. Talks(w) \subseteq Wire
  BY <1>4 DEF Talks
<1>6. Ends(w) \subseteq Wire
  BY <1>2, <1>4 DEF Ends
<1> QED
  BY <1>5, <1>6

LEMMA TypedStep == Typed /\ [Next]_vars => Typed'
<1> SUFFICES ASSUME Typed, [Next]_vars PROVE Typed'
  OBVIOUS
<1>1. ASSUME NEW b \in Begins, Begin(b) PROVE Typed'
  BY <1>1 DEF Begin, Goto, Typed, audio, net
<1>2. ASSUME NEW b \in Begins, Granted(b) PROVE Typed'
  <2>1. state' = [state EXCEPT !.ws = b, !.stream = b, !.running = TRUE, !.stopping = FALSE,
                               !.finished = FALSE]
    BY <1>2 DEF Granted
  <2>2. state' \in [ws : 0..MaxBegins, stream : 0..MaxBegins, ctx : 0..MaxBegins,
                    running : BOOLEAN, stopping : BOOLEAN, finished : BOOLEAN]
    BY <2>1, BeginsTyped DEF Typed
  <2>3. sock' \in [Begins -> ReadyStates] /\ tracks' \in [Begins -> BOOLEAN]
    BY <1>2 DEF Granted, Typed, ReadyStates
  <2>4. at' \in [Begins -> {"none", "asking", "resuming", "over"}]
    BY <1>2 DEF Granted, Typed, Goto
  <2>5. current' \in 0..MaxBegins
    BY <1>2, BeginsTyped DEF Granted
  <2> QED
    BY <1>2, <2>2, <2>3, <2>4, <2>5 DEF Granted, Typed
<1>3. ASSUME NEW b \in Begins, Resumed(b) PROVE Typed'
  <2>1. state' = [state EXCEPT !.ctx = b]
    BY <1>3 DEF Resumed
  <2>2. state' \in [ws : 0..MaxBegins, stream : 0..MaxBegins, ctx : 0..MaxBegins,
                    running : BOOLEAN, stopping : BOOLEAN, finished : BOOLEAN]
    BY <2>1, BeginsTyped DEF Typed
  <2> QED
    BY <1>3, <2>2 DEF Resumed, Typed, Goto, net
<1>4. ASSUME NEW b \in Begins, Raises(b) PROVE Typed'
  <2>1. tracks' \in [Begins -> BOOLEAN] /\ graph' \in [Begins -> BOOLEAN]
    BY <1>4, StopCaptureTyped DEF Raises
  <2>2. sock' \in [Begins -> ReadyStates]
    BY <1>4, HungUpTyped DEF Raises, Typed
  <2>3. state' = [Idle EXCEPT !.finished = state.finished] /\ state.finished \in BOOLEAN
    BY <1>4 DEF Raises, Typed
  <2>4. at' \in [Begins -> {"none", "asking", "resuming", "over"}]
    BY <1>4 DEF Raises, Typed, Goto
  <2>5. buttons' \in [start : BOOLEAN, stop : BOOLEAN]
    BY <1>4 DEF Raises, Fresh
  <2> QED
    BY <1>4, <2>1, <2>2, <2>3, <2>4, <2>5, IdleTyped DEF Raises, Typed
<1>14. ASSUME NEW b \in Begins, SocketThrows(b) PROVE Typed'
  <2>1. tracks' \in [Begins -> BOOLEAN] /\ graph' \in [Begins -> BOOLEAN]
    BY <1>14 DEF SocketThrows, Typed, Without
  <2>2. sock' \in [Begins -> ReadyStates]
    BY <1>14, HungUpTyped DEF SocketThrows, Typed
  <2>3. state' = [Idle EXCEPT !.finished = state.finished] /\ state.finished \in BOOLEAN
    BY <1>14 DEF SocketThrows, Typed
  <2>4. at' \in [Begins -> {"none", "asking", "resuming", "over"}]
    BY <1>14 DEF SocketThrows, Typed, Goto
  <2>5. buttons' \in [start : BOOLEAN, stop : BOOLEAN]
    BY <1>14 DEF SocketThrows, Fresh
  <2> QED
    BY <1>14, <2>1, <2>2, <2>3, <2>4, <2>5, IdleTyped DEF SocketThrows, Typed
<1>5. ASSUME NEW b \in Begins, TrackEnds(b) PROVE Typed'
  <2>1. CASE Stop({b})
    BY <1>5, <2>1, StopTyped DEF TrackEnds
  <2>2. CASE ~Stop({b})
    BY <1>5, <2>2 DEF TrackEnds, Typed, Without
  <2> QED
    BY <2>1, <2>2
<1>6. ASSUME NEW b \in Begins, SendAudio(b) PROVE Typed'
  BY <1>6 DEF SendAudio, Typed, page, audio
<1>7. CASE ClickStop
  BY <1>7, StopTyped DEF ClickStop
<1>8. CASE Leave
  <2>1. tracks' \in [Begins -> BOOLEAN] /\ graph' \in [Begins -> BOOLEAN]
    BY <1>8, StopCaptureTyped DEF Leave
  <2>2. sock' \in [Begins -> ReadyStates]
    BY <1>8, HungUpTyped DEF Leave, Typed
  <2>3. state' = [state EXCEPT !.ws = 0, !.stream = 0, !.ctx = 0]
    BY <1>8 DEF Leave
  <2>4. state' \in [ws : 0..MaxBegins, stream : 0..MaxBegins, ctx : 0..MaxBegins,
                    running : BOOLEAN, stopping : BOOLEAN, finished : BOOLEAN]
    BY <2>3, BeginsTyped DEF Typed
  <2>5. mounted' \in BOOLEAN /\ asked' \subseteq Begins
    BY <1>8 DEF Leave, Typed
  <2> QED
    BY <1>8, <2>1, <2>2, <2>4, <2>5 DEF Leave, Typed
<1>9. ASSUME NEW s \in Begins, Opens(s) PROVE Typed'
  BY <1>9 DEF Opens, Typed, page, audio, ReadyStates
<1>10. ASSUME NEW s \in Begins, HearStopped(s) PROVE Typed'
  <2>1. HungUp(sock, s) \in [Begins -> ReadyStates] /\ s \in 0..MaxBegins
    BY HungUpTyped, BeginsTyped DEF Typed
  <2>2. Finish(FALSE, s, HungUp(sock, s), {})
    BY <1>10 DEF HearStopped
  <2> QED
    BY <1>10, <2>1, <2>2, FinishTyped DEF HearStopped, Typed
<1>11. ASSUME NEW s \in Begins, OnClose(s) PROVE Typed'
  <2>1. [sock EXCEPT ![s] = "closed"] \in [Begins -> ReadyStates] /\ s \in 0..MaxBegins
    BY BeginsTyped DEF Typed, ReadyStates
  <2>2. Finish(TRUE, s, [sock EXCEPT ![s] = "closed"], {})
    BY <1>11 DEF OnClose
  <2> QED
    BY <1>11, <2>1, <2>2, FinishTyped DEF OnClose, Typed
<1>12. ASSUME NEW s \in Begins, ServerTalks(s) \/ ServerEnds(s) PROVE Typed'
  <2>1. wire[s] \in Wire
    BY DEF Typed
  <2>2. wire' \in [Begins -> Wire]
    BY <1>12, <2>1, MovesTyped DEF ServerTalks, ServerEnds, ServerMoves, Typed
  <2> QED
    BY <1>12, <2>2 DEF ServerTalks, ServerEnds, ServerMoves, Typed, page, audio
<1>13. CASE UNCHANGED vars
  BY <1>13 DEF vars, page, audio, net, Typed
<1> QED
  BY <1>1, <1>2, <1>3, <1>4, <1>5, <1>6, <1>7, <1>8, <1>9, <1>10, <1>11, <1>12, <1>13,
     <1>14
     DEF Next, BeginStep, Closes, Drops
----------------------------------------------------------------------------
(***************************************************************************)
(* Reports.                                                                *)
(***************************************************************************)

LEMMA CountedTo ==
    ASSUME NEW n \in Nat
    PROVE  Cardinality(1..n) = n
BY FS_Interval

\* Every report is of another call of begin.
LEMMA ReportsFit == Typed /\ Reporting => Len(reports) <= MaxBegins
<1> SUFFICES ASSUME Typed, Reporting PROVE Len(reports) <= MaxBegins
  OBVIOUS
<1> DEFINE of == [i \in 1..Len(reports) |-> reports[i].of]
<1>1. reports \in Seq(Reports) /\ DOMAIN reports = 1..Len(reports) /\ Len(reports) \in Nat
  BY DEF Typed
<1>2. \A i \in 1..Len(reports) : reports[i].of \in 1..MaxBegins
  <2>1. \A i \in 1..Len(reports) : reports[i] \in Reports /\ reports[i].of # 0
    BY <1>1 DEF Reporting
  <2> QED
    BY <2>1, ClientAssumption DEF Reports
<1>3. of \in Injection(1..Len(reports), 1..MaxBegins)
  <2>1. of \in [1..Len(reports) -> 1..MaxBegins]
    BY <1>2
  <2>2. \A i, j \in 1..Len(reports) : of[i] = of[j] => i = j
    BY <1>1 DEF Reporting
  <2> QED
    BY <2>1, <2>2 DEF Injection, IsInjective
<1>4. IsFiniteSet(1..MaxBegins) /\ Cardinality(1..MaxBegins) = MaxBegins
  BY FS_Interval, ClientAssumption
<1>5. Cardinality(1..Len(reports)) = Len(reports)
  BY <1>1, CountedTo
<1>6. Cardinality(1..Len(reports)) <= Cardinality(1..MaxBegins)
  BY <1>3, <1>4, FS_Injection
<1> QED
  BY <1>4, <1>5, <1>6

LEMMA FinishReporting ==
    ASSUME Typed, Reporting, current # 0, NEW failed, NEW by, NEW sockets, NEW ended,
           Finish(failed, by, sockets, ended), UNCHANGED <<at, current>>
    PROVE  Reporting'
<1>1. CASE state.finished
  BY <1>1 DEF Finish, Reporting, Begun
<1>2. CASE ~state.finished
  <2>1. reports' = Append(reports, Report(by, failed)) /\ state'.finished
    BY <1>2 DEF Finish, Idle
  <2>2. reports \in Seq(Reports)
    BY DEF Typed
  <2>3. /\ DOMAIN reports' = DOMAIN reports \cup {Len(reports) + 1}
        /\ \A i \in DOMAIN reports : reports'[i] = reports[i]
        /\ reports'[Len(reports) + 1] = Report(by, failed)
    BY <2>1, <2>2
  <2>4. Report(by, failed).of = current
    BY DEF Report
  <2>5. \A i \in DOMAIN reports : reports[i].of # current
    BY <1>2 DEF Reporting
  <2>6. Begun(current)
    BY DEF Reporting
  <2>7. \A i \in DOMAIN reports' :
            reports'[i].of # 0 /\ at'[reports'[i].of] \notin {"none", "asking"}
    <3>1. \A i \in DOMAIN reports : reports'[i].of # 0 /\ Begun(reports'[i].of)
      BY <2>3 DEF Reporting
    <3>2. \A i \in DOMAIN reports' : reports'[i].of # 0 /\ Begun(reports'[i].of)
      BY <2>3, <2>4, <2>6, <3>1
    <3> QED
      BY <3>2 DEF Begun
  <2>8. \A i, j \in DOMAIN reports' : reports'[i].of = reports'[j].of => i = j
    BY <2>3, <2>4, <2>5 DEF Reporting
  <2> QED
    BY <2>1, <2>6, <2>7, <2>8 DEF Reporting, Begun
<1> QED
  BY <1>1, <1>2

\* A step that reports nothing and starts no recording.
LEMMA QuietReporting ==
    ASSUME Reporting, UNCHANGED <<reports, current>>,
           \A b \in Begins : Begun(b) => at'[b] \notin {"none", "asking"},
           ~state'.finished => ~state.finished, Typed,
           current = 0 => ~state'.running /\ \A s \in Begins : sock'[s] = "none"
    PROVE  Reporting'
<1>1. \A i \in DOMAIN reports : reports[i].of \in Begins
  <2>1. \A i \in DOMAIN reports : reports[i] \in Reports /\ reports[i].of # 0
    BY DEF Typed, Reporting
  <2> QED
    BY <2>1, BeginsTyped DEF Reports
<1>2. current # 0 => current \in Begins
  BY BeginsTyped DEF Typed
<1> QED
  BY <1>1, <1>2 DEF Reporting, Begun

LEMMA StopReporting ==
    ASSUME Typed, Reporting, NEW ended, Stop(ended), UNCHANGED <<at, current>>
    PROVE  Reporting'
<1>1. current # 0
  BY DEF Stop, Reporting
<1>2. CASE \E b \in Begins : b = state.ws /\ sock[b] = "open"
  <2>1. state' = [state EXCEPT !.stopping = TRUE, !.stream = 0, !.ctx = 0]
    BY <1>2 DEF Stop
  <2>2. state'.finished = state.finished
    BY <2>1 DEF Typed
  <2>3. UNCHANGED reports
    BY <1>2 DEF Stop
  <2> QED
    BY <1>1, <2>2, <2>3, QuietReporting DEF Begun
<1>3. CASE ~\E b \in Begins : b = state.ws /\ sock[b] = "open"
  <2>1. Finish(TRUE, 0, sock, ended)
    BY <1>3 DEF Stop
  <2> QED
    BY <1>1, <2>1, FinishReporting
<1> QED
  BY <1>2, <1>3

LEMMA ReportingInit == Init => Reporting
BY DEF Init, Reporting, Idle

LEMMA ReportingStep == Typed /\ Reporting /\ [Next]_vars => Reporting'
<1> SUFFICES ASSUME Typed, Reporting, [Next]_vars PROVE Reporting'
  OBVIOUS
<1>0. \A s \in Begins : sock[s] # "none" => current # 0
  BY DEF Reporting
<1>1. ASSUME NEW b \in Begins, Begin(b) PROVE Reporting'
  <2>1. \A c \in Begins : Begun(c) => at'[c] \notin {"none", "asking"}
    BY <1>1 DEF Begin, Goto, Begun, Typed
  <2> QED
    BY <1>1, <2>1, QuietReporting DEF Begin, Reporting, net
<1>2. ASSUME NEW b \in Begins, Granted(b) PROVE Reporting'
  <2>1. reports' = reports /\ current' = b /\ b # 0 /\ at[b] = "asking"
    BY <1>2, BeginsTyped DEF Granted
  <2>2. at'[b] = "resuming" /\ \A c \in Begins : c # b => at'[c] = at[c]
    BY <1>2 DEF Granted, Goto, Typed
  <2>3. \A i \in DOMAIN reports : reports[i].of # b
    BY <2>1 DEF Reporting, Begun
  <2>4. \A i \in DOMAIN reports : reports[i].of \in Begins
    <3>1. \A i \in DOMAIN reports : reports[i] \in Reports /\ reports[i].of # 0
      BY DEF Typed, Reporting
    <3> QED
      BY <3>1, BeginsTyped DEF Reports
  <2> QED
    BY <2>1, <2>2, <2>3, <2>4 DEF Reporting, Begun
<1>3. ASSUME NEW b \in Begins, Resumed(b) PROVE Reporting'
  <2>1. state' = [state EXCEPT !.ctx = b]
    BY <1>3 DEF Resumed
  <2>2. state'.finished = state.finished /\ state'.running = state.running
    BY <2>1 DEF Typed
  <2>3. \A c \in Begins : Begun(c) => at'[c] \notin {"none", "asking"}
    BY <1>3 DEF Resumed, Goto, Begun, Typed
  <2> QED
    BY <1>3, <2>2, <2>3, QuietReporting DEF Resumed, Reporting, net
<1>4. ASSUME NEW b \in Begins, Raises(b) PROVE Reporting'
  <2>1. state' = [Idle EXCEPT !.finished = state.finished]
    BY <1>4 DEF Raises
  <2>2. state'.finished = state.finished /\ ~state'.running
    BY <2>1 DEF Idle
  <2>3. \A c \in Begins : Begun(c) => at'[c] \notin {"none", "asking"}
    BY <1>4 DEF Raises, Goto, Begun, Typed
  <2>4. (\A s \in Begins : sock[s] = "none") => \A s \in Begins : sock'[s] = "none"
    BY <1>4 DEF Raises, HungUp
  <2> QED
    BY <1>4, <2>2, <2>3, <2>4, QuietReporting DEF Raises, Reporting
<1>14. ASSUME NEW b \in Begins, SocketThrows(b) PROVE Reporting'
  <2>1. state' = [Idle EXCEPT !.finished = state.finished]
    BY <1>14 DEF SocketThrows
  <2>2. state'.finished = state.finished /\ ~state'.running
    BY <2>1 DEF Idle
  <2>3. \A c \in Begins : Begun(c) => at'[c] \notin {"none", "asking"}
    BY <1>14 DEF SocketThrows, Goto, Begun, Typed
  <2>4. (\A s \in Begins : sock[s] = "none") => \A s \in Begins : sock'[s] = "none"
    BY <1>14 DEF SocketThrows, HungUp
  <2> QED
    BY <1>14, <2>2, <2>3, <2>4, QuietReporting DEF SocketThrows, Reporting
<1>5. ASSUME NEW b \in Begins, TrackEnds(b) PROVE Reporting'
  <2>1. CASE Stop({b})
    BY <1>5, <2>1, StopReporting DEF TrackEnds
  <2>2. CASE ~Stop({b})
    BY <1>5, <2>2 DEF TrackEnds, Reporting, Begun
  <2> QED
    BY <2>1, <2>2
<1>6. ASSUME NEW b \in Begins, SendAudio(b) PROVE Reporting'
  BY <1>6 DEF SendAudio, Reporting, Begun, page, audio
<1>7. CASE ClickStop
  BY <1>7, StopReporting DEF ClickStop
<1>8. CASE Leave
  <2>1. state' = [state EXCEPT !.ws = 0, !.stream = 0, !.ctx = 0]
    BY <1>8 DEF Leave
  <2>2. state'.finished = state.finished /\ state'.running = state.running
    BY <2>1 DEF Typed
  <2>3. (\A s \in Begins : sock[s] = "none") => \A s \in Begins : sock'[s] = "none"
    BY <1>8 DEF Leave, HungUp
  <2> QED
    BY <1>8, <2>2, <2>3, QuietReporting DEF Leave, Reporting, Begun
<1>9. ASSUME NEW s \in Begins, Opens(s) PROVE Reporting'
  <2>1. current # 0
    BY <1>0, <1>9 DEF Opens
  <2> QED
    BY <1>9, <2>1 DEF Opens, Reporting, Begun, page, audio
<1>10. ASSUME NEW s \in Begins, HearStopped(s) PROVE Reporting'
  <2>1. current # 0
    BY <1>0, <1>10 DEF HearStopped
  <2> QED
    BY <1>10, <2>1, FinishReporting DEF HearStopped
<1>11. ASSUME NEW s \in Begins, Closes(s) \/ Drops(s) PROVE Reporting'
  <2>1. current # 0
    BY <1>0, <1>11 DEF Closes, Drops
  <2> QED
    BY <1>11, <2>1, FinishReporting DEF Closes, Drops, OnClose
<1>12. ASSUME NEW s \in Begins, ServerTalks(s) \/ ServerEnds(s) PROVE Reporting'
  BY <1>12 DEF ServerTalks, ServerEnds, ServerMoves, Reporting, Begun, page, audio
<1>13. CASE UNCHANGED vars
  BY <1>13 DEF vars, page, audio, net, Reporting, Begun
<1> QED
  BY <1>1, <1>2, <1>3, <1>4, <1>5, <1>6, <1>7, <1>8, <1>9, <1>10, <1>11, <1>12, <1>13,
     <1>14
     DEF Next, BeginStep

\* TypeOK: the bound on the reports says that no recording of the browser is
\* reported more often than begin was called.
THEOREM ClientTyped == Spec => []TypeOK
<1>1. Init => Typed /\ Reporting
  BY TypedInit, ReportingInit
<1>2. Typed /\ Reporting /\ [Next]_vars => (Typed /\ Reporting)'
  BY TypedStep, ReportingStep
<1>3. Typed /\ Reporting => TypeOK
  BY ReportsFit DEF Typed, TypeOK, Reports, ReadyStates
<1> QED
  BY <1>1, <1>2, <1>3, PTL DEF Spec
----------------------------------------------------------------------------
(***************************************************************************)
(* What holds while nothing is finished amid a call of begin.              *)
(***************************************************************************)
LEMMA FinishGrows ==
    ASSUME NEW failed, NEW by, NEW sockets, NEW ended, Finish(failed, by, sockets, ended)
    PROVE  reports' = reports \/ \E r : reports' = Append(reports, r)
BY DEF Finish

\* Reports stay: what was not disturbed after a step was not before it.
LEMMA UndisturbedBefore == Typed /\ [Next]_vars /\ Undisturbed' => Undisturbed
<1> SUFFICES ASSUME Typed, [Next]_vars, Undisturbed' PROVE Undisturbed
  OBVIOUS
<1>1. reports' = reports \/ \E r : reports' = Append(reports, r)
  <2>1. ASSUME NEW b \in Begins, Begin(b) \/ BeginStep(b) PROVE reports' = reports
    BY <2>1 DEF Begin, BeginStep, Granted, SocketThrows, Resumed, Raises
  <2>2. ASSUME NEW b \in Begins, SendAudio(b) \/ Opens(b) \/ ServerTalks(b) \/ ServerEnds(b)
        PROVE  reports' = reports
    BY <2>2 DEF SendAudio, Opens, ServerTalks, ServerEnds, ServerMoves
  <2>3. CASE Leave \/ UNCHANGED vars
    BY <2>3 DEF Leave, vars
  <2>4. ASSUME NEW ended, Stop(ended)
        PROVE  reports' = reports \/ \E r : reports' = Append(reports, r)
    BY <2>4, FinishGrows DEF Stop
  <2>5. CASE ClickStop
    BY <2>4, <2>5 DEF ClickStop
  <2>6. ASSUME NEW b \in Begins, TrackEnds(b)
        PROVE  reports' = reports \/ \E r : reports' = Append(reports, r)
    BY <2>4, <2>6 DEF TrackEnds
  <2>7. ASSUME NEW s \in Begins, HearStopped(s) \/ Closes(s) \/ Drops(s)
        PROVE  reports' = reports \/ \E r : reports' = Append(reports, r)
    BY <2>7, FinishGrows DEF HearStopped, Closes, Drops, OnClose
  <2> QED
    BY <2>1, <2>2, <2>3, <2>5, <2>6, <2>7 DEF Next
<1>2. reports \in Seq(Reports)
  BY DEF Typed
<1>3. \A i \in DOMAIN reports : i \in DOMAIN reports' /\ reports'[i] = reports[i]
  BY <1>1, <1>2
<1> QED
  BY <1>3 DEF Undisturbed

\* Nothing that is not lost is left on when all that works is referred to, and
\* is stopped.
LEMMA CaptureStops ==
    ASSUME Typed, Devices, NEW ended, StopCapture(ended)
    PROVE  \A b \in Begins : (tracks'[b] => Lost(b)) /\ ~graph'[b]
BY DEF Typed, Devices, StopCapture, Without, Lost

LEMMA SocketStops ==
    ASSUME Typed, Devices, NEW sockets \in [Begins -> ReadyStates],
           \A s \in Begins : sockets[s] \in {"connecting", "open"} => sock[s] = sockets[s],
           sock' = HungUp(sockets, state.ws)
    PROVE  \A s \in Begins : /\ sock'[s] \notin {"connecting", "open"}
                             /\ sock'[s] = "none" <=> sockets[s] = "none"
BY DEF Typed, Devices, HungUp

LEMMA FinishOwn ==
    ASSUME Typed, Own, Undisturbed', NEW failed, NEW by,
           NEW sockets \in [Begins -> ReadyStates], NEW ended,
           Finish(failed, by, sockets, ended), UNCHANGED <<mounted, at, wire, carried, current>>,
           \A s \in Begins : sockets[s] \in {"connecting", "open"} => sock[s] = sockets[s],
           \A s \in Begins : sock[s] = "none" <=> sockets[s] = "none",
           ~failed => by = current /\ "stopped" \in wire[current].told
    PROVE  Own'
<1>1. CASE state.finished
  <2>1. /\ UNCHANGED <<state, buttons, graph, reports>> /\ sock' = sockets
        /\ tracks' = Without(tracks, ended)
    BY <1>1 DEF Finish
  <2>2. Calls' /\ Recording' /\ Successes'
    BY <2>1 DEF Own, Calls, Recording, Successes, Suspended
  <2>3. Devices'
    BY <2>1 DEF Own, Devices, Without, Lost, Begun
  <2> QED
    BY <2>2, <2>3 DEF Own
<1>2. CASE ~state.finished
  <2>1. /\ state' = [Idle EXCEPT !.finished = TRUE] /\ buttons' = Fresh
        /\ StopCapture(ended) /\ sock' = HungUp(sockets, state.ws)
        /\ reports' = Append(reports, Report(by, failed))
    BY <1>2 DEF Finish
  <2>2. reports \in Seq(Reports)
    BY DEF Typed
  <2>3. /\ DOMAIN reports' = DOMAIN reports \cup {Len(reports) + 1}
        /\ \A i \in DOMAIN reports : reports'[i] = reports[i]
        /\ reports'[Len(reports) + 1] = Report(by, failed)
    BY <2>1, <2>2
  <2>4. ~\E b \in Begins : Suspended(b)
    BY <2>3 DEF Undisturbed, Report
  <2>5. Calls'
    BY <2>4 DEF Calls, Suspended
  <2>6. Recording'
    BY <2>1 DEF Recording, Idle
  <2>7. Devices'
    <3>1. \A b \in Begins : /\ tracks'[b] => Lost(b)
                            /\ ~graph'[b] /\ sock'[b] \notin {"connecting", "open"}
                            /\ sock'[b] = "none" <=> sock[b] = "none"
      BY <2>1, CaptureStops, SocketStops DEF Own
    <3> QED
      BY <3>1 DEF Own, Devices, Lost, Begun
  <2>8. Successes'
    BY <2>3 DEF Own, Successes, Report
  <2> QED
    BY <2>5, <2>6, <2>7, <2>8 DEF Own
<1> QED
  BY <1>1, <1>2

LEMMA StopOwn ==
    ASSUME Typed, Own, Undisturbed', NEW ended, Stop(ended),
           UNCHANGED <<mounted, at, wire, carried, current>>
    PROVE  Own'
<1>1. CASE \E b \in Begins : b = state.ws /\ sock[b] = "open"
  <2>1. /\ state' = [state EXCEPT !.stopping = TRUE, !.stream = 0, !.ctx = 0]
        /\ buttons' = [buttons EXCEPT !.stop = FALSE]
        /\ StopCapture(ended) /\ UNCHANGED <<sock, reports>> /\ state.running
    BY <1>1 DEF Stop
  <2>2. /\ state'.stopping /\ state'.stream = 0 /\ state'.ctx = 0 /\ state'.ws = state.ws
        /\ state'.running = state.running /\ state'.finished = state.finished
    BY <2>1 DEF Typed
  <2>3. buttons'.start = buttons.start
    BY <2>1 DEF Typed
  <2>4. Calls'
    BY <2>1, <2>2, <2>3 DEF Own, Calls, Suspended
  <2>5. Recording'
    BY <2>1, <2>2, <2>3 DEF Own, Recording
  <2>6. Devices'
    BY <2>1, <2>2, CaptureStops DEF Own, Devices, Lost, Begun
  <2> QED
    BY <2>1, <2>4, <2>5, <2>6 DEF Own, Successes
<1>2. CASE ~\E b \in Begins : b = state.ws /\ sock[b] = "open"
  <2>1. Finish(TRUE, 0, sock, ended)
    BY <1>2 DEF Stop
  <2>2. sock \in [Begins -> ReadyStates]
    BY DEF Typed
  <2> QED
    BY <2>1, <2>2, FinishOwn
<1> QED
  BY <1>1, <1>2

\* The steps of begin.
LEMMA BeginOwn ==
    ASSUME Typed, Own, NEW b \in Begins, Begin(b) \/ BeginStep(b)
    PROVE  Own'
<1>0. UNCHANGED <<wire, carried, reports>>
  BY DEF Begin, BeginStep, Granted, SocketThrows, Resumed, Raises, net
<1>1. Successes'
  BY <1>0 DEF Own, Successes
<1>2. /\ Calls /\ Recording /\ Devices
      /\ \A c \in Begins : Suspended(b) /\ Suspended(c) => b = c
  BY DEF Own, Calls
<1>3. CASE Begin(b)
  <2>1. buttons.start /\ \A c \in Begins : ~Suspended(c)
    BY <1>2, <1>3 DEF Begin, Calls
  <2>2. /\ ~buttons'.start /\ buttons'.stop
        /\ UNCHANGED <<state, current, sock, tracks, graph>>
    BY <1>3 DEF Begin, net, audio
  <2>3. at'[b] = "asking" /\ \A c \in Begins : c # b => at'[c] = at[c]
    BY <1>3 DEF Begin, Goto, Typed
  <2>4. ~state.running
    BY <1>3 DEF Begin
  <2>5. Calls'
    BY <2>1, <2>2, <2>3, <2>4 DEF Calls, Suspended
  <2>6. Recording'
    BY <1>2, <2>2, <2>4 DEF Recording
  <2>7. Devices'
    BY <1>0, <1>2, <1>3, <2>2, <2>3 DEF Begin, Devices, Lost, Begun
  <2> QED
    BY <1>1, <2>5, <2>6, <2>7 DEF Own
<1>4. CASE Granted(b)
  <2>1. /\ Suspended(b) /\ ~state.running /\ buttons.stop /\ ~buttons.start
    BY <1>2, <1>4 DEF Granted, Calls, Suspended
  <2>2. at'[b] = "resuming" /\ \A c \in Begins : c # b => at'[c] = at[c]
    BY <1>4 DEF Granted, Goto, Typed
  <2>3. state' = [state EXCEPT !.ws = b, !.stream = b, !.running = TRUE, !.stopping = FALSE,
                               !.finished = FALSE]
    BY <1>4 DEF Granted
  <2>4. /\ state'.ws = b /\ state'.stream = b /\ state'.running /\ ~state'.stopping
        /\ ~state'.finished /\ state'.ctx = state.ctx
    BY <2>3 DEF Typed
  <2>5. current' = b /\ buttons' = buttons /\ UNCHANGED graph
    BY <1>4 DEF Granted
  <2>6. state.ws = 0 /\ state.stream = 0 /\ state.ctx = 0 /\ 0 \notin Begins
    BY <1>2, <2>1, BeginsTyped DEF Recording
  <2>7. Calls'
    BY <1>2, <2>1, <2>2, <2>4, <2>5 DEF Suspended, Calls
  <2>8. Recording'
    BY <2>1, <2>4, <2>5, <2>6 DEF Recording
  <2>9. \A c \in Begins : /\ tracks[c] => Lost(c)
                          /\ ~graph[c] /\ sock[c] \notin {"connecting", "open"}
    BY <1>2, <2>6 DEF Devices
  <2>10. \A c \in Begins : c # b => tracks'[c] = tracks[c] /\ sock'[c] = sock[c]
    BY <1>4 DEF Granted, Typed
  <2>11. Devices'
    BY <1>0, <1>2, <2>2, <2>4, <2>5, <2>9, <2>10 DEF Devices, Lost, Begun
  <2> QED
    BY <1>1, <2>7, <2>8, <2>11 DEF Own
<1>5. CASE Resumed(b)
  <2>1. /\ Suspended(b) /\ state.running /\ current = b
    BY <1>2, <1>5 DEF Resumed, Calls, Suspended
  <2>2. at'[b] = "over" /\ \A c \in Begins : c # b => at'[c] = at[c]
    BY <1>5 DEF Resumed, Goto, Typed
  <2>3. state' = [state EXCEPT !.ctx = b]
    BY <1>5 DEF Resumed
  <2>4. /\ state'.ws = state.ws /\ state'.stream = state.stream /\ state'.ctx = b
        /\ state'.running = state.running /\ state'.stopping = state.stopping
        /\ state'.finished = state.finished
    BY <2>3 DEF Typed
  <2>5. UNCHANGED <<current, buttons, tracks, sock>>
    BY <1>5 DEF Resumed, net
  <2>6. Calls'
    BY <1>2, <2>1, <2>2 DEF Calls, Suspended
  <2>7. Recording'
    BY <1>2, <2>1, <2>4, <2>5 DEF Recording
  <2>8. \A c \in Begins : graph'[c] => c = b
    <3>1. graph' = [graph EXCEPT ![b] = TRUE]
      BY <1>5 DEF Resumed
    <3>2. \A c \in Begins : graph[c] => c = b
      BY <1>2, <2>1, BeginsTyped DEF Devices, Recording
    <3> QED
      BY <3>1, <3>2 DEF Typed
  <2>9. Devices'
    BY <1>0, <1>2, <2>1, <2>2, <2>4, <2>5, <2>8 DEF Devices, Lost, Begun
  <2> QED
    BY <1>1, <2>6, <2>7, <2>9 DEF Own
<1>6. CASE Raises(b)
  <2>1. Suspended(b) /\ StopCapture({}) /\ sock' = HungUp(sock, state.ws)
    BY <1>6 DEF Raises
  <2>2. at'[b] = "over" /\ \A c \in Begins : c # b => at'[c] = at[c]
    BY <1>6 DEF Raises, Goto, Typed
  <2>3. \A c \in Begins : at'[c] \notin {"asking", "resuming"}
    BY <1>2, <2>1, <2>2 DEF Suspended
  <2>4. state' = [Idle EXCEPT !.finished = state.finished]
    BY <1>6 DEF Raises
  <2>5. /\ state'.ws = 0 /\ state'.stream = 0 /\ state'.ctx = 0
        /\ ~state'.running /\ ~state'.stopping
    BY <2>4 DEF Idle
  <2>6. Calls'
    BY <2>3 DEF Calls, Suspended
  <2>7. Recording'
    BY <2>5 DEF Recording
  <2>8. sock \in [Begins -> ReadyStates]
    BY DEF Typed
  <2>9. \A c \in Begins : /\ tracks'[c] => Lost(c)
                          /\ ~graph'[c] /\ sock'[c] \notin {"connecting", "open"}
                          /\ sock'[c] = "none" <=> sock[c] = "none"
    BY <1>2, <2>1, <2>8, CaptureStops, SocketStops
  <2>10. Devices'
    BY <1>0, <1>2, <2>2, <2>9 DEF Devices, Lost, Begun
  <2> QED
    BY <1>1, <2>6, <2>7, <2>10 DEF Own
<1>7. CASE SocketThrows(b)
  <2>1. Suspended(b) /\ at[b] = "asking" /\ sock' = HungUp(sock, state.ws)
    BY <1>7 DEF SocketThrows, Suspended
  <2>2. at'[b] = "over" /\ \A c \in Begins : c # b => at'[c] = at[c]
    BY <1>7 DEF SocketThrows, Goto, Typed
  <2>3. \A c \in Begins : at'[c] \notin {"asking", "resuming"}
    BY <1>2, <2>1, <2>2 DEF Suspended
  <2>4. state' = [Idle EXCEPT !.finished = state.finished]
    BY <1>7 DEF SocketThrows
  <2>5. /\ state'.ws = 0 /\ state'.stream = 0 /\ state'.ctx = 0
        /\ ~state'.running /\ ~state'.stopping
    BY <2>4 DEF Idle
  <2>6. Calls'
    BY <2>3 DEF Calls, Suspended
  <2>7. Recording'
    BY <2>5 DEF Recording
  <2>8. sock \in [Begins -> ReadyStates]
    BY DEF Typed
  <2>9. \A c \in Begins : /\ sock'[c] \notin {"connecting", "open"}
                          /\ sock'[c] = "none" <=> sock[c] = "none"
    BY <1>2, <2>1, <2>8, SocketStops
  <2>10. sock'[b] = "none"
    BY <1>2, <2>1, <2>9 DEF Devices, Begun
  <2>11. \A c \in Begins : c # b => (tracks'[c] => Lost(c))
    BY <1>2, <1>7 DEF SocketThrows, Devices, Without, Typed, Lost
  <2>12. \A c \in Begins : ~graph'[c]
    BY <1>2, <1>7 DEF SocketThrows, Devices, Without, Typed
  <2>13. Devices'
    BY <1>0, <1>2, <2>2, <2>9, <2>10, <2>11, <2>12 DEF Devices, Lost, Begun
  <2> QED
    BY <1>1, <2>6, <2>7, <2>13 DEF Own
<1> QED
  BY <1>3, <1>4, <1>5, <1>6, <1>7 DEF BeginStep

LEMMA LeaveOwn ==
    ASSUME Typed, Own, Leave
    PROVE  Own'
<1>1. state' = [state EXCEPT !.ws = 0, !.stream = 0, !.ctx = 0]
  BY DEF Leave
<1>2. /\ state'.ws = 0 /\ state'.stream = 0 /\ state'.ctx = 0
      /\ state'.running = state.running /\ state'.stopping = state.stopping
      /\ state'.finished = state.finished
  BY <1>1 DEF Typed
<1>3. /\ UNCHANGED <<buttons, at, wire, carried, current, reports>>
      /\ StopCapture({}) /\ sock' = HungUp(sock, state.ws)
  BY DEF Leave
<1>4. Calls' /\ Successes'
  BY <1>2, <1>3 DEF Own, Calls, Suspended, Successes
<1>5. Recording'
  BY <1>2, <1>3 DEF Own, Recording
<1>6. sock \in [Begins -> ReadyStates]
  BY DEF Typed
<1>7. \A b \in Begins : /\ tracks'[b] => Lost(b)
                        /\ ~graph'[b] /\ sock'[b] \notin {"connecting", "open"}
                        /\ sock'[b] = "none" <=> sock[b] = "none"
  BY <1>3, <1>6, CaptureStops, SocketStops DEF Own
<1>8. Devices'
  BY <1>3, <1>7 DEF Own, Devices, Lost, Begun
<1> QED
  BY <1>4, <1>5, <1>8 DEF Own

\* The server's words only add to what it has told.
LEMMA ServerOwn ==
    ASSUME Typed, Reporting, Own, NEW s \in Begins, ServerTalks(s) \/ ServerEnds(s)
    PROVE  Own'
<1>1. UNCHANGED <<page, at, audio, sock, asked, carried, current, reports>>
  BY DEF ServerTalks, ServerEnds, ServerMoves
<1>2. Calls' /\ Recording' /\ Devices'
  BY <1>1 DEF Own, Calls, Recording, Devices, Suspended, Lost, Begun, page, audio
<1>3. \A w \in Talks(wire[s]) \cup Ends(wire[s]) : wire[s].told \subseteq w.told
  <2>1. \A v, word : v.told \subseteq Says(v, word).told /\ Closed(v).told = v.told
    BY DEF Says, Closed
  <2> QED
    BY <2>1 DEF Talks, Ends
<1>4. \A b \in Begins : wire[b].told \subseteq wire'[b].told
  <2>1. \E w \in Talks(wire[s]) \cup Ends(wire[s]) : wire' = [wire EXCEPT ![s] = w]
    BY DEF ServerTalks, ServerEnds, ServerMoves
  <2> QED
    BY <1>3, <2>1 DEF Typed
<1>5. \A i \in DOMAIN reports : reports[i].of \in Begins
  <2>1. \A i \in DOMAIN reports : reports[i] \in Reports /\ reports[i].of # 0
    BY DEF Typed, Reporting
  <2> QED
    BY <2>1, BeginsTyped DEF Reports
<1>6. Successes'
  BY <1>1, <1>4, <1>5 DEF Own, Successes
<1> QED
  BY <1>2, <1>6 DEF Own

LEMMA OwnStep == Typed /\ Reporting /\ Own /\ [Next]_vars /\ Undisturbed' => Own'
<1> SUFFICES ASSUME Typed, Reporting, Own, [Next]_vars, Undisturbed' PROVE Own'
  OBVIOUS
<1>0. Recording /\ Devices
  BY DEF Own
<1>1. ASSUME NEW b \in Begins, Begin(b) \/ BeginStep(b) PROVE Own'
  BY <1>1, BeginOwn
<1>2. ASSUME NEW b \in Begins, TrackEnds(b) PROVE Own'
  <2>1. CASE Stop({b})
    BY <1>2, <2>1, StopOwn DEF TrackEnds
  <2>2. CASE ~Stop({b})
    <3>1. /\ tracks' = Without(tracks, {b})
          /\ UNCHANGED <<state, buttons, at, graph, sock, wire, carried, current, reports>>
      BY <1>2, <2>2 DEF TrackEnds
    <3>2. Calls' /\ Recording' /\ Successes'
      BY <3>1 DEF Own, Calls, Recording, Successes, Suspended
    <3>3. Devices'
      BY <1>0, <3>1 DEF Devices, Without, Lost, Begun
    <3> QED
      BY <3>2, <3>3 DEF Own
  <2> QED
    BY <2>1, <2>2
<1>3. ASSUME NEW b \in Begins, SendAudio(b) PROVE Own'
  <2>1. PICK s \in Begins : s = state.ws /\ carried' = [carried EXCEPT ![s] = @ \cup {b}]
    BY <1>3 DEF SendAudio
  <2>2. UNCHANGED <<page, at, audio, sock, wire, current, reports>> /\ graph[b]
    BY <1>3 DEF SendAudio
  <2>3. s = b
    BY <1>0, <2>1, <2>2, BeginsTyped DEF Recording, Devices
  <2>4. \A c \in Begins : carried'[c] \subseteq {c}
    BY <1>0, <2>1, <2>3 DEF Devices, Typed
  <2>5. Calls' /\ Recording' /\ Successes'
    BY <2>2 DEF Own, Calls, Recording, Successes, Suspended, page
  <2>6. Devices'
    BY <1>0, <2>2, <2>4 DEF Devices, Lost, Begun, page, audio
  <2> QED
    BY <2>5, <2>6 DEF Own
<1>4. CASE ClickStop
  BY <1>4, StopOwn DEF ClickStop
<1>5. CASE Leave
  BY <1>5, LeaveOwn
<1>6. ASSUME NEW s \in Begins, Opens(s) PROVE Own'
  <2>1. /\ UNCHANGED <<page, at, audio, wire, carried, current, reports>>
        /\ sock[s] = "connecting" /\ sock' = [sock EXCEPT ![s] = "open"]
    BY <1>6 DEF Opens
  <2>2. Calls' /\ Recording' /\ Successes'
    BY <2>1 DEF Own, Calls, Recording, Successes, Suspended, page
  <2>3. Devices'
    BY <1>0, <2>1 DEF Devices, Lost, Begun, page, audio, Typed
  <2> QED
    BY <2>2, <2>3 DEF Own
<1>7. ASSUME NEW s \in Begins, HearStopped(s) PROVE Own'
  <2>1. sock[s] = "open" /\ "stopped" \in wire[s].told /\ Finish(FALSE, s, HungUp(sock, s), {})
    BY <1>7 DEF HearStopped
  <2>2. s = current
    BY <1>0, <2>1, BeginsTyped DEF Devices, Recording
  <2>3. HungUp(sock, s) \in [Begins -> ReadyStates]
    BY HungUpTyped DEF Typed
  <2>4. \A c \in Begins : HungUp(sock, s)[c] \in {"connecting", "open"}
                             => sock[c] = HungUp(sock, s)[c]
    BY DEF HungUp
  <2>5. \A c \in Begins : sock[c] = "none" <=> HungUp(sock, s)[c] = "none"
    BY DEF HungUp
  <2> QED
    BY <1>7, <2>1, <2>2, <2>3, <2>4, <2>5, FinishOwn DEF HearStopped
<1>8. ASSUME NEW s \in Begins, Closes(s) \/ Drops(s) PROVE Own'
  <2>1. OnClose(s)
    BY <1>8 DEF Closes, Drops
  <2> DEFINE sockets == [sock EXCEPT ![s] = "closed"]
  <2>2. Finish(TRUE, s, sockets, {}) /\ UNCHANGED <<mounted, at, wire, asked, carried, current>>
    BY <2>1 DEF OnClose
  <2>3. sockets \in [Begins -> ReadyStates]
    BY DEF Typed, ReadyStates
  <2>4. \A c \in Begins : sockets[c] \in {"connecting", "open"} => sock[c] = sockets[c]
    BY DEF Typed
  <2>5. \A c \in Begins : sock[c] = "none" <=> sockets[c] = "none"
    BY <1>8 DEF Closes, Drops, Typed
  <2> HIDE DEF sockets
  <2> QED
    BY <2>2, <2>3, <2>4, <2>5, FinishOwn
<1>9. ASSUME NEW s \in Begins, ServerTalks(s) \/ ServerEnds(s) PROVE Own'
  BY <1>9, ServerOwn
<1>10. CASE UNCHANGED vars
  BY <1>10 DEF vars, page, audio, net, Own, Calls, Recording, Devices, Successes, Suspended,
           Lost, Begun
<1> QED
  BY <1>1, <1>2, <1>3, <1>4, <1>5, <1>6, <1>7, <1>8, <1>9, <1>10 DEF Next
----------------------------------------------------------------------------
(***************************************************************************)
(* The invariant, and what follows from it.                                *)
(***************************************************************************)
LEMMA OwnInit == Init => Own
BY BeginsTyped DEF Init, Own, Calls, Recording, Devices, Successes, Suspended, Idle, Begun

\* Every part of the invariant.
THEOREM ClientInvariant == Spec => []Inv
<1>1. Init => Inv
  BY TypedInit, ReportingInit, OwnInit DEF Inv
<1>2. Inv /\ [Next]_vars => Inv'
  <2> SUFFICES ASSUME Inv, [Next]_vars PROVE Inv'
    OBVIOUS
  <2>1. Typed' /\ Reporting'
    BY TypedStep, ReportingStep DEF Inv
  <2>2. Undisturbed' => Own'
    BY UndisturbedBefore, OwnStep DEF Inv
  <2> QED
    BY <2>1, <2>2 DEF Inv
<1> QED
  BY <1>1, <1>2, PTL DEF Spec

\* ReportsAreTrue: one report for every recording, whatever ends it; and, while
\* nothing was finished amid a call of begin, a success only on the word of its
\* own server.
THEOREM ClientReports == Spec => []ReportsAreTrue
<1>1. Inv => ReportsAreTrue
  BY DEF Inv, Reporting, Own, Successes, ReportsAreTrue
<1> QED
  BY <1>1, ClientInvariant, PTL

\* MicrophoneReleased: whatever ends a recording turns its tracks off, but for
\* what begin loses.
THEOREM ClientReleases == Spec => []MicrophoneReleased
<1>1. Inv => MicrophoneReleased
  <2> SUFFICES ASSUME Inv, Undisturbed, NEW b \in Begins, tracks[b],
                      ~Lost(b)
               PROVE  /\ state.running /\ state.stream = b /\ ~state.stopping
                      /\ mounted => buttons.stop /\ ~buttons.start
    BY DEF MicrophoneReleased
  <2>1. state.stream = b /\ ~state.stopping /\ b # 0
    BY BeginsTyped DEF Inv, Own, Devices
  <2> QED
    BY <2>1 DEF Inv, Own, Recording
<1> QED
  BY <1>1, ClientInvariant, PTL

\* AudioIsOwn: no audio reaches the socket of another recording.
THEOREM ClientAudio == Spec => []AudioIsOwn
<1>1. Inv => AudioIsOwn
  BY DEF Inv, Own, Devices, AudioIsOwn
<1> QED
  BY <1>1, ClientInvariant, PTL
=============================================================================
