-------------------------- MODULE LiveCaptureProofs --------------------------
(***************************************************************************)
(* Theorems about LiveCapture, for any length of a session, any number of  *)
(* utterances, and any backlog of events.                                  *)
(***************************************************************************)
EXTENDS LiveCapture, LiveLimits, SequenceTheorems, TLAPS

\* While a segment is stored the transcript has it.
Storing == receiver = "storing" => parts # <<>>

\* The head of a sequence that is not empty is an element, the tail is one of
\* the same kind.
LEMMA HeadTailType ==
    ASSUME NEW S, NEW s \in Seq(S), s # <<>>
    PROVE  Head(s) \in S /\ Tail(s) \in Seq(S)
BY HeadTailProperties

\* One element makes a sequence, and one more keeps it one.
LEMMA AppendType ==
    ASSUME NEW S, NEW s \in Seq(S), NEW x \in S
    PROVE  /\ <<x>> \in Seq(S)
           /\ Append(s, x) \in Seq(S) /\ Append(s, x) # <<>>
BY AppendProperties

\* So is the last one.
LEMMA LastType ==
    ASSUME NEW S, NEW s \in Seq(S), s # <<>>
    PROVE  Last(s) \in S
<1>1. Len(s) \in 1..Len(s)
  BY LenProperties, EmptySeq
<1> QED
  BY <1>1, ElementOfSeq DEF Last

\* A step of the handler keeps the types.
LEMMA HandlerKeepsTypes ==
    ASSUME TypeOK, Storing, HandlerStep
    PROVE  TypeOK' /\ Storing'
<1> USE DEF TypeOK, Storing, server, log, provider, Goto, Tell
<1>1. HandlerTypes'
  <2>1. CASE Open
    BY <2>1 DEF Open, HandlerTypes, Over
  <2>2. CASE Accept
    BY <2>2 DEF Accept, HandlerTypes, Over
  <2>3. CASE OpenFile
    BY <2>3 DEF OpenFile, HandlerTypes, Over
  <2>4. CASE Dial
    BY <2>4 DEF Dial, HandlerTypes, Over
  <2>5. CASE Greet
    BY <2>5 DEF Greet, HandlerTypes, Over
  <2>6. CASE ReceiveChunk
    BY <2>6 DEF ReceiveChunk, Receives, HandlerTypes, Over
  <2>7. CASE ReceiveStop
    BY <2>7 DEF ReceiveStop, Receives, HandlerTypes, Over
  <2>8. CASE ReceiveDisconnect
    BY <2>8 DEF ReceiveDisconnect, Receives, HandlerTypes, Over
  <2>9. CASE SendTail
    BY <2>9 DEF SendTail, HandlerTypes, Over
  <2>10. CASE WaitOver
    BY <2>10 DEF WaitOver, HandlerTypes, Over
  <2>11. CASE CancelReceiver
    BY <2>11 DEF CancelReceiver, HandlerTypes, Over
  <2>12. CASE FailCapture
    BY <2>12 DEF FailCapture, HandlerTypes, Over
  <2>13. CASE BeginFinalizing
    BY <2>13 DEF BeginFinalizing, HandlerTypes, Over
  <2>14. CASE FinalizeSilence
    BY <2>14 DEF FinalizeSilence, End, HandlerTypes, Over
  <2>15. CASE FinalizeCommit
    BY <2>15 DEF FinalizeCommit, HandlerTypes, Over
  <2>16. CASE FinalizeEnqueue
    BY <2>16 DEF FinalizeEnqueue, End, HandlerTypes, Over
  <2>17. CASE FinalizeRaises
    BY <2>17 DEF FinalizeRaises, End, HandlerTypes, Over
  <2> QED
    BY <2>1, <2>2, <2>3, <2>4, <2>5, <2>6, <2>7, <2>8, <2>9, <2>10, <2>11, <2>12, <2>13, <2>14,
       <2>15, <2>16, <2>17 DEF HandlerStep
<1>2. LogTypes' /\ Storing'
  <2>1. CASE Open
    BY <2>1 DEF Open, LogTypes
  <2>2. CASE Accept
    BY <2>2 DEF Accept, LogTypes
  <2>3. CASE OpenFile
    BY <2>3 DEF OpenFile, LogTypes
  <2>4. CASE Dial
    BY <2>4 DEF Dial, LogTypes
  <2>5. CASE Greet
    BY <2>5 DEF Greet, LogTypes
  <2>6. CASE ReceiveChunk
    BY <2>6 DEF ReceiveChunk, Receives, LogTypes
  <2>7. CASE ReceiveStop
    BY <2>7 DEF ReceiveStop, Receives, LogTypes
  <2>8. CASE ReceiveDisconnect
    BY <2>8 DEF ReceiveDisconnect, Receives, LogTypes
  <2>9. CASE SendTail
    BY <2>9 DEF SendTail, LogTypes
  <2>10. CASE WaitOver
    BY <2>10 DEF WaitOver, LogTypes
  <2>11. CASE CancelReceiver
    BY <2>11 DEF CancelReceiver, LogTypes
  <2>12. CASE FailCapture
    BY <2>12 DEF FailCapture, LogTypes
  <2>13. CASE BeginFinalizing
    <3>1. parts' \in Seq(1..Utterances)
      <4>1. parts \in Seq(1..Utterances) /\ lastPartial \in 0..Utterances
        BY DEF LogTypes
      <4>2. parts' \in {parts, <<lastPartial>>} /\ (parts' # parts => lastPartial # 0)
        BY <2>13 DEF BeginFinalizing
      <4>3. lastPartial # 0 => <<lastPartial>> \in Seq(1..Utterances)
        <5>1. lastPartial # 0 => lastPartial \in 1..Utterances
          BY <4>1, CaptureAssumption
        <5> QED
          BY <4>1, <5>1, AppendType
      <4> QED
        BY <4>1, <4>2, <4>3
    <3>2. receiver' = receiver /\ (parts # <<>> => parts' = parts)
      BY <2>13 DEF BeginFinalizing
    <3> QED
      BY <2>13, <3>1, <3>2 DEF BeginFinalizing, LogTypes
  <2>14. CASE FinalizeSilence
    BY <2>14 DEF FinalizeSilence, End, LogTypes
  <2>15. CASE FinalizeCommit
    BY <2>15 DEF FinalizeCommit, LogTypes
  <2>16. CASE FinalizeEnqueue
    BY <2>16 DEF FinalizeEnqueue, End, LogTypes
  <2>17. CASE FinalizeRaises
    BY <2>17 DEF FinalizeRaises, End, LogTypes
  <2> QED
    BY <2>1, <2>2, <2>3, <2>4, <2>5, <2>6, <2>7, <2>8, <2>9, <2>10, <2>11, <2>12, <2>13, <2>14,
       <2>15, <2>16, <2>17 DEF HandlerStep
<1>3. BrowserTypes'
  <2>1. CASE Open
    BY <2>1 DEF Open, BrowserTypes
  <2>2. CASE Accept
    BY <2>2 DEF Accept, BrowserTypes
  <2>3. CASE OpenFile
    BY <2>3 DEF OpenFile, BrowserTypes
  <2>4. CASE Dial
    BY <2>4 DEF Dial, BrowserTypes
  <2>5. CASE Greet
    BY <2>5 DEF Greet, BrowserTypes
  <2>6. CASE ReceiveChunk
    BY <2>6, HeadTailType DEF ReceiveChunk, Receives, BrowserTypes
  <2>7. CASE ReceiveStop
    BY <2>7, HeadTailType DEF ReceiveStop, Receives, BrowserTypes
  <2>8. CASE ReceiveDisconnect
    BY <2>8, HeadTailType DEF ReceiveDisconnect, Receives, BrowserTypes
  <2>9. CASE SendTail
    BY <2>9 DEF SendTail, BrowserTypes
  <2>10. CASE WaitOver
    BY <2>10 DEF WaitOver, BrowserTypes
  <2>11. CASE CancelReceiver
    BY <2>11 DEF CancelReceiver, BrowserTypes
  <2>12. CASE FailCapture
    BY <2>12 DEF FailCapture, BrowserTypes
  <2>13. CASE BeginFinalizing
    BY <2>13 DEF BeginFinalizing, BrowserTypes
  <2>14. CASE FinalizeSilence
    BY <2>14 DEF FinalizeSilence, End, BrowserTypes
  <2>15. CASE FinalizeCommit
    BY <2>15 DEF FinalizeCommit, BrowserTypes
  <2>16. CASE FinalizeEnqueue
    BY <2>16 DEF FinalizeEnqueue, End, BrowserTypes
  <2>17. CASE FinalizeRaises
    BY <2>17 DEF FinalizeRaises, End, BrowserTypes
  <2> QED
    BY <2>1, <2>2, <2>3, <2>4, <2>5, <2>6, <2>7, <2>8, <2>9, <2>10, <2>11, <2>12, <2>13, <2>14,
       <2>15, <2>16, <2>17 DEF HandlerStep
<1>4. ProviderTypes'
  <2>1. CASE Open
    BY <2>1 DEF Open, ProviderTypes
  <2>2. CASE Accept
    BY <2>2 DEF Accept, ProviderTypes
  <2>3. CASE OpenFile
    BY <2>3 DEF OpenFile, ProviderTypes
  <2>4. CASE Dial
    BY <2>4 DEF Dial, ProviderTypes
  <2>5. CASE Greet
    BY <2>5 DEF Greet, ProviderTypes
  <2>6. CASE ReceiveChunk
    BY <2>6 DEF ReceiveChunk, Receives, ProviderTypes
  <2>7. CASE ReceiveStop
    BY <2>7 DEF ReceiveStop, Receives, ProviderTypes
  <2>8. CASE ReceiveDisconnect
    BY <2>8 DEF ReceiveDisconnect, Receives, ProviderTypes
  <2>9. CASE SendTail
    BY <2>9 DEF SendTail, ProviderTypes
  <2>10. CASE WaitOver
    BY <2>10 DEF WaitOver, ProviderTypes
  <2>11. CASE CancelReceiver
    BY <2>11 DEF CancelReceiver, ProviderTypes
  <2>12. CASE FailCapture
    BY <2>12 DEF FailCapture, ProviderTypes
  <2>13. CASE BeginFinalizing
    BY <2>13 DEF BeginFinalizing, ProviderTypes
  <2>14. CASE FinalizeSilence
    BY <2>14 DEF FinalizeSilence, End, ProviderTypes
  <2>15. CASE FinalizeCommit
    BY <2>15 DEF FinalizeCommit, ProviderTypes
  <2>16. CASE FinalizeEnqueue
    BY <2>16 DEF FinalizeEnqueue, End, ProviderTypes
  <2>17. CASE FinalizeRaises
    BY <2>17 DEF FinalizeRaises, End, ProviderTypes
  <2> QED
    BY <2>1, <2>2, <2>3, <2>4, <2>5, <2>6, <2>7, <2>8, <2>9, <2>10, <2>11, <2>12, <2>13, <2>14,
       <2>15, <2>16, <2>17 DEF HandlerStep
<1> QED
  BY <1>1, <1>2, <1>3, <1>4

\* A step of the receiver or of its thread keeps the types.
LEMMA ReceiverKeepsTypes ==
    ASSUME TypeOK, Storing, ReceiverStep \/ StoreSegment \/ StoreFails
    PROVE  TypeOK' /\ Storing'
<1> DEFINE EventType == [kind : {"partial", "committed", "timestamped", "error"},
                         text : 0..Utterances]
<1> USE DEF receiverLeavesAlone, server
<1>0. ASSUME events # <<>>
      PROVE  Head(events).text \in 0..Utterances /\ Tail(events) \in Seq(EventType)
  <2>1. Head(events) \in EventType /\ Tail(events) \in Seq(EventType)
    BY <1>0, HeadTailType DEF TypeOK, ProviderTypes
  <2> QED
    BY <2>1
<1>1. HandlerTypes' /\ upstream' = upstream /\ spoken' = spoken /\ hinted' = hinted
      /\ inbox' = inbox /\ browser' = browser
  BY DEF ReceiverStep, ReceivePartial, Commit, ReceiveCopy, ReceiveError, ReceiveFails, ShowFinal,
         StoreSegment, StoreFails, TypeOK, HandlerTypes
<1>2. told' \in {told, told \cup {"error"}} /\ sock' \in {sock, FALSE}
  BY DEF ReceiverStep, ReceivePartial, Commit, ReceiveCopy, ReceiveError, ReceiveFails, ShowFinal,
         StoreSegment, StoreFails, Raise, Abort, Tell
<1>3. events' = events \/ (events # <<>> /\ events' = Tail(events))
  BY DEF ReceiverStep, ReceivePartial, Commit, ReceiveCopy, ReceiveError, ReceiveFails, ShowFinal,
         StoreSegment, StoreFails, TakeEvent
<1>4. BrowserTypes' /\ ProviderTypes'
  BY <1>0, <1>1, <1>2, <1>3 DEF TypeOK, BrowserTypes, ProviderTypes
<1>5. LogTypes' /\ Storing'
  <2> USE DEF TypeOK, LogTypes, Storing, log
  <2>1. CASE ReceivePartial
    BY <1>0, <2>1 DEF ReceivePartial, TakeEvent
  <2>2. CASE Commit("committed")
    <3>1. CASE Head(events).text = 0
      BY <2>2, <3>1 DEF Commit
    <3>2. CASE Head(events).text # 0
      <4>1. Head(events).text \in 1..Utterances
        BY <1>0, <2>2, <3>2, CaptureAssumption DEF Commit, TakeEvent
      <4>2. parts' \in Seq(1..Utterances) /\ parts' # <<>>
        <5>1. parts' = Append(parts, Head(events).text)
          BY <2>2, <3>2 DEF Commit
        <5> QED
          BY <4>1, <5>1, AppendType
      <4>3. thread' \in 0..Utterances
        BY <1>0, <2>2, <3>2 DEF Commit, TakeEvent
      <4> QED
        BY <2>2, <3>2, <4>2, <4>3 DEF Commit
    <3> QED
      BY <3>1, <3>2
  <2>3. CASE ReceiveCopy \/ ReceiveError \/ ReceiveFails
    BY <2>3 DEF ReceiveCopy, ReceiveError, ReceiveFails, Raise, Abort
  <2>4. CASE ShowFinal
    <3>1. parts \in Seq(1..Utterances) /\ parts # <<>>
      BY <2>4 DEF ShowFinal
    <3>2. Last(parts) \in 1..Utterances
      BY <3>1, LastType
    <3>3. shown' \in Seq(1..Utterances)
      <4>1. shown' \in {shown, Append(shown, Last(parts))}
        BY <2>4 DEF ShowFinal
      <4> QED
        BY <3>2, <4>1, AppendType
    <3> QED
      BY <2>4, <3>3 DEF ShowFinal
  <2>5. CASE StoreSegment
    <3>1. thread \in 1..Utterances /\ 0 \in 0..Utterances
      BY <2>5, CaptureAssumption DEF StoreSegment
    <3>2. rows' \in Seq(1..Utterances)
      BY <2>5, <3>1 DEF StoreSegment
    <3> QED
      BY <2>5, <3>1, <3>2 DEF StoreSegment
  <2>6. CASE StoreFails
    <3>1. 0 \in 0..Utterances
      BY CaptureAssumption
    <3> QED
      BY <2>6, <3>1 DEF StoreFails, Raise, Abort
  <2> QED
    BY <2>1, <2>2, <2>3, <2>4, <2>5, <2>6 DEF ReceiverStep
<1> QED
  BY <1>1, <1>4, <1>5 DEF TypeOK

\* What the provider sends: at most two events, each of its type.
LEMMA EmitType ==
    ASSUME TypeOK, ProviderHints \/ ProviderCommits \/ ProviderHasNothing
    PROVE  \E es \in Seq([kind : {"partial", "committed", "timestamped", "error"},
                          text : 0..Utterances]) : Emit(es)
<1> DEFINE EventType == [kind : {"partial", "committed", "timestamped", "error"},
                         text : 0..Utterances]
<1>0. ASSUME NEW kind \in {"partial", "committed", "timestamped", "error"},
             NEW text \in 0..Utterances
      PROVE  Event(kind, text) \in EventType
  BY DEF Event
<1>1. spoken < Utterances => spoken + 1 \in 0..Utterances
  BY CaptureAssumption DEF TypeOK, ProviderTypes
<1>2. CASE ProviderHints
  <2>1. <<Event("partial", spoken + 1)>> \in Seq(EventType)
    <3>1. Event("partial", spoken + 1) \in EventType
      BY <1>0, <1>1, <1>2 DEF ProviderHints
    <3>2. <<>> \in Seq(EventType)
      BY EmptySeq
    <3> QED
      BY <3>1, <3>2, AppendType
  <2> QED
    BY <1>2, <2>1 DEF ProviderHints
<1>3. CASE ProviderCommits
  <2>1. PICK copies \in {<<>>, <<Event("timestamped", spoken + 1)>>} :
           Emit(<<Event("committed", spoken + 1)>> \o copies)
    BY <1>3 DEF ProviderCommits
  <2>2. <<Event("committed", spoken + 1)>> \in Seq(EventType) /\ copies \in Seq(EventType)
    <3>1. spoken + 1 \in 0..Utterances
      BY <1>1, <1>3 DEF ProviderCommits
    <3>2. Event("committed", spoken + 1) \in EventType
          /\ Event("timestamped", spoken + 1) \in EventType
      BY <1>0, <3>1
    <3>3. <<>> \in Seq(EventType)
      BY EmptySeq
    <3>4. <<Event("committed", spoken + 1)>> \in Seq(EventType)
      BY <3>2, <3>3, AppendType
    <3>5. <<Event("timestamped", spoken + 1)>> \in Seq(EventType)
      BY <3>2, <3>3, AppendType
    <3>6. copies = <<>> \/ copies = <<Event("timestamped", spoken + 1)>>
      OBVIOUS
    <3> HIDE DEF EventType
    <3> QED
      BY <3>3, <3>4, <3>5, <3>6
  <2>3. <<Event("committed", spoken + 1)>> \o copies \in Seq(EventType)
    BY <2>2, ConcatProperties, Zenon
  <2> QED
    BY <2>1, <2>3
<1>4. CASE ProviderHasNothing
  <2>1. PICK kind \in {"committed", "error"} : Emit(<<Event(kind, 0)>>)
    BY <1>4 DEF ProviderHasNothing
  <2>2. <<Event(kind, 0)>> \in Seq(EventType)
    <3>1. 0 \in 0..Utterances
      BY CaptureAssumption
    <3>2. Event(kind, 0) \in EventType
      BY <1>0, <3>1
    <3>3. <<>> \in Seq(EventType)
      BY EmptySeq
    <3> QED
      BY <3>2, <3>3, AppendType
  <2> QED
    BY <2>1, <2>2
<1> QED
  BY <1>2, <1>3, <1>4

\* A step of the provider or of the browser keeps the types.
LEMMA EnvironmentKeepsTypes ==
    ASSUME TypeOK, Storing, ProviderStep \/ BrowserStep
    PROVE  TypeOK' /\ Storing'
<1> USE DEF TypeOK, Storing, server, log, provider
<1>1. CASE ProviderHints \/ ProviderCommits \/ ProviderHasNothing
  <2>1. events' \in Seq([kind : {"partial", "committed", "timestamped", "error"},
                         text : 0..Utterances])
    <3> DEFINE EventType == [kind : {"partial", "committed", "timestamped", "error"},
                             text : 0..Utterances]
    <3>1. PICK es \in Seq(EventType) : Emit(es)
      BY <1>1, EmitType
    <3>2. events \in Seq(EventType) /\ events' = events \o es
      BY <3>1 DEF Emit, ProviderTypes
    <3> QED
      BY <3>2, ConcatProperties
  <2>2. /\ spoken' \in 0..Utterances /\ hinted' \in BOOLEAN /\ upstream' = upstream
        /\ UNCHANGED <<server, receiver, stopping, log, thread, saved, browser, inbox, sock, told>>
    <3>1. spoken' \in {spoken, spoken + 1} /\ (spoken' # spoken => spoken < Utterances)
          /\ hinted' \in {hinted, TRUE, FALSE}
      BY <1>1 DEF ProviderHints, ProviderCommits, ProviderHasNothing
    <3>2. UNCHANGED <<server, receiver, stopping, log, thread, saved, browser, inbox, sock, told>>
          /\ upstream' = upstream
      BY <1>1 DEF ProviderHints, ProviderCommits, ProviderHasNothing
    <3>3. spoken \in 0..Utterances /\ hinted \in BOOLEAN
      BY DEF ProviderTypes
    <3>4. spoken' \in 0..Utterances
      BY <3>1, <3>3, CaptureAssumption
    <3>5. hinted' \in BOOLEAN
      BY <3>1, <3>3
    <3> QED
      BY <3>2, <3>4, <3>5
  <2> QED
    BY <2>1, <2>2 DEF HandlerTypes, LogTypes, BrowserTypes, ProviderTypes
<1>2. CASE ProviderDrops
  BY <1>2 DEF ProviderDrops, HandlerTypes, LogTypes, BrowserTypes, ProviderTypes
<1>3. CASE BrowserStep
  <2>1. /\ UNCHANGED <<server, receiver, stopping, log, thread, saved, sock, told, provider>>
        /\ browser' \in {"live", "stopped", "gone"}
        /\ \E m \in {"chunk", "stop", "disconnect"} : inbox' = Append(inbox, m)
    BY <1>3 DEF BrowserStep, SendChunk, SendStop, Leave, SeesClose, Sends, Departs, BrowserTypes
  <2> QED
    <3>1. inbox' \in Seq({"chunk", "stop", "disconnect"})
      BY <2>1, AppendProperties DEF BrowserTypes
    <3> QED
      BY <2>1, <3>1 DEF HandlerTypes, LogTypes, BrowserTypes, ProviderTypes
<1> QED
  BY <1>1, <1>2, <1>3 DEF ProviderStep

\* The state of a live session is always of its type.
THEOREM CaptureTyped == Spec => [](TypeOK /\ Storing)
<1>1. Init => TypeOK /\ Storing
  <2> SUFFICES ASSUME Init PROVE TypeOK /\ Storing
    OBVIOUS
  <2>1. HandlerTypes
    BY DEF Init, HandlerTypes, Over
  <2>2. LogTypes /\ Storing
    BY CaptureAssumption, EmptySeq DEF Init, LogTypes, Storing
  <2>3. BrowserTypes
    BY DEF Init, BrowserTypes
  <2>4. ProviderTypes
    <3> DEFINE EventType == [kind : {"partial", "committed", "timestamped", "error"},
                             text : 0..Utterances]
    <3>1. events \in Seq(EventType)
      BY EmptySeq, Zenon DEF Init
    <3>2. upstream = "none" /\ spoken = 0 /\ hinted = FALSE
      BY DEF Init
    <3>3. spoken \in 0..Utterances
      BY <3>2, CaptureAssumption
    <3> HIDE DEF EventType
    <3>4. upstream \in {"none", "open", "dropped", "closed"} /\ hinted \in BOOLEAN
      BY <3>2
    <3> QED
      BY <3>1, <3>3, <3>4, Zenon DEF ProviderTypes, EventType
  <2> QED
    BY <2>1, <2>2, <2>3, <2>4 DEF TypeOK
<1>2. TypeOK /\ Storing /\ [Next]_vars => TypeOK' /\ Storing'
  <2> SUFFICES ASSUME TypeOK, Storing, [Next]_vars PROVE TypeOK' /\ Storing'
    OBVIOUS
  <2>1. CASE UNCHANGED vars
    BY <2>1 DEF TypeOK, HandlerTypes, LogTypes, BrowserTypes, ProviderTypes, Storing, vars, server,
                log, provider
  <2> QED
    BY <2>1, HandlerKeepsTypes, ReceiverKeepsTypes, EnvironmentKeepsTypes DEF Next
<1> QED
  BY <1>1, <1>2, PTL DEF Spec
----------------------------------------------------------------------------
\* What the session's row and the browser's last message rest on.
Handled == HandlerTypes /\ Phases /\ EndedIsResolved /\ StoppedMeansQueued /\ AudioWithinLimit

\* A step of the handler keeps it.
LEMMA HandlerKeepsHandled ==
    ASSUME Handled, HandlerStep
    PROVE  Handled'
<1> USE DEF Handled, HandlerTypes, Phases, EndedIsResolved, StoppedMeansQueued, AudioWithinLimit,
            Over, server, log, provider, Goto, Tell
<1> USE CaptureAssumption
<1>1. CASE Open
  BY <1>1 DEF Open
<1>2. CASE Accept
  BY <1>2 DEF Accept
<1>3. CASE OpenFile
  BY <1>3 DEF OpenFile
<1>4. CASE Dial
  BY <1>4 DEF Dial
<1>5. CASE Greet
  BY <1>5 DEF Greet
<1>6. CASE ReceiveChunk
  BY <1>6 DEF ReceiveChunk, Receives
<1>7. CASE ReceiveStop
  BY <1>7 DEF ReceiveStop, Receives
<1>8. CASE ReceiveDisconnect
  BY <1>8 DEF ReceiveDisconnect, Receives
<1>9. CASE SendTail
  BY <1>9 DEF SendTail
<1>10. CASE WaitOver
  BY <1>10 DEF WaitOver
<1>11. CASE CancelReceiver
  BY <1>11 DEF CancelReceiver
<1>12. CASE FailCapture
  BY <1>12 DEF FailCapture
<1>13. CASE BeginFinalizing
  BY <1>13 DEF BeginFinalizing
<1>14. CASE FinalizeSilence
  BY <1>14 DEF FinalizeSilence, End
<1>15. CASE FinalizeCommit
  BY <1>15 DEF FinalizeCommit
<1>16. CASE FinalizeEnqueue
  BY <1>16 DEF FinalizeEnqueue, End
<1>17. CASE FinalizeRaises
  BY <1>17 DEF FinalizeRaises, End
<1> QED
  BY <1>1, <1>2, <1>3, <1>4, <1>5, <1>6, <1>7, <1>8, <1>9, <1>10, <1>11, <1>12, <1>13, <1>14, <1>15,
     <1>16, <1>17 DEF HandlerStep

\* The other actors leave what it is about alone: they tell the browser nothing
\* but errors, and only a receiver that runs changes where it is.
LEMMA OthersKeepHandled ==
    ASSUME Handled,
           \/ ReceiverStep \/ StoreSegment \/ StoreFails \/ ProviderStep \/ BrowserStep
           \/ UNCHANGED vars
    PROVE  Handled'
<1>1. UNCHANGED <<handler, reason, session, heard, pcm, stopping, saved>>
  BY DEF ReceiverStep, ReceivePartial, Commit, ReceiveCopy, ReceiveError, ReceiveFails, ShowFinal,
         StoreSegment, StoreFails, ProviderStep, ProviderHints, ProviderCommits,
         ProviderHasNothing, ProviderDrops, BrowserStep, SendChunk, SendStop, Leave, SeesClose,
         Sends, Departs, receiverLeavesAlone, server, vars
<1>2. told' \in {told, told \cup {"error"}}
  BY DEF ReceiverStep, ReceivePartial, Commit, ReceiveCopy, ReceiveError, ReceiveFails, ShowFinal,
         StoreSegment, StoreFails, Raise, Abort, Tell, ProviderStep, ProviderHints,
         ProviderCommits, ProviderHasNothing, ProviderDrops, BrowserStep, SendChunk, SendStop,
         Leave, SeesClose, Sends, Departs, vars
<1>3. receiver \in {"none", "done"} => receiver' = receiver
  BY DEF ReceiverStep, ReceivePartial, Commit, ReceiveCopy, ReceiveError, ReceiveFails, ShowFinal,
         StoreSegment, StoreFails, TakeEvent, ProviderStep, ProviderHints,
         ProviderCommits, ProviderHasNothing, ProviderDrops, BrowserStep, SendChunk, SendStop,
         Leave, SeesClose, Sends, Departs, vars
<1> QED
  BY <1>1, <1>2, <1>3
  DEF Handled, HandlerTypes, Phases, EndedIsResolved, StoppedMeansQueued, AudioWithinLimit

\* It holds of every reachable state.
LEMMA AlwaysHandled == Spec => []Handled
<1>1. Init => Handled
  <2> SUFFICES ASSUME Init PROVE Handled
    OBVIOUS
  <2>1. /\ handler = "start" /\ reason = "disconnect" /\ session = "none" /\ receiver = "none"
        /\ heard = 0 /\ pcm = 0 /\ stopping = FALSE /\ saved = "no" /\ told = {}
    BY DEF Init
  <2>2. HandlerTypes
    BY <2>1 DEF HandlerTypes, Over
  <2>3. Phases /\ EndedIsResolved /\ StoppedMeansQueued
    BY <2>1 DEF Phases, EndedIsResolved, StoppedMeansQueued
  <2>4. AudioWithinLimit
    BY <2>1, CaptureAssumption DEF AudioWithinLimit
  <2> QED
    BY <2>2, <2>3, <2>4 DEF Handled
<1>2. Handled /\ [Next]_vars => Handled'
  BY HandlerKeepsHandled, OthersKeepHandled DEF Next
<1> QED
  BY <1>1, <1>2, PTL DEF Spec

\* The handler never returns from a session it leaves recording: whoever ended
\* it, the row is failed or was handed to the pipeline.
THEOREM SessionsResolved == Spec => []EndedIsResolved
<1>1. Handled => EndedIsResolved
  BY DEF Handled
<1> QED
  BY <1>1, AlwaysHandled, PTL

\* "stopped" is only said of a session that was queued or had no audio.
THEOREM StoppedIsTrue == Spec => []StoppedMeansQueued
<1>1. Handled => StoppedMeansQueued
  BY DEF Handled
<1> QED
  BY <1>1, AlwaysHandled, PTL

\* The audio file respects the limit, and misses nothing that was counted below
\* it.
THEOREM AudioLimited == Spec => []AudioWithinLimit
<1>1. Handled => AudioWithinLimit
  BY DEF Handled
<1> QED
  BY <1>1, AlwaysHandled, PTL

\* Nothing that still runs when finalizing has begun changes the transcript.
THEOREM TranscriptFrozen == Spec => TranscriptIsFrozen
<1>1. Handled /\ [Next]_vars
          => [(handler \in {"finalizing", "queueing", "ended"}) => (parts' = parts)]_vars
  <2> SUFFICES ASSUME Handled, Next, handler \in {"finalizing", "queueing", "ended"}
               PROVE  parts' = parts
    OBVIOUS
  <2>1. CASE HandlerStep
    BY <2>1
    DEF HandlerStep, Open, Accept, OpenFile, Dial, Greet, ReceiveChunk, ReceiveStop,
        ReceiveDisconnect, Receives, SendTail, WaitOver, CancelReceiver, FailCapture,
        BeginFinalizing, FinalizeSilence, FinalizeCommit, FinalizeEnqueue, FinalizeRaises, End, log
  <2>2. CASE ReceiverStep \/ StoreSegment \/ StoreFails
    BY <2>2
    DEF ReceiverStep, ReceivePartial, Commit, ReceiveCopy, ReceiveError, ReceiveFails, ShowFinal,
        StoreSegment, StoreFails, TakeEvent, log, Handled, Phases
  <2>3. CASE ProviderStep \/ BrowserStep
    BY <2>3
    DEF ProviderStep, ProviderHints, ProviderCommits, ProviderHasNothing, ProviderDrops,
        BrowserStep, SendChunk, SendStop, Leave, SeesClose, Sends, Departs, log
  <2> QED
    BY <2>1, <2>2, <2>3 DEF Next
<1> QED
  BY <1>1, AlwaysHandled, PTL DEF Spec, TranscriptIsFrozen
----------------------------------------------------------------------------
(***************************************************************************)
(* The logs.  Only EventsFollow tells that the text that is received next  *)
(* is the next one of the transcript.                                      *)
(***************************************************************************)
EventTypes == [kind : {"partial", "committed", "timestamped", "error"}, text : 0..Utterances]

\* What is left when the head was taken.
LEMMA TailShifts ==
    ASSUME NEW S, NEW s \in Seq(S), s # <<>>
    PROVE  /\ Len(s) \in Nat /\ Len(s) > 0 /\ Head(s) = s[1]
           /\ Len(Tail(s)) = Len(s) - 1
           /\ \A i \in 1..Len(s) - 1 : Tail(s)[i] = s[i + 1]
BY HeadTailProperties, EmptySeq, LenProperties

\* The utterance that is received next follows the transcript, and so does a
\* partial that is received next.
LEMMA HeadIsNext ==
    ASSUME TypeOK, EventsFollow, receiver # "done", events # <<>>
    PROVE  /\ Said(Head(events)) => Head(events).text = Len(parts) + 1
           /\ Head(events).kind = "partial" => Head(events).text <= Len(parts) + 1
<1>1. /\ Len(events) \in Nat /\ 1 \in 1..Len(events) /\ Head(events) = events[1]
      /\ \A i \in 1..Len(events) : events[i].text \in Nat
  <2>1. events \in Seq(EventTypes)
    BY DEF TypeOK, ProviderTypes, EventTypes
  <2>2. Len(events) \in Nat /\ Len(events) > 0 /\ Head(events) = events[1]
    BY <2>1, TailShifts
  <2>3. \A i \in 1..Len(events) : events[i] \in EventTypes
    BY <2>1, ElementOfSeq
  <2>4. \A i \in 1..Len(events) : events[i].text \in Nat
    BY <2>3, CaptureAssumption DEF EventTypes
  <2> QED
    BY <2>2, <2>4
<1>2. NothingLost /\ InOrder /\ HintsAhead
  BY DEF EventsFollow
<1>3. Len(parts) \in Nat /\ spoken \in Nat
  BY LenProperties, CaptureAssumption DEF TypeOK, LogTypes, ProviderTypes
<1>4. ASSUME Said(events[1]) PROVE events[1].text = Len(parts) + 1
  <2>1. events[1].text \in Len(parts) + 1 .. spoken
    BY <1>1, <1>2, <1>4 DEF NothingLost
  <2>2. PICK i \in 1..Len(events) : Said(events[i]) /\ events[i].text = Len(parts) + 1
    BY <1>2, <1>3, <2>1 DEF NothingLost
  <2>3. CASE i = 1
    BY <2>2, <2>3
  <2>4. CASE i # 1
    <3>1. 1 < i
      BY <1>1, <2>4
    <3>2. events[1].text < events[i].text
      BY <1>1, <1>2, <1>4, <2>2, <3>1 DEF InOrder
    <3> QED
      BY <1>1, <1>3, <2>1, <2>2, <3>2
  <2> QED
    BY <2>3, <2>4
<1>5. ASSUME events[1].kind = "partial" PROVE events[1].text <= Len(parts) + 1
  <2>1. CASE spoken = Len(parts)
    BY <1>1, <1>2, <1>5, <2>1 DEF HintsAhead
  <2>2. CASE spoken # Len(parts)
    <3>1. Len(parts) + 1 \in Len(parts) + 1 .. spoken
      BY <1>2, <1>3, <2>2 DEF NothingLost
    <3>2. PICK i \in 1..Len(events) : Said(events[i]) /\ events[i].text = Len(parts) + 1
      BY <1>2, <3>1 DEF NothingLost
    <3>3. ~(i < 1)
      BY <1>1
    <3> QED
      BY <1>1, <1>2, <1>5, <3>2, <3>3 DEF HintsAhead
  <2> QED
    BY <2>1, <2>2
<1> QED
  BY <1>1, <1>4, <1>5

\* Taking the next event keeps the rest in step with a transcript that took its
\* utterance.
LEMMA TakingFollows ==
    ASSUME TypeOK, TypeOK', EventsFollow, receiver # "done", events # <<>>,
           events' = Tail(events), spoken' = spoken,
           Len(parts') = IF Said(Head(events)) THEN Len(parts) + 1 ELSE Len(parts),
           lastPartial' <= Len(parts') + 1
    PROVE  EventsFollow'
<1>1. /\ Len(events) \in Nat /\ Len(events) > 0 /\ Head(events) = events[1]
      /\ Len(events') = Len(events) - 1
      /\ \A i \in 1..Len(events') : i + 1 \in 1..Len(events) /\ events'[i] = events[i + 1]
  <2>1. events \in Seq(EventTypes)
    BY DEF TypeOK, ProviderTypes, EventTypes
  <2> QED
    BY <2>1, TailShifts
<1>2. Len(parts) \in Nat /\ spoken \in Nat
  BY LenProperties, CaptureAssumption DEF TypeOK, LogTypes, ProviderTypes
<1>3. NothingLost /\ InOrder /\ HintsAhead
  BY DEF EventsFollow
<1>4. Said(events[1]) => events[1].text = Len(parts) + 1
  BY <1>1, HeadIsNext
<1>5. NothingLost'
  <2>1. Len(parts') <= spoken'
    BY <1>1, <1>2, <1>3, <1>4 DEF NothingLost
  <2>2. ASSUME NEW i \in 1..Len(events'), Said(events'[i])
        PROVE  events'[i].text \in Len(parts') + 1 .. spoken'
    <3>1. Said(events[i + 1]) /\ events'[i] = events[i + 1] /\ i + 1 \in 1..Len(events)
      BY <1>1, <2>2
    <3>2. events[i + 1].text \in Len(parts) + 1 .. spoken
      BY <1>3, <3>1 DEF NothingLost
    <3>3. Said(events[1]) => events[1].text < events[i + 1].text
      BY <1>1, <1>3, <3>1 DEF InOrder
    <3> QED
      BY <1>1, <1>2, <1>4, <3>1, <3>2, <3>3
  <2>3. ASSUME NEW u \in Len(parts') + 1 .. spoken'
        PROVE  \E i \in 1..Len(events') : Said(events'[i]) /\ events'[i].text = u
    <3>1. u \in Len(parts) + 1 .. spoken /\ (Said(events[1]) => u # Len(parts) + 1)
      BY <1>1, <1>2
    <3>2. PICK i \in 1..Len(events) : Said(events[i]) /\ events[i].text = u
      BY <1>3, <3>1 DEF NothingLost
    <3>3. i # 1
      BY <1>4, <3>1, <3>2
    <3>4. i - 1 \in 1..Len(events') /\ events'[i - 1] = events[i]
      <4>1. i - 1 \in 1..Len(events') /\ (i - 1) + 1 = i
        BY <1>1, <3>3
      <4> QED
        BY <1>1, <4>1
    <3> QED
      BY <3>2, <3>4
  <2> QED
    BY <2>1, <2>2, <2>3 DEF NothingLost, Said
<1>6. InOrder'
  <2> SUFFICES ASSUME NEW i \in 1..Len(events'), NEW j \in 1..Len(events'), i < j,
                      Said(events'[i]), Said(events'[j])
               PROVE  events'[i].text < events'[j].text
    BY DEF InOrder, Said
  <2>1. /\ i + 1 \in 1..Len(events) /\ j + 1 \in 1..Len(events) /\ i + 1 < j + 1
        /\ events'[i] = events[i + 1] /\ events'[j] = events[j + 1]
    BY <1>1
  <2> QED
    BY <1>3, <2>1 DEF InOrder
<1>7. HintsAhead'
  <2>1. ASSUME NEW i \in 1..Len(events'), events'[i].kind = "partial"
        PROVE  events'[i].text <= spoken' + 1
    BY <1>1, <1>3, <2>1 DEF HintsAhead
  <2>2. ASSUME NEW i \in 1..Len(events'), events'[i].kind = "partial",
               NEW j \in 1..Len(events'), Said(events'[j])
        PROVE  IF j < i THEN events'[j].text < events'[i].text
               ELSE events'[j].text >= events'[i].text
    <3>1. /\ i + 1 \in 1..Len(events) /\ j + 1 \in 1..Len(events) /\ (j < i <=> j + 1 < i + 1)
          /\ events'[i] = events[i + 1] /\ events'[j] = events[j + 1]
      BY <1>1
    <3> QED
      BY <1>3, <2>2, <3>1 DEF HintsAhead
  <2> QED
    BY <2>1, <2>2 DEF HintsAhead, Said
<1> QED
  BY <1>5, <1>6, <1>7 DEF EventsFollow

\* What the provider sends goes to the end of what waits: something that says
\* nothing, a partial of the next utterance, or the next utterance.
LEMMA SendingFollows ==
    ASSUME TypeOK, TypeOK', EventsFollow, receiver # "done",
           parts' = parts, lastPartial' = lastPartial,
           NEW es \in Seq(EventTypes), events' = events \o es,
           \/ /\ spoken' = spoken
              /\ \A k \in 1..Len(es) :
                     /\ ~Said(es[k])
                     /\ es[k].kind = "partial" => es[k].text = spoken + 1
           \/ /\ spoken' = spoken + 1 /\ Len(es) > 0
              /\ es[1] = Event("committed", spoken + 1)
              /\ \A k \in 2..Len(es) : ~Said(es[k])
              /\ \A k \in 1..Len(es) : es[k].kind # "partial"
    PROVE  EventsFollow'
<1>1. /\ Len(events) \in Nat /\ Len(es) \in Nat /\ Len(events') = Len(events) + Len(es)
      /\ \A i \in 1..Len(events) : events'[i] = events[i]
      /\ \A k \in 1..Len(es) : events'[Len(events) + k] = es[k]
  <2>1. events \in Seq(EventTypes)
    BY DEF TypeOK, ProviderTypes, EventTypes
  <2> QED
    BY <2>1, ConcatProperties, LenProperties
<1>2. Len(parts) \in Nat /\ spoken \in Nat
  BY LenProperties, CaptureAssumption DEF TypeOK, LogTypes, ProviderTypes
<1>3. NothingLost /\ InOrder /\ HintsAhead
  BY DEF EventsFollow
<1>4. \A i \in 1..Len(events') :
          \/ i \in 1..Len(events) /\ events'[i] = events[i]
          \/ /\ i > Len(events) /\ i - Len(events) \in 1..Len(es)
             /\ events'[i] = es[i - Len(events)]
  <2> TAKE i \in 1..Len(events')
  <2>1. CASE i <= Len(events)
    BY <1>1, <2>1
  <2>2. CASE i > Len(events)
    <3>1. i - Len(events) \in 1..Len(es) /\ i = Len(events) + (i - Len(events))
      BY <1>1, <2>2
    <3> QED
      BY <1>1, <2>2, <3>1
  <2> QED
    BY <1>1, <2>1, <2>2
<1>5. \A i \in 1..Len(events') : Said(events'[i]) /\ i > Len(events) =>
          i = Len(events) + 1 /\ events'[i].text = spoken + 1 /\ spoken' = spoken + 1
  <2> SUFFICES ASSUME NEW i \in 1..Len(events'), Said(events'[i]), i > Len(events)
               PROVE  i = Len(events) + 1 /\ events'[i].text = spoken + 1 /\ spoken' = spoken + 1
    OBVIOUS
  <2>1. i - Len(events) \in 1..Len(es) /\ events'[i] = es[i - Len(events)]
    BY <1>1, <1>4
  <2>2. i - Len(events) = 1 /\ es[1] = Event("committed", spoken + 1) /\ spoken' = spoken + 1
    BY <1>1, <2>1
  <2> QED
    BY <1>1, <2>1, <2>2 DEF Event
<1>6. spoken' \in {spoken, spoken + 1}
  OBVIOUS
<1>7. NothingLost'
  <2>1. Len(parts') <= spoken'
    BY <1>2, <1>3, <1>6 DEF NothingLost
  <2>2. ASSUME NEW i \in 1..Len(events'), Said(events'[i])
        PROVE  events'[i].text \in Len(parts') + 1 .. spoken'
    <3>1. CASE i <= Len(events)
      <4>1. i \in 1..Len(events) /\ events'[i] = events[i]
        BY <1>1, <3>1
      <4>2. events[i].text \in Len(parts) + 1 .. spoken
        BY <1>3, <2>2, <4>1 DEF NothingLost
      <4> QED
        BY <1>2, <1>6, <4>1, <4>2
    <3>2. CASE i > Len(events)
      <4>1. events'[i].text = spoken + 1 /\ spoken' = spoken + 1
        BY <1>5, <2>2, <3>2
      <4>2. Len(parts') = Len(parts) /\ Len(parts) <= spoken
        BY <1>3 DEF NothingLost
      <4> QED
        BY <1>2, <4>1, <4>2
    <3> QED
      BY <1>1, <3>1, <3>2
  <2>3. ASSUME NEW u \in Len(parts') + 1 .. spoken'
        PROVE  \E i \in 1..Len(events') : Said(events'[i]) /\ events'[i].text = u
    <3>1. CASE u <= spoken
      <4>1. PICK i \in 1..Len(events) : Said(events[i]) /\ events[i].text = u
        BY <1>2, <1>3, <3>1 DEF NothingLost
      <4>2. i \in 1..Len(events') /\ events'[i] = events[i]
        BY <1>1
      <4> QED
        BY <4>1, <4>2
    <3>2. CASE u > spoken
      <4>1. /\ u = spoken + 1 /\ spoken' = spoken + 1 /\ Len(es) > 0
            /\ es[1] = Event("committed", spoken + 1)
        BY <1>2, <3>2
      <4>2. /\ Len(events) + 1 \in 1..Len(events')
            /\ events'[Len(events) + 1] = Event("committed", spoken + 1)
        BY <1>1, <4>1
      <4>3. Said(events'[Len(events) + 1]) /\ events'[Len(events) + 1].text = u
        BY <1>2, <4>1, <4>2 DEF Said, Event
      <4> QED
        BY <4>2, <4>3
    <3>3. u \in Nat
      BY <1>2, <1>6
    <3> QED
      BY <1>2, <3>1, <3>2, <3>3
  <2> QED
    BY <2>1, <2>2, <2>3 DEF NothingLost, Said
<1>8. \A j \in 1..Len(events) :
          Said(events[j]) => events[j].text <= spoken /\ events[j].text \in Nat
  BY <1>2, <1>3 DEF NothingLost
<1>9. InOrder'
  <2> SUFFICES ASSUME NEW i \in 1..Len(events'), NEW j \in 1..Len(events'), i < j,
                      Said(events'[i]), Said(events'[j])
               PROVE  events'[i].text < events'[j].text
    BY DEF InOrder, Said
  <2>1. CASE j <= Len(events)
    BY <1>1, <1>3, <2>1 DEF InOrder
  <2>2. CASE j > Len(events)
    <3>1. j = Len(events) + 1 /\ events'[j].text = spoken + 1
      BY <1>5, <2>2
    <3>2. i \in 1..Len(events) /\ events'[i] = events[i]
      BY <1>1, <3>1
    <3> QED
      BY <1>2, <1>8, <3>1, <3>2
  <2> QED
    BY <1>1, <2>1, <2>2
<1>10. HintsAhead'
  <2>1. lastPartial' <= Len(parts') + 1
    BY <1>3 DEF HintsAhead
  <2>2. ASSUME NEW i \in 1..Len(events'), events'[i].kind = "partial",
               NEW j \in 1..Len(events'), Said(events'[j])
        PROVE  IF j < i THEN events'[j].text < events'[i].text
               ELSE events'[j].text >= events'[i].text
    <3>1. CASE i <= Len(events) /\ j <= Len(events)
      BY <1>1, <1>3, <2>2, <3>1 DEF HintsAhead
    <3>2. CASE i <= Len(events) /\ j > Len(events)
      <4>1. events'[i].text <= spoken + 1 /\ ~(j < i) /\ events'[j].text = spoken + 1
        BY <1>1, <1>3, <1>5, <2>2, <3>2 DEF HintsAhead
      <4> QED
        BY <1>2, <4>1
    <3>3. CASE i > Len(events)
      <4>1. i - Len(events) \in 1..Len(es) /\ events'[i] = es[i - Len(events)]
        BY <1>1, <1>4, <3>3
      <4>2. es[i - Len(events)].text = spoken + 1 /\ \A k \in 1..Len(es) : ~Said(es[k])
        BY <2>2, <4>1
      <4>3. j \in 1..Len(events) /\ events'[j] = events[j] /\ j < i
        BY <1>1, <1>4, <2>2, <3>3, <4>2
      <4> QED
        BY <1>2, <1>8, <2>2, <4>1, <4>2, <4>3
    <3> QED
      BY <1>1, <3>1, <3>2, <3>3
  <2>3. ASSUME NEW i \in 1..Len(events'), events'[i].kind = "partial"
        PROVE  events'[i].text <= spoken' + 1
    <3>1. CASE i <= Len(events)
      <4>1. i \in 1..Len(events) /\ events'[i] = events[i]
        BY <1>1, <3>1
      <4>2. events[i].text <= spoken + 1 /\ events'[i].text \in Nat
        <5>1. events' \in Seq(EventTypes)
          BY DEF TypeOK, ProviderTypes, EventTypes
        <5>2. events'[i] \in EventTypes
          BY <5>1, ElementOfSeq
        <5> QED
          BY <1>3, <2>3, <4>1, <5>2, CaptureAssumption DEF HintsAhead, EventTypes
      <4> QED
        BY <1>2, <1>6, <4>1, <4>2
    <3>2. CASE i > Len(events)
      <4>1. i - Len(events) \in 1..Len(es) /\ events'[i] = es[i - Len(events)]
        BY <1>1, <1>4, <3>2
      <4> QED
        BY <1>2, <2>3, <4>1
    <3> QED
      BY <1>1, <3>1, <3>2
  <2> QED
    BY <2>1, <2>2, <2>3 DEF HintsAhead, Said
<1> QED
  BY <1>7, <1>9, <1>10 DEF EventsFollow

\* One more text keeps the count when it is the next one.
LEMMA CountsOn ==
    ASSUME NEW S, NEW s \in Seq(S), Counts(s), NEW x \in S, x = Len(s) + 1
    PROVE  Counts(Append(s, x)) /\ Len(Append(s, x)) = Len(s) + 1
<1>1. Len(s) \in Nat /\ Len(Append(s, x)) = Len(s) + 1
  BY AppendProperties, LenProperties
<1>2. \A i \in 1..Len(s) : Append(s, x)[i] = s[i]
  BY AppendProperties
<1>3. Append(s, x)[Len(s) + 1] = x
  BY AppendProperties
<1> QED
  BY <1>1, <1>2, <1>3 DEF Counts

\* The lengths that the steps below compare.
LEMMA Lengths ==
    ASSUME TypeOK
    PROVE  Len(parts) \in Nat /\ Len(rows) \in Nat /\ Len(shown) \in Nat /\ lastPartial \in Nat
BY LenProperties, CaptureAssumption DEF TypeOK, LogTypes

\* A step that touches neither logs nor events may hide the browser or end the
\* receiver, or start it.
LEMMA AsideKeepsLogs ==
    ASSUME LogsCount, EventsFollow, FirstPartial,
           UNCHANGED <<log, thread, events, spoken>>,
           Visible' => Visible,
           \/ receiver' = receiver \/ (receiver' = "done" /\ receiver # "none")
           \/ (receiver' = "done" /\ thread = 0)
           \/ (receiver = "none" /\ receiver' = "receiving")
    PROVE  LogsCount' /\ EventsFollow' /\ FirstPartial'
<1>1. LogsCount'
  BY DEF LogsCount, Counts, log
<1>2. EventsFollow' /\ FirstPartial'
  BY DEF EventsFollow, NothingLost, InOrder, HintsAhead, Said, FirstPartial, log
<1> QED
  BY <1>1, <1>2

\* A step of the handler keeps the logs: it changes the transcript only when the
\* receiver is gone, and then makes it of the first partial.
LEMMA HandlerKeepsLogs ==
    ASSUME TypeOK, CaptureInv, HandlerStep
    PROVE  LogsCount' /\ EventsFollow' /\ FirstPartial'
<1>1. CASE BeginFinalizing
  <2>1. /\ receiver \in {"none", "done"} /\ receiver' = receiver
        /\ UNCHANGED <<lastPartial, rows, shown, thread, events, spoken>>
        /\ parts' = IF parts = <<>> /\ lastPartial # 0 THEN <<lastPartial>> ELSE parts
        /\ Visible' = Visible
    BY <1>1 DEF BeginFinalizing, CaptureInv, Phases, provider, Visible
  <2>2. CASE parts' = parts
    <3>1. UNCHANGED <<log, thread, events, spoken>>
      BY <2>1, <2>2 DEF log
    <3> QED
      BY <2>1, <3>1, AsideKeepsLogs DEF CaptureInv
  <2>3. CASE parts' # parts
    <3>1. parts = <<>> /\ lastPartial # 0 /\ parts' = <<lastPartial>>
      BY <2>1, <2>3
    <3>2. receiver = "done" /\ lastPartial = 1
      BY <2>1, <3>1 DEF CaptureInv, LogsCount, FirstPartial
    <3>3. Len(parts) = 0 /\ Len(parts') = 1 /\ parts'[1] = 1 /\ parts' # <<>>
      BY <3>1, <3>2
    <3>4. Len(rows) = 0 /\ Len(shown) = 0 /\ thread = 0
      BY <3>3, Lengths DEF CaptureInv, LogsCount
    <3>5. LogsCount'
      BY <2>1, <3>2, <3>3, <3>4 DEF CaptureInv, LogsCount, Counts
    <3> QED
      BY <2>1, <3>2, <3>3, <3>5 DEF EventsFollow, FirstPartial
  <2> QED
    BY <2>2, <2>3
<1>2. CASE ~BeginFinalizing
  <2>1. UNCHANGED <<log, thread, events, spoken>> /\ (Visible' => Visible)
    BY <1>2
    DEF HandlerStep, Open, Accept, OpenFile, Dial, Greet, ReceiveChunk, ReceiveStop,
        ReceiveDisconnect, Receives, SendTail, WaitOver, CancelReceiver, FailCapture,
        FinalizeSilence, FinalizeCommit, FinalizeEnqueue, FinalizeRaises, End, log, provider,
        Visible
  <2>2. \/ receiver' = receiver
        \/ Greet /\ receiver' = "receiving"
        \/ CancelReceiver /\ receiver' = "done"
    BY <1>2
    DEF HandlerStep, Open, Accept, OpenFile, Dial, Greet, ReceiveChunk, ReceiveStop,
        ReceiveDisconnect, Receives, SendTail, WaitOver, CancelReceiver, FailCapture,
        FinalizeSilence, FinalizeCommit, FinalizeEnqueue, FinalizeRaises, End
  <2>3. Greet => receiver = "none"
    BY DEF Greet, CaptureInv, Phases
  <2>4. receiver = "none" => thread = 0
    BY DEF CaptureInv, LogsCount
  <2> QED
    BY <2>1, <2>2, <2>3, <2>4, AsideKeepsLogs DEF CaptureInv
<1> QED
  BY <1>1, <1>2

\* A step of the receiver or of its thread keeps the logs.
LEMMA ReceiverKeepsLogs ==
    ASSUME TypeOK, TypeOK', CaptureInv, ReceiverStep \/ StoreSegment \/ StoreFails
    PROVE  LogsCount' /\ EventsFollow' /\ FirstPartial'
<1> USE DEF receiverLeavesAlone
<1>1. CASE ReceivePartial
  <2>1. /\ receiver = "receiving" /\ events # <<>> /\ Head(events).kind = "partial"
        /\ events' = Tail(events) /\ lastPartial' = Head(events).text
        /\ UNCHANGED <<spoken, receiver, thread, parts, rows, shown, sock, browser>>
    BY <1>1 DEF ReceivePartial, TakeEvent
  <2>2. ~Said(Head(events)) /\ lastPartial' <= Len(parts) + 1
    BY <2>1, HeadIsNext DEF CaptureInv, Said
  <2>3. EventsFollow'
    BY <2>1, <2>2, TakingFollows DEF CaptureInv
  <2>4. LogsCount'
    BY <2>1 DEF CaptureInv, LogsCount, Counts, Visible
  <2>5. FirstPartial'
    <3>1. parts = <<>> => lastPartial' <= 1 /\ lastPartial' \in Nat
      <4>1. lastPartial' \in Nat
        BY CaptureAssumption DEF TypeOK, LogTypes
      <4> QED
        BY <2>2, <4>1
    <3> QED
      BY <2>1, <3>1 DEF FirstPartial
  <2> QED
    BY <2>3, <2>4, <2>5
<1>2. CASE Commit("committed")
  <2>1. /\ receiver = "receiving" /\ events # <<>> /\ Head(events).kind = "committed"
        /\ events' = Tail(events)
        /\ UNCHANGED <<spoken, lastPartial, rows, shown, sock, browser>>
    BY <1>2 DEF Commit, TakeEvent
  <2>2. CASE Head(events).text = 0
    <3>1. UNCHANGED <<parts, thread, receiver>> /\ ~Said(Head(events))
      BY <1>2, <2>2 DEF Commit, Said
    <3>2. lastPartial' <= Len(parts') + 1
      BY <2>1, <3>1 DEF CaptureInv, EventsFollow, HintsAhead
    <3>3. EventsFollow'
      BY <2>1, <3>1, <3>2, TakingFollows DEF CaptureInv
    <3> QED
      BY <2>1, <3>1, <3>3 DEF CaptureInv, LogsCount, Counts, Visible, FirstPartial
  <2>3. CASE Head(events).text # 0
    <3> DEFINE text == Head(events).text
    <3>1. parts' = Append(parts, text) /\ thread' = text /\ receiver' = "storing"
      BY <1>2, <2>3 DEF Commit
    <3>2. Said(Head(events))
      BY <2>1, <2>3 DEF Said
    <3>3. text = Len(parts) + 1
      BY <2>1, <3>2, HeadIsNext DEF CaptureInv
    <3>4. text \in 1..Utterances
      <4>1. text \in 0..Utterances
        <5>1. events \in Seq(EventTypes)
          BY DEF TypeOK, ProviderTypes, EventTypes
        <5>2. Head(events) \in EventTypes
          BY <2>1, <5>1, HeadTailType
        <5> QED
          BY <5>2 DEF EventTypes
      <4> QED
        BY <2>3, <4>1, CaptureAssumption
    <3>5. Counts(parts') /\ Len(parts') = Len(parts) + 1 /\ parts' # <<>>
      <4>1. parts \in Seq(1..Utterances) /\ Counts(parts)
        BY DEF TypeOK, LogTypes, CaptureInv, LogsCount
      <4> HIDE DEF text
      <4> QED
        BY <3>1, <3>3, <3>4, <4>1, CountsOn, AppendType
    <3>6. lastPartial' <= Len(parts') + 1
      <4>1. lastPartial <= Len(parts) + 1
        BY <2>1 DEF CaptureInv, EventsFollow, HintsAhead
      <4> QED
        BY <2>1, <3>5, <4>1, Lengths
    <3>7. EventsFollow'
      BY <2>1, <3>2, <3>5, <3>6, TakingFollows DEF CaptureInv
    <3>8. LogsCount'
      <4>1. /\ Counts(rows) /\ Counts(shown) /\ Len(shown) <= Len(rows) /\ Len(rows) = Len(parts)
            /\ (Visible => Len(shown) = Len(parts)) /\ (Visible' => Visible)
        BY <2>1 DEF CaptureInv, LogsCount, Visible
      <4> HIDE DEF text
      <4>2. /\ thread' = Len(parts') /\ thread' = Len(rows') + 1 /\ thread' # 0
            /\ Len(shown') <= Len(rows') /\ Len(rows') <= Len(parts')
            /\ (Visible' => Len(shown') = Len(parts') - 1)
        BY <2>1, <3>1, <3>3, <3>5, <4>1, Lengths
      <4>3. Counts(rows') /\ Counts(shown')
        BY <2>1, <4>1
      <4> QED
        BY <3>1, <3>5, <4>2, <4>3 DEF LogsCount, Counts
    <3> QED
      BY <3>5, <3>7, <3>8 DEF FirstPartial
  <2> QED
    BY <2>2, <2>3
<1>3. CASE ReceiveCopy
  <2>1. /\ receiver = "receiving" /\ events # <<>> /\ Head(events).kind = "timestamped"
        /\ events' = Tail(events)
        /\ UNCHANGED <<spoken, receiver, log, thread, sock, browser>>
    BY <1>3 DEF ReceiveCopy, TakeEvent
  <2>2. ~Said(Head(events)) /\ lastPartial' <= Len(parts') + 1
    BY <2>1 DEF Said, log, CaptureInv, EventsFollow, HintsAhead
  <2>3. EventsFollow'
    BY <2>1, <2>2, TakingFollows DEF CaptureInv, log
  <2> QED
    BY <2>1, <2>3 DEF CaptureInv, LogsCount, Counts, Visible, FirstPartial, log
<1>4. CASE ReceiveError
  <2>1. /\ receiver # "none" /\ receiver' = "done" /\ sock' = FALSE
        /\ UNCHANGED <<log, thread, browser>>
    BY <1>4 DEF ReceiveError, TakeEvent, Abort
  <2> QED
    BY <2>1 DEF CaptureInv, LogsCount, Counts, Visible, FirstPartial, EventsFollow, log
<1>5. CASE ReceiveFails
  <2>1. /\ receiver # "none" /\ receiver' = "done"
        /\ UNCHANGED <<log, thread, browser, events, spoken>>
        /\ sock' \in {sock, FALSE}
    BY <1>5 DEF ReceiveFails, Raise, Abort
  <2>2. Visible' => Visible
    BY <2>1 DEF Visible
  <2> QED
    BY <2>1, <2>2, AsideKeepsLogs DEF CaptureInv
<1>6. CASE StoreSegment
  <2>1. /\ thread # 0 /\ rows' = Append(rows, thread) /\ thread' = 0
        /\ UNCHANGED <<events, spoken, receiver, parts, lastPartial, shown, sock, browser>>
    BY <1>6 DEF StoreSegment
  <2>2. receiver \notin {"none", "receiving"} /\ thread = Len(parts) /\ thread = Len(rows) + 1
        /\ Counts(rows)
    BY <2>1 DEF CaptureInv, LogsCount
  <2>3. Counts(rows') /\ Len(rows') = Len(rows) + 1
    <3>1. rows \in Seq(1..Utterances) /\ thread \in 1..Utterances
      BY <2>1, CaptureAssumption DEF TypeOK, LogTypes
    <3> QED
      BY <2>1, <2>2, <3>1, CountsOn
  <2>4. Len(shown) <= Len(rows') /\ Len(rows') = Len(parts)
    BY <2>2, <2>3, Lengths DEF CaptureInv, LogsCount
  <2>5. LogsCount'
    BY <2>1, <2>2, <2>3, <2>4, Lengths DEF CaptureInv, LogsCount, Counts, Visible
  <2>6. EventsFollow' /\ FirstPartial'
    BY <2>1
    DEF CaptureInv, EventsFollow, NothingLost, InOrder, HintsAhead, Said, FirstPartial
  <2> QED
    BY <2>5, <2>6
<1>7. CASE StoreFails
  <2>1. /\ thread # 0 /\ thread' = 0
        /\ UNCHANGED <<events, spoken, log, browser>>
        /\ sock' \in {sock, FALSE}
        /\ receiver' = IF receiver = "storing" THEN "done" ELSE receiver
    BY <1>7 DEF StoreFails, Raise, Abort
  <2>2. receiver' = "done"
    BY <2>1 DEF CaptureInv, LogsCount, TypeOK, LogTypes
  <2> QED
    BY <2>1, <2>2 DEF CaptureInv, LogsCount, Counts, Visible, FirstPartial, EventsFollow, log
<1>8. CASE ShowFinal
  <2>1. /\ receiver = "storing" /\ thread = 0 /\ receiver' = "receiving"
        /\ shown' = IF Visible THEN Append(shown, Last(parts)) ELSE shown
        /\ UNCHANGED <<events, spoken, parts, lastPartial, rows, thread, sock, browser>>
    BY <1>8 DEF ShowFinal, Visible
  <2>2. /\ parts # <<>> /\ Len(rows) = Len(parts) /\ Counts(parts) /\ Counts(rows) /\ Counts(shown)
        /\ (Visible => Len(shown) = Len(parts) - 1) /\ Len(shown) <= Len(rows)
        /\ Visible' = Visible
    BY <2>1 DEF CaptureInv, LogsCount, Visible
  <2>3. parts \in Seq(1..Utterances) /\ shown \in Seq(1..Utterances)
    BY DEF TypeOK, LogTypes
  <2>4. Last(parts) = Len(parts) /\ Last(parts) \in 1..Utterances
    <3>1. Len(parts) \in 1..Len(parts)
      BY <2>2, <2>3, LenProperties, EmptySeq
    <3> QED
      BY <2>2, <2>3, <3>1, LastType DEF Counts, Last
  <2>5. /\ Counts(shown') /\ Len(shown') <= Len(rows)
        /\ (Visible => Len(shown') = Len(parts))
    <3>1. CASE Visible
      <4>1. shown' = Append(shown, Last(parts)) /\ Last(parts) = Len(shown) + 1
        BY <2>1, <2>2, <2>4, <3>1, Lengths
      <4>2. Counts(shown') /\ Len(shown') = Len(shown) + 1
        BY <2>2, <2>3, <2>4, <4>1, CountsOn
      <4> QED
        BY <2>2, <3>1, <4>2, Lengths
    <3>2. CASE ~Visible
      BY <2>1, <2>2, <3>2
    <3> QED
      BY <3>1, <3>2
  <2>6. LogsCount'
    BY <2>1, <2>2, <2>5, Lengths DEF CaptureInv, LogsCount, Counts
  <2>7. EventsFollow' /\ FirstPartial'
    BY <2>1
    DEF CaptureInv, EventsFollow, NothingLost, InOrder, HintsAhead, Said, FirstPartial
  <2> QED
    BY <2>6, <2>7
<1> QED
  BY <1>1, <1>2, <1>3, <1>4, <1>5, <1>6, <1>7, <1>8 DEF ReceiverStep

\* What a step of the provider adds to the events is of the two forms that
\* SendingFollows speaks of.
LEMMA ProviderSends ==
    ASSUME TypeOK, ProviderHints \/ ProviderCommits \/ ProviderHasNothing
    PROVE  \E es \in Seq(EventTypes) :
               /\ events' = events \o es
               /\ \/ /\ spoken' = spoken
                     /\ \A k \in 1..Len(es) :
                            /\ ~Said(es[k])
                            /\ es[k].kind = "partial" => es[k].text = spoken + 1
                  \/ /\ spoken' = spoken + 1 /\ Len(es) > 0
                     /\ es[1] = Event("committed", spoken + 1)
                     /\ \A k \in 2..Len(es) : ~Said(es[k])
                     /\ \A k \in 1..Len(es) : es[k].kind # "partial"
<1>0. ASSUME NEW kind \in {"partial", "committed", "timestamped", "error"},
             NEW text \in 0..Utterances
      PROVE  /\ Event(kind, text) \in EventTypes /\ <<Event(kind, text)>> \in Seq(EventTypes)
             /\ Len(<<Event(kind, text)>>) = 1 /\ <<Event(kind, text)>>[1] = Event(kind, text)
             /\ Event(kind, text).kind = kind /\ Event(kind, text).text = text
  <2>1. Event(kind, text) \in EventTypes
    BY DEF Event, EventTypes
  <2>2. <<>> \in Seq(EventTypes)
    BY EmptySeq
  <2>3. <<Event(kind, text)>> \in Seq(EventTypes)
    BY <2>1, <2>2, AppendType
  <2> QED
    BY <2>1, <2>3 DEF Event
<1>1. spoken \in 0..Utterances /\ 0 \in 0..Utterances
      /\ (spoken < Utterances => spoken + 1 \in 0..Utterances)
  BY CaptureAssumption DEF TypeOK, ProviderTypes
<1>2. CASE ProviderHints
  <2> DEFINE es == <<Event("partial", spoken + 1)>>
  <2>1. events' = events \o es /\ spoken' = spoken /\ spoken < Utterances
    BY <1>2 DEF ProviderHints, Emit
  <2>2. /\ es \in Seq(EventTypes) /\ Len(es) = 1
        /\ es[1].kind = "partial" /\ es[1].text = spoken + 1
    BY <1>0, <1>1, <2>1
  <2> HIDE DEF es
  <2>3. \A k \in 1..Len(es) : ~Said(es[k]) /\ es[k].text = spoken + 1
    BY <2>2 DEF Said
  <2> QED
    BY <2>1, <2>2, <2>3
<1>3. CASE ProviderCommits
  <2> DEFINE first == <<Event("committed", spoken + 1)>>
             copy == <<Event("timestamped", spoken + 1)>>
  <2>1. spoken' = spoken + 1 /\ spoken < Utterances
        /\ \E copies \in {<<>>, copy} : events' = events \o (first \o copies)
    BY <1>3 DEF ProviderCommits, Emit
  <2>2. PICK copies \in {<<>>, copy} : events' = events \o (first \o copies)
    BY <2>1
  <2> DEFINE es == first \o copies
  <2>3. /\ first \in Seq(EventTypes) /\ Len(first) = 1
        /\ first[1] = Event("committed", spoken + 1) /\ first[1].kind = "committed"
    BY <1>0, <1>1, <2>1
  <2>4. copy \in Seq(EventTypes) /\ Len(copy) = 1 /\ copy[1].kind = "timestamped"
    BY <1>0, <1>1, <2>1
  <2> HIDE DEF first, copy
  <2>5. /\ copies \in Seq(EventTypes) /\ Len(copies) \in {0, 1}
        /\ Len(copies) = 1 => copies[1].kind = "timestamped"
    <3>1. CASE copies = <<>>
      <4>1. copies \in Seq(EventTypes)
        BY <3>1, EmptySeq
      <4>2. Len(copies) = 0
        BY <3>1
      <4> QED
        BY <4>1, <4>2
    <3>2. CASE copies = copy
      BY <2>4, <3>2
    <3>3. copies \in {<<>>, copy}
      OBVIOUS
    <3> QED
      BY <3>1, <3>2, <3>3
  <2>6. /\ es \in Seq(EventTypes) /\ Len(es) = 1 + Len(copies) /\ es[1] = first[1]
        /\ Len(copies) = 1 => es[2] = copies[1]
    <3>1. es \in Seq(EventTypes)
      BY <2>3, <2>5, ConcatProperties
    <3>2. Len(es) = Len(first) + Len(copies)
      BY <2>3, <2>5, ConcatProperties
    <3>3. \A i \in 1..Len(first) : es[i] = first[i]
      BY <2>3, <2>5, ConcatProperties
    <3>4. \A i \in 1..Len(copies) : es[Len(first) + i] = copies[i]
      BY <2>3, <2>5, ConcatProperties
    <3> HIDE DEF es
    <3>5. Len(copies) = 1 => es[2] = copies[1]
      <4>1. Len(copies) = 1 => es[Len(first) + 1] = copies[1]
        BY <3>4
      <4> QED
        BY <2>3, <4>1
    <3> QED
      BY <2>3, <3>1, <3>2, <3>3, <3>5
  <2> HIDE DEF es
  <2>7. /\ \A k \in 2..Len(es) : es[k].kind = "timestamped"
        /\ \A k \in 1..Len(es) : k = 1 \/ es[k].kind = "timestamped"
    <3>1. \A k \in 1..Len(es) : k = 1 \/ (k = 2 /\ Len(copies) = 1)
      <4>1. CASE Len(copies) = 0
        <5>1. Len(es) = 1
          BY <2>6, <4>1
        <5> QED
          BY <5>1
      <4>2. CASE Len(copies) = 1
        <5>1. Len(es) = 2
          BY <2>6, <4>2
        <5> QED
          BY <4>2, <5>1
      <4> QED
        BY <2>5, <4>1, <4>2
    <3> QED
      BY <2>5, <2>6, <3>1
  <2>8. /\ \A k \in 2..Len(es) : ~Said(es[k])
        /\ \A k \in 1..Len(es) : es[k].kind # "partial"
    BY <2>3, <2>6, <2>7 DEF Said
  <2>9. Len(es) > 0 /\ es[1] = Event("committed", spoken + 1) /\ events' = events \o es
    BY <2>2, <2>3, <2>5, <2>6 DEF es
  <2> QED
    BY <2>1, <2>6, <2>8, <2>9
<1>4. CASE ProviderHasNothing
  <2>1. PICK kind \in {"committed", "error"} : events' = events \o <<Event(kind, 0)>>
    BY <1>4 DEF ProviderHasNothing, Emit
  <2> DEFINE es == <<Event(kind, 0)>>
  <2>2. spoken' = spoken
    BY <1>4 DEF ProviderHasNothing
  <2>3. es \in Seq(EventTypes) /\ Len(es) = 1 /\ es[1].kind = kind /\ es[1].text = 0
    BY <1>0, <1>1
  <2>4. events' = events \o es
    BY <2>1
  <2> HIDE DEF es
  <2>5. \A k \in 1..Len(es) : ~Said(es[k]) /\ es[k].kind # "partial"
    BY <2>3 DEF Said
  <2> QED
    BY <2>2, <2>3, <2>4, <2>5
<1> QED
  BY <1>2, <1>3, <1>4

\* A step of the provider or of the browser keeps the logs.
LEMMA EnvironmentKeepsLogs ==
    ASSUME TypeOK, TypeOK', CaptureInv, ProviderStep \/ BrowserStep
    PROVE  LogsCount' /\ EventsFollow' /\ FirstPartial'
<1>1. CASE ProviderHints \/ ProviderCommits \/ ProviderHasNothing
  <2>1. UNCHANGED <<receiver, log, thread, browser, sock>>
    BY <1>1 DEF ProviderHints, ProviderCommits, ProviderHasNothing
  <2>2. LogsCount' /\ FirstPartial'
    BY <2>1 DEF CaptureInv, LogsCount, Counts, Visible, FirstPartial, log
  <2>3. EventsFollow'
    <3>1. CASE receiver = "done"
      BY <2>1, <3>1 DEF EventsFollow
    <3>2. CASE receiver # "done"
      BY <1>1, <2>1, <3>2, ProviderSends, SendingFollows DEF CaptureInv, log
    <3> QED
      BY <3>1, <3>2
  <2> QED
    BY <2>2, <2>3
<1>2. CASE ProviderDrops \/ BrowserStep
  <2>1. UNCHANGED <<receiver, log, thread, events, spoken>> /\ (Visible' => Visible)
    BY <1>2
    DEF ProviderDrops, BrowserStep, SendChunk, SendStop, Leave, SeesClose, Sends, Departs,
        provider, Visible
  <2> QED
    BY <2>1, AsideKeepsLogs DEF CaptureInv
<1> QED
  BY <1>1, <1>2 DEF ProviderStep

\* Every reachable state has its logs in step, and its events in step with them.
THEOREM CaptureInvariant == Spec => []CaptureInv
<1>1. Init => LogsCount /\ EventsFollow /\ FirstPartial
  <2> SUFFICES ASSUME Init PROVE LogsCount /\ EventsFollow /\ FirstPartial
    OBVIOUS
  <2>1. /\ parts = <<>> /\ rows = <<>> /\ shown = <<>> /\ events = <<>>
        /\ lastPartial = 0 /\ thread = 0 /\ spoken = 0 /\ receiver = "none"
    BY DEF Init
  <2>2. Len(parts) = 0 /\ Len(rows) = 0 /\ Len(shown) = 0 /\ Len(events) = 0
    BY <2>1
  <2>3. LogsCount /\ FirstPartial
    BY <2>1, <2>2 DEF LogsCount, Counts, FirstPartial
  <2>4. EventsFollow
    BY <2>1, <2>2 DEF EventsFollow, NothingLost, InOrder, HintsAhead
  <2> QED
    BY <2>3, <2>4
<1>2. ASSUME TypeOK, TypeOK', Phases, Phases', LogsCount /\ EventsFollow /\ FirstPartial,
             [Next]_vars
      PROVE  LogsCount' /\ EventsFollow' /\ FirstPartial'
  <2>1. CaptureInv
    BY <1>2 DEF CaptureInv
  <2>2. CASE UNCHANGED vars
    <3>1. UNCHANGED <<log, thread, events, spoken, receiver>> /\ Visible' = Visible
      BY <2>2 DEF vars, log, provider, Visible
    <3> QED
      BY <2>1, <3>1, AsideKeepsLogs DEF CaptureInv
  <2> QED
    BY <1>2, <2>1, <2>2, HandlerKeepsLogs, ReceiverKeepsLogs, EnvironmentKeepsLogs DEF Next
<1>3. Handled => Phases
  BY DEF Handled
<1>4. Phases /\ LogsCount /\ EventsFollow /\ FirstPartial => CaptureInv
  BY DEF CaptureInv
<1> QED
  BY <1>1, <1>2, <1>3, <1>4, CaptureTyped, AlwaysHandled, PTL DEF Spec

\* The browser was shown, the table holds and the transcript has the utterances
\* of the provider in its order, each once, and each log is the beginning of the
\* next one.
THEOREM LogsAlwaysAgree == Spec => []LogsAgree
<1>1. TypeOK /\ CaptureInv => LogsAgree
  <2> SUFFICES ASSUME TypeOK, CaptureInv PROVE LogsAgree
    OBVIOUS
  <2>1. /\ Counts(parts) /\ Counts(rows) /\ Counts(shown)
        /\ Len(shown) <= Len(rows) /\ Len(rows) <= Len(parts)
    BY DEF CaptureInv, LogsCount
  <2>2. ASSUME NEW S, NEW s \in Seq(S), NEW t \in Seq(S), Counts(s), Counts(t), Len(s) <= Len(t)
        PROVE  IsPrefix(s, t)
    <3>1. Len(s) \in Nat /\ Len(t) \in Nat
      BY LenProperties
    <3>2. /\ SubSeq(t, 1, Len(s)) \in Seq(S) /\ Len(SubSeq(t, 1, Len(s))) = Len(s)
          /\ \A i \in 1..Len(s) : SubSeq(t, 1, Len(s))[i] = t[i]
      BY <2>2, <3>1, SubSeqProperties
    <3>3. \A i \in 1..Len(s) : SubSeq(t, 1, Len(s))[i] = s[i]
      BY <2>2, <3>1, <3>2 DEF Counts
    <3>4. s = SubSeq(t, 1, Len(s))
      BY <3>2, <3>3, SeqEqual
    <3> QED
      BY <2>2, <3>4 DEF IsPrefix
  <2>3. parts \in Seq(1..Utterances) /\ rows \in Seq(1..Utterances) /\ shown \in Seq(1..Utterances)
    BY DEF TypeOK, LogTypes
  <2>4. \A i \in DOMAIN parts : parts[i] = i
    BY <2>1, <2>3, LenProperties DEF Counts
  <2> QED
    BY <2>1, <2>2, <2>3, <2>4 DEF LogsAgree
<1> QED
  BY <1>1, CaptureTyped, CaptureInvariant, PTL
----------------------------------------------------------------------------
(***************************************************************************)
(* The contract of the socket.                                             *)
(***************************************************************************)

\* What was said is known by where the handler is, as long as the browser is
\* there and the socket open.
Spoken ==
    /\ handler \in {"start", "accepting"} => told \cap Words = {}
    /\ handler \in {"start", "accepting"} => sock
    /\ handler \in {"refused", "died", "ended"} => ~Visible
    /\ Visible /\ handler \notin {"start", "accepting"} => "connecting" \in told
    /\ Visible /\ handler \in {"finalizing", "queueing"} => "finalizing" \in told

\* What a step may do to the server's end.
Contract == UNCHANGED ServerEnd \/ ServerEnd' \in Moves(ServerEnd)

\* The server's end field by field.
LEMMA ServerEndFields ==
    ServerEnd.open = sock /\ ServerEnd.told = told \cap Words
BY DEF ServerEnd

\* Any close is a move, and so are a close that is accompanied by a message and
\* a message alone, when the message is due.
LEMMA ClosingMoves ==
    ASSUME sock = TRUE, sock' = FALSE, told' \cap Words = told \cap Words
    PROVE  Contract
<1>1. ServerEnd' = Closed(ServerEnd)
  BY DEF ServerEnd, Closed
<1> QED
  BY <1>1, ServerEndFields DEF Contract, Moves, Ends

LEMMA SayingMoves ==
    ASSUME sock = TRUE, sock' = TRUE, NEW word \in {"connecting", "finalizing"},
           told' = told \cup {word},
           IF word = "connecting" THEN "connecting" \notin told ELSE "connecting" \in told
    PROVE  Contract
<1>1. told' \cap Words = (told \cap Words) \cup {word}
  BY DEF Words
<1>2. ServerEnd' = Says(ServerEnd, word)
  BY <1>1 DEF ServerEnd, Says
<1>3. Accepted(ServerEnd) <=> "connecting" \in told
  BY DEF ServerEnd, Accepted, Words
<1>4. Says(ServerEnd, word) \in Talks(ServerEnd)
  BY <1>3 DEF Talks
<1> QED
  BY <1>2, <1>4, ServerEndFields DEF Contract, Moves

LEMMA StoppingMoves ==
    ASSUME sock = TRUE, sock' = FALSE, told' = told \cup {"stopped"}, "finalizing" \in told
    PROVE  Contract
<1>1. told' \cap Words = (told \cap Words) \cup {"stopped"}
  BY DEF Words
<1>2. ServerEnd' = Closed(Says(ServerEnd, "stopped"))
  BY <1>1 DEF ServerEnd, Says, Closed
<1>3. "finalizing" \in ServerEnd.told
  BY DEF ServerEnd, Words
<1> QED
  BY <1>2, <1>3, ServerEndFields DEF Contract, Moves, Ends

\* Nothing is said to a browser that is not there.
LEMMA SilenceKeeps ==
    ASSUME sock' = sock, told' \cap Words = told \cap Words
    PROVE  Contract
BY DEF Contract, ServerEnd

\* A step of the handler makes a move, or none.
LEMMA HandlerKeepsContract ==
    ASSUME TypeOK, Spoken, HandlerStep
    PROVE  Contract /\ Spoken'
<1> USE DEF Goto, Spoken, Visible
<1>0. sock \in BOOLEAN
  BY DEF TypeOK, BrowserTypes
<1>1. CASE Open
  <2>1. told' = told /\ browser' = browser
    BY <1>1 DEF Open
  <2>2. CASE handler' = "refused"
    BY <1>1, <2>1, <2>2, ClosingMoves DEF Open
  <2>3. CASE handler' = "accepting"
    BY <1>1, <2>1, <2>3, SilenceKeeps DEF Open
  <2> QED
    BY <1>1, <2>2, <2>3 DEF Open
<1>2. CASE Accept
  <2>1. sock' = sock /\ browser' = browser /\ sock /\ handler = "accepting"
    BY <1>2 DEF Accept
  <2>2. CASE browser = "gone"
    <3>1. told' = told
      BY <1>2, <2>2 DEF Accept, Tell
    <3> QED
      BY <1>2, <2>1, <2>2, <3>1, SilenceKeeps DEF Accept
  <2>3. CASE browser # "gone"
    <3>1. told' = told \cup {"connecting"} /\ handler' = "filing"
      BY <1>2, <2>1, <2>3 DEF Accept, Tell
    <3>2. "connecting" \notin told
      BY <2>1 DEF Words
    <3> QED
      BY <2>1, <3>1, <3>2, SayingMoves
  <2> QED
    BY <2>2, <2>3
<1>3. ASSUME NEW type \in {"error", "ready"}, Tell(type)
      PROVE  told' \cap Words = told \cap Words /\ told \subseteq told'
  BY <1>3 DEF Tell, Words
<1>4. CASE OpenFile
  <2>1. CASE sock' = sock
    BY <1>4, <1>3, <2>1, SilenceKeeps DEF OpenFile
  <2>2. CASE sock' # sock
    BY <1>0, <1>4, <1>3, <2>2, ClosingMoves DEF OpenFile
  <2> QED
    BY <2>1, <2>2
<1>5. CASE Dial \/ Greet \/ ReceiveChunk
  <2>1. /\ sock' = sock /\ browser' = browser
        /\ handler \in {"dialing", "greeting", "capturing"}
        /\ handler' \in {"greeting", "closing", "capturing", "cancelling"}
        /\ told' \cap Words = told \cap Words /\ told \subseteq told'
    BY <1>5, <1>3 DEF Dial, Greet, ReceiveChunk, Receives
  <2> QED
    BY <2>1, SilenceKeeps
<1>6. CASE ReceiveStop \/ ReceiveDisconnect \/ SendTail \/ WaitOver \/ CancelReceiver
  <2>1. /\ sock' = sock /\ browser' = browser /\ told' = told
        /\ handler \in {"capturing", "tailing", "waiting", "cancelling"}
        /\ handler' \in {"tailing", "waiting", "cancelling", "closing"}
    BY <1>6 DEF ReceiveStop, ReceiveDisconnect, Receives, SendTail, WaitOver, CancelReceiver
  <2> QED
    BY <2>1, SilenceKeeps
<1>7. CASE FailCapture
  <2>1. sock' = FALSE /\ told' = told /\ handler' = "ended" /\ browser' = browser
    BY <1>7 DEF FailCapture
  <2> QED
    BY <1>0, <2>1, SilenceKeeps, ClosingMoves
<1>8. CASE BeginFinalizing
  <2>1. /\ handler = "closing" /\ handler' = "finalizing" /\ Tell("finalizing")
        /\ sock' = sock /\ browser' = browser
    BY <1>8 DEF BeginFinalizing
  <2>2. CASE Visible
    <3>1. told' = told \cup {"finalizing"} /\ "connecting" \in told /\ sock
      BY <2>1, <2>2 DEF Tell
    <3> QED
      BY <2>1, <3>1, SayingMoves
  <2>3. CASE ~Visible
    BY <2>1, <2>3, SilenceKeeps DEF Tell
  <2> QED
    BY <2>2, <2>3
<1>9. ASSUME NEW type, NEW status, End(type, status), handler \in {"finalizing", "queueing"},
             type \in {"stopped", "error"}
      PROVE  Contract /\ Spoken'
  <2>1. sock' = FALSE /\ handler' = "ended" /\ browser' = browser /\ Tell(type)
    BY <1>9 DEF End
  <2>2. CASE ~sock
    BY <2>1, <2>2, <1>0, SilenceKeeps DEF Tell
  <2>3. CASE sock /\ (browser = "gone" \/ type = "error")
    <3>1. told' \cap Words = told \cap Words
      BY <2>1, <2>3, <1>3 DEF Tell
    <3> QED
      BY <2>1, <2>3, <3>1, ClosingMoves
  <2>4. CASE Visible /\ type = "stopped"
    <3>1. told' = told \cup {"stopped"} /\ "finalizing" \in told
      BY <1>9, <2>1, <2>4 DEF Tell
    <3> QED
      BY <2>1, <2>4, <3>1, StoppingMoves
  <2> QED
    BY <1>0, <1>9, <2>2, <2>3, <2>4
<1>10. CASE FinalizeSilence \/ FinalizeEnqueue \/ FinalizeRaises
  BY <1>9, <1>10 DEF FinalizeSilence, FinalizeEnqueue, FinalizeRaises
<1>11. CASE FinalizeCommit
  <2>1. /\ sock' = sock /\ browser' = browser /\ told' = told
        /\ handler = "finalizing" /\ handler' = "queueing"
    BY <1>11 DEF FinalizeCommit
  <2> QED
    BY <2>1, SilenceKeeps
<1> QED
  BY <1>1, <1>2, <1>4, <1>5, <1>6, <1>7, <1>8, <1>10, <1>11 DEF HandlerStep

\* The others say errors only, and the receiver closes.
LEMMA OthersKeepContract ==
    ASSUME TypeOK, Spoken,
           Phases, ReceiverStep \/ StoreSegment \/ StoreFails \/ ProviderStep \/ BrowserStep
    PROVE  Contract /\ Spoken'
<1>1. sock \in BOOLEAN
  BY DEF TypeOK, BrowserTypes
<1>2. /\ handler' = handler /\ told' \cap Words = told \cap Words /\ told \subseteq told'
      /\ browser' = "gone" \/ browser # "gone"
      /\ sock' = sock \/ (sock' = FALSE /\ receiver # "none")
  BY DEF ReceiverStep, ReceivePartial, Commit, ReceiveCopy, ReceiveError, ReceiveFails, Raise,
         Abort, Tell, Words, ShowFinal, TakeEvent, receiverLeavesAlone, server, log, provider,
         StoreSegment, StoreFails, ProviderStep, ProviderHints, ProviderCommits,
         ProviderHasNothing, ProviderDrops, BrowserStep, SendChunk, SendStop, Sends, Leave,
         SeesClose, Departs
<1>3. CASE sock' = sock
  BY <1>2, <1>3, SilenceKeeps DEF Spoken, Visible
<1>4. CASE sock' = FALSE /\ sock
  BY <1>2, <1>4, ClosingMoves DEF Spoken, Visible, Phases
<1> QED
  BY <1>1, <1>2, <1>3, <1>4

\* The server's end of the socket keeps the contract that LiveClient is checked
\* against, in whatever order the handler and the receiver send and close.
THEOREM SocketKept == Spec => SocketContract
<1>1. Init => Spoken /\ ServerEnd = NewWire
  BY DEF Init, Spoken, Visible, ServerEnd, NewWire
<1>2. TypeOK /\ Handled /\ Spoken /\ [Next]_vars => Contract /\ Spoken'
  <2> SUFFICES ASSUME TypeOK, Phases, Spoken, [Next]_vars PROVE Contract /\ Spoken'
    BY DEF Handled
  <2>1. CASE UNCHANGED vars
    BY <2>1 DEF vars, server, Contract, ServerEnd, Spoken, Visible
  <2> QED
    BY <2>1, HandlerKeepsContract, OthersKeepContract DEF Next
<1>3. Contract => [ServerEnd' \in Moves(ServerEnd)]_ServerEnd
  BY DEF Contract
<1> QED
  BY <1>1, <1>2, <1>3, CaptureTyped, AlwaysHandled, PTL DEF Spec, SocketContract
----------------------------------------------------------------------------
(***************************************************************************)
(* The row of live_sessions keeps LiveSessionLifecycle, the promise that   *)
(* the finalizers of MeetingPipeline build on: before it is inserted it    *)
(* counts as recording, and it is stored when finalizing has committed.    *)
(***************************************************************************)
RowStatus == [l \in {"row"} |-> IF session = "none" THEN "recording" ELSE session]

RowStored == {l \in {"row"} : saved # "no"}

SessionRow == INSTANCE LiveSessionLifecycle
    WITH Sessions <- {"row"}, status <- RowStatus, stored <- RowStored

CaptureKeepsLifecycle == SessionRow!Spec

\* Until its audio is committed the row of a session that goes on is recording.
RowFollowsAudio ==
    /\ handler = "start" => session = "none"
    /\ handler \in {"accepting", "filing", "dialing", "greeting", "capturing", "tailing", "waiting",
                    "cancelling", "closing", "finalizing"} => session = "recording"
    /\ handler \notin {"queueing", "ended"} => saved = "no"
    /\ handler = "queueing" => session = "finalizing" /\ saved = "committed"

RowMoves == [SessionRow!Next]_(SessionRow!vars)

\* What changes neither status nor storage is a stutter.
LEMMA RowStays ==
    ASSUME session' = session \/ (session = "none" /\ session' = "recording"),
           saved' = saved \/ (saved # "no" /\ saved' # "no")
    PROVE  RowMoves
<1>1. RowStatus' = RowStatus
  BY DEF RowStatus
<1>2. RowStored' = RowStored
  BY DEF RowStored
<1> QED
  BY <1>1, <1>2 DEF RowMoves, SessionRow!vars

\* A recording row that fails is discarded, a row with stored audio is resolved.
LEMMA RowFails ==
    ASSUME session' = "failed", saved' = saved, (session = "recording" /\ saved = "no") \/ saved # "no"
    PROVE  RowMoves
<1>1. RowStatus' = [RowStatus EXCEPT !["row"] = "failed"]
  BY DEF RowStatus
<1>2. RowStored' = RowStored
  BY DEF RowStored
<1>3. CASE session = "recording" /\ saved = "no"
  <2>1. RowStatus["row"] = "recording" /\ "row" \notin RowStored
    BY <1>3 DEF RowStatus, RowStored
  <2>2. SessionRow!Discard("row")
    BY <1>1, <1>2, <2>1 DEF SessionRow!Discard
  <2> QED
    BY <2>2 DEF RowMoves, SessionRow!Next
<1>4. CASE saved # "no"
  <2>1. "row" \in RowStored
    BY <1>4 DEF RowStored
  <2>2. SessionRow!Resolve("row", "failed")
    BY <1>1, <1>2, <2>1 DEF SessionRow!Resolve
  <2> QED
    BY <2>2 DEF RowMoves, SessionRow!Next
<1> QED
  BY <1>3, <1>4

LEMMA RowIsStored ==
    ASSUME session = "recording", saved = "no", session' = "finalizing", saved' = "committed"
    PROVE  RowMoves
<1>1. RowStatus' = [RowStatus EXCEPT !["row"] = "finalizing"] /\ RowStatus["row"] = "recording"
  BY DEF RowStatus
<1>2. RowStored' = RowStored \cup {"row"} /\ "row" \notin RowStored
  BY DEF RowStored
<1>3. SessionRow!Store("row")
  BY <1>1, <1>2 DEF SessionRow!Store
<1> QED
  BY <1>3 DEF RowMoves, SessionRow!Next

LEMMA HandlerKeepsRow ==
    ASSUME HandlerTypes, RowFollowsAudio, HandlerStep
    PROVE  RowMoves /\ RowFollowsAudio'
<1> USE DEF RowFollowsAudio, HandlerTypes, Over, Goto
<1>1. CASE Open \/ Accept
  <2>1. (session' = session \/ (session = "none" /\ session' = "recording")) /\ saved' = saved
    BY <1>1 DEF Open, Accept
  <2> QED
    BY <1>1, <2>1, RowStays DEF Open, Accept
<1>2. CASE OpenFile
  <2>1. session = "recording" /\ saved = "no" /\ saved' = saved
        /\ session' \in {session, "failed"}
    BY <1>2 DEF OpenFile
  <2> QED
    BY <1>2, <2>1, RowStays, RowFails DEF OpenFile
<1>3. CASE Dial \/ Greet
  <2>1. session' = session /\ saved' = saved
    BY <1>3 DEF Dial, Greet
  <2> QED
    BY <1>3, <2>1, RowStays DEF Dial, Greet
<1>4. CASE ReceiveChunk \/ ReceiveStop \/ ReceiveDisconnect
  <2>1. session' = session /\ saved' = saved
        /\ handler = "capturing" /\ handler' \in {"capturing", "tailing", "cancelling"}
    BY <1>4 DEF ReceiveChunk, ReceiveStop, ReceiveDisconnect, Receives
  <2> QED
    BY <2>1, RowStays
<1>5. CASE SendTail \/ WaitOver \/ CancelReceiver \/ BeginFinalizing
  <2>1. session' = session /\ saved' = saved
        /\ handler \in {"tailing", "waiting", "cancelling", "closing"}
        /\ handler' \in {"waiting", "cancelling", "closing", "finalizing"}
    BY <1>5 DEF SendTail, WaitOver, CancelReceiver, BeginFinalizing
  <2> QED
    BY <2>1, RowStays
<1>6. CASE FailCapture \/ FinalizeSilence
  <2>1. session = "recording" /\ saved = "no" /\ session' = "failed" /\ saved' = saved
        /\ handler' = "ended"
    BY <1>6 DEF FailCapture, FinalizeSilence, End
  <2> QED
    BY <2>1, RowFails
<1>7. CASE FinalizeCommit
  <2>1. session = "recording" /\ saved = "no" /\ session' = "finalizing" /\ saved' = "committed"
        /\ handler' = "queueing"
    BY <1>7 DEF FinalizeCommit
  <2> QED
    BY <2>1, RowIsStored
<1>8. CASE FinalizeEnqueue
  <2>1. session' = session /\ saved # "no" /\ saved' # "no" /\ handler' = "ended"
    BY <1>8 DEF FinalizeEnqueue, End
  <2> QED
    BY <2>1, RowStays
<1>9. CASE FinalizeRaises
  <2>1. /\ session' = "failed" /\ saved' = saved /\ handler' = "ended"
        /\ (session = "recording" /\ saved = "no") \/ saved # "no"
    BY <1>9 DEF FinalizeRaises, End
  <2> QED
    BY <2>1, RowFails
<1> QED
  BY <1>1, <1>2, <1>3, <1>4, <1>5, <1>6, <1>7, <1>8, <1>9 DEF HandlerStep

\* Whatever browser, provider, storage and queue do, the row that the handler of
\* a live session writes keeps the lifecycle.
THEOREM CaptureImplementsLifecycle == Spec => CaptureKeepsLifecycle
<1>1. Init => SessionRow!Init /\ RowFollowsAudio
  <2> SUFFICES ASSUME Init PROVE SessionRow!Init /\ RowFollowsAudio
    OBVIOUS
  <2>1. handler = "start" /\ session = "none" /\ saved = "no"
    BY DEF Init
  <2>2. RowStatus = [l \in {"row"} |-> "recording"] /\ RowStored = {}
    BY <2>1 DEF RowStatus, RowStored
  <2> QED
    BY <2>1, <2>2 DEF SessionRow!Init, RowFollowsAudio
<1>2. Handled /\ RowFollowsAudio /\ [Next]_vars => RowMoves /\ RowFollowsAudio'
  <2> SUFFICES ASSUME Handled, RowFollowsAudio, [Next]_vars
               PROVE  RowMoves /\ RowFollowsAudio'
    OBVIOUS
  <2>1. CASE ~HandlerStep
    <3>1. UNCHANGED <<handler, session, saved>>
      BY <2>1 DEF Next, ReceiverStep, ReceivePartial, Commit, ReceiveCopy, ReceiveError,
              ReceiveFails, ShowFinal, StoreSegment, StoreFails, ProviderStep, ProviderHints,
              ProviderCommits, ProviderHasNothing, ProviderDrops, BrowserStep, SendChunk, SendStop,
              Leave, SeesClose, Sends, Departs, receiverLeavesAlone, server, vars
    <3> QED
      BY <3>1, RowStays DEF RowFollowsAudio
  <2> QED
    BY <2>1, HandlerKeepsRow DEF Handled
<1> QED
  BY <1>1, <1>2, AlwaysHandled, PTL DEF Spec, CaptureKeepsLifecycle, SessionRow!Spec, RowMoves
----------------------------------------------------------------------------
(***************************************************************************)
(* The limits.                                                             *)
(***************************************************************************)

\* 1875 parts of 1024 bytes a minute make a megabyte exactly only when the
\* minutes are a multiple of 1024.
LEMMA SeldomExactlyFull ==
    ASSUME NEW m \in Nat, NEW n \in Nat, 1875 * m <= 1024 * n, m % 1024 # 0
    PROVE  1875 * m + 1 <= 1024 * n
<1>1. PICK q \in Nat, r \in 1..1023 : m = 1024 * q + r
  <2>1. m \div 1024 \in Nat
    OBVIOUS
  <2>2. m % 1024 \in 1..1023
    OBVIOUS
  <2>3. m = 1024 * (m \div 1024) + (m % 1024)
    OBVIOUS
  <2> QED
    BY <2>1, <2>2, <2>3
<1>2. 1875 * r # 1024 * (n - 1875 * q)
  OBVIOUS
<1>3. 1875 * m # 1024 * n
  BY <1>1, <1>2
<1> QED
  BY <1>3

\* A recording as long as the settings allow is stored, with its header, for any
\* settings that are accepted at startup, but for those that a multiple of 1024
\* minutes fills to the last byte.
THEOREM FullSessionsFit == LimitsSpec => []FullSessionFits
<1>1. Started => FullSessionFits
  <2> SUFFICES ASSUME Started PROVE FullSessionFits
    OBVIOUS
  <2>1. minutes \in Nat /\ mb \in Nat
    BY LimitsAssumption DEF Started
  <2>2. LiveBytes = 1024 * (1875 * minutes) /\ UploadBytes = 1024 * (1024 * mb)
    BY <2>1 DEF LiveBytes, UploadBytes
  <2>3. 1875 * minutes <= 1024 * mb
    BY <2>1, <2>2 DEF Started, Accepts
  <2>4. LiveBytes \in Nat /\ 44 + 2 * (LiveBytes \div 2) <= 44 + LiveBytes
    BY <2>1, <2>2
  <2>5. CASE 1875 * minutes + 1 <= 1024 * mb
    BY <2>1, <2>2, <2>4, <2>5 DEF FullSessionFits, WavBytes
  <2>6. CASE ~(1875 * minutes + 1 <= 1024 * mb)
    <3>1. minutes % 1024 = 0
      BY <2>1, <2>3, <2>6, SeldomExactlyFull
    <3>2. LiveBytes = UploadBytes
      BY <2>1, <2>2, <2>3, <2>6
    <3> QED
      BY <3>1, <3>2 DEF FullSessionFits, ExactlyFull
  <2> QED
    BY <2>5, <2>6
<1>2. FullSessionFits /\ [FALSE]_limits => FullSessionFits'
  BY DEF limits, FullSessionFits, ExactlyFull, LiveBytes, UploadBytes, WavBytes
<1> QED
  BY <1>1, <1>2, PTL DEF LimitsSpec
=============================================================================
