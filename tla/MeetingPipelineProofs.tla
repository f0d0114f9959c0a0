----------------------- MODULE MeetingPipelineProofs -----------------------
(***************************************************************************)
(* Theorems about MeetingPipeline, for any number of requests, sessions,   *)
(* workers, tries and faults, and either queue.                            *)
(***************************************************************************)
EXTENDS MeetingPipeline, SequenceTheorems, TLAPS

\* A flush of well-formed objects leaves a well-formed row.
LEMMA FlushType ==
    ASSUME meeting \in MeetingRow, NEW loaded \in MeetingRow, NEW assigned \in MeetingRow
    PROVE  Flush(loaded, assigned) \in MeetingRow
BY DEF Flush, Written, MeetingRow

\* A commit through an ORM session keeps the row and the sessions typed.
LEMMA CommitType ==
    ASSUME TypeOK, NEW a \in Actors, NEW assigned \in MeetingRow
    PROVE  /\ CommitMeeting(a, assigned) =>
                meeting' \in MeetingRow /\ view' \in [Actors -> MeetingRow]
           /\ CommitAndClose(a, assigned) =>
                /\ meeting' \in MeetingRow
                /\ view' \in [Actors -> MeetingRow]
                /\ work' \in [Actors -> Work]
<1>1. view[a] \in MeetingRow
  BY DEF TypeOK
<1>2. Flush(view[a], assigned) \in MeetingRow
  BY <1>1, FlushType DEF TypeOK
<1>3. NewMeeting \in MeetingRow /\ NoWork \in Work
  BY DEF NewMeeting, MeetingRow, MeetingStatus, ErrorCode, NoWork, Work
<1> QED
  BY <1>2, <1>3 DEF TypeOK, CommitMeeting, CommitAndClose

\* Work on an actor that is closed stays typed.
LEMMA CloseType ==
    ASSUME TypeOK, NEW a \in Actors, CloseOrm(a)
    PROVE  view' \in [Actors -> MeetingRow] /\ work' \in [Actors -> Work]
<1>1. NewMeeting \in MeetingRow /\ NoWork \in Work
  BY DEF NewMeeting, MeetingRow, MeetingStatus, ErrorCode, NoWork, Work
<1> QED
  BY <1>1 DEF TypeOK, CloseOrm

\* An accepted or dropped enqueue keeps the jobs typed.
LEMMA AcceptType ==
    ASSUME TypeOK, NEW r \in Requesters, NEW v \in Nat, Accept(r, v)
    PROVE  jobs' \in [Requesters -> Job]
<1>1. [state |-> "queued", version |-> v, tries |-> 0] \in Job
  BY DEF Job, JobState
<1> QED
  BY <1>1 DEF TypeOK, Accept

\* Taking, acknowledging, requeueing or exhausting a job keeps the jobs typed.
LEMMA QueueType ==
    ASSUME TypeOK, NEW r \in Requesters, Take(r) \/ Acknowledge(r) \/ Requeue(r) \/ Exhaust(r)
    PROVE  jobs' \in [Requesters -> Job]
<1>1. jobs \in [Requesters -> Job] /\ jobs[r] \in Job
  BY DEF TypeOK
<1>2. CASE Take(r)
  BY <1>1, <1>2 DEF Take, Job, JobState
<1>3. CASE Acknowledge(r)
  BY <1>1, <1>3 DEF Acknowledge, Job, JobState
<1>4. CASE Requeue(r)
  BY <1>1, <1>4 DEF Requeue, Job, JobState
<1>5. CASE Exhaust(r)
  BY <1>1, <1>5 DEF Exhaust, Job, JobState
<1> QED
  BY <1>2, <1>3, <1>4, <1>5

\* Closing a live session keeps the sessions typed.
LEMMA SessionType ==
    ASSUME TypeOK, NEW l, NEW s \in SessionStatus, CloseSession(l, s)
    PROVE  session' \in [Lives -> SessionStatus]
BY DEF TypeOK, CloseSession

\* A delivery that is posted, or not, keeps the deliveries typed.
LEMMA DeliveriesType ==
    ASSUME TypeOK, NEW i \in Nat, deliveries' = deliveries \/ deliveries' = Append(deliveries, i)
    PROVE  deliveries' \in Seq(Nat)
<1>1. deliveries \in Seq(Nat)
  BY DEF TypeOK
<1>2. Append(deliveries, i) \in Seq(Nat)
  BY <1>1
<1>3. CASE deliveries' = deliveries
  BY <1>1, <1>3
<1>4. CASE deliveries' = Append(deliveries, i)
  BY <1>2, <1>4
<1> QED
  BY <1>3, <1>4

\* The session a run closes is a live session, or none.
LEMMA SessionsToCloseType == SessionsToClose \subseteq Lives \cup {NoActor}
BY DEF SessionsToClose

\* The updates that actions make to the locals of an actor keep their types.
LEMMA WorkUpdateType ==
    ASSUME NEW k \in Work, NEW l \in Lives \cup {NoActor}, NEW n \in Nat
    PROVE  /\ [k EXCEPT !.closes = l] \in Work
           /\ [k EXCEPT !.closes = l, !.outcome = "failed"] \in Work
           /\ [k EXCEPT !.transcript = n] \in Work
           /\ [k EXCEPT !.summary = n] \in Work
           /\ [k EXCEPT !.summary = n, !.closes = NoActor] \in Work
BY DEF Work

\* Closing a run row keeps the rows typed.
LEMMA RunUpdateType ==
    ASSUME TypeOK, NEW i \in Nat, NEW o \in {"succeeded", "failed"}
    PROVE  [runs EXCEPT ![i].status = o] \in Seq(RunRow)
<1>1. runs \in Seq(RunRow)
  BY DEF TypeOK
<1>2. CASE i \in DOMAIN runs
  <2>1. i \in 1..Len(runs)
    BY <1>1, <1>2
  <2>2. runs[i] \in RunRow
    BY <1>1, <2>1, ElementOfSeq
  <2>3. [runs[i] EXCEPT !.status = o] \in RunRow
    BY <2>2 DEF RunRow
  <2>4. [runs EXCEPT ![i] = [runs[i] EXCEPT !.status = o]] \in Seq(RunRow)
    BY <1>1, <2>1, <2>3, ExceptSeq
  <2> QED
    BY <2>4
<1>3. CASE i \notin DOMAIN runs
  <2>1. [runs EXCEPT ![i].status = o] = runs
    BY <1>1, <1>3
  <2> QED
    BY <1>1, <2>1
<1> QED
  BY <1>2, <1>3

\* A worker's step keeps the types.
LEMMA WorkerStepType ==
    ASSUME TypeOK, NEW w \in Workers, WorkerStep(w), faults' = faults
    PROVE  TypeOK'
<1> w \in Actors
  BY DEF Actors
<1>0. pc[w] \in WorkerLabels \cup RequestLabels /\ view[w] \in MeetingRow /\ work[w] \in Work
  BY DEF TypeOK
<1>1. ASSUME NEW r \in Requesters, StartRun(w, r) PROVE TypeOK'
  <2>1. NewestRecording \in Requesters \cup {NoActor}
    BY DEF TypeOK, NewestRecording
  <2>2. runs' \in Seq(RunRow)
    BY <1>1, <2>1 DEF TypeOK, StartRun, RunRow
  <2>3. [NoWork EXCEPT !.job = r, !.run = Len(runs) + 1, !.recording = NewestRecording] \in Work
    <3>1. Len(runs) + 1 \in Nat
      BY DEF TypeOK
    <3> QED
      BY <2>1, <3>1 DEF NoWork, Work
  <2>4. meeting' \in MeetingRow /\ view' \in [Actors -> MeetingRow] /\ work' \in [Actors -> Work]
    BY <1>1, <2>3 DEF TypeOK, StartRun, MeetingRow, MeetingStatus, ErrorCode
  <2>5. jobs' \in [Requesters -> Job]
    BY <1>1, QueueType DEF StartRun
  <2> QED
    BY <1>1, <2>2, <2>4, <2>5 DEF TypeOK, StartRun, Goto, WorkerLabels
<1>2. CASE SaveTranscript(w)
  <2>1. [view[w] EXCEPT !.status = "transcribed", !.error = FALSE, !.code = "none"] \in MeetingRow
    BY <1>0 DEF MeetingRow, MeetingStatus, ErrorCode
  <2>2. meeting' \in MeetingRow /\ view' \in [Actors -> MeetingRow]
    BY <1>2, <2>1, CommitType DEF SaveTranscript
  <2>3. transcripts' \in Seq(TranscriptRow)
    BY <1>2, <1>0 DEF TypeOK, SaveTranscript, SourceOf, Work, TranscriptRow
  <2> QED
    BY <1>2, <2>2, <2>3 DEF TypeOK, SaveTranscript, Goto, WorkerLabels
<1>3. CASE ReadTranscript(w)
  <2>1. Len(transcripts) \in Nat
    BY DEF TypeOK
  <2>2. [work[w] EXCEPT !.transcript = Len(transcripts)] \in Work
    BY <1>0, <2>1, WorkUpdateType
  <2> QED
    BY <1>3, <2>2 DEF TypeOK, ReadTranscript, Goto, WorkerLabels
<1>4. CASE SelectSession(w)
  <2>1. work' \in [Actors -> Work]
    <3>1. PICK l \in SessionsToClose : work' = [work EXCEPT ![w].closes = l]
      BY <1>4 DEF SelectSession
    <3>2. [work[w] EXCEPT !.closes = l] \in Work
      BY <1>0, SessionsToCloseType, WorkUpdateType
    <3> QED
      BY <3>1, <3>2 DEF TypeOK
  <2> QED
    BY <1>4, <2>1 DEF TypeOK, SelectSession, Goto, WorkerLabels
<1>5. CASE CommitSummary(w)
  <2>1. [view[w] EXCEPT !.status = "summarized"] \in MeetingRow
    BY <1>0 DEF MeetingRow, MeetingStatus
  <2>2. meeting' \in MeetingRow /\ view' \in [Actors -> MeetingRow]
    BY <1>5, <2>1, CommitType DEF CommitSummary
  <2>3. summaries' \in Seq(SummaryRow)
    BY <1>5, <1>0 DEF TypeOK, CommitSummary, Work, SummaryRow
  <2>4. session' \in [Lives -> SessionStatus]
    BY <1>5, SessionType DEF CommitSummary, SessionStatus
  <2>5. Len(summaries) + 1 \in Nat
    BY DEF TypeOK
  <2>6. [work[w] EXCEPT !.summary = Len(summaries) + 1, !.closes = NoActor] \in Work
    BY <1>0, <2>5, WorkUpdateType
  <2>7. work' \in [Actors -> Work]
    BY <1>5, <2>6 DEF TypeOK, CommitSummary
  <2> QED
    BY <1>5, <2>2, <2>3, <2>4, <2>7 DEF TypeOK, CommitSummary, Goto, WorkerLabels
<1>6. CASE Deliver(w)
  <2>1. deliveries' \in Seq(Nat)
    BY <1>6, <1>0 DEF TypeOK, Deliver, Work
  <2> QED
    BY <1>6, <2>1 DEF TypeOK, Deliver, Goto, WorkerLabels
<1>7. CASE MarkSent(w)
  <2>1. [view[w] EXCEPT !.status = "sent"] \in MeetingRow
    BY <1>0 DEF MeetingRow, MeetingStatus
  <2>2. meeting' \in MeetingRow /\ view' \in [Actors -> MeetingRow]
    BY <1>7, <2>1, CommitType DEF MarkSent
  <2> QED
    BY <1>7, <2>2 DEF TypeOK, MarkSent, Goto, WorkerLabels
<1>8. CASE RunFails(w)
  <2>1. deliveries' \in Seq(Nat)
    <3>1. work[w].summary \in Nat
      BY <1>0 DEF Work
    <3>2. deliveries' = deliveries \/ deliveries' = Append(deliveries, work[w].summary)
      BY <1>8 DEF RunFails
    <3> QED
      BY <3>1, <3>2, DeliveriesType
  <2>2. work' \in [Actors -> Work]
    <3>1. PICK l \in SessionsToClose :
            work' = [work EXCEPT ![w].closes = l, ![w].outcome = "failed"]
      BY <1>8 DEF RunFails
    <3>2. [work[w] EXCEPT !.closes = l, !.outcome = "failed"] \in Work
      BY <1>0, SessionsToCloseType, WorkUpdateType
    <3> QED
      BY <3>1, <3>2 DEF TypeOK
  <2> QED
    BY <1>8, <2>1, <2>2 DEF TypeOK, RunFails, Goto, WorkerLabels
<1>9. CASE CommitFailure(w)
  <2>1. [view[w] EXCEPT !.status = "failed", !.error = TRUE, !.code = "pipeline_failed"]
          \in MeetingRow
    BY <1>0 DEF MeetingRow, MeetingStatus, ErrorCode
  <2>2. meeting' \in MeetingRow /\ view' \in [Actors -> MeetingRow]
    BY <1>9, <2>1, CommitType DEF CommitFailure
  <2>3. session' \in [Lives -> SessionStatus]
    BY <1>9, SessionType DEF CommitFailure, SessionStatus
  <2>4. work' \in [Actors -> Work]
    BY <1>9 DEF TypeOK, CommitFailure, Work
  <2> QED
    BY <1>9, <2>2, <2>3, <2>4 DEF TypeOK, CommitFailure, Goto, WorkerLabels
<1>10. CASE FinishRun(w)
  <2>1. runs' \in Seq(RunRow)
    BY <1>10, <1>0, RunUpdateType DEF FinishRun, Work
  <2>2. [NoWork EXCEPT !.job = work[w].job] \in Work /\ NewMeeting \in MeetingRow
    BY <1>0 DEF NoWork, Work, NewMeeting, MeetingRow, MeetingStatus, ErrorCode
  <2> QED
    BY <1>10, <2>1, <2>2 DEF TypeOK, FinishRun, Goto, WorkerLabels
<1>11. CASE Finish(w)
  <2>1. view' \in [Actors -> MeetingRow] /\ work' \in [Actors -> Work]
    BY <1>11, CloseType DEF Finish
  <2>2. jobs' \in [Requesters -> Job]
    BY <1>11, <1>0 DEF TypeOK, Finish, Acknowledge, Job, JobState
  <2> QED
    BY <1>11, <2>1, <2>2 DEF TypeOK, Finish, Goto, WorkerLabels
<1> QED
  BY <1>1, <1>2, <1>3, <1>4, <1>5, <1>6, <1>7, <1>8, <1>9, <1>10, <1>11 DEF WorkerStep

\* A request's step keeps the types.
LEMMA RequestStepType ==
    ASSUME TypeOK, NEW a \in Actors, RequestStep(a), faults' = faults
    PROVE  TypeOK'
<1>0. pc[a] \in WorkerLabels \cup RequestLabels /\ view[a] \in MeetingRow /\ work[a] \in Work
  BY DEF TypeOK
<1>1. view[a].version \in Nat /\ work[a].transcript \in Nat /\ work[a].summary \in Nat
  BY <1>0 DEF MeetingRow, Work
<1>2. Len(transcripts) \in Nat /\ Len(summaries) \in Nat
  BY DEF TypeOK
<1>3. ASSUME a \in Requesters, Enqueue(a) \/ EnqueueFails(a) PROVE TypeOK'
  <2>1. jobs' \in [Requesters -> Job]
    BY <1>1, <1>3, AcceptType DEF TypeOK, Enqueue, EnqueueFails
  <2>2. view' \in [Actors -> MeetingRow] /\ work' \in [Actors -> Work]
    BY <1>3, CloseType DEF TypeOK, Enqueue, EnqueueFails
  <2> QED
    BY <1>3, <2>1, <2>2 DEF TypeOK, Enqueue, EnqueueFails, Goto, RequestLabels, rows
<1>4. CASE LoadMeeting(a)
  BY <1>4 DEF TypeOK, LoadMeeting, Goto, RequestLabels, rows
<1>5. CASE a \in Uploads /\ UploadStep(a)
  <2> a \in Requesters
    BY <1>5 DEF Requesters
  <2>1. CASE StoreUpload(a)
    BY <2>1 DEF TypeOK, StoreUpload, Goto, RequestLabels, rows
  <2>2. CASE RejectUpload(a)
    BY <2>2, CloseType DEF TypeOK, RejectUpload, Goto, RequestLabels, rows
  <2>3. CASE CommitUpload(a)
    <3>1. [status |-> "uploaded", error |-> FALSE, code |-> "none",
           version |-> view[a].version + 1] \in MeetingRow
      BY <1>1 DEF MeetingRow, MeetingStatus, ErrorCode
    <3>2. meeting' \in MeetingRow /\ view' \in [Actors -> MeetingRow]
      BY <2>3, <3>1, CommitType DEF CommitUpload
    <3>3. recordings' \in Seq(Requesters)
      BY <2>3 DEF TypeOK, CommitUpload
    <3> QED
      BY <2>3, <3>2, <3>3 DEF TypeOK, CommitUpload, Goto, RequestLabels
  <2>4. CASE InlineRunReturns(a)
    BY <2>4 DEF TypeOK, InlineRunReturns, Goto, RequestLabels, rows
  <2>5. CASE MarkQueueFailed(a)
    <3>1. [view[a] EXCEPT !.status = "failed", !.code = "queue_failed"] \in MeetingRow
      BY <1>0 DEF MeetingRow, MeetingStatus, ErrorCode
    <3>2. meeting' \in MeetingRow /\ view' \in [Actors -> MeetingRow] /\ work' \in [Actors -> Work]
      BY <2>5, <3>1, CommitType DEF MarkQueueFailed
    <3> QED
      BY <2>5, <3>2 DEF TypeOK, MarkQueueFailed, Goto, RequestLabels
  <2> QED
    BY <1>3, <1>4, <1>5, <2>1, <2>2, <2>3, <2>4, <2>5 DEF UploadStep
<1>6. CASE a \in Lives /\ FinalizeStep(a)
  <2> a \in Requesters
    BY <1>6 DEF Requesters
  <2>1. CASE BeginFinalize(a) \/ NoAudio(a)
    BY <2>1 DEF TypeOK, BeginFinalize, NoAudio, Goto, RequestLabels, rows
  <2>2. CASE StoreWav(a)
    BY <2>2 DEF TypeOK, StoreWav, Goto, RequestLabels, rows
  <2>3. CASE ReloadMeeting(a)
    BY <2>3 DEF TypeOK, ReloadMeeting, Goto, RequestLabels, rows
  <2>4. CASE CommitLive(a)
    <3>1. [status |-> "transcribed", error |-> FALSE, code |-> "none",
           version |-> view[a].version + 1] \in MeetingRow
      BY <1>1 DEF MeetingRow, MeetingStatus, ErrorCode
    <3>2. meeting' \in MeetingRow /\ view' \in [Actors -> MeetingRow]
      BY <2>4, <3>1, CommitType DEF CommitLive
    <3>3. recordings' \in Seq(Requesters)
      BY <2>4 DEF TypeOK, CommitLive
    <3>4. transcripts' \in Seq(TranscriptRow)
      BY <2>4 DEF TypeOK, CommitLive, TranscriptRow
    <3>5. session' \in [Lives -> SessionStatus]
      BY <2>4 DEF TypeOK, CommitLive, SessionStatus
    <3> QED
      BY <2>4, <3>2, <3>3, <3>4, <3>5 DEF TypeOK, CommitLive, Goto, RequestLabels
  <2>5. CASE FinalizeFails(a)
    BY <2>5 DEF TypeOK, FinalizeFails, Goto, RequestLabels, rows
  <2>6. CASE MarkSessionFailed(a)
    <3>1. view' \in [Actors -> MeetingRow] /\ work' \in [Actors -> Work]
      BY <2>6, CloseType DEF MarkSessionFailed
    <3> QED
      BY <2>6, <3>1 DEF TypeOK, MarkSessionFailed, Goto, RequestLabels, SessionStatus
  <2> QED
    BY <1>3, <1>6, <2>1, <2>2, <2>3, <2>4, <2>5, <2>6 DEF FinalizeStep
<1>7. CASE a \in Summarizers \cup Posters /\ ManualStep(a)
  <2>1. CASE BeginSummarize(a)
    <3>1. [work[a] EXCEPT !.transcript = Len(transcripts)] \in Work
      BY <1>0, <1>2, WorkUpdateType
    <3> QED
      BY <2>1, <3>1 DEF TypeOK, BeginSummarize, Goto, RequestLabels, rows
  <2>2. CASE CommitResummary(a)
    <3>1. [view[a] EXCEPT !.status = "summarized", !.error = FALSE] \in MeetingRow
      BY <1>0 DEF MeetingRow, MeetingStatus
    <3>2. meeting' \in MeetingRow /\ view' \in [Actors -> MeetingRow] /\ work' \in [Actors -> Work]
      BY <2>2, <3>1, CommitType DEF CommitResummary
    <3>3. summaries' \in Seq(SummaryRow)
      BY <1>1, <2>2 DEF TypeOK, CommitResummary, SummaryRow
    <3> QED
      BY <2>2, <3>2, <3>3 DEF TypeOK, CommitResummary, Goto, RequestLabels
  <2>3. CASE BeginPost(a)
    <3>1. [work[a] EXCEPT !.summary = Len(summaries)] \in Work
      BY <1>0, <1>2, WorkUpdateType
    <3> QED
      BY <2>3, <3>1 DEF TypeOK, BeginPost, Goto, RequestLabels, rows
  <2>4. CASE PostSummary(a)
    <3>1. deliveries' \in Seq(Nat)
      BY <1>1, <2>4 DEF TypeOK, PostSummary
    <3> QED
      BY <2>4, <3>1 DEF TypeOK, PostSummary, Goto, RequestLabels
  <2>5. CASE MarkPosted(a)
    <3>1. [view[a] EXCEPT !.status = "sent", !.error = FALSE] \in MeetingRow
      BY <1>0 DEF MeetingRow, MeetingStatus
    <3>2. meeting' \in MeetingRow /\ view' \in [Actors -> MeetingRow] /\ work' \in [Actors -> Work]
      BY <2>5, <3>1, CommitType DEF MarkPosted
    <3> QED
      BY <2>5, <3>2 DEF TypeOK, MarkPosted, Goto, RequestLabels
  <2>6. CASE ProviderFails(a)
    <3>1. deliveries' = deliveries \/ deliveries' = Append(deliveries, work[a].summary)
      BY <2>6 DEF ProviderFails
    <3>2. deliveries' \in Seq(Nat)
      BY <1>1, <3>1, DeliveriesType
    <3>3. view' \in [Actors -> MeetingRow] /\ work' \in [Actors -> Work]
      BY <2>6, CloseType DEF ProviderFails
    <3> QED
      BY <2>6, <3>2, <3>3 DEF TypeOK, ProviderFails, Goto, RequestLabels
  <2> QED
    BY <1>4, <1>7, <2>1, <2>2, <2>3, <2>4, <2>5, <2>6 DEF ManualStep
<1> QED
  BY <1>5, <1>6, <1>7 DEF RequestStep

\* A step of the queue and a crash keep the types.
LEMMA FaultStepType ==
    ASSUME TypeOK,
           \/ \E r \in Requesters : QueueStep(r) \/ ExpireUnderSlowWorker(r)
           \/ \E a \in Actors : Crash(a)
    PROVE  TypeOK'
<1>1. ASSUME NEW r \in Requesters, QueueStep(r) \/ ExpireUnderSlowWorker(r) PROVE TypeOK'
  <2>1. jobs' \in [Requesters -> Job]
    BY <1>1, QueueType DEF QueueStep, Redeliver, Abort, ExpireUnderSlowWorker
  <2> QED
    BY <1>1, <2>1 DEF TypeOK, QueueStep, Redeliver, Abort, ExpireUnderSlowWorker, rows
<1>2. ASSUME NEW a \in Actors, Crash(a) PROVE TypeOK'
  <2>1. NewMeeting \in MeetingRow /\ NoWork \in Work
    BY DEF NewMeeting, MeetingRow, MeetingStatus, ErrorCode, NoWork, Work
  <2>2. /\ pc' \in [Actors -> WorkerLabels \cup RequestLabels]
        /\ view' \in [Actors -> MeetingRow] /\ work' \in [Actors -> Work]
    BY <1>2, <2>1 DEF TypeOK, Crash, WorkerLabels, RequestLabels
  <2>3. \A r \in Requesters : [jobs[r] EXCEPT !.state = "lost"] \in Job /\ jobs[r] \in Job
    BY DEF TypeOK, Job, JobState
  <2>4. jobs' \in [Requesters -> Job]
    BY <1>2, <2>3 DEF TypeOK, Crash, LoseInline
  <2> QED
    BY <1>2, <2>2, <2>4 DEF TypeOK, Crash, rows
<1> QED
  BY <1>1, <1>2

\* Every reachable state is well typed.
THEOREM TypeCorrect == Spec => []TypeOK
<1>1. Init => TypeOK
  <2> SUFFICES ASSUME Init PROVE TypeOK
    OBVIOUS
  <2>1. NewMeeting \in MeetingRow /\ NoWork \in Work /\ NoJob \in Job
    BY DEF NewMeeting, MeetingRow, MeetingStatus, ErrorCode, NoWork, Work, NoJob, Job, JobState
  <2> QED
    BY <2>1 DEF Init, TypeOK, WorkerLabels, RequestLabels, SessionStatus
<1>2. TypeOK /\ [Next]_vars => TypeOK'
  <2> SUFFICES ASSUME TypeOK, [Next]_vars PROVE TypeOK'
    OBVIOUS
  <2>1. CASE UNCHANGED vars
    BY <2>1 DEF TypeOK, vars
  <2>2. CASE Next
    BY <2>2, WorkerStepType, RequestStepType, FaultStepType DEF Next
  <2> QED
    BY <2>1, <2>2
<1> QED
  BY <1>1, <1>2, PTL DEF Spec

----------------------------------------------------------------------------
(***************************************************************************)
(* The safety properties, each by an inductive invariant on top of the     *)
(* types.                                                                  *)
(***************************************************************************)
\* A worker's step commits no recording, touches no object and moves no
\* request.
LEMMA WorkerFrame ==
    ASSUME TypeOK, NEW w \in Workers, WorkerStep(w)
    PROVE  /\ recordings' = recordings /\ objects' = objects
           /\ \A a \in Actors : a # w => pc'[a] = pc[a] /\ work'[a] = work[a]
           /\ \A r \in Requesters : pc'[r] = pc[r]
<1>1. \A r \in Requesters : r # w /\ r \in Actors
  BY ActorsAssumption DEF Actors, Requesters
<1>2. recordings' = recordings /\ objects' = objects
  BY DEF WorkerStep, StartRun, SaveTranscript, ReadTranscript, SelectSession, CommitSummary,
         Deliver, MarkSent, RunFails, CommitFailure, FinishRun, Finish
<1>3. \A a \in Actors : a # w => pc'[a] = pc[a] /\ work'[a] = work[a]
  BY DEF TypeOK, WorkerStep, StartRun, SaveTranscript, ReadTranscript, SelectSession,
         CommitSummary, Deliver, MarkSent, RunFails, CommitFailure, FinishRun, Finish, Goto,
         CloseOrm
<1> QED
  BY <1>1, <1>2, <1>3

\* A request's step moves no other actor.
LEMMA RequestFrame ==
    ASSUME TypeOK, NEW b \in Actors, RequestStep(b)
    PROVE  \A a \in Actors : a # b => pc'[a] = pc[a] /\ work'[a] = work[a]
<1>1. CASE b \in Uploads /\ UploadStep(b)
  BY <1>1 DEF TypeOK, UploadStep, LoadMeeting, StoreUpload, RejectUpload, CommitUpload, Enqueue,
              InlineRunReturns, EnqueueFails, MarkQueueFailed, Goto, CloseOrm, CommitAndClose
<1>2. CASE b \in Lives /\ FinalizeStep(b)
  BY <1>2 DEF TypeOK, FinalizeStep, BeginFinalize, NoAudio, StoreWav, ReloadMeeting, CommitLive,
              Enqueue, EnqueueFails, FinalizeFails, MarkSessionFailed, Goto, CloseOrm
<1>3. CASE b \in Summarizers \cup Posters /\ ManualStep(b)
  BY <1>3 DEF TypeOK, ManualStep, LoadMeeting, BeginSummarize, CommitResummary, BeginPost,
              PostSummary, MarkPosted, ProviderFails, Goto, CloseOrm, CommitAndClose
<1> QED
  BY <1>1, <1>2, <1>3 DEF RequestStep

\* A step of the queue changes jobs only.
LEMMA QueueFrame ==
    ASSUME NEW r \in Requesters, QueueStep(r) \/ ExpireUnderSlowWorker(r)
    PROVE  UNCHANGED <<rows, objects, pc, view, work>>
BY DEF QueueStep, Redeliver, Abort, ExpireUnderSlowWorker

\* A crash keeps what is stored; the actors it hits lose their locals.
LEMMA CrashFrame ==
    ASSUME TypeOK, NEW b \in Actors, Crash(b)
    PROVE  /\ UNCHANGED <<rows, objects>>
           /\ \A a \in Actors : \/ pc'[a] = pc[a] /\ work'[a] = work[a]
                                \/ pc'[a] \in {"idle", "crashed"}
BY DEF TypeOK, Crash

\* Initially nothing is committed, and requests have not begun.
LEMMA InitFrame ==
    ASSUME Init
    PROVE  /\ DOMAIN recordings = {} /\ DOMAIN runs = {} /\ DOMAIN deliveries = {}
           /\ \A r : ~Committed(r)
           /\ \A a \in Actors : pc[a] \in {"idle", "start"}
           /\ \A r \in Requesters : pc[r] = "start" /\ jobs[r].state = "none"
<1>1. DOMAIN recordings = {} /\ DOMAIN runs = {} /\ DOMAIN deliveries = {}
  BY DEF Init
<1>2. \A r \in Requesters : r \in Actors /\ r \notin Workers
  BY ActorsAssumption DEF Actors
<1> QED
  BY <1>1, <1>2 DEF Init, Committed, NoJob

\* What is committed stays committed, in the same order.
LEMMA CommitsStay ==
    ASSUME TypeOK, NEW x \in Requesters,
           recordings' = recordings \/ recordings' = Append(recordings, x)
    PROVE  /\ \A a, b : NotOlder(a, b) => NotOlder(a, b)'
           /\ \A r : Committed(r) => Committed(r)'
           /\ \A r : Committed(r)' => Committed(r) \/ r = x
<1>1. CASE recordings' = recordings
  BY <1>1 DEF NotOlder, Committed
<1>2. CASE recordings' = Append(recordings, x)
  <2>1. /\ DOMAIN recordings = 1..Len(recordings)
        /\ DOMAIN recordings' = 1..Len(recordings) + 1
        /\ \A i \in 1..Len(recordings) : recordings'[i] = recordings[i]
        /\ recordings'[Len(recordings) + 1] = x
        /\ Len(recordings) \in Nat
    BY <1>2 DEF TypeOK
  <2> QED
    BY <2>1 DEF NotOlder, Committed
<1> QED
  BY <1>1, <1>2

----------------------------------------------------------------------------
(***************************************************************************)
(* Stored audio.                                                           *)
(***************************************************************************)

\* A request's step keeps AudioInv.
LEMMA AudioRequestStep ==
    ASSUME TypeOK, AudioInv, NEW a \in Actors, RequestStep(a)
    PROVE  AudioInv'
<1>0. \A r \in Requesters : r # a => pc'[r] = pc[r]
  BY RequestFrame DEF Actors
<1>a. a \in Uploads \cup Lives => a \in Requesters
  BY DEF Requesters
<1>b. a \in Summarizers \cup Posters => a \notin Requesters
  BY ActorsAssumption
<1>1. CASE a \in Uploads \cup Lives /\ (CommitUpload(a) \/ CommitLive(a))
  <2>1. pc[a] = "committing" /\ pc'[a] = "enqueuing" /\ objects' = objects
        /\ recordings' = Append(recordings, a)
    BY <1>1, <1>a DEF TypeOK, Actors, CommitUpload, CommitLive, Goto
  <2>2. a \in objects /\ ~Committed(a)
    BY <1>1, <1>a, <2>1 DEF AudioInv, AudioReady
  <2>3. RecordingHasObject'
    <3>1. DOMAIN recordings' = 1..Len(recordings) + 1 /\ DOMAIN recordings = 1..Len(recordings)
          /\ recordings'[Len(recordings) + 1] = a /\ Len(recordings) \in Nat
          /\ \A i \in 1..Len(recordings) : recordings'[i] = recordings[i]
      BY <1>1, <1>a, <2>1 DEF TypeOK
    <3> QED
      BY <2>1, <2>2, <3>1 DEF AudioInv, RecordingHasObject
  <2>4. \A r \in Requesters : r # a => (Committed(r)' <=> Committed(r))
    BY <1>1, <1>a, <2>1, CommitsStay
  <2>5. AudioReady'
    BY <1>0, <2>1, <2>4 DEF AudioInv, AudioReady
  <2> QED
    BY <2>3, <2>5 DEF AudioInv
<1>2. CASE a \in Requesters /\ recordings' = recordings /\ objects' \in {objects, objects \cup {a}}
           /\ (pc'[a] \in {"storing", "committing", "reloading"} =>
                  pc[a] \in {"start", "storing", "reloading"})
           /\ (pc'[a] = "committing" \/ (a \in Lives /\ pc'[a] = "reloading") => a \in objects')
           /\ pc'[a] # "start"
  BY <1>0, <1>2 DEF AudioInv, AudioReady, RecordingHasObject, Committed
<1>3. CASE a \in Requesters /\ recordings' = recordings /\ objects' = objects \ {a}
           /\ pc[a] \in {"storing", "reloading", "committing"}
           /\ pc'[a] \in {"failing", "refused"}
  BY <1>0, <1>3 DEF AudioInv, AudioReady, RecordingHasObject, Committed
<1>4. CASE a \in Uploads /\ UploadStep(a)
  <2>1. CASE CommitUpload(a)
    BY <1>1, <1>4, <2>1
  <2>2. CASE ~CommitUpload(a)
    BY <1>2, <1>4, <1>a, <2>2, ActorsAssumption
    DEF TypeOK, AudioInv, AudioReady, UploadStep, LoadMeeting, StoreUpload, RejectUpload,
        Enqueue, InlineRunReturns, EnqueueFails, MarkQueueFailed, Goto, rows
  <2> QED
    BY <2>1, <2>2
<1>5. CASE a \in Lives /\ FinalizeStep(a)
  <2>1. CASE CommitLive(a)
    BY <1>1, <1>5, <2>1
  <2>2. CASE FinalizeFails(a)
    BY <1>3, <1>5, <1>a, <2>2 DEF TypeOK, FinalizeFails, Goto, rows
  <2>3. CASE ReloadMeeting(a)
    BY <1>2, <1>3, <1>5, <1>a, <2>3
    DEF TypeOK, AudioInv, AudioReady, ReloadMeeting, Goto, rows
  <2>4. CASE BeginFinalize(a) \/ NoAudio(a) \/ StoreWav(a) \/ Enqueue(a) \/ EnqueueFails(a)
             \/ MarkSessionFailed(a)
    BY <1>2, <1>5, <1>a, <2>4
    DEF TypeOK, BeginFinalize, NoAudio, StoreWav, Enqueue, EnqueueFails, MarkSessionFailed,
        Goto, rows
  <2> QED
    BY <1>5, <2>1, <2>2, <2>3, <2>4 DEF FinalizeStep
<1>6. CASE a \in Summarizers \cup Posters /\ ManualStep(a)
  <2>1. recordings' = recordings /\ objects' = objects
    BY <1>6, ActorsAssumption
    DEF ManualStep, LoadMeeting, BeginSummarize, CommitResummary, BeginPost, PostSummary,
        MarkPosted, ProviderFails, rows
  <2>2. \A r \in Requesters : pc'[r] = pc[r]
    BY <1>0, <1>6, <1>b
  <2> QED
    BY <2>1, <2>2 DEF AudioInv, AudioReady, RecordingHasObject, Committed
<1> QED
  BY <1>4, <1>5, <1>6 DEF RequestStep

\* Every committed recording can be read: no error path deletes its object.
THEOREM RecordingsAreStored == Spec => [](AudioInv /\ RecordingHasObject)
<1>1. Init => AudioInv
  BY InitFrame DEF AudioInv, AudioReady, RecordingHasObject
<1>2. TypeOK /\ AudioInv /\ [Next]_vars => AudioInv'
  <2> SUFFICES ASSUME TypeOK, AudioInv, [Next]_vars PROVE AudioInv'
    OBVIOUS
  <2>1. CASE UNCHANGED vars
    BY <2>1 DEF vars, AudioInv, AudioReady, RecordingHasObject, Committed
  <2>2. ASSUME NEW w \in Workers, WorkerStep(w) PROVE AudioInv'
    BY <2>2, WorkerFrame DEF AudioInv, AudioReady, RecordingHasObject, Committed
  <2>3. ASSUME NEW r \in Requesters, QueueStep(r) \/ ExpireUnderSlowWorker(r) PROVE AudioInv'
    BY <2>3, QueueFrame DEF AudioInv, AudioReady, RecordingHasObject, Committed, rows
  <2>4. ASSUME NEW a \in Actors, Crash(a) PROVE AudioInv'
    <3>1. recordings' = recordings /\ objects' = objects
      BY <2>4, CrashFrame DEF rows
    <3>2. \A r \in Requesters : pc'[r] = pc[r] \/ pc'[r] \in {"idle", "crashed"}
      BY <2>4, CrashFrame DEF Actors
    <3> QED
      BY <3>1, <3>2 DEF AudioInv, AudioReady, RecordingHasObject, Committed
  <2> QED
    BY <2>1, <2>2, <2>3, <2>4, AudioRequestStep DEF Next
<1>3. AudioInv => RecordingHasObject
  BY DEF AudioInv
<1> QED
  BY <1>1, <1>2, <1>3, TypeCorrect, PTL DEF Spec

----------------------------------------------------------------------------
(***************************************************************************)
(* The recording a run works on.                                           *)
(***************************************************************************)

\* The newest recording is not older than any committed one.
LEMMA NewestIsNotOlder ==
    ASSUME TypeOK, NEW r, Committed(r)
    PROVE  NewestRecording # NoActor /\ NotOlder(NewestRecording, r)
<1>1. PICK i \in 1..Len(recordings) : recordings[i] = r
  BY DEF TypeOK, Committed
<1>2. Len(recordings) \in 1..Len(recordings) /\ i <= Len(recordings) /\ recordings # <<>>
  BY <1>1 DEF TypeOK
<1>3. NewestRecording = recordings[Len(recordings)] /\ NewestRecording \in Requesters
  BY <1>2 DEF TypeOK, NewestRecording
<1>4. NewestRecording # NoActor
  BY <1>3, ActorsAssumption DEF Actors
<1>5. DOMAIN recordings = 1..Len(recordings)
  BY DEF TypeOK
<1> QED
  BY <1>1, <1>2, <1>3, <1>4, <1>5 DEF NotOlder

\* Closing a run row keeps its job and its recording.
LEMMA RunsKeepJobs ==
    ASSUME TypeOK, NEW i, NEW o, runs' = [runs EXCEPT ![i].status = o]
    PROVE  /\ DOMAIN runs' = DOMAIN runs
           /\ \A j \in DOMAIN runs :
                runs'[j].job = runs[j].job /\ runs'[j].recording = runs[j].recording
<1>1. runs' = [j \in DOMAIN runs |->
                IF j = i THEN [runs[j] EXCEPT !.status = o] ELSE runs[j]]
  BY Zenon
<1>2. runs \in Seq(RunRow) /\ DOMAIN runs = 1..Len(runs)
  BY DEF TypeOK
<1>3. \A j \in DOMAIN runs : runs[j] \in RunRow
  BY <1>2, ElementOfSeq
<1> QED
  BY <1>1, <1>3 DEF RunRow

\* Whatever changes a job's state, an accepted job stays accepted.
LEMMA JobsStay ==
    ASSUME TypeOK, NEW r \in Requesters, Take(r) \/ Acknowledge(r) \/ Requeue(r) \/ Exhaust(r)
    PROVE  /\ jobs'[r].state # "none"
           /\ \A q \in Requesters : q # r => jobs'[q] = jobs[q]
<1>1. jobs[r] \in Job /\ jobs \in [Requesters -> Job]
  BY DEF TypeOK
<1>2. CASE Take(r)
  BY <1>1, <1>2 DEF Take, Job
<1>3. CASE Acknowledge(r)
  BY <1>1, <1>3 DEF Acknowledge, Job
<1>4. CASE Requeue(r)
  BY <1>1, <1>4 DEF Requeue, Job
<1>5. CASE Exhaust(r)
  BY <1>1, <1>5 DEF Exhaust, Job
<1> QED
  BY <1>2, <1>3, <1>4, <1>5

\* A worker's step keeps FreshInv.
LEMMA FreshWorkerStep ==
    ASSUME TypeOK, FreshInv, NEW w \in Workers, WorkerStep(w)
    PROVE  FreshInv'
<1> w \in Actors
  BY DEF Actors
<1>0. /\ recordings' = recordings
      /\ \A a \in Actors : a # w => work'[a] = work[a]
      /\ \A r \in Requesters : pc'[r] = pc[r]
  BY WorkerFrame
<1>a. \A a, b : NotOlder(a, b)' <=> NotOlder(a, b)
  BY <1>0 DEF NotOlder
<1>b. \A r : Committed(r)' <=> Committed(r)
  BY <1>0 DEF Committed
<1>1. ASSUME NEW r \in Requesters, StartRun(w, r) PROVE FreshInv'
  <2>1. jobs[r].state = "queued" /\ jobs'[r].state # "none"
        /\ \A q \in Requesters : q # r => jobs'[q] = jobs[q]
    BY <1>1, JobsStay DEF StartRun, Take
  <2>2. Committed(r)
    BY <2>1 DEF FreshInv, JobsFollowCommits
  <2>3. NotOlder(NewestRecording, r)
    BY <2>2, NewestIsNotOlder
  <2>4. work'[w].job = r
    BY <1>1 DEF TypeOK, StartRun, NoWork
  <2>5. RunUsesFreshRecording'
    <3> DEFINE row == [job |-> r, recording |-> NewestRecording,
                       status |-> IF NewestRecording = NoActor THEN "failed" ELSE "running"]
    <3>1. runs' = Append(runs, row)
      BY <1>1 DEF StartRun
    <3>2. row.job = r /\ row.recording = NewestRecording
      OBVIOUS
    <3> HIDE DEF row
    <3>3. /\ DOMAIN runs' = 1..Len(runs) + 1 /\ DOMAIN runs = 1..Len(runs) /\ Len(runs) \in Nat
          /\ runs'[Len(runs) + 1] = row /\ \A i \in 1..Len(runs) : runs'[i] = runs[i]
      BY <3>1 DEF TypeOK
    <3> QED
      BY <1>a, <2>3, <3>2, <3>3 DEF FreshInv, RunUsesFreshRecording
  <2>6. JobsFollowCommits'
    BY <1>0, <1>b, <2>1, <2>2, <2>4 DEF FreshInv, JobsFollowCommits
  <2> QED
    BY <2>5, <2>6 DEF FreshInv
<1>2. CASE Finish(w)
  <2>1. work'[w].job = NoActor /\ runs' = runs
    BY <1>2 DEF TypeOK, Finish, CloseOrm, NoWork
  <2>2. \A q \in Requesters : jobs'[q].state # "none" <=> jobs[q].state # "none"
    <3>1. jobs' = [jobs EXCEPT ![work[w].job].state = "done"]
      BY <1>2 DEF Finish, Acknowledge
    <3>2. \A q \in Requesters : q = work[w].job => jobs[q].state # "none"
      BY DEF FreshInv, JobsFollowCommits
    <3>3. \A q \in Requesters : jobs[q] \in Job
      BY DEF TypeOK
    <3>4. \A q \in Requesters :
             jobs'[q] = IF q = work[w].job THEN [jobs[q] EXCEPT !.state = "done"] ELSE jobs[q]
      BY <3>1 DEF TypeOK
    <3> QED
      BY <3>2, <3>3, <3>4 DEF Job
  <2>3. NoActor \notin Requesters
    BY ActorsAssumption DEF Actors
  <2> QED
    BY <1>0, <1>a, <1>b, <2>1, <2>2, <2>3
    DEF FreshInv, RunUsesFreshRecording, JobsFollowCommits
<1>3. CASE FinishRun(w)
  <2>1. /\ DOMAIN runs' = DOMAIN runs
        /\ \A j \in DOMAIN runs :
             runs'[j].job = runs[j].job /\ runs'[j].recording = runs[j].recording
    BY <1>3, RunsKeepJobs DEF FinishRun
  <2>2. work'[w].job = work[w].job /\ jobs' = jobs
    BY <1>3 DEF TypeOK, FinishRun, NoWork
  <2> QED
    BY <1>0, <1>a, <1>b, <2>1, <2>2 DEF FreshInv, RunUsesFreshRecording, JobsFollowCommits
<1>4. ASSUME runs' = runs, jobs' = jobs, work'[w].job = work[w].job PROVE FreshInv'
  BY <1>0, <1>a, <1>b, <1>4 DEF FreshInv, RunUsesFreshRecording, JobsFollowCommits
<1>5. CASE SaveTranscript(w) \/ Deliver(w) \/ MarkSent(w)
  BY <1>4, <1>5 DEF SaveTranscript, Deliver, MarkSent
<1>6. work[w] \in Work /\ work \in [Actors -> Work]
  BY DEF TypeOK
<1>7. CASE ReadTranscript(w)
  <2>1. work'[w] = [work[w] EXCEPT !.transcript = Len(transcripts)]
    BY <1>6, <1>7 DEF ReadTranscript
  <2> QED
    BY <1>4, <1>6, <1>7, <2>1 DEF Work, ReadTranscript
<1>8. CASE SelectSession(w)
  <2>1. PICK l : work'[w] = [work[w] EXCEPT !.closes = l]
    BY <1>6, <1>8 DEF SelectSession
  <2> QED
    BY <1>4, <1>6, <1>8, <2>1 DEF Work, SelectSession
<1>9. CASE CommitSummary(w)
  <2>1. work'[w] = [work[w] EXCEPT !.summary = Len(summaries) + 1, !.closes = NoActor]
    BY <1>6, <1>9 DEF CommitSummary
  <2> QED
    BY <1>4, <1>6, <1>9, <2>1 DEF Work, CommitSummary
<1>10. CASE RunFails(w)
  <2>1. PICK l : work'[w] = [work[w] EXCEPT !.closes = l, !.outcome = "failed"]
    BY <1>6, <1>10 DEF RunFails
  <2> QED
    BY <1>4, <1>6, <1>10, <2>1 DEF Work, RunFails
<1>11. CASE CommitFailure(w)
  <2>1. work'[w] = [work[w] EXCEPT !.closes = NoActor]
    BY <1>6, <1>11 DEF CommitFailure
  <2> QED
    BY <1>4, <1>6, <1>11, <2>1 DEF Work, CommitFailure
<1> QED
  BY <1>1, <1>2, <1>3, <1>5, <1>7, <1>8, <1>9, <1>10, <1>11 DEF WorkerStep

\* A request's step keeps FreshInv: enqueuing comes after the commit.
LEMMA FreshRequestStep ==
    ASSUME TypeOK, FreshInv, NEW b \in Actors, RequestStep(b)
    PROVE  FreshInv'
<1>0. \A a \in Actors : a # b => pc'[a] = pc[a] /\ work'[a] = work[a]
  BY RequestFrame
<1>a. b \in Uploads \cup Lives => b \in Requesters
  BY DEF Requesters
<1>b. work[b] \in Work /\ work \in [Actors -> Work] /\ NoActor \notin Requesters
  BY ActorsAssumption DEF TypeOK, Actors
<1>1. ASSUME runs' = runs, work'[b].job \in {work[b].job, NoActor},
             NEW x \in Requesters, recordings' \in {recordings, Append(recordings, x)},
             \A q \in Requesters : jobs[q].state # "none" => jobs'[q].state # "none",
             \A q \in Requesters : jobs'[q].state # "none" => jobs[q].state # "none" \/ Committed(q)',
             b \in Requesters /\ pc'[b] = "enqueuing" => Committed(b)'
      PROVE  FreshInv'
  <2>1. /\ \A c, d : NotOlder(c, d) => NotOlder(c, d)'
        /\ \A r : Committed(r) => Committed(r)'
    BY <1>1, CommitsStay
  <2>2. RunUsesFreshRecording'
    BY <1>1, <2>1 DEF FreshInv, RunUsesFreshRecording
  <2>3. \A r \in Requesters : pc'[r] = "enqueuing" \/ jobs'[r].state # "none" => Committed(r)'
    BY <1>0, <1>1, <2>1 DEF FreshInv, JobsFollowCommits, Actors
  <2>4. \A a \in Actors : \A r \in Requesters : work'[a].job = r => jobs'[r].state # "none"
    BY <1>0, <1>1, <1>b DEF FreshInv, JobsFollowCommits
  <2> QED
    BY <2>2, <2>3, <2>4 DEF FreshInv, JobsFollowCommits
<1>2. ASSUME runs' = runs, work'[b].job \in {work[b].job, NoActor}, jobs' = jobs,
             recordings' = recordings, pc'[b] # "enqueuing"
      PROVE  FreshInv'
  BY <1>0, <1>b, <1>2
  DEF FreshInv, RunUsesFreshRecording, JobsFollowCommits, NotOlder, Committed, Actors
<1>3. ASSUME b \in Requesters, Enqueue(b) \/ EnqueueFails(b) PROVE FreshInv'
  <2>1. pc[b] = "enqueuing" /\ pc'[b] # "enqueuing" /\ runs' = runs /\ recordings' = recordings
    BY <1>3 DEF TypeOK, Enqueue, EnqueueFails, Goto, rows
  <2>2. Committed(b) /\ Committed(b)'
    BY <1>3, <2>1 DEF FreshInv, JobsFollowCommits, Committed
  <2>3. work'[b].job \in {work[b].job, NoActor}
    BY <1>3 DEF TypeOK, Enqueue, EnqueueFails, CloseOrm, NoWork
  <2>4. \A q \in Requesters : q # b => jobs'[q] = jobs[q]
    BY <1>3 DEF TypeOK, Enqueue, EnqueueFails, Accept
  <2>5. jobs' = jobs \/ jobs'[b].state = "queued"
    BY <1>3 DEF TypeOK, Enqueue, EnqueueFails, Accept
  <2> QED
    BY <1>1, <1>3, <2>1, <2>2, <2>3, <2>4, <2>5
<1>4. CASE b \in Uploads /\ UploadStep(b)
  <2>1. CASE CommitUpload(b)
    <3>1. recordings' = Append(recordings, b) /\ runs' = runs /\ jobs' = jobs /\ work' = work
      BY <2>1 DEF CommitUpload
    <3>2. Committed(b)'
      <4>1. Len(recordings) + 1 \in DOMAIN recordings' /\ recordings'[Len(recordings) + 1] = b
        BY <1>4, <1>a, <3>1 DEF TypeOK
      <4> QED
        BY <4>1 DEF Committed
    <3> QED
      BY <1>1, <1>4, <1>a, <3>1, <3>2
  <2>2. CASE LoadMeeting(b) \/ StoreUpload(b) \/ InlineRunReturns(b)
    BY <1>2, <1>4, <2>2 DEF TypeOK, LoadMeeting, StoreUpload, InlineRunReturns, Goto, rows
  <2>3. CASE RejectUpload(b) \/ MarkQueueFailed(b)
    BY <1>2, <1>4, <2>3
    DEF TypeOK, RejectUpload, MarkQueueFailed, Goto, CloseOrm, CommitAndClose, NoWork, rows
  <2> QED
    BY <1>3, <1>4, <1>a, <2>1, <2>2, <2>3 DEF UploadStep
<1>5. CASE b \in Lives /\ FinalizeStep(b)
  <2>1. CASE CommitLive(b)
    <3>1. recordings' = Append(recordings, b) /\ runs' = runs /\ jobs' = jobs /\ work' = work
      BY <2>1 DEF CommitLive
    <3>2. Committed(b)'
      <4>1. Len(recordings) + 1 \in DOMAIN recordings' /\ recordings'[Len(recordings) + 1] = b
        BY <1>5, <1>a, <3>1 DEF TypeOK
      <4> QED
        BY <4>1 DEF Committed
    <3> QED
      BY <1>1, <1>5, <1>a, <3>1, <3>2
  <2>2. CASE BeginFinalize(b) \/ NoAudio(b) \/ StoreWav(b) \/ ReloadMeeting(b) \/ FinalizeFails(b)
    BY <1>2, <1>5, <2>2
    DEF TypeOK, BeginFinalize, NoAudio, StoreWav, ReloadMeeting, FinalizeFails, Goto, rows
  <2>3. CASE MarkSessionFailed(b)
    BY <1>2, <1>5, <2>3 DEF TypeOK, MarkSessionFailed, Goto, CloseOrm, NoWork
  <2> QED
    BY <1>3, <1>5, <1>a, <2>1, <2>2, <2>3 DEF FinalizeStep
<1>6. CASE b \in Summarizers \cup Posters /\ ManualStep(b)
  <2>1. runs' = runs /\ jobs' = jobs /\ recordings' = recordings /\ pc'[b] # "enqueuing"
    BY <1>6, ActorsAssumption
    DEF TypeOK, ManualStep, LoadMeeting, BeginSummarize, CommitResummary, BeginPost,
        PostSummary, MarkPosted, ProviderFails, Goto, rows
  <2>2. CASE BeginSummarize(b) \/ BeginPost(b)
    <3>1. \/ work'[b] = [work[b] EXCEPT !.transcript = Len(transcripts)]
          \/ work'[b] = [work[b] EXCEPT !.summary = Len(summaries)]
      BY <1>b, <2>2 DEF BeginSummarize, BeginPost
    <3>2. work'[b].job = work[b].job
      BY <1>b, <3>1 DEF Work
    <3> QED
      BY <1>2, <2>1, <3>2
  <2>3. CASE LoadMeeting(b) \/ PostSummary(b)
    BY <1>2, <2>1, <2>3 DEF LoadMeeting, PostSummary
  <2>4. CASE CommitResummary(b) \/ MarkPosted(b) \/ ProviderFails(b)
    BY <1>2, <1>b, <2>1, <2>4
    DEF CommitResummary, MarkPosted, ProviderFails, CommitAndClose, CloseOrm, NoWork
  <2> QED
    BY <1>6, <2>2, <2>3, <2>4 DEF ManualStep
<1> QED
  BY <1>4, <1>5, <1>6 DEF RequestStep

\* A run never works on a recording older than the one its job was enqueued
\* for, whatever the number of redeliveries and the order of the commits.
THEOREM RunsAreFresh == Spec => [](FreshInv /\ RunUsesFreshRecording)
<1>1. Init => FreshInv
  <2> SUFFICES ASSUME Init PROVE FreshInv
    OBVIOUS
  <2>1. \A a \in Actors : work[a].job = NoActor
    BY DEF Init, NoWork
  <2>2. NoActor \notin Requesters
    BY ActorsAssumption DEF Actors
  <2> QED
    BY <2>1, <2>2, InitFrame DEF FreshInv, RunUsesFreshRecording, JobsFollowCommits
<1>2. TypeOK /\ FreshInv /\ [Next]_vars => FreshInv'
  <2> SUFFICES ASSUME TypeOK, FreshInv, [Next]_vars PROVE FreshInv'
    OBVIOUS
  <2>1. CASE UNCHANGED vars
    BY <2>1 DEF vars, FreshInv, RunUsesFreshRecording, JobsFollowCommits, Committed, NotOlder
  <2>2. ASSUME NEW r \in Requesters, QueueStep(r) \/ ExpireUnderSlowWorker(r) PROVE FreshInv'
    <3>1. recordings' = recordings /\ runs' = runs /\ pc' = pc /\ work' = work
      BY <2>2, QueueFrame DEF rows
    <3>2. /\ jobs'[r].state # "none" /\ jobs[r].state # "none"
          /\ \A q \in Requesters : q # r => jobs'[q] = jobs[q]
      BY <2>2, JobsStay
      DEF QueueStep, Redeliver, Abort, ExpireUnderSlowWorker, Requeue, Exhaust
    <3> QED
      BY <3>1, <3>2 DEF FreshInv, RunUsesFreshRecording, JobsFollowCommits, Committed, NotOlder
  <2>3. ASSUME NEW a \in Actors, Crash(a) PROVE FreshInv'
    <3>1. recordings' = recordings /\ runs' = runs
      BY <2>3, CrashFrame DEF rows
    <3>2. \A r \in Requesters : pc'[r] = pc[r] \/ pc'[r] \in {"idle", "crashed"}
      BY <2>3, CrashFrame DEF Actors
    <3>3. \A b \in Actors : work'[b] \in {work[b], NoWork}
      BY <2>3 DEF TypeOK, Crash
    <3>4. NoWork.job \notin Requesters
      BY ActorsAssumption DEF Actors, NoWork
    <3>5. \A q \in Requesters : jobs'[q].state # "none" <=> jobs[q].state # "none"
      <4>1. \A q \in Requesters : jobs[q] \in Job
        BY DEF TypeOK
      <4> QED
        BY <2>3, <4>1 DEF Crash, LoseInline, Job
    <3> QED
      BY <3>1, <3>2, <3>3, <3>4, <3>5
      DEF FreshInv, RunUsesFreshRecording, JobsFollowCommits, Committed, NotOlder
  <2> QED
    BY <2>1, <2>2, <2>3, FreshWorkerStep, FreshRequestStep DEF Next
<1>3. FreshInv => RunUsesFreshRecording
  BY DEF FreshInv
<1> QED
  BY <1>1, <1>2, <1>3, TypeCorrect, PTL DEF Spec

----------------------------------------------------------------------------
(***************************************************************************)
(* The evidence behind the status.                                         *)
(***************************************************************************)

\* The status that an update of a well-formed object assigns.
LEMMA AssignedStatus ==
    ASSUME NEW m \in MeetingRow, NEW s, NEW e, NEW c
    PROVE  /\ [m EXCEPT !.status = s].status = s
           /\ [m EXCEPT !.status = s, !.error = e].status = s
           /\ [m EXCEPT !.status = s, !.code = c].status = s
           /\ [m EXCEPT !.status = s, !.error = e, !.code = c].status = s
BY DEF MeetingRow

\* An appended sequence is not empty and keeps its indices.
LEMMA AppendGrows ==
    ASSUME NEW S, NEW s \in Seq(S), NEW x
    PROVE  /\ Append(s, x) # <<>> /\ DOMAIN s \subseteq DOMAIN Append(s, x)
           /\ DOMAIN s = 1..Len(s) /\ DOMAIN Append(s, x) = 1..Len(s) + 1 /\ Len(s) \in Nat
           /\ Append(s, x)[Len(s) + 1] = x
           /\ \A i \in 1..Len(s) : Append(s, x)[i] = s[i]
OBVIOUS

\* EvidenceInv survives a step of one actor that appends rows, assigns a
\* status its rows justify and posts only committed summaries.
LEMMA EvidenceStep ==
    ASSUME TypeOK, EvidenceInv, NEW b \in Actors,
           \A a \in Actors : a # b => pc'[a] = pc[a] /\ work'[a] = work[a],
           recordings' = recordings \/ recordings' # <<>>,
           transcripts' = transcripts \/ transcripts' # <<>>,
           summaries' = summaries \/ \E x : summaries' = Append(summaries, x),
           \/ deliveries' = deliveries
           \/ \E i \in DOMAIN summaries : deliveries' = Append(deliveries, i),
           \/ meeting'.status \in {meeting.status, "failed"}
           \/ meeting'.status = "uploaded" /\ recordings' # <<>>
           \/ meeting'.status = "transcribed" /\ transcripts' # <<>>
           \/ meeting'.status = "summarized" /\ summaries' # <<>>
           \/ meeting'.status = "sent" /\ deliveries' # <<>>,
           pc'[b] = "delivering" => work'[b].summary \in DOMAIN summaries',
           pc'[b] = "marking" => deliveries' # <<>>
    PROVE  EvidenceInv'
<1>1. DOMAIN summaries \subseteq DOMAIN summaries' /\ (summaries # <<>> => summaries' # <<>>)
  BY AppendGrows DEF TypeOK
<1>2. /\ deliveries # <<>> => deliveries' # <<>>
      /\ \A i \in DOMAIN deliveries' : deliveries'[i] \in DOMAIN summaries'
  <2>1. CASE deliveries' = deliveries
    BY <1>1, <2>1 DEF EvidenceInv, AnnouncedIsStored
  <2>2. ASSUME NEW i \in DOMAIN summaries, deliveries' = Append(deliveries, i)
        PROVE  /\ (deliveries # <<>> => deliveries' # <<>>)
               /\ \A j \in DOMAIN deliveries' : deliveries'[j] \in DOMAIN summaries'
    <3>1. deliveries \in Seq(Nat)
      BY DEF TypeOK
    <3>2. /\ deliveries' # <<>> /\ DOMAIN deliveries = 1..Len(deliveries)
          /\ DOMAIN deliveries' = 1..Len(deliveries) + 1 /\ Len(deliveries) \in Nat
          /\ deliveries'[Len(deliveries) + 1] = i
          /\ \A j \in 1..Len(deliveries) : deliveries'[j] = deliveries[j]
      BY <2>2, <3>1, AppendGrows
    <3> QED
      BY <1>1, <3>2 DEF EvidenceInv, AnnouncedIsStored
  <2> QED
    BY <2>1, <2>2
<1>3. StatusEvidence'
  BY <1>1, <1>2 DEF EvidenceInv, StatusEvidence
<1>4. PostersHaveSummary'
  BY <1>1, <1>2 DEF EvidenceInv, PostersHaveSummary
<1> QED
  BY <1>2, <1>3, <1>4 DEF EvidenceInv, AnnouncedIsStored

\* A worker's step keeps EvidenceInv.
LEMMA EvidenceWorkerStep ==
    ASSUME TypeOK, EvidenceInv, NEW w \in Workers, WorkerStep(w)
    PROVE  EvidenceInv'
<1> w \in Actors
  BY DEF Actors
<1>0. recordings' = recordings /\ \A a \in Actors : a # w => pc'[a] = pc[a] /\ work'[a] = work[a]
  BY WorkerFrame
<1>1. /\ work[w] \in Work /\ work \in [Actors -> Work] /\ view[w] \in MeetingRow
      /\ pc \in [Actors -> WorkerLabels \cup RequestLabels] /\ meeting \in MeetingRow
      /\ transcripts \in Seq(TranscriptRow) /\ summaries \in Seq(SummaryRow)
      /\ deliveries \in Seq(Nat)
  BY DEF TypeOK
<1>2. ASSUME NEW r \in Requesters, StartRun(w, r) PROVE EvidenceInv'
  <2>1. meeting'.status \in {meeting.status, "failed"}
    BY <1>1, <1>2, AssignedStatus DEF StartRun
  <2>2. pc'[w] \notin {"delivering", "marking"}
    BY <1>1, <1>2 DEF StartRun, Goto
  <2>3. transcripts' = transcripts /\ summaries' = summaries /\ deliveries' = deliveries
    BY <1>2 DEF StartRun
  <2> QED
    BY <1>0, <2>1, <2>2, <2>3, EvidenceStep
<1>3. CASE SaveTranscript(w)
  <2>1. transcripts' # <<>>
    BY <1>3, <1>1, AppendGrows DEF SaveTranscript
  <2>2. meeting'.status \in {meeting.status, "transcribed"}
    BY <1>1, <1>3, AssignedStatus DEF SaveTranscript, CommitMeeting, Flush, Written
  <2>3. pc'[w] = "reading" /\ summaries' = summaries /\ deliveries' = deliveries
    BY <1>1, <1>3 DEF SaveTranscript, Goto
  <2> QED
    BY <1>0, <2>1, <2>2, <2>3, EvidenceStep
<1>4. CASE ReadTranscript(w) \/ SelectSession(w) \/ FinishRun(w) \/ Finish(w)
  <2>1. pc'[w] \notin {"delivering", "marking"}
    BY <1>1, <1>4 DEF ReadTranscript, SelectSession, FinishRun, Finish, Goto
  <2>2. /\ transcripts' = transcripts /\ summaries' = summaries /\ deliveries' = deliveries
        /\ meeting' = meeting
    BY <1>4 DEF ReadTranscript, SelectSession, FinishRun, Finish
  <2> QED
    BY <1>0, <2>1, <2>2, EvidenceStep
<1>5. CASE CommitSummary(w)
  <2> DEFINE row == [transcript |-> work[w].transcript, run |-> work[w].run]
  <2>a. summaries' = Append(summaries, row)
    BY <1>5 DEF CommitSummary
  <2> HIDE DEF row
  <2>1. \E x : summaries' = Append(summaries, x)
    BY <2>a
  <2>2. summaries' # <<>> /\ Len(summaries) + 1 \in DOMAIN summaries'
    <3>1. summaries' # <<>>
      BY <1>1, <2>a, AppendGrows
    <3>2. DOMAIN summaries' = 1..Len(summaries) + 1 /\ Len(summaries) \in Nat
      BY <1>1, <2>a, AppendGrows
    <3> QED
      BY <3>1, <3>2
  <2>3. meeting'.status \in {meeting.status, "summarized"}
    BY <1>1, <1>5, AssignedStatus DEF CommitSummary, CommitMeeting, Flush, Written
  <2>4. work'[w] = [work[w] EXCEPT !.summary = Len(summaries) + 1, !.closes = NoActor]
    BY <1>1, <1>5 DEF CommitSummary
  <2>5. work'[w].summary = Len(summaries) + 1
    BY <1>1, <2>4 DEF Work
  <2>6. pc'[w] # "marking" /\ transcripts' = transcripts /\ deliveries' = deliveries
    BY <1>1, <1>5 DEF CommitSummary, Goto
  <2> QED
    BY <1>0, <2>1, <2>2, <2>3, <2>5, <2>6, EvidenceStep
<1>6. CASE Deliver(w)
  <2>1. work[w].summary \in DOMAIN summaries
    BY <1>6 DEF EvidenceInv, PostersHaveSummary, Deliver
  <2>2. deliveries' = Append(deliveries, work[w].summary) /\ deliveries' # <<>>
    BY <1>1, <1>6, AppendGrows DEF Deliver
  <2>3. pc'[w] = "marking" /\ transcripts' = transcripts /\ summaries' = summaries
        /\ meeting' = meeting
    BY <1>1, <1>6 DEF Deliver, Goto
  <2> QED
    BY <1>0, <2>1, <2>2, <2>3, EvidenceStep
<1>7. CASE MarkSent(w)
  <2>1. deliveries # <<>>
    BY <1>7 DEF EvidenceInv, PostersHaveSummary, MarkSent
  <2>2. meeting'.status \in {meeting.status, "sent"}
    BY <1>1, <1>7, AssignedStatus DEF MarkSent, CommitMeeting, Flush, Written
  <2>3. /\ pc'[w] = "finishing" /\ transcripts' = transcripts /\ summaries' = summaries
        /\ deliveries' = deliveries
    BY <1>1, <1>7 DEF MarkSent, Goto
  <2> QED
    BY <1>0, <2>1, <2>2, <2>3, EvidenceStep
<1>8. CASE RunFails(w)
  <2>1. \/ deliveries' = deliveries
        \/ \E i \in DOMAIN summaries : deliveries' = Append(deliveries, i)
    BY <1>8 DEF EvidenceInv, PostersHaveSummary, RunFails
  <2>2. /\ pc'[w] = "closing" /\ transcripts' = transcripts /\ summaries' = summaries
        /\ meeting' = meeting
    BY <1>1, <1>8 DEF RunFails, Goto
  <2> QED
    BY <1>0, <2>1, <2>2, EvidenceStep
<1>9. CASE CommitFailure(w)
  <2>1. meeting'.status \in {meeting.status, "failed"}
    BY <1>1, <1>9, AssignedStatus DEF CommitFailure, CommitMeeting, Flush, Written
  <2>2. /\ pc'[w] = "finishing" /\ transcripts' = transcripts /\ summaries' = summaries
        /\ deliveries' = deliveries
    BY <1>1, <1>9 DEF CommitFailure, Goto
  <2> QED
    BY <1>0, <2>1, <2>2, EvidenceStep
<1> QED
  BY <1>2, <1>3, <1>4, <1>5, <1>6, <1>7, <1>8, <1>9 DEF WorkerStep

\* A request's step keeps EvidenceInv.
LEMMA EvidenceRequestStep ==
    ASSUME TypeOK, EvidenceInv, NEW b \in Actors, RequestStep(b)
    PROVE  EvidenceInv'
<1>0. \A a \in Actors : a # b => pc'[a] = pc[a] /\ work'[a] = work[a]
  BY RequestFrame
<1>1. /\ work[b] \in Work /\ work \in [Actors -> Work] /\ view[b] \in MeetingRow
      /\ pc \in [Actors -> WorkerLabels \cup RequestLabels] /\ meeting \in MeetingRow
      /\ transcripts \in Seq(TranscriptRow) /\ summaries \in Seq(SummaryRow)
      /\ deliveries \in Seq(Nat) /\ recordings \in Seq(Requesters)
  BY DEF TypeOK
<1>2. ASSUME recordings' = recordings, transcripts' = transcripts, summaries' = summaries,
             deliveries' = deliveries, meeting'.status \in {meeting.status, "failed"},
             pc'[b] \notin {"delivering", "marking"}
      PROVE  EvidenceInv'
  BY <1>0, <1>2, EvidenceStep
<1>3. CASE LoadMeeting(b)
  BY <1>1, <1>2, <1>3 DEF LoadMeeting, Goto, rows
<1>4. CASE Enqueue(b) \/ EnqueueFails(b)
  BY <1>1, <1>2, <1>4 DEF Enqueue, EnqueueFails, Goto, rows
<1>5. CASE b \in Uploads /\ UploadStep(b)
  <2>1. CASE StoreUpload(b) \/ RejectUpload(b) \/ InlineRunReturns(b)
    BY <1>1, <1>2, <2>1 DEF StoreUpload, RejectUpload, InlineRunReturns, Goto, rows
  <2>2. CASE CommitUpload(b)
    <3>1. recordings' # <<>>
      BY <1>1, <2>2, AppendGrows DEF CommitUpload
    <3>2. meeting'.status \in {meeting.status, "uploaded"}
      BY <1>1, <2>2 DEF CommitUpload, CommitMeeting, Flush, Written
    <3>3. /\ pc'[b] = "enqueuing" /\ transcripts' = transcripts /\ summaries' = summaries
          /\ deliveries' = deliveries
      BY <1>1, <2>2 DEF CommitUpload, Goto
    <3> QED
      BY <1>0, <3>1, <3>2, <3>3, EvidenceStep
  <2>3. CASE MarkQueueFailed(b)
    <3>1. meeting'.status \in {meeting.status, "failed"}
      BY <1>1, <2>3, AssignedStatus DEF MarkQueueFailed, CommitAndClose, Flush, Written
    <3> QED
      BY <1>1, <1>2, <2>3, <3>1 DEF MarkQueueFailed, Goto
  <2> QED
    BY <1>3, <1>4, <1>5, <2>1, <2>2, <2>3 DEF UploadStep
<1>6. CASE b \in Lives /\ FinalizeStep(b)
  <2>1. CASE BeginFinalize(b) \/ NoAudio(b) \/ StoreWav(b) \/ ReloadMeeting(b) \/ FinalizeFails(b)
             \/ MarkSessionFailed(b)
    BY <1>1, <1>2, <2>1
    DEF BeginFinalize, NoAudio, StoreWav, ReloadMeeting, FinalizeFails, MarkSessionFailed,
        Goto, rows
  <2>2. CASE CommitLive(b)
    <3>1. recordings' = Append(recordings, b) /\ \E x : transcripts' = Append(transcripts, x)
      BY <2>2 DEF CommitLive
    <3>4. recordings' # <<>>
      BY <1>1, <3>1, AppendGrows
    <3>5. transcripts' # <<>>
      BY <1>1, <3>1, AppendGrows
    <3>2. meeting'.status \in {meeting.status, "transcribed"}
      BY <1>1, <2>2 DEF CommitLive, CommitMeeting, Flush, Written
    <3>3. pc'[b] = "enqueuing" /\ summaries' = summaries /\ deliveries' = deliveries
      BY <1>1, <2>2 DEF CommitLive, Goto
    <3> QED
      BY <1>0, <3>2, <3>3, <3>4, <3>5, EvidenceStep
  <2> QED
    BY <1>4, <1>6, <2>1, <2>2 DEF FinalizeStep
<1>7. CASE b \in Summarizers \cup Posters /\ ManualStep(b)
  <2>1. CASE BeginSummarize(b)
    BY <1>1, <1>2, <2>1 DEF BeginSummarize, Goto, rows
  <2>2. CASE CommitResummary(b)
    <3>1. \E x : summaries' = Append(summaries, x)
      BY <2>2 DEF CommitResummary
    <3>2. summaries' # <<>>
      BY <1>1, <3>1, AppendGrows
    <3>3. meeting'.status \in {meeting.status, "summarized"}
      BY <1>1, <2>2, AssignedStatus DEF CommitResummary, CommitAndClose, Flush, Written
    <3>4. /\ pc'[b] = "done" /\ recordings' = recordings /\ transcripts' = transcripts
          /\ deliveries' = deliveries
      BY <1>1, <2>2 DEF CommitResummary, Goto
    <3> QED
      BY <1>0, <3>1, <3>2, <3>3, <3>4, EvidenceStep
  <2>3. CASE BeginPost(b)
    <3>1. /\ recordings' = recordings /\ transcripts' = transcripts /\ summaries' = summaries
          /\ deliveries' = deliveries /\ meeting' = meeting /\ pc'[b] # "marking"
      BY <1>1, <2>3 DEF BeginPost, Goto, rows
    <3>2. work'[b] = [work[b] EXCEPT !.summary = Len(summaries)]
      BY <1>1, <2>3 DEF BeginPost
    <3>3. work'[b].summary = Len(summaries)
      BY <1>1, <3>2 DEF Work
    <3>4. pc'[b] = "delivering" => Len(summaries) \in DOMAIN summaries
      BY <1>1, <2>3 DEF BeginPost, Goto
    <3> QED
      BY <1>0, <3>1, <3>3, <3>4, EvidenceStep
  <2>4. CASE PostSummary(b)
    <3>1. work[b].summary \in DOMAIN summaries
      BY <2>4 DEF EvidenceInv, PostersHaveSummary, PostSummary
    <3>2. deliveries' = Append(deliveries, work[b].summary) /\ deliveries' # <<>>
      BY <1>1, <2>4, AppendGrows DEF PostSummary
    <3>3. /\ pc'[b] = "marking" /\ recordings' = recordings /\ transcripts' = transcripts
          /\ summaries' = summaries /\ meeting' = meeting
      BY <1>1, <2>4 DEF PostSummary, Goto
    <3> QED
      BY <1>0, <3>1, <3>2, <3>3, EvidenceStep
  <2>5. CASE MarkPosted(b)
    <3>1. deliveries # <<>>
      BY <2>5 DEF EvidenceInv, PostersHaveSummary, MarkPosted
    <3>2. meeting'.status \in {meeting.status, "sent"}
      BY <1>1, <2>5, AssignedStatus DEF MarkPosted, CommitAndClose, Flush, Written
    <3>3. /\ pc'[b] = "done" /\ recordings' = recordings /\ transcripts' = transcripts
          /\ summaries' = summaries /\ deliveries' = deliveries
      BY <1>1, <2>5 DEF MarkPosted, Goto
    <3> QED
      BY <1>0, <3>1, <3>2, <3>3, EvidenceStep
  <2>6. CASE ProviderFails(b)
    <3>1. \/ deliveries' = deliveries
          \/ pc[b] = "delivering" /\ deliveries' = Append(deliveries, work[b].summary)
      BY <2>6 DEF ProviderFails
    <3>2. pc[b] = "delivering" => work[b].summary \in DOMAIN summaries
      BY DEF EvidenceInv, PostersHaveSummary
    <3>3. /\ pc'[b] = "refused" /\ recordings' = recordings /\ transcripts' = transcripts
          /\ summaries' = summaries /\ meeting' = meeting
      BY <1>1, <2>6 DEF ProviderFails, Goto
    <3> QED
      BY <1>0, <3>1, <3>2, <3>3, EvidenceStep
  <2> QED
    BY <1>3, <1>7, <2>1, <2>2, <2>3, <2>4, <2>5, <2>6 DEF ManualStep
<1> QED
  BY <1>5, <1>6, <1>7 DEF RequestStep

\* The status of the meeting is always backed by rows, and Discord only ever
\* sees committed summaries, however stale the objects the actors write.
THEOREM StatusIsBacked == Spec => [](EvidenceInv /\ StatusEvidence /\ AnnouncedIsStored)
<1>1. Init => EvidenceInv
  <2> SUFFICES ASSUME Init PROVE EvidenceInv
    OBVIOUS
  <2>1. meeting.status = "scheduled"
    BY DEF Init, NewMeeting
  <2> QED
    BY <2>1, InitFrame DEF EvidenceInv, StatusEvidence, AnnouncedIsStored, PostersHaveSummary
<1>2. TypeOK /\ EvidenceInv /\ [Next]_vars => EvidenceInv'
  <2> SUFFICES ASSUME TypeOK, EvidenceInv, [Next]_vars PROVE EvidenceInv'
    OBVIOUS
  <2>1. CASE UNCHANGED vars
    BY <2>1 DEF vars, EvidenceInv, StatusEvidence, AnnouncedIsStored, PostersHaveSummary
  <2>2. ASSUME NEW r \in Requesters, QueueStep(r) \/ ExpireUnderSlowWorker(r) PROVE EvidenceInv'
    BY <2>2, QueueFrame
    DEF rows, EvidenceInv, StatusEvidence, AnnouncedIsStored, PostersHaveSummary
  <2>3. ASSUME NEW a \in Actors, Crash(a) PROVE EvidenceInv'
    BY <2>3, CrashFrame
    DEF rows, EvidenceInv, StatusEvidence, AnnouncedIsStored, PostersHaveSummary
  <2> QED
    BY <2>1, <2>2, <2>3, EvidenceWorkerStep, EvidenceRequestStep DEF Next
<1>3. EvidenceInv => StatusEvidence /\ AnnouncedIsStored
  BY DEF EvidenceInv
<1> QED
  BY <1>1, <1>2, <1>3, TypeCorrect, PTL DEF Spec
=============================================================================
