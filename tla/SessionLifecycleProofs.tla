----------------------- MODULE SessionLifecycleProofs -----------------------
(***************************************************************************)
(* MeetingPipeline implements LiveSessionLifecycle.                        *)
(***************************************************************************)
EXTENDS MeetingPipelineProofs

\* A finalizing session has its audio committed, so a run closes no other.
LEMMA ClosedIsCommitted ==
    ASSUME SessionsFollowCommits, NEW l \in SessionsToClose
    PROVE  l \in Lives => Committed(l)
<1>1. l \in Lives => session[l] = "finalizing"
  BY ActorsAssumption DEF SessionsToClose, Actors, Requesters
<1> QED
  BY <1>1 DEF SessionsFollowCommits

\* A worker changes the status of at most one session, a committed one, to
\* its outcome.
LEMMA WorkerSession ==
    ASSUME TypeOK, SessionsFollowCommits, NEW w \in Workers, WorkerStep(w)
    PROVE  /\ \/ session' = session
              \/ \E l \in Lives, o \in {"completed", "failed"} :
                    Committed(l) /\ session' = [session EXCEPT ![l] = o]
           /\ work'[w].closes \in Lives => Committed(work'[w].closes)
<1> w \in Actors
  BY DEF Actors
<1>1. work[w] \in Work /\ work \in [Actors -> Work] /\ NoActor \notin Lives
  BY ActorsAssumption DEF TypeOK, Actors, Requesters
<1>2. work[w].closes \in Lives => Committed(work[w].closes)
  BY DEF SessionsFollowCommits
<1>3. ASSUME NEW r \in Requesters, StartRun(w, r)
      PROVE  session' = session /\ work'[w].closes \notin Lives
  BY <1>1, <1>3 DEF StartRun, NoWork
<1>4. CASE SaveTranscript(w) \/ Deliver(w) \/ MarkSent(w)
  BY <1>2, <1>4 DEF SaveTranscript, Deliver, MarkSent
<1>5. CASE ReadTranscript(w)
  <2>1. work'[w] = [work[w] EXCEPT !.transcript = Len(transcripts)]
    BY <1>1, <1>5 DEF ReadTranscript
  <2> QED
    BY <1>1, <1>2, <1>5, <2>1 DEF ReadTranscript, Work
<1>6. CASE SelectSession(w)
  <2>1. PICK l \in SessionsToClose : work'[w] = [work[w] EXCEPT !.closes = l]
    BY <1>1, <1>6 DEF SelectSession
  <2>2. work'[w].closes = l
    BY <1>1, <2>1 DEF Work
  <2> QED
    BY <1>6, <2>2, ClosedIsCommitted DEF SelectSession
<1>7. CASE RunFails(w)
  <2>1. PICK l \in SessionsToClose :
          work'[w] = [work[w] EXCEPT !.closes = l, !.outcome = "failed"]
    BY <1>1, <1>7 DEF RunFails
  <2>2. work'[w].closes = l
    BY <1>1, <2>1 DEF Work
  <2> QED
    BY <1>7, <2>2, ClosedIsCommitted DEF RunFails
<1>8. CASE CommitSummary(w)
  <2>1. work'[w] = [work[w] EXCEPT !.summary = Len(summaries) + 1, !.closes = NoActor]
    BY <1>1, <1>8 DEF CommitSummary
  <2>2. work'[w].closes = NoActor
    BY <1>1, <2>1 DEF Work
  <2> QED
    BY <1>1, <1>2, <1>8, <2>2 DEF CommitSummary, CloseSession
<1>9. CASE CommitFailure(w)
  <2>1. work'[w] = [work[w] EXCEPT !.closes = NoActor]
    BY <1>1, <1>9 DEF CommitFailure
  <2>2. work'[w].closes = NoActor
    BY <1>1, <2>1 DEF Work
  <2> QED
    BY <1>1, <1>2, <1>9, <2>2 DEF CommitFailure, CloseSession
<1>10. CASE FinishRun(w) \/ Finish(w)
  BY <1>1, <1>10 DEF FinishRun, Finish, CloseOrm, NoWork
<1> QED
  BY <1>3, <1>4, <1>5, <1>6, <1>7, <1>8, <1>9, <1>10 DEF WorkerStep

\* Resolving a session with stored audio is a step of the lifecycle.
LEMMA ResolveIsLifecycle ==
    ASSUME NEW l \in Lives, NEW o \in {"completed", "failed"}, Committed(l),
           session' = [session EXCEPT ![l] = o], StoredLives' = StoredLives
    PROVE  Lifecycle!Next
<1>1. l \in StoredLives
  BY DEF StoredLives
<1>2. Lifecycle!Resolve(l, o)
  BY <1>1, Zenon DEF Lifecycle!Resolve
<1> QED
  BY <1>2 DEF Lifecycle!Next

\* The step of a worker is a step of the lifecycle, or a stutter.
LEMMA LifecycleWorkerStep ==
    ASSUME TypeOK, AudioInv, SessionsFollowCommits, NEW w \in Workers, WorkerStep(w)
    PROVE  [Lifecycle!Next]_(Lifecycle!vars) /\ SessionsFollowCommits'
<1> w \in Actors
  BY DEF Actors
<1>1. /\ recordings' = recordings
      /\ \A a \in Actors : a # w => work'[a] = work[a]
      /\ \A r \in Requesters : pc'[r] = pc[r]
  BY WorkerFrame
<1>2. \A r : Committed(r)' <=> Committed(r)
  BY <1>1 DEF Committed
<1>3. StoredLives' = StoredLives
  BY <1>2 DEF StoredLives
<1>4. \A l \in Lives : l \in Requesters
  BY DEF Requesters
<1>5. ASSUME NEW a \in Actors, work'[a].closes \in Lives PROVE Committed(work'[a].closes)
  <2>1. CASE a = w
    BY <1>5, <2>1, WorkerSession
  <2>2. CASE a # w
    BY <1>1, <1>5, <2>2 DEF SessionsFollowCommits
  <2> QED
    BY <2>1, <2>2
<1>6. \A l \in Lives : pc'[l] = pc[l]
  BY <1>1, <1>4
<1>7. CASE session' = session
  <2>1. Lifecycle!vars' = Lifecycle!vars
    BY <1>3, <1>7 DEF Lifecycle!vars
  <2>2. SessionsFollowCommits'
    BY <1>2, <1>5, <1>6, <1>7 DEF SessionsFollowCommits
  <2> QED
    BY <2>1, <2>2
<1>8. ASSUME NEW l \in Lives, NEW o \in {"completed", "failed"},
             Committed(l), session' = [session EXCEPT ![l] = o]
      PROVE  [Lifecycle!Next]_(Lifecycle!vars) /\ SessionsFollowCommits'
  <2>1. Lifecycle!Next
    BY <1>3, <1>8, ResolveIsLifecycle
  <2>2. pc[l] \notin {"start", "storing", "reloading", "committing"}
    BY <1>4, <1>8 DEF AudioInv, AudioReady
  <2>3. SessionsFollowCommits'
    BY <1>2, <1>5, <1>6, <1>8, <2>2 DEF TypeOK, SessionsFollowCommits
  <2> QED
    BY <2>1, <2>3
<1> QED
  BY <1>7, <1>8, WorkerSession

\* A step that leaves sessions and recordings alone is a stutter.
LEMMA LifecycleStutter ==
    ASSUME SessionsFollowCommits, session' = session,
           \A l \in Lives : Committed(l)' <=> Committed(l),
           \A l \in Lives : \/ pc'[l] \notin {"start", "storing", "reloading", "committing"}
                            \/ pc[l] \in {"start", "storing", "reloading", "committing"},
           \A a \in Actors : work'[a].closes \in {work[a].closes, NoActor}
    PROVE  [Lifecycle!Next]_(Lifecycle!vars) /\ SessionsFollowCommits'
<1>1. NoActor \notin Lives
  BY ActorsAssumption DEF Actors, Requesters
<1>2. StoredLives' = StoredLives
  BY DEF StoredLives
<1>3. Lifecycle!vars' = Lifecycle!vars
  BY <1>2 DEF Lifecycle!vars
<1>4. SessionsFollowCommits'
  BY <1>1 DEF SessionsFollowCommits
<1> QED
  BY <1>3, <1>4

\* The live transcript, the recording and the session of a finalizer are
\* committed together.
LEMMA CommitLiveIsStore ==
    ASSUME TypeOK, AudioInv, SessionsFollowCommits, NEW l \in Lives, CommitLive(l)
    PROVE  Lifecycle!Next /\ SessionsFollowCommits'
<1>1. l \in Requesters /\ l \in Actors
  BY DEF Actors, Requesters
<1>2. pc[l] = "committing" /\ pc' = [pc EXCEPT ![l] = "enqueuing"] /\ work' = work
      /\ recordings' = Append(recordings, l) /\ session' = [session EXCEPT ![l] = "finalizing"]
  BY DEF CommitLive, Goto
<1>3. ~Committed(l) /\ session[l] = "recording"
  BY <1>1, <1>2 DEF AudioInv, AudioReady, SessionsFollowCommits
<1>4. Committed(l)'
  <2>1. recordings'[Len(recordings) + 1] = l /\ Len(recordings) + 1 \in DOMAIN recordings'
    BY <1>1, <1>2 DEF TypeOK
  <2> QED
    BY <2>1 DEF Committed
<1>5. \A k \in Requesters : k # l => (Committed(k)' <=> Committed(k))
  BY <1>1, <1>2, CommitsStay
<1>6. StoredLives' = StoredLives \cup {l} /\ l \notin StoredLives
  <2>1. \A k \in Lives : k \in Requesters
    BY DEF Requesters
  <2> QED
    BY <1>3, <1>4, <1>5, <2>1 DEF StoredLives
<1>7. Lifecycle!Store(l)
  BY <1>2, <1>3, <1>6, Zenon DEF Lifecycle!Store
<1>8. SessionsFollowCommits'
  <2>1. \A k \in Lives : k \in Requesters /\ k \in Actors
    BY DEF Actors, Requesters
  <2>2. \A k \in Lives : k # l => pc'[k] = pc[k] /\ session'[k] = session[k]
    BY <1>2, <2>1 DEF TypeOK
  <2>3. pc'[l] = "enqueuing" /\ session'[l] = "finalizing"
    BY <1>1, <1>2 DEF TypeOK
  <2>4. \A k \in Lives : (Committed(k) => Committed(k)') /\ (k # l => (Committed(k)' => Committed(k)))
    BY <1>4, <1>5, <2>1
  <2>5. \A a \in Actors : work[a].closes \in Lives => Committed(work[a].closes)
    BY DEF SessionsFollowCommits
  <2>6. \A a \in Actors : (work[a].closes \in Lives => Committed(work[a].closes))'
    BY <1>2, <2>4, <2>5
  <2>7. \A k \in Lives :
          /\ Committed(k)' => session'[k] # "recording"
          /\ ~Committed(k)' => session'[k] \in {"recording", "failed"}
          /\ pc'[k] \in {"start", "storing", "reloading", "committing"}
               => session'[k] = "recording"
    BY <1>4, <2>2, <2>3, <2>4 DEF SessionsFollowCommits
  <2> QED
    BY <2>6, <2>7 DEF SessionsFollowCommits
<1> QED
  BY <1>7, <1>8 DEF Lifecycle!Next

\* _mark_failed discards a session without stored audio and resolves one with.
LEMMA MarkSessionFailedIsLifecycle ==
    ASSUME TypeOK, SessionsFollowCommits, NEW l \in Lives, MarkSessionFailed(l)
    PROVE  [Lifecycle!Next]_(Lifecycle!vars) /\ SessionsFollowCommits'
<1>1. \A k \in Lives : k \in Actors
  BY DEF Actors, Requesters
<1>2. recordings' = recordings /\ session' = [session EXCEPT ![l] = "failed"]
      /\ pc' = [pc EXCEPT ![l] = "refused"] /\ work' = [work EXCEPT ![l] = NoWork]
  BY DEF MarkSessionFailed, Goto, CloseOrm
<1>3. \A r : Committed(r)' <=> Committed(r)
  BY <1>2 DEF Committed
<1>4. StoredLives' = StoredLives
  BY <1>3 DEF StoredLives
<1>5. [Lifecycle!Next]_(Lifecycle!vars)
  <2>1. CASE Committed(l)
    BY <1>2, <1>4, <2>1, ResolveIsLifecycle
  <2>2. CASE ~Committed(l) /\ session[l] = "recording"
    <3>1. l \notin StoredLives
      BY <2>2 DEF StoredLives
    <3>2. Lifecycle!Discard(l)
      BY <1>2, <1>4, <2>2, <3>1, Zenon DEF Lifecycle!Discard
    <3> QED
      BY <3>2 DEF Lifecycle!Next
  <2>3. CASE session[l] = "failed"
    <3>1. session' = session
      BY <1>2, <2>3 DEF TypeOK
    <3>2. Lifecycle!vars' = Lifecycle!vars
      BY <1>4, <3>1 DEF Lifecycle!vars
    <3> QED
      BY <3>2
  <2> QED
    BY <2>1, <2>2, <2>3 DEF SessionsFollowCommits
<1>6. \A a \in Actors : work'[a].closes = work[a].closes \/ work'[a].closes = NoActor
  BY <1>2 DEF TypeOK, NoWork
<1>7. NoActor \notin Lives
  BY ActorsAssumption DEF Actors, Requesters
<1>8. pc'[l] = "refused" /\ session'[l] = "failed"
      /\ \A k \in Lives : k # l => pc'[k] = pc[k] /\ session'[k] = session[k]
  BY <1>1, <1>2 DEF TypeOK
<1>9. SessionsFollowCommits'
  BY <1>3, <1>6, <1>7, <1>8 DEF SessionsFollowCommits
<1> QED
  BY <1>5, <1>9

\* The step of a request is a step of the lifecycle, or a stutter.
LEMMA LifecycleRequestStep ==
    ASSUME TypeOK, AudioInv, SessionsFollowCommits, NEW b \in Actors, RequestStep(b)
    PROVE  [Lifecycle!Next]_(Lifecycle!vars) /\ SessionsFollowCommits'
<1> DEFINE early == {"start", "storing", "reloading", "committing"}
<1>0. \A a \in Actors : a # b => pc'[a] = pc[a] /\ work'[a] = work[a]
  BY RequestFrame
<1>1. work[b] \in Work /\ work \in [Actors -> Work] /\ pc \in [Actors -> WorkerLabels \cup RequestLabels]
  BY DEF TypeOK
<1>2. \A l \in Lives : l \in Actors /\ l \in Requesters
  BY DEF Actors, Requesters
<1>3. b \in Uploads \cup Summarizers \cup Posters => b \notin Lives
  BY ActorsAssumption DEF Requesters
<1>4. work'[b].closes \in {work[b].closes, NoActor}
  <2>1. CASE \E x : work' = [work EXCEPT ![b].transcript = x]
                    \/ work' = [work EXCEPT ![b].summary = x]
    <3>1. PICK x : \/ work'[b] = [work[b] EXCEPT !.transcript = x]
                   \/ work'[b] = [work[b] EXCEPT !.summary = x]
      BY <1>1, <2>1
    <3> QED
      BY <1>1, <3>1 DEF Work
  <2>2. CASE work' = [work EXCEPT ![b] = NoWork]
    BY <1>1, <2>2 DEF NoWork
  <2>3. CASE b \in Uploads /\ UploadStep(b)
    BY <2>2, <2>3 DEF UploadStep, LoadMeeting, StoreUpload, RejectUpload, CommitUpload, Enqueue,
                      InlineRunReturns, EnqueueFails, MarkQueueFailed, CloseOrm, CommitAndClose
  <2>4. CASE b \in Lives /\ FinalizeStep(b)
    BY <2>2, <2>4 DEF FinalizeStep, BeginFinalize, NoAudio, StoreWav, ReloadMeeting, CommitLive,
                      Enqueue, EnqueueFails, FinalizeFails, MarkSessionFailed, CloseOrm
  <2>5. CASE b \in Summarizers \cup Posters /\ ManualStep(b)
    BY <2>1, <2>2, <2>5
    DEF ManualStep, LoadMeeting, BeginSummarize, CommitResummary, BeginPost, PostSummary,
        MarkPosted, ProviderFails, CloseOrm, CommitAndClose
  <2> QED
    BY <2>3, <2>4, <2>5 DEF RequestStep
<1>5. \A a \in Actors : work'[a].closes \in {work[a].closes, NoActor}
  BY <1>0, <1>4
<1>6. CASE b \in Uploads \cup Summarizers \cup Posters
  <2>1. session' = session
    BY <1>3, <1>6, ActorsAssumption
    DEF RequestStep, UploadStep, LoadMeeting, StoreUpload, RejectUpload, CommitUpload, Enqueue,
        InlineRunReturns, EnqueueFails, MarkQueueFailed, ManualStep, BeginSummarize,
        CommitResummary, BeginPost, PostSummary, MarkPosted, ProviderFails, rows
  <2>2. b \in Uploads => b \in Requesters
    BY DEF Requesters
  <2>3. recordings' = recordings \/ (b \in Uploads /\ recordings' = Append(recordings, b))
    BY <1>3, <1>6, ActorsAssumption
    DEF RequestStep, UploadStep, LoadMeeting, StoreUpload, RejectUpload, CommitUpload, Enqueue,
        InlineRunReturns, EnqueueFails, MarkQueueFailed, ManualStep, BeginSummarize,
        CommitResummary, BeginPost, PostSummary, MarkPosted, ProviderFails, rows
  <2>4. \A l \in Lives : Committed(l)' <=> Committed(l)
    <3>1. CASE recordings' = recordings
      BY <3>1 DEF Committed
    <3>2. CASE b \in Uploads /\ recordings' = Append(recordings, b)
      BY <1>3, <2>2, <3>2, CommitsStay
    <3> QED
      BY <2>3, <3>1, <3>2
  <2>5. \A l \in Lives : pc'[l] = pc[l]
    BY <1>0, <1>2, <1>3, <1>6
  <2> QED
    BY <1>5, <2>1, <2>4, <2>5, LifecycleStutter
<1>7. CASE b \in Lives /\ FinalizeStep(b)
  <2>1. CASE CommitLive(b)
    BY <1>7, <2>1, CommitLiveIsStore
  <2>2. CASE MarkSessionFailed(b)
    BY <1>7, <2>2, MarkSessionFailedIsLifecycle
  <2>3. CASE BeginFinalize(b) \/ NoAudio(b) \/ StoreWav(b) \/ ReloadMeeting(b) \/ Enqueue(b)
             \/ EnqueueFails(b) \/ FinalizeFails(b)
    <3>1. session' = session /\ recordings' = recordings
      BY <2>3 DEF BeginFinalize, NoAudio, StoreWav, ReloadMeeting, Enqueue, EnqueueFails,
                  FinalizeFails, rows
    <3>2. \A l \in Lives : Committed(l)' <=> Committed(l)
      BY <3>1 DEF Committed
    <3>3. pc'[b] \notin early \/ pc[b] \in early
      BY <1>1, <2>3 DEF BeginFinalize, NoAudio, StoreWav, ReloadMeeting, Enqueue, EnqueueFails,
                  FinalizeFails, Goto
    <3>4. \A l \in Lives : pc'[l] \notin early \/ pc[l] \in early
      BY <1>0, <1>2, <3>3
    <3> QED
      BY <1>5, <3>1, <3>2, <3>4, LifecycleStutter
  <2> QED
    BY <1>7, <2>1, <2>2, <2>3 DEF FinalizeStep
<1> QED
  BY <1>6, <1>7 DEF RequestStep

\* A crash changes no session.
LEMMA LifecycleCrash ==
    ASSUME TypeOK, SessionsFollowCommits, NEW b \in Actors, Crash(b)
    PROVE  [Lifecycle!Next]_(Lifecycle!vars) /\ SessionsFollowCommits'
<1>1. session' = session /\ recordings' = recordings
  BY CrashFrame DEF rows
<1>2. \A l \in Lives : Committed(l)' <=> Committed(l)
  BY <1>1 DEF Committed
<1>3. \A l \in Lives : pc'[l] = pc[l] \/ pc'[l] \in {"idle", "crashed"}
  BY CrashFrame DEF Actors, Requesters
<1>4. \A a \in Actors : work'[a].closes \in {work[a].closes, NoActor}
  BY DEF Crash, NoWork
<1> QED
  BY <1>1, <1>2, <1>3, <1>4, LifecycleStutter

\* Every row of live_sessions keeps the lifecycle, for any number of sessions,
\* requests and workers.
THEOREM SessionsImplementLifecycle == Spec => SessionsKeepLifecycle
<1>1. Init => Lifecycle!Init /\ SessionsFollowCommits
  <2> SUFFICES ASSUME Init PROVE Lifecycle!Init /\ SessionsFollowCommits
    OBVIOUS
  <2>1. \A r : ~Committed(r)
    BY InitFrame
  <2>2. session = [l \in Lives |-> "recording"] /\ \A a \in Actors : work[a].closes = NoActor
    BY DEF Init, NoWork
  <2>3. NoActor \notin Lives
    BY ActorsAssumption DEF Actors, Requesters
  <2>4. StoredLives = {}
    BY <2>1 DEF StoredLives
  <2>5. Lifecycle!Init
    BY <2>2, <2>4, Zenon DEF Lifecycle!Init
  <2>6. SessionsFollowCommits
    BY <2>1, <2>2, <2>3 DEF SessionsFollowCommits
  <2> QED
    BY <2>5, <2>6
<1>2. TypeOK /\ AudioInv /\ SessionsFollowCommits /\ [Next]_vars
        => [Lifecycle!Next]_(Lifecycle!vars) /\ SessionsFollowCommits'
  <2> SUFFICES ASSUME TypeOK, AudioInv, SessionsFollowCommits, [Next]_vars
               PROVE  [Lifecycle!Next]_(Lifecycle!vars) /\ SessionsFollowCommits'
    OBVIOUS
  <2>1. CASE UNCHANGED vars
    <3>1. session' = session /\ pc' = pc /\ work' = work /\ \A l \in Lives : Committed(l)' <=> Committed(l)
      BY <2>1 DEF vars, Committed
    <3> QED
      BY <3>1, LifecycleStutter
  <2>2. ASSUME NEW r \in Requesters, QueueStep(r) \/ ExpireUnderSlowWorker(r)
        PROVE  [Lifecycle!Next]_(Lifecycle!vars) /\ SessionsFollowCommits'
    <3>1. session' = session /\ pc' = pc /\ work' = work /\ \A l \in Lives : Committed(l)' <=> Committed(l)
      BY <2>2, QueueFrame DEF rows, Committed
    <3> QED
      BY <3>1, LifecycleStutter
  <2> QED
    BY <2>1, <2>2, LifecycleWorkerStep, LifecycleRequestStep, LifecycleCrash DEF Next
<1> QED
  BY <1>1, <1>2, TypeCorrect, RecordingsAreStored, PTL
  DEF Spec, SessionsKeepLifecycle, Lifecycle!Spec
=============================================================================
