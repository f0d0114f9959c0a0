--------------------------- MODULE MeetingPipeline ---------------------------
(***************************************************************************)
(* One meeting: its API requests, its live sessions, the job queue and the *)
(* workers together, with crashes of their processes and redelivered jobs. *)
(***************************************************************************)
EXTENDS PipelineWorker, MeetingRequests, FiniteSets

CONSTANT MaxFaults   \* bound on crashes and on keys expiring under a slow worker

ASSUME FaultsAssumption == MaxFaults \in Nat

VARIABLE faults      \* how many of those happened

vars == <<meeting, recordings, transcripts, summaries, deliveries, objects, session,
          runs, pc, view, work, jobs, faults>>

Init ==
    /\ meeting = NewMeeting
    /\ recordings = <<>> /\ transcripts = <<>> /\ summaries = <<>> /\ deliveries = <<>>
    /\ objects = {} /\ runs = <<>>
    /\ session = [l \in Lives |-> "recording"]
    /\ jobs = [r \in Requesters |-> NoJob]
    /\ pc = [a \in Actors |-> IF a \in Workers THEN "idle" ELSE "start"]
    /\ view = [a \in Actors |-> NewMeeting]
    /\ work = [a \in Actors |-> NoWork]
    /\ faults = 0

Holders(r) == {w \in Workers : work[w].job = r}

Busy(a) == pc[a] \notin {"idle", "done", "refused", "crashed"}

\* A process dies.  With ARQ every actor has its own, the supervisor restarts
\* a worker, and the job it held stays in Redis.  The inline queue shares the
\* API's process: requests, runs and queued jobs go down together.
Crash(a) ==
    /\ faults < MaxFaults /\ Busy(a)
    /\ LET victims == IF Backend = "inline" THEN {b \in Actors : Busy(b)} ELSE {a}
       IN  /\ pc' = [b \in Actors |-> IF b \notin victims THEN pc[b]
                                      ELSE IF b \in Workers THEN "idle" ELSE "crashed"]
           /\ view' = [b \in Actors |-> IF b \in victims THEN NewMeeting ELSE view[b]]
           /\ work' = [b \in Actors |-> IF b \in victims THEN NoWork ELSE work[b]]
    /\ IF Backend = "inline" THEN LoseInline ELSE UNCHANGED jobs
    /\ faults' = faults + 1
    /\ UNCHANGED <<rows, objects>>

\* The in-progress key of a job expires after its worker died, or while the
\* worker still runs it: run_pipeline blocks the worker's event loop, so
\* job_timeout cannot interrupt a run that is slower than the key.
Redeliver(r) ==
    /\ Requeue(r)
    /\ Holders(r) = {}
    /\ UNCHANGED <<rows, objects, pc, view, work, faults>>

ExpireUnderSlowWorker(r) ==
    /\ faults < MaxFaults
    /\ Requeue(r)
    /\ Holders(r) # {}
    /\ faults' = faults + 1
    /\ UNCHANGED <<rows, objects, pc, view, work>>

Abort(r) == Exhaust(r) /\ UNCHANGED <<rows, objects, pc, view, work, faults>>

QueueStep(r) == Redeliver(r) \/ Abort(r)

Next ==
    \/ \E w \in Workers : WorkerStep(w) /\ UNCHANGED faults
    \/ \E a \in Actors : RequestStep(a) /\ UNCHANGED faults
    \/ \E r \in Requesters : QueueStep(r) \/ ExpireUnderSlowWorker(r)
    \/ \E a \in Actors : Crash(a)

Spec == Init /\ [][Next]_vars

\* Every process that is up keeps running, provider calls return or raise
\* (their clients have timeouts), and Redis redelivers what is not
\* acknowledged.  Nothing forces a crash, a success or a failure.
Fairness ==
    /\ \A w \in Workers : WF_vars(WorkerStep(w) /\ UNCHANGED faults)
    /\ \A a \in Actors : WF_vars(RequestStep(a) /\ UNCHANGED faults)
    /\ \A r \in Requesters : WF_vars(QueueStep(r))

FairSpec == Spec /\ Fairness
----------------------------------------------------------------------------
(***************************************************************************)
(* Types.                                                                  *)
(***************************************************************************)
Work == [job: Requesters \cup {NoActor}, run: Nat, recording: Requesters \cup {NoActor},
         transcript: Nat, summary: Nat, closes: Lives \cup {NoActor},
         outcome: {"succeeded", "failed"}]

RunRow == [job: Requesters, recording: Requesters \cup {NoActor},
           status: {"running", "succeeded", "failed"}]

TranscriptRow == [recording: Requesters \cup {NoActor}, source: {"live", "live_batch", "upload"}]

SummaryRow == [transcript: Nat, run: Nat]

TypeOK ==
    /\ meeting \in MeetingRow
    /\ recordings \in Seq(Requesters)
    /\ transcripts \in Seq(TranscriptRow)
    /\ summaries \in Seq(SummaryRow)
    /\ deliveries \in Seq(Nat)
    /\ objects \subseteq Requesters
    /\ session \in [Lives -> SessionStatus]
    /\ runs \in Seq(RunRow)
    /\ pc \in [Actors -> WorkerLabels \cup RequestLabels]
    /\ view \in [Actors -> MeetingRow]
    /\ work \in [Actors -> Work]
    /\ jobs \in [Requesters -> Job]
    /\ faults \in Nat

----------------------------------------------------------------------------
(***************************************************************************)
(* Safety.                                                                 *)
(***************************************************************************)

\* A committed recording can be read: its audio object is in storage, though
\* finalize_live_session deletes objects on its error paths.
RecordingHasObject == \A i \in DOMAIN recordings : recordings[i] \in objects

\* A run works on a recording that is not older than the one whose request
\* enqueued its job, although run_pipeline gets only the meeting id and selects
\* the recording itself, maybe hours and redeliveries later.
RunUsesFreshRecording ==
    \A i \in DOMAIN runs : NotOlder(runs[i].recording, runs[i].job)

\* With one worker, the summary of a run is made from a transcript whose
\* recording is not older than that of the job, although the run reads the
\* newest transcript of the meeting, which other actors commit too.
SummaryCoversJob ==
    \A i \in DOMAIN summaries :
        summaries[i].run # 0 =>
            NotOlder(transcripts[summaries[i].transcript].recording, runs[summaries[i].run].job)

\* The status of the meeting is backed by rows: stale writes of concurrent
\* handlers and runs never announce a stage nobody reached.
StatusEvidence ==
    /\ meeting.status = "uploaded" => recordings # <<>>
    /\ meeting.status = "transcribed" => transcripts # <<>>
    /\ meeting.status = "summarized" => summaries # <<>>
    /\ meeting.status = "sent" => deliveries # <<>>

\* Whatever reached Discord is a committed summary.
AnnouncedIsStored == \A i \in DOMAIN deliveries : deliveries[i] \in DOMAIN summaries

\* A run recorded as succeeded stored a summary of its own and, with a webhook,
\* delivered it.
SucceededRunDelivered ==
    \A i \in DOMAIN runs : runs[i].status = "succeeded" =>
        \E s \in DOMAIN summaries :
            /\ summaries[s].run = i
            /\ DiscordOn => \E d \in DOMAIN deliveries : deliveries[d] = s

SummariesOf(r) ==
    {i \in DOMAIN summaries : summaries[i].run # 0 /\ runs[summaries[i].run].job = r}

\* Redelivery of a job stores at most one summary per try of max_tries: all
\* that holds in place of idempotent runs.
SummariesBoundedByTries ==
    \A r \in Requesters : Cardinality(SummariesOf(r)) <= MaxTries

\* docs/features.md: "Pipeline runs are idempotent per meeting version".
OneSummaryPerVersion == \A r \in Requesters : Cardinality(SummariesOf(r)) <= 1

\* An accepted upload is processed: a run read its recording or a newer one,
\* or a job that will read it waits.  docs/features.md: "Upload enqueues a
\* durable pipeline job."
AnsweredUploadIsProcessed ==
    \A u \in Uploads : pc[u] = "done" =>
        \/ \E i \in DOMAIN runs : NotOlder(runs[i].recording, u)
        \/ \E r \in Requesters :
              jobs[r].state = "queued" \/ (jobs[r].state = "running" /\ Holders(r) = {})

Committed(r) == \E i \in DOMAIN recordings : recordings[i] = r

StoredLives == {l \in Lives : Committed(l)}

\* The rows of live_sessions keep the lifecycle of LiveSessionLifecycle, though
\* finalizers and runs overwrite each other's status.
Lifecycle == INSTANCE LiveSessionLifecycle
    WITH Sessions <- Lives, status <- session, stored <- StoredLives

SessionsKeepLifecycle == Lifecycle!Spec
----------------------------------------------------------------------------
(***************************************************************************)
(* What the safety invariants need of the actors in between: with it each  *)
(* is inductive.                                                           *)
(***************************************************************************)
\* An actor about to commit a recording has its object; one that may still
\* delete its object has not committed its recording.
AudioReady ==
    /\ \A r \in Requesters :
          pc[r] = "committing" \/ (r \in Lives /\ pc[r] = "reloading") => r \in objects
    /\ \A r \in Requesters :
          pc[r] \in {"start", "storing", "reloading", "committing"} => ~Committed(r)

\* A job is enqueued only after its recording is committed, and a worker holds
\* only jobs that were enqueued.
JobsFollowCommits ==
    /\ \A r \in Requesters : pc[r] = "enqueuing" \/ jobs[r].state # "none" => Committed(r)
    /\ \A a \in Actors : \A r \in Requesters : work[a].job = r => jobs[r].state # "none"

\* An actor about to post has a committed summary, one about to set "sent"
\* has posted it.
PostersHaveSummary ==
    \A a \in Actors :
        /\ pc[a] = "delivering" => work[a].summary \in DOMAIN summaries
        /\ pc[a] = "marking" => deliveries # <<>>

\* A session leaves "recording" when its audio is committed or it fails, and
\* runs close only sessions whose audio is committed.
SessionsFollowCommits ==
    /\ \A l \in Lives :
          /\ Committed(l) => session[l] # "recording"
          /\ ~Committed(l) => session[l] \in {"recording", "failed"}
          /\ pc[l] \in {"start", "storing", "reloading", "committing"} => session[l] = "recording"
    /\ \A a \in Actors : work[a].closes \in Lives => Committed(work[a].closes)

AudioInv == RecordingHasObject /\ AudioReady
FreshInv == RunUsesFreshRecording /\ JobsFollowCommits
EvidenceInv == StatusEvidence /\ AnnouncedIsStored /\ PostersHaveSummary
----------------------------------------------------------------------------
(***************************************************************************)
(* Liveness.                                                               *)
(***************************************************************************)

\* A job that Redis accepted is run to its end, through fewer worker deaths
\* than it has tries.
AcceptedJobCompletes ==
    \A r \in Requesters : jobs[r].state = "queued" ~> jobs[r].state = "done"

\* After an accepted upload the meeting settles in a final status and stays
\* there, whatever summarize and send-discord requests run beside the job and
\* however often it is redelivered.  Only a run that died may leave it between.
Settled == meeting.status \in {"summarized", "sent", "failed"}
LeftOpen == \E i \in DOMAIN runs : runs[i].status = "running"
MeetingSettles == \A u \in Uploads : pc[u] = "done" ~> [](Settled \/ LeftOpen)

\* A newer session than l whose finalizer enqueued no job, because it died or
\* failed after its commit or ARQ dropped the job, and that is resolved all the
\* same, as by the run that l was waiting for.
TookARun(k, l) ==
    /\ SessionRank[k] > SessionRank[l]
    /\ Committed(k) /\ jobs[k].state = "none" /\ pc[k] \in {"done", "refused", "crashed"}
    /\ session[k] \in {"completed", "failed"}

\* The session of an accepted job is resolved, though a run completes the newest
\* finalizing session of the meeting, not that of its job: one run for each is
\* enough, in whatever order.  The exception is the session that a newer one
\* without a job has taken the run from, which stays finalizing.
AcceptedSessionResolves ==
    \A l \in Lives :
        jobs[l].state = "queued" ~> \/ session[l] \in {"completed", "failed"}
                                    \/ \E k \in Lives : TookARun(k, l)
=============================================================================
