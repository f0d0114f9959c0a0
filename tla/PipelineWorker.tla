--------------------------- MODULE PipelineWorker ---------------------------
(***************************************************************************)
(* run_pipeline, as the ARQ worker and the inline queue run it: one action *)
(* per commit or provider call.  A provider (storage, transcription, LLM,  *)
(* Discord) may fail at any call.                                          *)
(***************************************************************************)
EXTENDS JobQueue

CONSTANT DiscordOn   \* settings.discord_webhook_url is set

ASSUME DiscordAssumption == DiscordOn \in BOOLEAN

WorkerLabels == {"idle", "transcribing", "reading", "summarizing", "closing",
                 "delivering", "marking", "finishing", "acking"}

\* A worker takes the job of r, inserts its run row, loads the meeting, clears
\* its errors in memory and selects the newest recording; without one the run
\* fails at once.
StartRun(w, r) ==
    /\ pc[w] = "idle"
    /\ Take(r)
    /\ LET found == NewestRecording
           status == IF found = NoActor THEN "failed" ELSE "running"
       IN  /\ runs' = Append(runs, [job |-> r, recording |-> found, status |-> status])
           /\ meeting' = IF found # NoActor THEN meeting
                         ELSE [meeting EXCEPT !.status = "failed", !.error = TRUE,
                                              !.code = "no_recording"]
           /\ work' = [work EXCEPT ![w] = [NoWork EXCEPT !.job = r, !.run = Len(runs) + 1,
                                                         !.recording = found]]
           /\ Goto(w, IF found = NoActor THEN "acking" ELSE "transcribing")
    /\ view' = [view EXCEPT ![w] = meeting]
    /\ UNCHANGED <<recordings, transcripts, summaries, deliveries, objects, session>>

\* The batch transcription succeeded: its transcript, the new status and the
\* cleared errors are committed together.  An object that is not in storage
\* cannot be materialized.
SaveTranscript(w) ==
    /\ pc[w] = "transcribing" /\ work[w].recording \in objects
    /\ transcripts' = Append(transcripts, [recording |-> work[w].recording,
                                           source |-> SourceOf(work[w].recording)])
    /\ CommitMeeting(w, [view[w] EXCEPT !.status = "transcribed", !.error = FALSE, !.code = "none"])
    /\ Goto(w, "reading")
    /\ UNCHANGED <<recordings, summaries, deliveries, objects, session, runs, work, jobs>>

\* Mutant of ReadTranscript: the query without desc().
ReadOldestTranscript(w) ==
    /\ pc[w] = "reading"
    /\ work' = [work EXCEPT ![w].transcript = 1]
    /\ Goto(w, "summarizing")
    /\ UNCHANGED <<meeting, recordings, transcripts, summaries, deliveries, objects, session,
                   runs, view, jobs>>

\* The run summarizes the newest transcript of the meeting, which another
\* actor may have committed since.
ReadTranscript(w) ==
    /\ pc[w] = "reading"
    /\ work' = [work EXCEPT ![w].transcript = Len(transcripts)]
    /\ Goto(w, "summarizing")
    /\ UNCHANGED <<meeting, recordings, transcripts, summaries, deliveries, objects, session,
                   runs, view, jobs>>

\* The LLM answered: the summary is flushed, not committed, and the live
\* session to complete is selected.
SelectSession(w) ==
    /\ pc[w] = "summarizing"
    /\ \E l \in SessionsToClose : work' = [work EXCEPT ![w].closes = l]
    /\ Goto(w, "closing")
    /\ UNCHANGED <<meeting, recordings, transcripts, summaries, deliveries, objects, session,
                   runs, view, jobs>>

\* Summary, status "summarized" and the completed session are committed.
CommitSummary(w) ==
    /\ pc[w] = "closing" /\ work[w].outcome = "succeeded"
    /\ summaries' = Append(summaries, [transcript |-> work[w].transcript, run |-> work[w].run])
    /\ CommitMeeting(w, [view[w] EXCEPT !.status = "summarized"])
    /\ CloseSession(work[w].closes, "completed")
    /\ work' = [work EXCEPT ![w].summary = Len(summaries) + 1, ![w].closes = NoActor]
    /\ Goto(w, IF DiscordOn THEN "delivering" ELSE "finishing")
    /\ UNCHANGED <<recordings, transcripts, deliveries, objects, runs, jobs>>

\* Discord accepted the message.
Deliver(w) ==
    /\ pc[w] = "delivering"
    /\ deliveries' = Append(deliveries, work[w].summary)
    /\ Goto(w, "marking")
    /\ UNCHANGED <<meeting, recordings, transcripts, summaries, objects, session, runs, view,
                   work, jobs>>

MarkSent(w) ==
    /\ pc[w] = "marking"
    /\ CommitMeeting(w, [view[w] EXCEPT !.status = "sent"])
    /\ Goto(w, "finishing")
    /\ UNCHANGED <<recordings, transcripts, summaries, deliveries, objects, session, runs, work,
                   jobs>>

\* A provider call raised: the session is rolled back, the meeting is loaded
\* again and the live session to fail is selected.  A Discord call may raise
\* although the message was posted.
RunFails(w) ==
    /\ pc[w] \in {"transcribing", "summarizing", "delivering"}
    /\ \/ UNCHANGED deliveries
       \/ pc[w] = "delivering" /\ deliveries' = Append(deliveries, work[w].summary)
    /\ view' = [view EXCEPT ![w] = meeting]
    /\ \E l \in SessionsToClose :
          work' = [work EXCEPT ![w].closes = l, ![w].outcome = "failed"]
    /\ Goto(w, "closing")
    /\ UNCHANGED <<meeting, recordings, transcripts, summaries, objects, session, runs, jobs>>

\* Mutants of CommitFailure: the status stays, the session stays open, the
\* error code is none of the table's.
FailWithoutStatus(w) ==
    /\ pc[w] = "closing" /\ work[w].outcome = "failed"
    /\ CommitMeeting(w, [view[w] EXCEPT !.error = TRUE, !.code = "pipeline_failed"])
    /\ CloseSession(work[w].closes, "failed")
    /\ work' = [work EXCEPT ![w].closes = NoActor]
    /\ Goto(w, "finishing")
    /\ UNCHANGED <<recordings, transcripts, summaries, deliveries, objects, runs, jobs>>

FailWithoutSession(w) ==
    /\ pc[w] = "closing" /\ work[w].outcome = "failed"
    /\ CommitMeeting(w, [view[w] EXCEPT !.status = "failed", !.error = TRUE,
                                        !.code = "pipeline_failed"])
    /\ work' = [work EXCEPT ![w].closes = NoActor]
    /\ Goto(w, "finishing")
    /\ UNCHANGED <<recordings, transcripts, summaries, deliveries, objects, session, runs, jobs>>

FailWithUnknownCode(w) ==
    /\ pc[w] = "closing" /\ work[w].outcome = "failed"
    /\ CommitMeeting(w, [view[w] EXCEPT !.status = "failed", !.error = TRUE,
                                        !.code = "run_failed"])
    /\ CloseSession(work[w].closes, "failed")
    /\ work' = [work EXCEPT ![w].closes = NoActor]
    /\ Goto(w, "finishing")
    /\ UNCHANGED <<recordings, transcripts, summaries, deliveries, objects, runs, jobs>>

\* The failure is committed: status, errors and the failed session together.
CommitFailure(w) ==
    /\ pc[w] = "closing" /\ work[w].outcome = "failed"
    /\ CommitMeeting(w, [view[w] EXCEPT !.status = "failed", !.error = TRUE,
                                        !.code = "pipeline_failed"])
    /\ CloseSession(work[w].closes, "failed")
    /\ work' = [work EXCEPT ![w].closes = NoActor]
    /\ Goto(w, "finishing")
    /\ UNCHANGED <<recordings, transcripts, summaries, deliveries, objects, runs, jobs>>

\* Mutant of FinishRun: the outcome of the run is not looked at.
FinishRunSucceeded(w) ==
    /\ pc[w] = "finishing"
    /\ runs' = [runs EXCEPT ![work[w].run].status = "succeeded"]
    /\ view' = [view EXCEPT ![w] = NewMeeting]
    /\ work' = [work EXCEPT ![w] = [NoWork EXCEPT !.job = work[w].job]]
    /\ Goto(w, "acking")
    /\ UNCHANGED <<meeting, recordings, transcripts, summaries, deliveries, objects, session,
                   jobs>>

\* The run row gets its outcome; run_pipeline returns normally either way.
FinishRun(w) ==
    /\ pc[w] = "finishing"
    /\ runs' = [runs EXCEPT ![work[w].run].status = work[w].outcome]
    /\ view' = [view EXCEPT ![w] = NewMeeting]
    /\ work' = [work EXCEPT ![w] = [NoWork EXCEPT !.job = work[w].job]]
    /\ Goto(w, "acking")
    /\ UNCHANGED <<meeting, recordings, transcripts, summaries, deliveries, objects, session,
                   jobs>>

\* The queue learns that the job function returned.
Finish(w) ==
    /\ pc[w] = "acking"
    /\ Acknowledge(work[w].job)
    /\ CloseOrm(w)
    /\ Goto(w, "idle")
    /\ UNCHANGED <<meeting, recordings, transcripts, summaries, deliveries, objects, session, runs>>

WorkerStep(w) ==
    \/ \E r \in Requesters : StartRun(w, r)
    \/ SaveTranscript(w) \/ ReadTranscript(w) \/ SelectSession(w) \/ CommitSummary(w)
    \/ Deliver(w) \/ MarkSent(w) \/ RunFails(w) \/ CommitFailure(w)
    \/ FinishRun(w) \/ Finish(w)
=============================================================================
