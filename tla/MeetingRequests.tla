--------------------------- MODULE MeetingRequests ---------------------------
(***************************************************************************)
(* The API's side of the pipeline: the upload, summarize and send-discord  *)
(* handlers and finalize_live_session, which runs when a websocket ends.   *)
(* Each actor is one request; "done" is a success answer, "refused" an     *)
(* error answer, "crashed" a process that died in the middle.              *)
(***************************************************************************)
EXTENDS JobQueue

RequestLabels == {"start", "storing", "reloading", "committing", "enqueuing", "failing",
                  "waiting", "reading", "summarizing", "delivering", "marking",
                  "done", "refused", "crashed"}

rows == <<meeting, recordings, transcripts, summaries, deliveries, session, runs>>

\* get_meeting: the handler's session loads the row and keeps that object.
LoadMeeting(a) ==
    /\ a \in Uploads \cup Summarizers \cup Posters /\ pc[a] = "start"
    /\ view' = [view EXCEPT ![a] = meeting]
    /\ Goto(a, IF a \in Uploads THEN "storing" ELSE "reading")
    /\ UNCHANGED <<rows, objects, work, jobs>>

----------------------------------------------------------------------------
\* upload_audio: the audio goes to storage in a thread.
StoreUpload(u) ==
    /\ u \in Uploads /\ pc[u] = "storing"
    /\ objects' = objects \cup {u}
    /\ Goto(u, "committing")
    /\ UNCHANGED <<rows, view, work, jobs>>

\* The upload is too large or empty, or storage failed.
RejectUpload(u) ==
    /\ u \in Uploads /\ pc[u] = "storing"
    /\ Goto(u, "refused")
    /\ CloseOrm(u)
    /\ UNCHANGED <<rows, objects, jobs>>

CommitUpload(u) ==
    /\ u \in Uploads /\ pc[u] = "committing"
    /\ recordings' = Append(recordings, u)
    /\ CommitMeeting(u, [status |-> "uploaded", error |-> FALSE, code |-> "none",
                         version |-> view[u].version + 1])
    /\ Goto(u, "enqueuing")
    /\ UNCHANGED <<transcripts, summaries, deliveries, session, runs, objects, work, jobs>>

\* Mutant of Enqueue: an upload does not wait for its inline run.
EnqueueWithoutWaiting(r) ==
    /\ pc[r] = "enqueuing"
    /\ Accept(r, view[r].version)
    /\ Goto(r, "done")
    /\ CloseOrm(r)
    /\ UNCHANGED <<rows, objects>>

\* The inline queue answers an upload when its run has returned, and a
\* finalizer, which does not wait, at once; ARQ answers both at once.
Enqueue(r) ==
    /\ pc[r] = "enqueuing"
    /\ Accept(r, view[r].version)
    /\ Goto(r, IF Backend = "inline" /\ r \in Uploads THEN "waiting" ELSE "done")
    /\ CloseOrm(r)
    /\ UNCHANGED <<rows, objects>>

InlineRunReturns(u) ==
    /\ pc[u] = "waiting" /\ jobs[u].state = "done"
    /\ Goto(u, "done")
    /\ UNCHANGED <<rows, objects, view, work, jobs>>

\* Mutant of EnqueueFails: the error path deletes a committed object.
EnqueueFailsAndDeletes(r) ==
    /\ pc[r] = "enqueuing"
    /\ objects' = objects \ {r}
    /\ Goto(r, "failing")
    /\ UNCHANGED <<rows, jobs, view, work>>

\* enqueue raised; when the queue is Redis the job may have been accepted.
EnqueueFails(r) ==
    /\ pc[r] = "enqueuing"
    /\ \/ UNCHANGED jobs
       \/ Backend = "arq" /\ Accept(r, view[r].version)
    /\ Goto(r, "failing")
    /\ UNCHANGED <<rows, objects, view, work>>

MarkQueueFailed(u) ==
    /\ u \in Uploads /\ pc[u] = "failing"
    /\ CommitAndClose(u, [view[u] EXCEPT !.status = "failed", !.code = "queue_failed"])
    /\ Goto(u, "refused")
    /\ UNCHANGED <<recordings, transcripts, summaries, deliveries, session, runs, objects, jobs>>

----------------------------------------------------------------------------
\* finalize_live_session finds audio and a session that is recording.
BeginFinalize(l) ==
    /\ l \in Lives /\ pc[l] = "start" /\ session[l] = "recording"
    /\ Goto(l, "storing")
    /\ UNCHANGED <<rows, objects, view, work, jobs>>

\* No audio was captured.
NoAudio(l) ==
    /\ l \in Lives /\ pc[l] = "start"
    /\ Goto(l, "failing")
    /\ UNCHANGED <<rows, objects, view, work, jobs>>

StoreWav(l) ==
    /\ l \in Lives /\ pc[l] = "storing"
    /\ objects' = objects \cup {l}
    /\ Goto(l, "reloading")
    /\ UNCHANGED <<rows, view, work, jobs>>

\* After the upload the session and the meeting are loaded again; a session
\* that is no longer recording loses the object.
ReloadMeeting(l) ==
    /\ l \in Lives /\ pc[l] = "reloading"
    /\ IF session[l] = "recording"
       THEN /\ Goto(l, "committing")
            /\ view' = [view EXCEPT ![l] = meeting]
            /\ UNCHANGED objects
       ELSE /\ Goto(l, "refused")
            /\ objects' = objects \ {l}
            /\ UNCHANGED view
    /\ UNCHANGED <<rows, work, jobs>>

\* Recording, live transcript, meeting and session are committed together.
CommitLive(l) ==
    /\ l \in Lives /\ pc[l] = "committing"
    /\ recordings' = Append(recordings, l)
    /\ transcripts' = Append(transcripts, [recording |-> l, source |-> "live"])
    /\ CommitMeeting(l, [status |-> "transcribed", error |-> FALSE, code |-> "none",
                         version |-> view[l].version + 1])
    /\ session' = [session EXCEPT ![l] = "finalizing"]
    /\ Goto(l, "enqueuing")
    /\ UNCHANGED <<summaries, deliveries, runs, objects, work, jobs>>

\* Conversion, upload or commit raised: an uncommitted object is deleted.
FinalizeFails(l) ==
    /\ l \in Lives /\ pc[l] \in {"storing", "reloading", "committing"}
    /\ objects' = objects \ {l}
    /\ Goto(l, "failing")
    /\ UNCHANGED <<rows, view, work, jobs>>

\* _mark_failed overwrites whatever status the session has by now.
MarkSessionFailed(l) ==
    /\ l \in Lives /\ pc[l] = "failing"
    /\ session' = [session EXCEPT ![l] = "failed"]
    /\ Goto(l, "refused")
    /\ CloseOrm(l)
    /\ UNCHANGED <<meeting, recordings, transcripts, summaries, deliveries, runs, objects, jobs>>

----------------------------------------------------------------------------
\* summarize_meeting reads the newest transcript, 409 without one.
BeginSummarize(s) ==
    /\ s \in Summarizers /\ pc[s] = "reading"
    /\ work' = [work EXCEPT ![s].transcript = Len(transcripts)]
    /\ Goto(s, IF transcripts = <<>> THEN "refused" ELSE "summarizing")
    /\ UNCHANGED <<rows, objects, view, jobs>>

\* It clears error but neither error_code nor error_message.
CommitResummary(s) ==
    /\ s \in Summarizers /\ pc[s] = "summarizing"
    /\ summaries' = Append(summaries, [transcript |-> work[s].transcript, run |-> 0])
    /\ CommitAndClose(s, [view[s] EXCEPT !.status = "summarized", !.error = FALSE])
    /\ Goto(s, "done")
    /\ UNCHANGED <<recordings, transcripts, deliveries, session, runs, objects, jobs>>

\* post_discord reads the newest summary, 409 without one.
BeginPost(p) ==
    /\ p \in Posters /\ pc[p] = "reading"
    /\ work' = [work EXCEPT ![p].summary = Len(summaries)]
    /\ Goto(p, IF summaries = <<>> THEN "refused" ELSE "delivering")
    /\ UNCHANGED <<rows, objects, view, jobs>>

PostSummary(p) ==
    /\ p \in Posters /\ pc[p] = "delivering"
    /\ deliveries' = Append(deliveries, work[p].summary)
    /\ Goto(p, "marking")
    /\ UNCHANGED <<meeting, recordings, transcripts, summaries, session, runs, objects, view,
                   work, jobs>>

MarkPosted(p) ==
    /\ p \in Posters /\ pc[p] = "marking"
    /\ CommitAndClose(p, [view[p] EXCEPT !.status = "sent", !.error = FALSE])
    /\ Goto(p, "done")
    /\ UNCHANGED <<recordings, transcripts, summaries, deliveries, session, runs, objects, jobs>>

\* Mutant of ProviderFails: a failed post counts as posted.
FailedPostIgnored(a) ==
    /\ a \in Posters /\ pc[a] = "delivering"
    /\ Goto(a, "marking")
    /\ UNCHANGED <<rows, objects, view, work, jobs>>

\* The LLM or Discord call raised, Discord possibly after posting: 502, and
\* nothing is committed.
ProviderFails(a) ==
    /\ a \in Summarizers \cup Posters /\ pc[a] \in {"summarizing", "delivering"}
    /\ \/ UNCHANGED deliveries
       \/ pc[a] = "delivering" /\ deliveries' = Append(deliveries, work[a].summary)
    /\ Goto(a, "refused")
    /\ CloseOrm(a)
    /\ UNCHANGED <<meeting, recordings, transcripts, summaries, session, runs, objects, jobs>>

UploadStep(u) ==
    \/ LoadMeeting(u) \/ StoreUpload(u) \/ RejectUpload(u) \/ CommitUpload(u)
    \/ Enqueue(u) \/ InlineRunReturns(u) \/ EnqueueFails(u) \/ MarkQueueFailed(u)

FinalizeStep(l) ==
    \/ BeginFinalize(l) \/ NoAudio(l) \/ StoreWav(l) \/ ReloadMeeting(l) \/ CommitLive(l)
    \/ Enqueue(l) \/ EnqueueFails(l) \/ FinalizeFails(l) \/ MarkSessionFailed(l)

ManualStep(a) ==
    \/ LoadMeeting(a) \/ BeginSummarize(a) \/ CommitResummary(a)
    \/ BeginPost(a) \/ PostSummary(a) \/ MarkPosted(a) \/ ProviderFails(a)

RequestStep(a) ==
    \/ a \in Uploads /\ UploadStep(a)
    \/ a \in Lives /\ FinalizeStep(a)
    \/ a \in Summarizers \cup Posters /\ ManualStep(a)
=============================================================================
