---------------------------- MODULE MeetingState ----------------------------
(***************************************************************************)
(* The rows and objects of one meeting that the API requests and the       *)
(* pipeline share: its row in "meetings", its recordings, transcripts and  *)
(* summaries in creation order, its live sessions, the "pipeline_runs"     *)
(* rows, the audio objects in storage and the Discord deliveries.          *)
(*                                                                         *)
(* Every commit of the code is one step.  A value that the code keeps      *)
(* across a commit, a thread or a provider call is kept in view (the       *)
(* Meeting object of an actor's ORM session) and work (its other locals).  *)
(* The job and recording of a run and the transcript and run of a summary  *)
(* are history: the rows do not store them.                                *)
(***************************************************************************)
EXTENDS Naturals, Sequences

CONSTANTS
    Uploads,      \* POST /meetings/{id}/upload requests
    Lives,        \* live sessions, each with its finalizer
    Summarizers,  \* POST /meetings/{id}/summarize requests
    Posters,      \* POST /meetings/{id}/send-discord requests
    Workers,      \* ARQ worker processes, or inline worker threads
    NoActor,      \* "no row" of a lookup
    SessionRank   \* creation order of the live sessions

Requesters == Uploads \cup Lives
Actors == Requesters \cup Summarizers \cup Posters \cup Workers

ASSUME ActorsAssumption ==
    /\ NoActor \notin Actors
    /\ Uploads \cap Lives = {}
    /\ (Summarizers \cup Posters) \cap Requesters = {}
    /\ Summarizers \cap Posters = {}
    /\ Workers \cap (Requesters \cup Summarizers \cup Posters) = {}
    /\ SessionRank \in [Lives -> Nat]

VARIABLES
    meeting,      \* the committed row of the meeting
    recordings,   \* who committed each recording, oldest first
    transcripts,  \* [recording, source], oldest first
    summaries,    \* [transcript, run], oldest first; run 0: no run
    deliveries,   \* the summary of each Discord message posted
    objects,      \* the requesters whose audio object is in storage
    session,      \* status of each live session
    runs,         \* the pipeline_runs rows: [job, recording, status]
    pc,           \* where each actor is
    view,         \* the Meeting object of each actor's ORM session
    work          \* the other locals of each actor

----------------------------------------------------------------------------
MeetingStatus ==
    {"scheduled", "uploaded", "transcribed", "summarized", "sent", "failed"}
ErrorCode == {"none", "queue_failed", "pipeline_failed", "no_recording"}
SessionStatus == {"recording", "finalizing", "completed", "failed"}

\* error stands for the error column, code for error_code and error_message,
\* which the code always assigns together.
MeetingRow == [status: MeetingStatus, error: BOOLEAN, code: ErrorCode, version: Nat]

NewMeeting == [status |-> "scheduled", error |-> FALSE, code |-> "none", version |-> 1]

NoWork == [job |-> NoActor, run |-> 0, recording |-> NoActor, transcript |-> 0,
           summary |-> 0, closes |-> NoActor, outcome |-> "succeeded"]

\* The unit of work writes only the columns whose value differs from the one
\* the session loaded; the others keep what is in the database.
Written(loaded, assigned, stored) == IF assigned = loaded THEN stored ELSE assigned

Flush(loaded, assigned) ==
    [status  |-> Written(loaded.status, assigned.status, meeting.status),
     error   |-> Written(loaded.error, assigned.error, meeting.error),
     code    |-> Written(loaded.code, assigned.code, meeting.code),
     version |-> Written(loaded.version, assigned.version, meeting.version)]

\* Commits the Meeting object of actor a as assigned; the session does not
\* expire its objects on commit, so it keeps that object.
CommitMeeting(a, assigned) ==
    /\ meeting' = Flush(view[a], assigned)
    /\ view' = [view EXCEPT ![a] = assigned]

\* The same as the last use of the session: its locals are gone.
CommitAndClose(a, assigned) ==
    /\ meeting' = Flush(view[a], assigned)
    /\ view' = [view EXCEPT ![a] = NewMeeting]
    /\ work' = [work EXCEPT ![a] = NoWork]

CloseOrm(a) ==
    /\ view' = [view EXCEPT ![a] = NewMeeting]
    /\ work' = [work EXCEPT ![a] = NoWork]

\* Mutant of NewestRecording: the query without desc().
OldestRecording == IF recordings = <<>> THEN NoActor ELSE recordings[1]

\* The newest recording of the meeting.
NewestRecording ==
    IF recordings = <<>> THEN NoActor ELSE recordings[Len(recordings)]

SourceOf(r) == IF r \in Lives THEN "live_batch" ELSE "upload"

\* Mutant of SessionsToClose: the query without the status filter.
NewestSessions ==
    IF Lives = {} THEN {NoActor}
    ELSE {l \in Lives : \A k \in Lives : SessionRank[k] <= SessionRank[l]}

\* The live session that a finished run closes: the newest one of the meeting
\* that is finalizing, if any.
SessionsToClose ==
    LET open == {l \in Lives : session[l] = "finalizing"}
    IN  IF open = {} THEN {NoActor}
        ELSE {l \in open : \A k \in open : SessionRank[k] <= SessionRank[l]}

CloseSession(l, status) ==
    session' = IF l \in Lives THEN [session EXCEPT ![l] = status] ELSE session

Goto(a, label) == pc' = [pc EXCEPT ![a] = label]

\* Recording a is not older than recording b.
NotOlder(a, b) ==
    \E i, j \in DOMAIN recordings : recordings[i] = a /\ recordings[j] = b /\ j <= i

=============================================================================
