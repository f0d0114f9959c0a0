------------------------------ MODULE JobQueue ------------------------------
(***************************************************************************)
(* The two implementations of the JobQueue protocol.  ARQ (outside src/)   *)
(* is modelled by what the code relies on: a job id that is known is not   *)
(* enqueued again, an unacknowledged job is redelivered when its           *)
(* in-progress key expires, at most MaxTries times.  The inline queue runs *)
(* every job once, in a thread of the API process.                         *)
(***************************************************************************)
EXTENDS MeetingState

CONSTANTS
    Backend,    \* "arq" or "inline"
    MaxTries    \* max_tries of the worker

ASSUME QueueAssumption == Backend \in {"arq", "inline"} /\ MaxTries \in Nat \ {0}

VARIABLE jobs   \* the job each requester enqueued: [state, version, tries]

JobState == {"none", "queued", "running", "done", "dead", "lost"}
Job == [state: JobState, version: Nat, tries: Nat]
NoJob == [state |-> "none", version |-> 0, tries |-> 0]

\* ARQ knows a job id while the job or its result is kept.
Known(version) == \E q \in Requesters : jobs[q].state # "none" /\ jobs[q].version = version

\* r's call of enqueue with the job id of that version.  ARQ drops a known id
\* and says so only in a return value the code ignores.
Accept(r, version) ==
    jobs' = IF Backend = "arq" /\ Known(version) THEN jobs
            ELSE [jobs EXCEPT ![r] = [state |-> "queued", version |-> version, tries |-> 0]]

\* Mutants of Take: a redelivery is not counted; the last try is not given.
TakeUncounted(r) ==
    /\ jobs[r].state = "queued" /\ jobs[r].tries < MaxTries
    /\ jobs' = [jobs EXCEPT ![r].state = "running"]

TakeOneTryShort(r) ==
    /\ jobs[r].state = "queued" /\ jobs[r].tries + 1 < MaxTries
    /\ jobs' = [jobs EXCEPT ![r].state = "running", ![r].tries = @ + 1]

\* A worker picks the job up.
Take(r) ==
    /\ jobs[r].state = "queued" /\ jobs[r].tries < MaxTries
    /\ jobs' = [jobs EXCEPT ![r].state = "running", ![r].tries = @ + 1]

\* The worker function returned: the job is removed whatever it did.
Acknowledge(r) == jobs' = [jobs EXCEPT ![r].state = "done"]

\* The in-progress key of the job expired without an acknowledgement.
Requeue(r) ==
    /\ Backend = "arq" /\ jobs[r].state = "running"
    /\ jobs' = [jobs EXCEPT ![r].state = "queued"]

\* A job that was delivered max_tries times is aborted instead of run.
Exhaust(r) ==
    /\ jobs[r].state = "queued" /\ jobs[r].tries = MaxTries
    /\ jobs' = [jobs EXCEPT ![r].state = "dead"]

\* The jobs of the inline queue live in the process that enqueued them.
LoseInline ==
    jobs' = [r \in Requesters |->
               IF jobs[r].state \in {"queued", "running"} THEN [jobs[r] EXCEPT !.state = "lost"]
               ELSE jobs[r]]
=============================================================================
