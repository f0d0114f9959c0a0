# LoWi: verification of the meeting pipeline

LoWi records or receives the audio of a meeting, transcribes it, summarizes it
and posts the summary to Discord. This directory holds TLA+ models of the code
that does that, the TLC configurations that check them on small instances, and
TLAPS proofs of the results that matter for every instance.

## 1. Inventory

| Part | Code | State it keeps | Operations | What is hard | What makes it correct |
|---|---|---|---|---|---|
| Meeting record | `app/db/models.py`, `app/db/session.py` | rows `meetings`, `recordings`, `transcripts`, `summaries`, `live_sessions`, `pipeline_runs`; audio objects | create, commit | every writer keeps a `Meeting` object across slow calls and writes it back | the status is backed by rows; recordings have objects |
| Requests | `app/api/routes/meetings.py` | one ORM session per request | upload, summarize, send-discord | provider calls of many seconds between read and commit | an accepted upload is processed; the meeting reaches a final status |
| Live finalization | `app/services/live.py` | WAV file, stored object, session row | `finalize_live_session`, `_mark_failed` | object stored before the commit, deleted on errors | no committed recording loses its object; the session row keeps its lifecycle |
| Job queue | `app/services/jobs.py`, `app/workers/tasks.py` | Redis (ARQ) or threads (inline) | enqueue, run, redeliver, abort | duplicates dropped silently, redelivery, worker death | every accepted job ends; at most `max_tries` runs |
| Pipeline worker | `app/services/pipeline.py` | run row, ORM session | `run_pipeline` | several commits and four provider calls; a run finds its work by queries | fresh recording, covering summary, delivered success |
| Live capture | `app/api/routes/live.py`, `app/services/realtime.py` | PCM file, parts, segments, session row | websocket handler and receiver task | two tasks, two sockets, stop, disconnect, provider errors, crashes | audio received is finalized; the session row is resolved |
| Live tickets | `app/services/live.py` | none (signed string) | create, verify | expiry | a ticket opens one meeting for one user |
| Live client | `frontend/live.py` | `running`, `stopping`, `finished`, socket | begin, stop, finish, onclose, cleanup | callbacks in any order | each recording finishes once |
| Action items | `app/services/summarizer.py` | `action_items` by `stable_key` | `store_summary`, chunking | two reconciliations at once | one item per key; completed items stay completed |
| Accounts, sessions | `app/services/{users,sessions,auth}.py`, `app/api/routes/auth.py` | `users`, `sessions` | register, login, verify, logout, resolve | concurrent first logins, expiry while resolving | a row is linked only to owners of its email; a revoked token never resolves |
| Migrations | `app/db/migrate.py` | `schema_migrations` | `run_migrations` | two starters, crash inside a run, baseline of a legacy schema | each migration applied once, in order |
| Calendar | `app/services/calendar.py` | token file, state file | connect, callback, events | one state file for all browsers | a callback is accepted for the connect it answers |
| Settings | `app/config.py` | - | `validate_settings` | byte arithmetic at the limit | a session that may be recorded may be stored |
| Storage, Discord, LLM, transcription, PDF, wiring, UI, scripts | the remaining files | objects; none | put, delete, materialize; calls | a call may fail after it took effect | - |

How they interact: the browser opens the websocket (live capture), which calls
`finalize_live_session` when it ends. That function and `upload_audio` store an
object, commit a recording, bump `meetings.pipeline_version` and enqueue a job
whose id contains the version. A worker runs `run_pipeline` for a job; it finds
the recording, the transcript and the live session by queries on the meeting.
`summarize_meeting` and `post_discord` work on the same rows without the queue.
Nothing locks a row: all interaction is through commits.

## 2. Modules

The first five build on each other: each extends the one above it. `LiveCapture` and
`LiveClient` are the two ends of one websocket and meet in `LiveSocket`.
`LiveLimits`, `ActionItems`, `TranscriptChunks`, `Accounts` and `Migrations` stand alone.

| Module | Models | State and actions |
|---|---|---|
| `MeetingState` | the rows and objects of one meeting, the ORM session's writes | all shared VARIABLES; the queries (`NewestRecording`, `SessionsToClose`) and commits (`CommitMeeting`, `CloseSession`) the other modules use |
| `JobQueue` | both `JobQueue` implementations | `jobs`; `Accept`, `Take`, `Acknowledge`, `Requeue`, `Exhaust`, `LoseInline` |
| `PipelineWorker` | `run_pipeline` | one action per commit or provider call, in the order of the code: `StartRun`, `SaveTranscript`, `ReadTranscript`, `SelectSession`, `CommitSummary`, `Deliver`, `MarkSent`, `FinishRun`, `Finish`, and the `except` branch `RunFails`, `CommitFailure` |
| `MeetingRequests` | `upload_audio`, `finalize_live_session`, `summarize_meeting`, `post_discord` | one action per await or commit, and one per error answer |
| `MeetingPipeline` | all of them together | `Crash`, `Redeliver`, `ExpireUnderSlowWorker`, `Abort`; the properties |
| `LiveSessionLifecycle` | what a `live_sessions` row promises, whoever writes it (abstract) | `Store`, `Discard`, `Resolve` |
| `LiveCapture` | `live_websocket` with its receiver task and the thread that stores a segment; the browser and the realtime provider around them | `handler` is where the coroutine is; one action per stretch between two awaits, per thread, per thing the browser or the provider may do |
| `LiveSocket` | what the server's end of a live websocket promises (abstract) | `Talks`, `Ends`: what it may say, when it may close |
| `LiveClient` | the browser component of `frontend/live.py`, with the browser and the server around it | `state` is `root.__lowiLive`; one action per handler, and one per stretch of `begin` between two awaits: `Begin`, `Granted`, `SocketThrows`, `Resumed`, `Raises`, `ClickStop`, `TrackEnds`, `SendAudio`, `Opens`, `HearStopped`, `OnClose`, `Leave`; what a call of `begin` creates has its number |
| `LiveLimits` | `live_max_minutes` against `max_upload_mb`, as `validate_settings` compares them and as `_upload_wav` does | no step: the values a process may start with |
| `ActionItems` | `store_summary` and the commit of its callers | `items`; `Read`, `Commit`, `RollBack`, and `Complete` for whoever sets an item done |
| `TranscriptChunks` | `_split_chunks` | `ChunksFrom`, a recursive function on the positions of a text of three kinds of characters |
| `Accounts` | the routes that sign in and out, `get_current_user`, `upsert_auth_user`, `resolve_session`, `revoke_session`, and the identity provider around them | `users`, `sessions`; `at` is where a request is; one action per provider call, query or commit: `Register`, `Login`, `ConfirmCode`, `LoginConfirmed`, `ShowJwt`, `FindById`, `FindByEmail`, `Upsert`, `CreateSession`, `Present`, `Touch`, `Revoke`; `ChangeEmail` and `Expire` for the provider and the clock |
| `Migrations` | `run_migrations` in several processes that start at once, on PostgreSQL or SQLite | `stored` is the database, `draft` what the open transaction has made of it, `lock` the advisory or the write lock; `Begin`, `Read`, `Inspect`, `Baseline`, `Skip`, `Execute`, `Record`, `Raises`, `Commit`, `Crash` |
| `MCMeetingPipeline`, `MCAccounts`, `MCMigrations` | TLC instances | sets of one or two actors; the symmetry of `Accounts`; migrations in the form of the first three files |
| `MCLiveCapture`, `MCSummaries` | TLC instances | a live session together with its limits; the rows of the action items together with the chunks |
| `MeetingPipelineProofs`, `PipelineRunsProofs`, `SessionLifecycleProofs`, `LiveCaptureProofs`, `SummariesProofs`, `AccountsProofs`, `MigrationsProofs`, `LiveClientProofs` | theorems | section 5 |

Definitions named "Mutant of X" are plausible wrong versions of the definition
X below them. No specification uses them; replacing X by one of them must make
the property it is listed with fail.

### How the code is read

* A step is one commit, one provider call, or one read whose result is used
  after another actor may have run. What happens between two such points in one
  process is one step. Where the code reads and writes back, the read and the
  commit are two steps (`ReloadMeeting` and `CommitLive`, `SelectSession` and
  `CommitSummary`, `RunFails` and `CommitFailure`).
* `SessionLocal` has `expire_on_commit=False`, so an actor keeps the `Meeting`
  object it loaded: `view`. A commit writes the columns whose value differs from
  the one loaded (`Written`, `Flush`), as SQLAlchemy's unit of work does; a stale
  object therefore overwrites some columns and not others.
* `error` is one column; `error_code` and `error_message` are always assigned
  together and are one field, `code`.
* `runs[i].job`, `runs[i].recording`, `summaries[i].transcript` and
  `summaries[i].run` are history: the rows do not store them, the properties
  need them, no guard reads them.
* A failed provider call is one step that may happen at any call. Discord may
  raise after it posted. Redis may raise after it accepted a job.
* ARQ is outside the repository. The model takes from it what the code relies
  on: a known job id is not enqueued again (the key or the result of 24 hours is
  kept; its expiry is not modelled), a job that is not acknowledged is delivered
  again when its in-progress key expires, at most `max_tries` times. The code
  passes `_max_tries` to `enqueue_job`; the model assumes the call is accepted as
  it is meant. That is doubtful: the lock file has arq 0.28.0, and if that version
  passes a keyword it does not know on to the coroutine, `pipeline(ctx, meeting_id, force)`
  raises `TypeError` on every delivery before `run_pipeline` is called. Then
  no job of an ARQ deployment does anything, and what is said here of runs with ARQ
  does not apply to it; only the inline queue is unaffected.
* `run_pipeline` is synchronous inside a coroutine: while it runs, the worker's
  loop renews nothing, so the key may expire under a worker that is alive
  (`ExpireUnderSlowWorker`).
* `summarize_meeting` clears `error` and sets "summarized" whatever the status was, so it
  may replace the "failed" of a job by it, and a stale one the status of a newer upload
  (`CommitResummary`). `MeetingSettles` says that the meeting ends in a final
  status, not that the status is the last job's outcome.
* With the inline queue a crash takes the API process with all its requests,
  threads and jobs.

Not in the pipeline modules: failures of the database other than the crash of its
client; two commits that conflict inside the database; the deletion of meetings
(no code deletes one); the second branch of `ReloadMeeting` is translated but no
run reaches it, since only the finalizer of a session and runs on committed
audio change its status.

In `LiveCapture`:

* Handler and receiver share one event loop, so what a task does between two
  awaits is one step; the thread of `asyncio.to_thread` is not cancelled with the
  task that waits for it (`StoreSegment`, `StoreFails` go on after
  `CancelReceiver`).
* Audio is counted in chunks. A text is the number of the utterance it is of and 0
  is a blank text: the properties are about order, gaps and repetitions. The
  provider sends an utterance as partials, as a committed text and, perhaps, as a
  copy with timestamps, which is what `_receive_from_elevenlabs` is written for.
* A ticket is good or bad, and pings and `session_started` change nothing: they
  are left out.
* `accept()` and the first message are outside every `try`. When the browser has
  left they may raise, which leaves the row "recording" with no handler. The
  model keeps this as the place "died"; `EndedIsResolved` is about handlers that
  returned.
* `audio_bytes` counts the chunk that is refused, so `heard` may be one more than
  `pcm` when the reason is "too_large".
* What the reading of the browser may raise is in the model as far as the code that is
  called can raise it: a send to a provider that is gone (`ReceiveChunk`). The branch
  for `WebSocketDisconnect` and `RuntimeError` (`app/api/routes/live.py:155`) is left out: sends to
  the browser are suppressed, and `receive` raises them only after it has returned a
  disconnect, when it is not called again. So are an `OSError` of the write to the PCM
  file and a message that is JSON but no object, which end as a lost provider
  does, with reason "error".
* `finalize_live_session` is three steps here (commit, enqueue, raise); the pipeline
  modules have its details. Its branches for a row that is missing or not
  "recording" need somebody else who deletes or closes it, and a crash of the process is in the pipeline modules only.

In `LiveClient` and `LiveSocket`:

* JavaScript runs a handler to its end or to its next await, so that is one step.
  `begin` awaits the permission and the audio context; every other handler may run
  in between. A promise that is never resolved is allowed: nothing forces `Granted`.
* The server is not `LiveCapture` itself but what `LiveSocket` promises: "connecting"
  first, "finalizing" before "stopped", nothing after "stopped" but the close,
  nothing after the close. `LiveCapture` keeps that promise (`SocketContract`, checked
  and proved), so what holds of the component holds with that server.
* A message is not delivered to a socket that is no longer open, and `onclose` comes
  exactly once; both are the browser's.
* `onclose` does not ask whose socket it is of. In the model, as in the code, the
  close of an earlier recording can end a later one, which is then reported as failed.
* `SocketThrows`: `new WebSocket` (`frontend/live.py:262`) raises when the address is wrong, or is
  `ws://` on a page that came by HTTPS. The stream was granted by then (246, 252) and is
  assigned three lines later (265), so `stopCapture` in the `catch` (335) does not
  know it: the microphone or the shared tab stays on, with no recording and no button that stops
  it. This is a defect of the code; `MicrophoneReleased` excepts such a stream (`Lost`)
  and says that there is no other.
* `Undisturbed`: if a recording is finished while a call of `begin` is suspended, the
  call goes on afterwards with an audio context nobody closes, and a second call may be
  started beside it. The properties of microphone and audio are about the
  behaviours without that; TLC finds them violated without the condition.
* Left out: the text on the page, and `downsample` and `toPcm16`, which compute on samples.

In `Migrations`:

* A statement is what it adds, the table it needs, and whether it fails when what it adds
  is there (`ALTER TABLE ADD COLUMN`) or does nothing (`IF NOT EXISTS`).
* PostgreSQL: one transaction for everything, under an advisory lock that ends with
  it. SQLite: the lock is not taken (`_lock`), and the driver opens the transaction at
  the first INSERT, so the statements of the first pending migration are committed one
  by one; after the INSERT the runner has the write lock, and another one that wants to
  write waits, for five seconds at most.
* `_ensure_table` is part of `Read`. A file's checksum is whether it is in `edited`.
* `torn` is history: the versions a SQLite runner was amid when it ended. Of these the
  model, as the code, promises nothing: the next start runs the statements again, and
  `ALTER TABLE` fails, or takes half of the first migration for a legacy schema. TLC
  shows both when the exception is removed. PostgreSQL never gets there
  (`PostgresIsNeverTorn`).

In `ActionItems`:

* An item is its stable key; the key's text, the due date and the source are left
  out. Ids are never used twice, as a sequence of the database gives them.
* A call reads, then its caller commits. SQLAlchemy raises `StaleDataError` for an
  update that matches no row (`Commit` requires the updated rows to be there) and
  not for such a deletion.
* `listed` and `orderly` are history; no guard reads them.
* No route sets an item done: `Complete` is what `tests/test_api.py:190` does.
* A summary that repeats an item inserts a row for each entry, because the loop
  does not look at what it has inserted itself. The next call finds one of the rows, so the
  other is never removed: `docs/features.md:51` ("missing items are removed") holds
  of summaries without repetitions, which is what `OrderlyCallsAreExact` says.

In `Accounts`:

* A request is one call of a route. It starts with a sign-in, a token of the
  provider (`ShowJwt`) or a session token (`Present`); a request that was served
  may be a logout, so `Revoke` may follow. The token a sign-in was given is the
  request itself: tokens are random and not repeated.
* `upsert_auth_user` is two queries and a commit, each a step (`FindById`,
  `FindByEmail`, `Upsert`). `Stored` is what the ORM writes: the columns that differ
  from those of the row as it was read, whatever the row is now. The unique
  constraints of `users` are `Fits`; a commit that breaks one ends the request.
* `resolve_session` reads, and `Touch` writes `last_seen_at`; an update of a row that
  a logout has deleted raises. Reading an expired session and deleting it are one
  step, since nothing changes an expired session but its deletion.
* Time: a session may expire at any moment (`Expire`), and one that was seen may or
  may not have been seen five minutes ago.
* The provider gives each email to one account, and accounts may change theirs at
  any moment (`ChangeEmail`). The claims of a token are those of the account when it was
  issued (`issued`): `ShowJwt` may present any of them, so an email that has
  changed hands, or was verified, is still presented by who had it. A sign-in that was
  told an email goes on with it as well.
* So two identities may present one verified email, and both find the legacy row free:
  the decision of `upsert_auth_user` is an earlier query, and its update has no
  condition on the link. The second commit then takes the row over, also when the first
  owner has a session by now, which from then on is a session of a row that is another
  identity's. This is a defect of the code. It needs a token that is older
  than the change of the email, or a change during a sign-in; it happens in the
  instance that is checked. The properties say how far it goes: both
  identities had a verified claim to the row (`SessionsMatchIdentity`, `ClaimsAreVerified`), and
  a sign-in that reads the row after the first commit does not take it (`LinksAreKept`).
* `ShowJwt` does not ask for a verified email even if `require_email_verification`
  is set, as `get_current_user` does not. Unlinked rows are protected by
  `upsert_auth_user` itself.
* Users are never deleted, so the branch of `resolve_session` for a missing user
  is left out. `owner` of a session is history.

## 3. Runs

| Run | Instance | Shows |
|---|---|---|
| `PipelineRace` | upload + live session, 2 ARQ workers, 2 tries | committed recordings keep their objects; runs are fresh; the session rows implement `LiveSessionLifecycle` |
| `PipelineRedelivery` | 1 upload, 2 workers, 2 tries, 2 faults; or 1 upload + summarize + send-discord without faults (`EitherInit`); fair | one summary per try at most, although two workers may run one job at once; a run recorded as succeeded did store and deliver its own summary; the status is backed by rows; the meeting reaches a final status and stays in final statuses, unless a run that died was left open |
| `PipelineOneWorker` | 2 live sessions with 1 fault, or an upload + a live session without (`PairInit`); 1 worker, 2 tries, fair | a summary covers the audio of its job (with two workers this is false, so it is claimed for one); every accepted job completes; the session of an accepted job is resolved, or a newer one without a job has taken its run |
| `PipelineInline` | upload + live session, inline, 1 fault | an answered upload was processed, even across a crash |
| `LiveCapture` | 1 session, 2 chunks, 2 utterances, 2 waiting events, fair; settings within, over and exactly at the limit | transcript, rows and browser agree; the transcript is frozen when it is stored; no returned handler leaves the session recording; "stopped" is true; the socket keeps its contract; the limit of the file; a full session can be stored, unless its samples fill the limit to the last byte; the handler returns |
| `LiveClient` | 2 calls of `begin`, fair | the microphone is on only for the recording that runs and can be stopped, or was lost with a socket that could not be made; a socket carries the audio of its recording; each recording is reported once, and a success is the server's word; who clicks Stop can start again |
| `Summaries` | 2 keys, 3 calls, summaries of up to 2 entries; all texts of up to 9 characters with a limit of 4 | listed items exist; done items stay; orderly calls leave exactly the last summary; the chunks have all of the text, in order, within the limit |
| `Accounts` | 3 requests, 2 identities, 1 legacy row, 2 emails, up to symmetry | a session is of the row that is linked to who signed in, or of one that both had a claim to; a linked row is linked anew only by who read it free; a legacy row goes to identities whose verified email it had; a session that was logged out stays out |
| `Migrations` | 3 processes, 3 migrations of 4, 2 and 1 statements, 2 deaths; new, migrated to any version, changed, or legacy database; both dialects; fair | the recorded versions describe the schema; who is up found all versions applied and unchanged; all come up |

Three runs check a sentence of the repository and find it false of the code:

| Run | Sentence | What happens |
|---|---|---|
| `RunIsNotIdempotent` | `docs/features.md:73` "Pipeline runs are idempotent per meeting version" | a worker dies after the summary is committed; the second delivery stores and posts another one |
| `UploadJobIsDropped` | `docs/features.md:71` "Upload enqueues a durable pipeline job" | an upload and a live finalizer bump the same version; ARQ drops the second job id; the upload is answered and never processed |
| `DroppedProviderLosesAudio` | `frontend/app.py:294` "The live connection ended with an error. Any audio that reached the server was saved." (also `docs/features.md:105`) | the provider's connection is lost, the next chunk raises in the handler, and the PCM file is removed |

Bounds. One meeting is enough: no code of the pipeline relates two meetings.
One upload and one live session already collide in version, in the newest
recording, in the newest transcript and in the finalizing session; two workers
run two jobs, or one job twice, at once. Two live sessions of one meeting are what
a run that completes the newest finalizing one can confuse. `MaxTries` is 2, or 3 as in the code: 2
is the smallest with a redelivery. `MaxFaults` bounds crashes and keys that
expire under a live worker; one fault can hit every step, and
`PipelineRedelivery` has two. Every actor is one request and ends, so deadlock
is not checked: the system stops when all requests are answered.
`LiveCapture` has one session per websocket and nothing shared between sessions;
two chunks reach a limit that is not hit by the first, two utterances give an
order and a gap, and an event that waits behind another one is a backlog. Its
proofs drop these bounds. In `ActionItems` two keys tell "this item" from
"another one", and three calls are one that inserts and two that overlap over what
it inserted. In `Accounts` a row is contended by two identities, and three requests are
two sign-ins that race and one that uses, touches or revokes what came of it; two emails are
the legacy row's and another one to change to. The settings of `LiveLimits` are one pair
that half of the bytes would let pass, one that fits, and the smallest that is exactly full. In
`LiveClient` two calls are a recording and the next, which is what a late event of the
first can hit. In `Summaries` a limit of 4 has a first and a second half of two
positions each, and 9 characters are two full chunks and one more. In `Migrations` three
processes are one that writes, one that has read and one that starts; a migration of
several statements, one that adds to an earlier table and one that follows are the
forms the files have. The proofs drop these bounds too.

Fairness (`FairSpec`). Each live process keeps taking steps: the API's loop and
threads, a worker, and Redis handing out what is not acknowledged. Provider
clients have timeouts, so a call returns or raises. Which of the two is not
fair: nothing forces a success. Crashes are not forced and are fewer than the
tries in `PipelineOneWorker`; with as many crashes as tries ARQ gives the job up
(`Abort`). In `LiveCapture` the handler and the receiver run when they can, since
they share the loop with nothing that blocks it; the thread ends, since a database
call returns or raises; a browser that is there notices that its socket was
closed. The provider is not fair and neither are the user's stop and departure:
`CaptureEnds` holds although the provider may never answer, because the wait for
the receiver has a timeout. In `LiveClient` the browser delivers what has arrived,
and the server ends a session that was asked to stop, which is `CaptureEnds`; neither
the user nor the permission nor the connection is fair. In `Migrations` a process that
is down is started again (the platform restarts what does not come up) and one that
runs goes on; deaths are bounded and not forced.

## 4. What the properties are for

`PROJECT.json` lists the hazards of the code with the properties that would
catch them. The recurring one is that nothing ties a run to the request that
caused it: a job carries the meeting id only, and the run selects recording,
transcript and live session by "newest" queries. `RunUsesFreshRecording`,
`SummaryCoversJob`, `AnsweredUploadIsProcessed` and `SessionsKeepLifecycle` say
what these queries guarantee and where they do not. That a live session is completed
only after its own audio was diarized (`docs/features.md:99`) is not among them: a run of
an upload may close the session that finalizes meanwhile (`SessionsToClose`).

## 5. Proofs

All theorems hold for every value of the constants under the named assumptions.

The pipeline, under `ActorsAssumption`, `QueueAssumption`, `DiscordAssumption` and
`FaultsAssumption`: any sets of requests, sessions and workers, both backends, any
number of tries and faults.

* `TypeCorrect`: `TypeOK` is inductive by itself.
* `RecordingsAreStored`: `RecordingHasObject` is not inductive, since
  `FinalizeFails` deletes an object. `AudioReady` adds that an actor about to
  commit has its object and that one that may still delete has not committed.
* `RunsAreFresh`: `RunUsesFreshRecording` needs `JobsFollowCommits`: a job is
  enqueued after its recording is committed, so the newest recording at
  `StartRun` is not older.
* `StatusIsBacked`: `StatusEvidence` and `AnnouncedIsStored` need
  `PostersHaveSummary`: who is about to post has a committed summary, who is
  about to write "sent" has posted. The rows only grow, so stale writes cannot
  take the evidence away.
* `SessionsImplementLifecycle`: the refinement. `SessionsFollowCommits` ties the
  status of a session to its committed recording, and what a run has selected to
  close to a committed session.

What the runs leave behind (`PipelineRunsProofs`), under the same assumptions:

* `SucceededRunsDeliver`: nothing in the code ties a summary to a run but the
  locals of the worker, and two workers may run one job at once. `RunInv` says that
  a worker amid a run has an open row of its own (`HasRun`, `RunsApart`), that before
  its commit no summary is of that run (`Unsummarized`), that after it one is, and after
  the post a delivery (`Summarized`), and that no two summaries are of one run
  (`SummariesApart`).
* `TriesAreCounted`: a job has as many runs as tries (`CountInv`). The step that matters is the
  enqueue, which resets the tries to 0: a requester that has still to enqueue
  has no job yet. The queue gives out at most `MaxTries`.
* `SummariesAreBounded` combines the two: the run of a summary is an injection from
  the summaries of a job to its runs, so there are no more of them than tries.
* `UnfailedRunsOnce`: as long as `faults = 0`, a running job has the worker that took it
  (`OnceInv`), so it is never redelivered, is tried once, and has one summary
  (`OneSummaryPerVersion`). So the sentence that `RunIsNotIdempotent` refutes holds up to
  the first death or expired key; nothing the requests do can bring a second summary about.
* `AnsweredUploadsAreProcessed`: `AnsweredUploadIsProcessed`, or the upload's job was
  dropped, which happens with ARQ only and only if another request's job was
  accepted (`DropInv`). So the way that `UploadJobIsDropped` loses an upload is
  the only one. It needs that an accepted job is never forgotten, that one with a
  try had a run (`CountInv`), and that this run read a fresh recording
  (`RunsAreFresh`).
* `SummariesCoverJobs`, for one worker (`SoleWorker`): the newest transcript, when the run
  reads it, covers the recording of its job, because the run has just
  saved one and what live finalizers commit beside it is of a newer recording
  (`CoverInv`). With two workers it is false, which is why the condition is there.

One live session, under `CaptureAssumption` (the bounds are naturals):

* `SessionsResolved`, `StoppedIsTrue` and `AudioLimited` need `Phases`: audio is
  counted as it is written while the handler captures, and "stopped" is said in its
  last step. `TranscriptFrozen` needs its other half: the receiver is gone before
  finalizing starts.
* `LogsAlwaysAgree` needs more, `CaptureInvariant`. That the transcript has no gaps
  depends on what the provider has sent and nobody has received: `EventsFollow`
  says that the waiting events continue the transcript, in order, each partial
  before its utterance. `LogsCount` says how far behind the transcript the rows and
  the browser are at each place of the receiver, and `FirstPartial` covers the
  transcript that is made of the last partial. Two lemmas carry the argument:
  `HeadIsNext` (what is received next is the next utterance), and, for the queue,
  `TakingFollows` and `SendingFollows`.
* `CaptureImplementsLifecycle` is a refinement: with `RowStatus` and `RowStored` for the row and
  its audio, every step of the capture is a move of `LiveSessionLifecycle` or none.
  `RowFollowsAudio` says that the row is recording until its audio is committed. The
  pipeline modules start from such a row and keep the same lifecycle.
* `SocketKept` is a refinement: every step of the handler and the receiver maps to a
  move of `LiveSocket` or to none. It needs to know what has been said at each place
  of the handler (`Contract`), and that the receiver, which may close the socket, is
  gone before "stopped".
* `FullSessionsFit`, under `LimitsAssumption` (the settings are naturals, as
  `validate_settings` takes them): below the limit a full session leaves at least 1024 bytes, which
  is more than a header. Exactly at the limit it does not fit: 1024 minutes are 1875
  megabytes to the byte, `validate_settings` accepts them, and `_upload_wav` refuses the
  file with its header after the meeting. This is a defect of the code;
  `SeldomExactlyFull` says that it takes a multiple of 1024 minutes.

Action items (`SummariesProofs`), under `ItemsAssumption`: any keys, calls and summaries.

* `ListedItemsAreThere`: a commit that updates a row needs it to be there
  (`CommitLists`), so the summary committed last has a row for each of its items.
* `DoneItemsStay` needs `FoundRows`: a row that a call has found is still of the key
  it was found for, so it deletes no row that is listed.
* `OrderlyIsExact` needs `OrderlyReads`: without overlap what a call has found is
  what is there when it commits.

Chunks (`SummariesProofs`), under `ChunksAssumption` (the limit is positive):

* `LongTextsAreKept`: `ChunksKeepText` holds of every finite text (`TextOK`, which
  `TextsAreSequences` proves of the texts of `ChunksInit`). The positions of the chunks
  from a position on depend on those from a later one, so the argument is an induction on
  what is left of the text. The library's induction theorems take an operator and
  cannot be used; the induction is over sets of numbers instead (`LeastNat`,
  `Induction`), once for the existence of the recursive function (`SolutionExists`,
  `ChunksFromIs`) and once for what it returns (`ChunksFromKeep`). It ends
  because a cut is always behind where it started.

Accounts, under `AccountsAssumption`: any requests, identities, emails and legacy rows, with or
without required verification.

* `LogoutIsFinal` needs `Presented`: a token that is presented was answered to a
  request that has signed in for good, so nobody creates its session again.
* `LinksAreStable`, `LegacyRowsAreClaimedByOwners` and
  `SessionsAreOfTheirIdentity` share one invariant, `Linked`. `Rows` says that an
  unlinked row is still as it was before the provider, and that the link of a legacy row was
  claimed. `Found` says what a stale object still tells: a row that was the
  identity's is held by it (`Holds`: it is linked to it, or was claimed by it), and one that
  was free is claimed by it, whoever has it now. `SessionsHeld` says that the owner of a
  session holds its row. What the provider has stated stays stated (`IssuedGrows`), so a claim
  survives the commit of another request, and with it what is held (`HoldsStays`,
  `UpsertLinked`). Nothing is assumed of tokens or of changes of an email.

Migrations, under `MigrationsAssumption`: any runners and files, as long as no two
migrations add the same object and the first one is made of `IF NOT EXISTS`.

* `RowsDescribe` and `StartsAreMigrated` share the invariant `Inv`. `Transaction` and
  `OneAtATime` are about the lock; `Progressed` says that what a runner has read or done is
  still so in what it sees, since the database only grows under it; `DraftDescribed`
  excepts, in an open transaction, the version its runner is amid. Each action is
  shown to keep a list of facts (`Kept`), from which the invariant follows for the runner
  and, by `OthersProgress`, for all others.

The browser component, under `ClientAssumption`: any number of recordings, and any words of a
server that keeps `LiveSocket` (which `SocketKept` proves of `LiveCapture`).

* `ClientTyped` rests on `Reporting`, which needs no condition: a recording that is not
  finished is not reported yet, and a new call of `begin` is of none that was.
* `ClientReports` (for what it says of successes), `ClientReleases` and `ClientAudio` rest on `Own`, which holds as long as
  no recording was finished amid a call of `begin` (`Undisturbed`; reports are never taken back,
  so what holds after a step held before it). `Calls` says that at most one call is
  suspended and that the buttons tell where; `Recording` that socket, stream and context
  are of the last recording or gone; `Devices` that nothing works which the page does not refer to, but for lost streams.
  The last is what `finish`, which closes only what is referred to, needs to leave nothing on.

Only model-checked: the liveness properties `AcceptedJobCompletes`,
`AcceptedSessionResolves`, `MeetingSettles`, `CaptureEnds`, `StopIsAnswered` and
`MigrationCompletes`, since liveness under fairness and ENABLED are out of the
prover's reach. Every safety invariant and action property that a passing run checks is
stated by a theorem: `SummaryCoversJob` for one worker, as in its run,
`AnsweredUploadIsProcessed` up to the dropped job, and those of the browser component up to
`Undisturbed` and lost streams.

## 6. Not modelled

* Google Calendar: a token file and a state file, each written whole by one request. A second
  connect makes the first callback fail; the user connects again.
* Preparation briefs, the reads of the API, PDF rendering, the Streamlit page, the
  scripts: no state of their own beyond a single commit.
* The provider clients: a call returns or raises. Storage: an object is there or not; spooling
  and the S3 protocol are not modelled.
* Tickets: a signed string that is checked once.
* An upload whose process dies between the commit and the enqueue
  (`app/api/routes/meetings.py:183`) is in the pipeline modules, but nothing in the
  code recovers it, so there is no property to state.

## 7. Plan

1. (done) the pipeline, the live capture and its client, the action items, the accounts, the
   migrations, chunking and the limits.
2. (done) proofs of every safety property that the runs check, and of `LiveSessionLifecycle`
   for both ends of a session: its capture and its pipeline.
3. An abstract durable queue that `JobQueue` with the inline backend implements, and
   with ARQ as long as the job ids are distinct: `AnsweredUploadsAreProcessed` says
   what is lost otherwise, but does not compare the ids, since a request forgets its own
   when it is answered.
4. An invariant of two workers that says which summary a job may get when another
   worker's transcript comes between.
