-------------------------- MODULE PipelineRunsProofs --------------------------
(***************************************************************************)
(* What the runs of MeetingPipeline leave behind: the summaries of a job,  *)
(* the delivery of a run that succeeded, and the recording it covers.      *)
(***************************************************************************)
EXTENDS MeetingPipelineProofs, FiniteSetTheorems

RunLabels == {"transcribing", "reading", "summarizing", "closing", "delivering", "marking",
              "finishing"}

\* A worker amid a run has its row, which nobody has closed.
HasRun(w) ==
    pc[w] \in RunLabels =>
        /\ work[w].run \in DOMAIN runs
        /\ runs[work[w].run].job = work[w].job
        /\ runs[work[w].run].recording = work[w].recording
        /\ runs[work[w].run].status = "running"
        /\ work[w].outcome = "failed" => pc[w] \in {"closing", "finishing"}

\* Before its summary is committed, and from then to the end of a run that
\* succeeds.
Before(w) == \/ pc[w] \in {"transcribing", "reading", "summarizing"}
             \/ pc[w] = "closing" /\ work[w].outcome = "succeeded"

After(w) == \/ pc[w] \in {"delivering", "marking"}
            \/ pc[w] = "finishing" /\ work[w].outcome = "succeeded"

Unsummarized(w) == Before(w) => \A s \in DOMAIN summaries : summaries[s].run # work[w].run

Delivered(s) == \E d \in DOMAIN deliveries : deliveries[d] = s

Summarized(w) ==
    After(w) =>
        /\ work[w].summary \in DOMAIN summaries
        /\ summaries[work[w].summary].run = work[w].run
        /\ DiscordOn /\ pc[w] # "delivering" => Delivered(work[w].summary)

RunsApart ==
    \A v, w \in Workers :
        pc[v] \in RunLabels /\ pc[w] \in RunLabels /\ work[v].run = work[w].run => v = w

SummariesApart ==
    /\ \A s \in DOMAIN summaries : summaries[s].run \in DOMAIN runs \cup {0}
    /\ \A s, t \in DOMAIN summaries :
           summaries[s].run = summaries[t].run /\ summaries[s].run # 0 => s = t

RunInv ==
    /\ \A w \in Workers : HasRun(w) /\ Unsummarized(w) /\ Summarized(w)
    /\ RunsApart /\ SummariesApart /\ SucceededRunDelivered
----------------------------------------------------------------------------
(***************************************************************************)
(* Rows are only added.                                                    *)
(***************************************************************************)
Grows(s, t) == DOMAIN s \subseteq DOMAIN t /\ \A i \in DOMAIN s : t[i] = s[i]

\* At most one summary is added, of run k.
AddsSummary(k) ==
    /\ Grows(summaries, summaries')
    /\ \A s, t \in DOMAIN summaries' \ DOMAIN summaries :
           s = t /\ summaries'[s].run = k

\* The rows of the runs stay, and only that of run k gets another status.
KeepsRuns(k) ==
    /\ DOMAIN runs \subseteq DOMAIN runs'
    /\ \A i \in DOMAIN runs :
           /\ runs'[i].job = runs[i].job /\ runs'[i].recording = runs[i].recording
           /\ i # k => runs'[i].status = runs[i].status

LEMMA AppendAdds ==
    ASSUME NEW S, NEW s \in Seq(S), NEW x, NEW t, t = Append(s, x)
    PROVE  /\ Grows(s, t)
           /\ \A i \in DOMAIN t \ DOMAIN s : (i = Len(s) + 1 /\ t[i] = x)
           /\ Len(s) + 1 \in DOMAIN t /\ Len(s) + 1 \notin DOMAIN s /\ t[Len(s) + 1] = x
BY AppendGrows DEF Grows

LEMMA SummaryAdded ==
    ASSUME TypeOK, NEW x, summaries' = Append(summaries, x)
    PROVE  AddsSummary(x.run)
<1>1. summaries \in Seq(SummaryRow)
  BY DEF TypeOK
<1>2. Grows(summaries, summaries')
  BY <1>1, AppendAdds
<1>3. \A s \in DOMAIN summaries' \ DOMAIN summaries :
          s = Len(summaries) + 1 /\ summaries'[s] = x
  BY <1>1, AppendAdds
<1> QED
  BY <1>2, <1>3 DEF AddsSummary

LEMMA DeliveriesGrow ==
    ASSUME TypeOK, NEW i, deliveries' = deliveries \/ deliveries' = Append(deliveries, i)
    PROVE  Grows(deliveries, deliveries')
BY AppendAdds DEF TypeOK, Grows

LEMMA DeliveriesStay ==
    ASSUME Grows(deliveries, deliveries'), NEW s, Delivered(s)
    PROVE  \E d \in DOMAIN deliveries' : deliveries'[d] = s
BY DEF Grows, Delivered

\* Whoever is not concerned keeps what it knows of its run.
LEMMA WorkerKept ==
    ASSUME NEW w \in Workers, HasRun(w), Unsummarized(w), Summarized(w),
           pc'[w] = pc[w], work'[w] = work[w],
           NEW k, AddsSummary(k), pc[w] \in RunLabels => work[w].run # k,
           NEW i, KeepsRuns(i), pc[w] \in RunLabels => work[w].run # i,
           Grows(deliveries, deliveries')
    PROVE  HasRun(w)' /\ Unsummarized(w)' /\ Summarized(w)'
<1>1. HasRun(w)'
  BY DEF HasRun, KeepsRuns
<1>2. Unsummarized(w)'
  BY DEF Unsummarized, Before, RunLabels, AddsSummary, Grows
<1>3. Summarized(w)'
  BY DeliveriesStay DEF Summarized, After, AddsSummary, Grows, Delivered
<1> QED
  BY <1>1, <1>2, <1>3

\* The rows of the summaries and of the runs that succeeded.
LEMMA RowsKept ==
    ASSUME SummariesApart, SucceededRunDelivered,
           NEW k, AddsSummary(k),
           \/ k = 0
           \/ k \in DOMAIN runs /\ \A s \in DOMAIN summaries : summaries[s].run # k,
           NEW i, KeepsRuns(i), Grows(deliveries, deliveries'),
           \A j \in DOMAIN runs' : runs'[j].status = "succeeded" =>
               \/ j \in DOMAIN runs /\ runs[j].status = "succeeded"
               \/ \E s \in DOMAIN summaries :
                     /\ summaries[s].run = j
                     /\ DiscordOn => Delivered(s)
    PROVE  SummariesApart' /\ SucceededRunDelivered'
<1>1. SummariesApart'
  BY DEF SummariesApart, AddsSummary, KeepsRuns, Grows
<1>2. SucceededRunDelivered'
  <2> SUFFICES ASSUME NEW j \in DOMAIN runs', runs'[j].status = "succeeded"
               PROVE  \E s \in DOMAIN summaries' :
                          /\ summaries'[s].run = j
                          /\ DiscordOn => \E d \in DOMAIN deliveries' : deliveries'[d] = s
    BY DEF SucceededRunDelivered
  <2>1. PICK s \in DOMAIN summaries : summaries[s].run = j /\ (DiscordOn => Delivered(s))
    BY DEF SucceededRunDelivered, Delivered
  <2>2. s \in DOMAIN summaries' /\ summaries'[s].run = j
    BY <2>1 DEF AddsSummary, Grows
  <2>3. DiscordOn => \E d \in DOMAIN deliveries' : deliveries'[d] = s
    BY <2>1, DeliveriesStay
  <2> QED
    BY <2>2, <2>3
<1> QED
  BY <1>1, <1>2

\* A step that no worker takes: it adds no summary of a run, and closes no run.
LEMMA OthersKeepRuns ==
    ASSUME TypeOK, RunInv, runs' = runs, AddsSummary(0), Grows(deliveries, deliveries'),
           \A w \in Workers : \/ pc'[w] = pc[w] /\ work'[w] = work[w]
                              \/ pc'[w] = "idle"
    PROVE  RunInv'
<1>1. KeepsRuns(0) /\ 0 \notin DOMAIN runs
  BY DEF KeepsRuns, TypeOK
<1>2. ASSUME NEW w \in Workers PROVE HasRun(w)' /\ Unsummarized(w)' /\ Summarized(w)'
  <2>1. CASE pc'[w] = pc[w] /\ work'[w] = work[w]
    <3>1. pc[w] \in RunLabels => work[w].run # 0
      BY <1>1 DEF RunInv, HasRun
    <3> QED
      BY <1>1, <2>1, <3>1, WorkerKept DEF RunInv
  <2>2. CASE pc'[w] = "idle"
    BY <2>2 DEF HasRun, Unsummarized, Summarized, Before, After, RunLabels
  <2> QED
    BY <2>1, <2>2
<1>3. RunsApart'
  BY DEF RunInv, RunsApart, RunLabels
<1>4. SummariesApart' /\ SucceededRunDelivered'
  <2>1. SummariesApart /\ SucceededRunDelivered
    BY DEF RunInv
  <2>2. \A j \in DOMAIN runs' : runs'[j].status = "succeeded" =>
            j \in DOMAIN runs /\ runs[j].status = "succeeded"
    OBVIOUS
  <2> QED
    BY <1>1, <2>1, <2>2, RowsKept
<1> QED
  BY <1>2, <1>3, <1>4 DEF RunInv
----------------------------------------------------------------------------
(***************************************************************************)
(* The steps of a worker.                                                  *)
(***************************************************************************)

\* A worker's step keeps RunInv if what it adds is of its own run.
LEMMA WorkerKeepsRuns ==
    ASSUME TypeOK, RunInv, NEW w \in Workers, WorkerStep(w),
           NEW k, AddsSummary(k), k = 0 \/ (k = work[w].run /\ Before(w)),
           NEW i, KeepsRuns(i), i = 0 \/ (i = work[w].run /\ pc[w] \in RunLabels),
           Grows(deliveries, deliveries'),
           \A j \in DOMAIN runs' : runs'[j].status = "succeeded" =>
               \/ j \in DOMAIN runs /\ runs[j].status = "succeeded"
               \/ j = work[w].run /\ After(w) /\ (DiscordOn => pc[w] # "delivering"),
           HasRun(w)', Unsummarized(w)', Summarized(w)',
           pc'[w] \in RunLabels => \/ work'[w].run \notin DOMAIN runs
                                   \/ pc[w] \in RunLabels /\ work'[w].run = work[w].run
    PROVE  RunInv'
<1>1. \A v \in Workers : v # w => pc'[v] = pc[v] /\ work'[v] = work[v]
  BY WorkerFrame DEF Actors
<1>2. Before(w) => pc[w] \in RunLabels
  BY DEF Before, RunLabels
<1>3. \A v \in Workers : pc[v] \in RunLabels => work[v].run \in DOMAIN runs /\ work[v].run # 0
  BY DEF RunInv, HasRun, TypeOK
<1>4. ASSUME NEW v \in Workers, v # w
      PROVE  HasRun(v)' /\ Unsummarized(v)' /\ Summarized(v)'
  <2>1. pc[v] \in RunLabels => work[v].run # k /\ work[v].run # i
    BY <1>2, <1>3, <1>4 DEF RunInv, RunsApart
  <2> QED
    BY <1>1, <1>4, <2>1, WorkerKept DEF RunInv
<1>5. RunsApart'
  BY <1>1, <1>3 DEF RunInv, RunsApart
<1>6. SummariesApart' /\ SucceededRunDelivered'
  <2>1. SummariesApart /\ SucceededRunDelivered /\ Unsummarized(w) /\ Summarized(w)
    BY DEF RunInv
  <2>2. \/ k = 0
        \/ k \in DOMAIN runs /\ \A s \in DOMAIN summaries : summaries[s].run # k
    BY <1>2, <1>3, <2>1 DEF Unsummarized
  <2>3. \A j \in DOMAIN runs' : runs'[j].status = "succeeded" =>
            \/ j \in DOMAIN runs /\ runs[j].status = "succeeded"
            \/ \E s \in DOMAIN summaries :
                  /\ summaries[s].run = j
                  /\ DiscordOn => Delivered(s)
    BY <2>1 DEF Summarized
  <2> QED
    BY <2>1, <2>2, <2>3, RowsKept
<1> QED
  BY <1>4, <1>5, <1>6 DEF RunInv

LEMMA NothingAdded ==
    ASSUME TypeOK
    PROVE  /\ runs' = runs => KeepsRuns(0)
           /\ summaries' = summaries => AddsSummary(0)
           /\ deliveries' = deliveries => Grows(deliveries, deliveries')
BY DEF KeepsRuns, AddsSummary, Grows

\* The steps that only move the worker, or put down what it has read or posted.
LEMMA MovesKeepRun ==
    ASSUME TypeOK, RunInv, NEW w \in Workers, WorkerStep(w),
           runs' = runs, summaries' = summaries, Grows(deliveries, deliveries'),
           pc[w] \in RunLabels, pc'[w] \in RunLabels,
           work'[w].run = work[w].run, work'[w].job = work[w].job,
           work'[w].recording = work[w].recording,
           work'[w].outcome = "failed" => pc'[w] \in {"closing", "finishing"},
           Before(w)' => Before(w),
           After(w)' => /\ After(w) /\ work'[w].summary = work[w].summary
                        /\ \/ pc[w] # "delivering"
                           \/ \E d \in DOMAIN deliveries' : deliveries'[d] = work[w].summary
    PROVE  RunInv'
<1>1. KeepsRuns(0) /\ AddsSummary(0)
  BY NothingAdded
<1>2. HasRun(w) /\ Unsummarized(w) /\ Summarized(w)
  BY DEF RunInv
<1>3. HasRun(w)'
  BY <1>2 DEF HasRun
<1>4. Unsummarized(w)'
  BY <1>2 DEF Unsummarized
<1>5. Summarized(w)'
  <2> SUFFICES ASSUME After(w)'
               PROVE  /\ work'[w].summary \in DOMAIN summaries'
                      /\ summaries'[work'[w].summary].run = work'[w].run
                      /\ DiscordOn /\ pc'[w] # "delivering" =>
                             \E d \in DOMAIN deliveries' : deliveries'[d] = work'[w].summary
    BY DEF Summarized, Delivered
  <2>1. After(w) /\ work'[w].summary = work[w].summary
    OBVIOUS
  <2>2. DiscordOn /\ pc'[w] # "delivering" =>
            \E d \in DOMAIN deliveries' : deliveries'[d] = work[w].summary
    BY <1>2, <2>1, DeliveriesStay DEF Summarized
  <2> QED
    BY <1>2, <2>1, <2>2 DEF Summarized
<1> QED
  BY <1>1, <1>3, <1>4, <1>5, WorkerKeepsRuns

\* The fields that the updates of a worker's locals leave alone.
LEMMA WorkUpdates ==
    ASSUME NEW k \in Work, NEW l, NEW n
    PROVE  /\ \A f \in {[k EXCEPT !.transcript = n], [k EXCEPT !.closes = l],
                        [k EXCEPT !.summary = n, !.closes = l]} :
                  f.run = k.run /\ f.job = k.job /\ f.recording = k.recording
                    /\ f.outcome = k.outcome
           /\ LET f == [k EXCEPT !.closes = l, !.outcome = "failed"] IN
                  f.run = k.run /\ f.job = k.job /\ f.recording = k.recording
                    /\ f.outcome = "failed" /\ f.transcript = k.transcript
           /\ [k EXCEPT !.summary = n, !.closes = l].summary = n
           /\ [k EXCEPT !.summary = n, !.closes = l].transcript = k.transcript
           /\ [k EXCEPT !.transcript = n].transcript = n
           /\ [k EXCEPT !.closes = l].transcript = k.transcript
           /\ [k EXCEPT !.closes = l].summary = k.summary
BY DEF Work

\* A run that begins has a row of its own.
LEMMA RunsStartStep ==
    ASSUME TypeOK, RunInv, NEW w \in Workers, WorkerStep(w), NEW r \in Requesters, StartRun(w, r)
    PROVE  RunInv'
<1> DEFINE found == NewestRecording
           row == [job |-> r, recording |-> found,
                   status |-> IF found = NoActor THEN "failed" ELSE "running"]
<1>1. runs' = Append(runs, row) /\ row.status \in {"failed", "running"}
      /\ row.job = r /\ row.recording = found
  BY DEF StartRun
<1>2. /\ work'[w] = [NoWork EXCEPT !.job = r, !.run = Len(runs) + 1, !.recording = found]
      /\ pc'[w] = IF found = NoActor THEN "acking" ELSE "transcribing"
  BY DEF StartRun, Goto, TypeOK, Actors
<1>3. row.status = "running" <=> found # NoActor
  BY DEF StartRun
<1> HIDE DEF row, found
<1>4. runs \in Seq(RunRow)
  BY DEF TypeOK
<1>5. /\ Grows(runs, runs') /\ Len(runs) + 1 \in DOMAIN runs' /\ Len(runs) + 1 \notin DOMAIN runs
      /\ runs'[Len(runs) + 1] = row
  BY <1>1, <1>4, AppendAdds
<1>6. \A i \in DOMAIN runs' \ DOMAIN runs : runs'[i] = row
  BY <1>1, <1>4, AppendAdds
<1>7. KeepsRuns(0)
  BY <1>5 DEF KeepsRuns, Grows
<1>8. AddsSummary(0) /\ Grows(deliveries, deliveries') /\ summaries' = summaries
  BY NothingAdded DEF StartRun
<1>9. /\ work'[w].job = r /\ work'[w].run = Len(runs) + 1 /\ work'[w].recording = found
      /\ work'[w].outcome = "succeeded"
  BY <1>2 DEF NoWork
<1>10. HasRun(w)'
  BY <1>1, <1>2, <1>3, <1>5, <1>9 DEF HasRun, RunLabels
<1>11. Unsummarized(w)'
  <2>1. Len(runs) + 1 # 0
    BY <1>4
  <2> QED
    BY <1>5, <1>8, <1>9, <2>1 DEF RunInv, SummariesApart, Unsummarized
<1>12. Summarized(w)'
  BY <1>2 DEF Summarized, After
<1>13. \A j \in DOMAIN runs' : runs'[j].status = "succeeded" =>
           j \in DOMAIN runs /\ runs[j].status = "succeeded"
  BY <1>1, <1>5, <1>6 DEF Grows
<1> QED
  BY <1>5, <1>7, <1>8, <1>9, <1>10, <1>11, <1>12, <1>13, WorkerKeepsRuns

\* The summary is the only one of its run.
LEMMA RunsSummaryStep ==
    ASSUME TypeOK, RunInv, NEW w \in Workers, WorkerStep(w), CommitSummary(w)
    PROVE  RunInv'
<1> DEFINE row == [transcript |-> work[w].transcript, run |-> work[w].run]
<1>1. /\ summaries' = Append(summaries, row) /\ row.run = work[w].run /\ runs' = runs
      /\ deliveries' = deliveries
      /\ pc[w] = "closing" /\ work[w].outcome = "succeeded"
  BY DEF CommitSummary
<1> HIDE DEF row
<1>2. work[w] \in Work /\ summaries \in Seq(SummaryRow)
  BY DEF TypeOK, Actors
<1>3. /\ work'[w] = [work[w] EXCEPT !.summary = Len(summaries) + 1, !.closes = NoActor]
      /\ pc'[w] = IF DiscordOn THEN "delivering" ELSE "finishing"
  BY DEF CommitSummary, Goto, TypeOK, Actors
<1>4. /\ work'[w].run = work[w].run /\ work'[w].job = work[w].job
      /\ work'[w].recording = work[w].recording /\ work'[w].outcome = work[w].outcome
      /\ work'[w].summary = Len(summaries) + 1
  BY <1>2, <1>3, WorkUpdates
<1>5. AddsSummary(work[w].run)
  BY <1>1, SummaryAdded
<1>6. KeepsRuns(0) /\ Grows(deliveries, deliveries')
  BY <1>1, NothingAdded
<1>7. HasRun(w) /\ pc[w] \in RunLabels /\ Before(w)
  BY <1>1 DEF RunInv, RunLabels, Before
<1>8. HasRun(w)'
  BY <1>1, <1>4, <1>7 DEF HasRun
<1>9. Unsummarized(w)'
  BY <1>3 DEF Unsummarized, Before
<1>10. Summarized(w)'
  <2>1. Len(summaries) + 1 \in DOMAIN summaries' /\ summaries'[Len(summaries) + 1] = row
    BY <1>1, <1>2, AppendAdds
  <2> QED
    BY <1>1, <1>3, <1>4, <2>1 DEF Summarized
<1>11. \A j \in DOMAIN runs' : runs'[j].status = "succeeded" =>
           j \in DOMAIN runs /\ runs[j].status = "succeeded"
  BY <1>1
<1> QED
  BY <1>4, <1>5, <1>6, <1>7, <1>8, <1>9, <1>10, <1>11, WorkerKeepsRuns

\* A run is closed as succeeded with its summary stored and delivered.
LEMMA RunsFinishStep ==
    ASSUME TypeOK, RunInv, NEW w \in Workers, WorkerStep(w), FinishRun(w)
    PROVE  RunInv'
<1>1. /\ pc[w] = "finishing" /\ pc'[w] = "acking" /\ summaries' = summaries
      /\ deliveries' = deliveries
      /\ runs' = [runs EXCEPT ![work[w].run].status = work[w].outcome]
  BY DEF FinishRun, Goto, TypeOK, Actors
<1>2. runs' = [j \in DOMAIN runs |-> IF j = work[w].run THEN [runs[j] EXCEPT !.status = work[w].outcome]
                                    ELSE runs[j]]
  BY <1>1, Zenon
<1>3. DOMAIN runs' = DOMAIN runs
      /\ \A j \in DOMAIN runs :
             runs'[j].job = runs[j].job /\ runs'[j].recording = runs[j].recording
  BY <1>1, RunsKeepJobs
<1>4. \A j \in DOMAIN runs : runs[j] \in RunRow
  BY ElementOfSeq DEF TypeOK
<1>5. \A j \in DOMAIN runs : runs'[j].status = IF j = work[w].run THEN work[w].outcome
                                               ELSE runs[j].status
  BY <1>2, <1>4 DEF RunRow
<1>6. KeepsRuns(work[w].run)
  BY <1>3, <1>5 DEF KeepsRuns
<1>7. AddsSummary(0) /\ Grows(deliveries, deliveries')
  BY <1>1, NothingAdded
<1>8. \A j \in DOMAIN runs' : runs'[j].status = "succeeded" =>
          \/ j \in DOMAIN runs /\ runs[j].status = "succeeded"
          \/ j = work[w].run /\ After(w) /\ (DiscordOn => pc[w] # "delivering")
  BY <1>1, <1>3, <1>5 DEF After
<1>9. HasRun(w)' /\ Unsummarized(w)' /\ Summarized(w)' /\ pc'[w] \notin RunLabels
  BY <1>1 DEF HasRun, Unsummarized, Summarized, Before, After, RunLabels
<1>10. pc[w] \in RunLabels
  BY <1>1 DEF RunLabels
<1> QED
  BY <1>6, <1>7, <1>8, <1>9, <1>10, WorkerKeepsRuns

LEMMA RunsWorkerStep ==
    ASSUME TypeOK, RunInv, NEW w \in Workers, WorkerStep(w)
    PROVE  RunInv'
<1>1. work[w] \in Work /\ w \in Actors /\ work \in [Actors -> Work]
      /\ pc \in [Actors -> WorkerLabels \cup RequestLabels]
  BY DEF TypeOK, Actors
<1>2. HasRun(w)
  BY DEF RunInv
<1>3. Grows(deliveries, deliveries) /\ (deliveries' = deliveries => Grows(deliveries, deliveries'))
  BY DEF Grows
<1>4. CASE SaveTranscript(w)
  <2>1. /\ pc[w] = "transcribing" /\ pc'[w] = "reading" /\ work' = work
        /\ UNCHANGED <<summaries, deliveries, runs>>
    BY <1>1, <1>4 DEF SaveTranscript, Goto
  <2> QED
    BY <1>2, <1>3, <2>1, MovesKeepRun DEF Before, After, RunLabels, HasRun
<1>5. CASE ReadTranscript(w)
  <2>1. /\ pc[w] = "reading" /\ pc'[w] = "summarizing"
        /\ work'[w] = [work[w] EXCEPT !.transcript = Len(transcripts)]
        /\ UNCHANGED <<summaries, deliveries, runs>>
    BY <1>1, <1>5 DEF ReadTranscript, Goto
  <2>2. /\ work'[w].run = work[w].run /\ work'[w].job = work[w].job
        /\ work'[w].recording = work[w].recording /\ work'[w].outcome = work[w].outcome
    BY <1>1, <2>1, WorkUpdates
  <2> QED
    BY <1>2, <1>3, <2>1, <2>2, MovesKeepRun DEF Before, After, RunLabels, HasRun
<1>6. CASE SelectSession(w)
  <2>1. /\ pc[w] = "summarizing" /\ pc'[w] = "closing"
        /\ \E l \in SessionsToClose : work'[w] = [work[w] EXCEPT !.closes = l]
        /\ UNCHANGED <<summaries, deliveries, runs>>
    BY <1>1, <1>6 DEF SelectSession, Goto
  <2>2. /\ work'[w].run = work[w].run /\ work'[w].job = work[w].job
        /\ work'[w].recording = work[w].recording /\ work'[w].outcome = work[w].outcome
    BY <1>1, <2>1, WorkUpdates
  <2> QED
    BY <1>2, <1>3, <2>1, <2>2, MovesKeepRun DEF Before, After, RunLabels, HasRun
<1>7. CASE Deliver(w)
  <2>1. /\ pc[w] = "delivering" /\ pc'[w] = "marking" /\ work' = work
        /\ deliveries' = Append(deliveries, work[w].summary)
        /\ UNCHANGED <<summaries, runs>>
    BY <1>1, <1>7 DEF Deliver, Goto
  <2>2. Grows(deliveries, deliveries')
    BY <2>1, DeliveriesGrow
  <2>3. \E d \in DOMAIN deliveries' : deliveries'[d] = work[w].summary
    <3>1. deliveries \in Seq(Nat)
      BY DEF TypeOK
    <3>2. /\ Len(deliveries) + 1 \in DOMAIN deliveries'
          /\ deliveries'[Len(deliveries) + 1] = work[w].summary
      BY <2>1, <3>1, AppendAdds
    <3> QED
      BY <3>2
  <2> QED
    BY <1>2, <2>1, <2>2, <2>3, MovesKeepRun DEF Before, After, RunLabels, HasRun
<1>8. CASE MarkSent(w)
  <2>1. /\ pc[w] = "marking" /\ pc'[w] = "finishing" /\ work' = work
        /\ UNCHANGED <<summaries, deliveries, runs>>
    BY <1>1, <1>8 DEF MarkSent, Goto
  <2> QED
    BY <1>2, <1>3, <2>1, MovesKeepRun DEF Before, After, RunLabels, HasRun
<1>9. CASE RunFails(w)
  <2>0. PICK l : work' = [work EXCEPT ![w].closes = l, ![w].outcome = "failed"]
    BY <1>9 DEF RunFails
  <2>a. work'[w] = [work[w] EXCEPT !.closes = l, !.outcome = "failed"]
    BY <1>1, <2>0
  <2>1. /\ pc[w] \in RunLabels /\ pc'[w] = "closing"
        /\ UNCHANGED <<summaries, runs>>
        /\ deliveries' = deliveries \/ deliveries' = Append(deliveries, work[w].summary)
    BY <1>1, <1>9 DEF RunFails, Goto, RunLabels
  <2>2. /\ work'[w].run = work[w].run /\ work'[w].job = work[w].job
        /\ work'[w].recording = work[w].recording /\ work'[w].outcome = "failed"
    BY <1>1, <2>a, WorkUpdates
  <2>3. Grows(deliveries, deliveries')
    BY <2>1, DeliveriesGrow
  <2> QED
    BY <2>1, <2>2, <2>3, MovesKeepRun DEF Before, After, RunLabels
<1>10. CASE CommitFailure(w)
  <2>1. /\ pc[w] = "closing" /\ work[w].outcome = "failed" /\ pc'[w] = "finishing"
        /\ work'[w] = [work[w] EXCEPT !.closes = NoActor]
        /\ UNCHANGED <<summaries, deliveries, runs>>
    BY <1>1, <1>10 DEF CommitFailure, Goto
  <2>2. /\ work'[w].run = work[w].run /\ work'[w].job = work[w].job
        /\ work'[w].recording = work[w].recording /\ work'[w].outcome = work[w].outcome
    BY <1>1, <2>1, WorkUpdates
  <2> QED
    BY <1>3, <2>1, <2>2, MovesKeepRun DEF Before, After, RunLabels
<1>11. CASE Finish(w)
  <2>1. pc'[w] = "idle" /\ UNCHANGED <<summaries, deliveries, runs>>
    BY <1>1, <1>11 DEF Finish, Goto
  <2>2. AddsSummary(0) /\ Grows(deliveries, deliveries')
    BY <2>1, NothingAdded
  <2>3. \A v \in Workers : \/ pc'[v] = pc[v] /\ work'[v] = work[v]
                           \/ pc'[v] = "idle"
    BY <2>1, WorkerFrame DEF Actors
  <2> QED
    BY <2>1, <2>2, <2>3, OthersKeepRuns
<1> QED
  BY <1>4, <1>5, <1>6, <1>7, <1>8, <1>9, <1>10, <1>11, RunsStartStep, RunsSummaryStep,
     RunsFinishStep DEF WorkerStep

\* A request's step: what it adds belongs to no run.
LEMMA RunsRequestStep ==
    ASSUME TypeOK, RunInv, NEW b \in Actors, RequestStep(b)
    PROVE  RunInv'
<1>1. \A w \in Workers : w # b /\ w \in Actors
  BY ActorsAssumption DEF RequestStep, Requesters, Actors
<1>2. \A w \in Workers : pc'[w] = pc[w] /\ work'[w] = work[w]
  BY <1>1, RequestFrame
<1>3. ASSUME runs' = runs, summaries' = summaries, deliveries' = deliveries PROVE RunInv'
  BY <1>2, <1>3, NothingAdded, OthersKeepRuns
<1>4. CASE b \in Uploads /\ UploadStep(b)
  <2>1. UNCHANGED <<runs, summaries, deliveries>>
    BY <1>4 DEF UploadStep, LoadMeeting, StoreUpload, RejectUpload, CommitUpload, Enqueue,
                InlineRunReturns, EnqueueFails, MarkQueueFailed, rows
  <2> QED
    BY <1>3, <2>1
<1>5. CASE b \in Lives /\ FinalizeStep(b)
  <2>1. UNCHANGED <<runs, summaries, deliveries>>
    BY <1>5 DEF FinalizeStep, BeginFinalize, NoAudio, StoreWav, ReloadMeeting, CommitLive,
                Enqueue, EnqueueFails, FinalizeFails, MarkSessionFailed, rows
  <2> QED
    BY <1>3, <2>1
<1>6. CASE b \in Summarizers \cup Posters /\ ManualStep(b)
  <2>1. CASE CommitResummary(b)
    <3> DEFINE row == [transcript |-> work[b].transcript, run |-> 0]
    <3>1. summaries' = Append(summaries, row) /\ row.run = 0 /\ runs' = runs
          /\ deliveries' = deliveries
      BY <2>1 DEF CommitResummary
    <3> HIDE DEF row
    <3>2. AddsSummary(0)
      BY <3>1, SummaryAdded
    <3> QED
      BY <1>2, <3>1, <3>2, NothingAdded, OthersKeepRuns
  <2>2. CASE PostSummary(b) \/ ProviderFails(b)
    <3>1. /\ runs' = runs /\ summaries' = summaries
          /\ deliveries' = deliveries \/ deliveries' = Append(deliveries, work[b].summary)
      BY <2>2 DEF PostSummary, ProviderFails
    <3>2. Grows(deliveries, deliveries')
      BY <3>1, DeliveriesGrow
    <3> QED
      BY <1>2, <3>1, <3>2, NothingAdded, OthersKeepRuns
  <2>3. CASE LoadMeeting(b) \/ BeginSummarize(b) \/ BeginPost(b) \/ MarkPosted(b)
    <3>1. UNCHANGED <<runs, summaries, deliveries>>
      BY <2>3 DEF LoadMeeting, BeginSummarize, BeginPost, MarkPosted, rows
    <3> QED
      BY <1>3, <3>1
  <2> QED
    BY <1>6, <2>1, <2>2, <2>3 DEF ManualStep
<1> QED
  BY <1>4, <1>5, <1>6 DEF RequestStep

\* A run that is recorded as succeeded has stored the only summary of that run
\* and delivered it, whoever else stored summaries or died meanwhile.
THEOREM SucceededRunsDeliver == Spec => [](RunInv /\ SucceededRunDelivered)
<1>1. Init => RunInv
  <2> SUFFICES ASSUME Init PROVE RunInv
    OBVIOUS
  <2>1. DOMAIN summaries = {} /\ DOMAIN runs = {}
    BY DEF Init
  <2>2. \A w \in Workers : pc[w] = "idle"
    BY DEF Init, Actors
  <2> QED
    BY <2>1, <2>2
    DEF RunInv, HasRun, Unsummarized, Summarized, Before, After, RunLabels, RunsApart,
        SummariesApart, SucceededRunDelivered
<1>2. TypeOK /\ RunInv /\ [Next]_vars => RunInv'
  <2> SUFFICES ASSUME TypeOK, RunInv, [Next]_vars PROVE RunInv'
    OBVIOUS
  <2>1. ASSUME UNCHANGED <<runs, summaries, deliveries>>,
               \A w \in Workers : \/ pc'[w] = pc[w] /\ work'[w] = work[w]
                                  \/ pc'[w] = "idle"
        PROVE  RunInv'
    BY <2>1, NothingAdded, OthersKeepRuns
  <2>2. CASE UNCHANGED vars
    BY <2>1, <2>2 DEF vars
  <2>3. ASSUME NEW r \in Requesters, QueueStep(r) \/ ExpireUnderSlowWorker(r) PROVE RunInv'
    BY <2>1, <2>3, QueueFrame DEF rows
  <2>4. ASSUME NEW a \in Actors, Crash(a) PROVE RunInv'
    <3>1. UNCHANGED <<runs, summaries, deliveries>>
      BY <2>4, CrashFrame DEF rows
    <3>2. \A w \in Workers : \/ pc'[w] = pc[w] /\ work'[w] = work[w]
                             \/ pc'[w] = "idle"
      BY <2>4 DEF TypeOK, Crash, Actors
    <3> QED
      BY <2>1, <3>1, <3>2
  <2> QED
    BY <2>2, <2>3, <2>4, RunsWorkerStep, RunsRequestStep DEF Next
<1>3. RunInv => SucceededRunDelivered
  BY DEF RunInv
<1> QED
  BY <1>1, <1>2, <1>3, TypeCorrect, PTL DEF Spec
----------------------------------------------------------------------------
(***************************************************************************)
(* The tries of a job.  Before a requester has enqueued its job, it has no *)
(* run; from then every run of the job is one of its tries.                *)
(***************************************************************************)
RunsOf(r) == {i \in DOMAIN runs : runs[i].job = r}

Early == {"start", "storing", "reloading", "committing", "enqueuing"}

TriesAreRuns(r) ==
    /\ Cardinality(RunsOf(r)) = jobs[r].tries /\ jobs[r].tries <= MaxTries
    /\ jobs[r].state = "none" => jobs[r].tries = 0
    /\ jobs[r].state \in {"running", "done", "dead"} => jobs[r].tries > 0
    /\ pc[r] \in Early => jobs[r].state = "none"
    /\ Backend = "inline" /\ r \in Uploads /\ pc[r] = "done" => jobs[r].tries > 0

CountInv ==
    /\ \A r \in Requesters : TriesAreRuns(r)
    /\ \A a \in Actors : \A r \in Requesters : work[a].job = r => jobs[r].tries > 0

LEMMA RunsAreFinite ==
    ASSUME TypeOK, NEW r
    PROVE  IsFiniteSet(RunsOf(r))
<1>1. IsFiniteSet(DOMAIN runs)
  <2>1. DOMAIN runs = 1..Len(runs) /\ Len(runs) \in Nat
    BY DEF TypeOK
  <2> QED
    BY <2>1, FS_Interval
<1> QED
  BY <1>1, FS_Subset DEF RunsOf

\* A step that starts no run keeps the count, if a job that is taken, done or
\* dead had a try.
LEMMA CountKept ==
    ASSUME TypeOK, CountInv, DOMAIN runs' = DOMAIN runs,
           \A i \in DOMAIN runs : runs'[i].job = runs[i].job,
           \A r \in Requesters :
               /\ jobs'[r].tries = jobs[r].tries
               /\ jobs'[r].state = "none" => jobs[r].state = "none"
               /\ jobs'[r].state \in {"running", "done", "dead"} => jobs[r].tries > 0
               /\ pc'[r] \in Early => pc[r] \in Early /\ jobs'[r].state = jobs[r].state
               /\ Backend = "inline" /\ r \in Uploads /\ pc'[r] = "done" => jobs[r].tries > 0,
           \A a \in Actors : work'[a].job \in {work[a].job, NoActor}
    PROVE  CountInv'
<1>1. ASSUME NEW r \in Requesters PROVE TriesAreRuns(r)'
  <2>1. RunsOf(r)' = RunsOf(r)
    BY DEF RunsOf
  <2> QED
    BY <2>1 DEF CountInv, TriesAreRuns
<1>2. NoActor \notin Requesters
  BY ActorsAssumption DEF Actors
<1> QED
  BY <1>1, <1>2 DEF CountInv

\* The same for a step of which the queue learns nothing.
LEMMA CountUnchanged ==
    ASSUME TypeOK, CountInv, DOMAIN runs' = DOMAIN runs, jobs' = jobs,
           \A i \in DOMAIN runs : runs'[i].job = runs[i].job,
           \A r \in Requesters :
               /\ pc'[r] \in Early => pc[r] \in Early
               /\ pc'[r] = "done" /\ r \in Uploads => pc[r] = "done" \/ jobs[r].state = "done",
           \A a \in Actors : work'[a].job \in {work[a].job, NoActor}
    PROVE  CountInv'
<1>1. \A r \in Requesters :
          /\ jobs[r].state \in {"running", "done", "dead"} => jobs[r].tries > 0
          /\ Backend = "inline" /\ r \in Uploads /\ pc[r] = "done" => jobs[r].tries > 0
  BY DEF CountInv, TriesAreRuns
<1> QED
  BY <1>1, CountKept

\* A run that starts is one more try.
LEMMA CountStartStep ==
    ASSUME TypeOK, CountInv, NEW w \in Workers, WorkerStep(w), NEW r \in Requesters, StartRun(w, r)
    PROVE  CountInv'
<1> DEFINE row == [job |-> r, recording |-> NewestRecording,
                   status |-> IF NewestRecording = NoActor THEN "failed" ELSE "running"]
<1>1. runs' = Append(runs, row) /\ row.job = r
  BY DEF StartRun
<1> HIDE DEF row
<1>2. jobs[r].state = "queued" /\ jobs[r].tries < MaxTries
      /\ jobs' = [jobs EXCEPT ![r].state = "running", ![r].tries = @ + 1]
  BY DEF StartRun, Take
<1>3. jobs \in [Requesters -> Job] /\ jobs[r] \in Job /\ runs \in Seq(RunRow)
  BY DEF TypeOK
<1>4. jobs'[r].state = "running" /\ jobs'[r].tries = jobs[r].tries + 1
      /\ \A q \in Requesters : q # r => jobs'[q] = jobs[q]
  BY <1>2, <1>3 DEF Job
<1>5. /\ \A q \in Requesters : pc'[q] = pc[q]
      /\ \A a \in Actors : a # w => work'[a] = work[a]
  BY WorkerFrame
<1>6. work'[w].job = r
  BY DEF TypeOK, StartRun, NoWork, Actors
<1>7. /\ Grows(runs, runs') /\ Len(runs) + 1 \in DOMAIN runs' /\ Len(runs) + 1 \notin DOMAIN runs
      /\ runs'[Len(runs) + 1] = row
  BY <1>1, <1>3, AppendAdds
<1>8. \A i \in DOMAIN runs' \ DOMAIN runs : i = Len(runs) + 1
  BY <1>1, <1>3, AppendAdds
<1>9. RunsOf(r)' = RunsOf(r) \cup {Len(runs) + 1} /\ Len(runs) + 1 \notin RunsOf(r)
  BY <1>1, <1>7, <1>8 DEF RunsOf, Grows
<1>10. \A q \in Requesters : q # r => RunsOf(q)' = RunsOf(q)
  BY <1>1, <1>7, <1>8 DEF RunsOf, Grows
<1>11. Cardinality(RunsOf(r)') = Cardinality(RunsOf(r)) + 1
  BY <1>9, RunsAreFinite, FS_AddElement
<1>12. pc[r] \notin Early
  BY <1>2 DEF CountInv, TriesAreRuns
<1>13. TriesAreRuns(r)'
  <2>1. jobs[r].tries \in Nat /\ MaxTries \in Nat
    BY <1>3, QueueAssumption DEF Job
  <2>2. Cardinality(RunsOf(r)) = jobs[r].tries
    BY DEF CountInv, TriesAreRuns
  <2>3. Cardinality(RunsOf(r)') = jobs'[r].tries
    BY <1>4, <1>11, <2>2
  <2>4. jobs'[r].tries <= MaxTries /\ jobs'[r].tries > 0
    BY <1>2, <1>4, <2>1
  <2> QED
    BY <1>4, <1>5, <1>12, <2>3, <2>4 DEF TriesAreRuns
<1>14. ASSUME NEW q \in Requesters, q # r PROVE TriesAreRuns(q)'
  BY <1>4, <1>5, <1>10, <1>14 DEF CountInv, TriesAreRuns
<1>15. \A a \in Actors : \A q \in Requesters : work'[a].job = q => jobs'[q].tries > 0
  <2>1. jobs'[r].tries > 0
    BY <1>3, <1>4 DEF Job
  <2> QED
    BY <1>4, <1>5, <1>6, <2>1 DEF CountInv
<1> QED
  BY <1>13, <1>14, <1>15 DEF CountInv

\* Between taking a job and acknowledging it a worker holds it, and the queue
\* learns nothing.
LEMMA WorkerKeepsJob ==
    ASSUME TypeOK, NEW w \in Workers, WorkerStep(w),
           ~Finish(w), \A r \in Requesters : ~StartRun(w, r)
    PROVE  /\ work'[w].job = work[w].job /\ jobs' = jobs /\ pc'[w] # "idle"
           /\ DOMAIN runs' = DOMAIN runs
           /\ \A j \in DOMAIN runs : runs'[j].job = runs[j].job
<1>1. work[w] \in Work /\ work \in [Actors -> Work] /\ w \in Actors
      /\ pc \in [Actors -> WorkerLabels \cup RequestLabels]
  BY DEF TypeOK, Actors
<1>2. CASE FinishRun(w)
  <2>1. /\ DOMAIN runs' = DOMAIN runs
        /\ \A j \in DOMAIN runs : runs'[j].job = runs[j].job
    BY <1>2, RunsKeepJobs DEF FinishRun
  <2>2. work'[w].job = work[w].job /\ jobs' = jobs /\ pc'[w] # "idle"
    BY <1>1, <1>2 DEF FinishRun, NoWork, Goto
  <2> QED
    BY <2>1, <2>2
<1>3. CASE SaveTranscript(w) \/ Deliver(w) \/ MarkSent(w)
  BY <1>1, <1>3 DEF SaveTranscript, Deliver, MarkSent, Goto
<1>4. CASE ReadTranscript(w)
  <2>1. work'[w] = [work[w] EXCEPT !.transcript = Len(transcripts)]
    BY <1>1, <1>4 DEF ReadTranscript
  <2> QED
    BY <1>1, <1>4, <2>1, WorkUpdates DEF ReadTranscript, Goto
<1>5. CASE SelectSession(w)
  <2>1. PICK l : work'[w] = [work[w] EXCEPT !.closes = l]
    BY <1>1, <1>5 DEF SelectSession
  <2> QED
    BY <1>1, <1>5, <2>1, WorkUpdates DEF SelectSession, Goto
<1>6. CASE CommitSummary(w)
  <2>1. work'[w] = [work[w] EXCEPT !.summary = Len(summaries) + 1, !.closes = NoActor]
    BY <1>1, <1>6 DEF CommitSummary
  <2> QED
    BY <1>1, <1>6, <2>1, WorkUpdates DEF CommitSummary, Goto
<1>7. CASE RunFails(w)
  <2>1. PICK l : work' = [work EXCEPT ![w].closes = l, ![w].outcome = "failed"]
    BY <1>7 DEF RunFails
  <2>2. work'[w] = [work[w] EXCEPT !.closes = l, !.outcome = "failed"]
    BY <1>1, <2>1
  <2> QED
    BY <1>1, <1>7, <2>2, WorkUpdates DEF RunFails, Goto
<1>8. CASE CommitFailure(w)
  <2>1. work'[w] = [work[w] EXCEPT !.closes = NoActor]
    BY <1>1, <1>8 DEF CommitFailure
  <2> QED
    BY <1>1, <1>8, <2>1, WorkUpdates DEF CommitFailure, Goto
<1> QED
  BY <1>2, <1>3, <1>4, <1>5, <1>6, <1>7, <1>8 DEF WorkerStep

\* An acknowledged job is done; the others stay.
LEMMA FinishIsDone ==
    ASSUME TypeOK, NEW w \in Workers, Finish(w)
    PROVE  /\ work'[w].job = NoActor /\ runs' = runs
           /\ \A q \in Requesters :
                  /\ jobs'[q].tries = jobs[q].tries
                  /\ jobs'[q].state = IF q = work[w].job THEN "done" ELSE jobs[q].state
<1>1. jobs' = [jobs EXCEPT ![work[w].job].state = "done"] /\ runs' = runs
      /\ work'[w].job = NoActor
  BY DEF TypeOK, Actors, Finish, Acknowledge, CloseOrm, NoWork
<1>2. jobs \in [Requesters -> Job] /\ \A q \in Requesters : jobs[q] \in Job
  BY DEF TypeOK
<1>3. \A q \in Requesters :
          jobs'[q] = IF q = work[w].job THEN [jobs[q] EXCEPT !.state = "done"] ELSE jobs[q]
  BY <1>1, <1>2
<1> QED
  BY <1>1, <1>2, <1>3 DEF Job

LEMMA CountWorkerStep ==
    ASSUME TypeOK, CountInv, NEW w \in Workers, WorkerStep(w)
    PROVE  CountInv'
<1>1. /\ \A r \in Requesters : pc'[r] = pc[r]
      /\ \A a \in Actors : a # w => work'[a] = work[a]
  BY WorkerFrame
<1>2. CASE Finish(w)
  <2>1. \A q \in Requesters :
            /\ q = work[w].job => jobs[q].tries > 0
            /\ jobs[q].state \in {"running", "done", "dead"} => jobs[q].tries > 0
            /\ jobs[q].state = "none" => jobs[q].tries = 0
            /\ Backend = "inline" /\ q \in Uploads /\ pc[q] = "done" => jobs[q].tries > 0
            /\ pc[q] \in Early => jobs[q].state = "none"
    BY DEF CountInv, TriesAreRuns, Actors
  <2>2. \A q \in Requesters : pc[q] \in Early => q # work[w].job
    BY <2>1
  <2> QED
    BY <1>1, <1>2, <2>1, <2>2, FinishIsDone, CountKept
<1>3. CASE ~Finish(w) /\ \A r \in Requesters : ~StartRun(w, r)
  BY <1>1, <1>3, WorkerKeepsJob, CountUnchanged
<1> QED
  BY <1>2, <1>3, CountStartStep

\* A job is enqueued before it has a run.
LEMMA CountRequestStep ==
    ASSUME TypeOK, CountInv, NEW b \in Actors, RequestStep(b)
    PROVE  CountInv'
<1>0. \A a \in Actors : a # b => pc'[a] = pc[a] /\ work'[a] = work[a]
  BY RequestFrame
<1>a. b \in Uploads \cup Lives => b \in Requesters
  BY DEF Requesters
<1>b. /\ work[b] \in Work /\ work \in [Actors -> Work] /\ jobs \in [Requesters -> Job]
      /\ pc \in [Actors -> WorkerLabels \cup RequestLabels]
      /\ \A r \in Requesters : r \in Actors
  BY DEF TypeOK, Actors
<1>1. ASSUME runs' = runs, jobs' = jobs, work'[b].job \in {work[b].job, NoActor},
             b \in Requesters =>
                 /\ pc'[b] \in Early => pc[b] \in Early
                 /\ pc'[b] = "done" /\ b \in Uploads => jobs[b].state = "done"
      PROVE  CountInv'
  <2>1. \A r \in Requesters :
            /\ pc'[r] \in Early => pc[r] \in Early
            /\ pc'[r] = "done" /\ r \in Uploads => pc[r] = "done" \/ jobs[r].state = "done"
    BY <1>0, <1>1, <1>b
  <2>2. \A a \in Actors : work'[a].job \in {work[a].job, NoActor}
    BY <1>0, <1>1
  <2> QED
    BY <1>1, <2>1, <2>2, CountUnchanged
<1>2. ASSUME b \in Requesters, Enqueue(b) \/ EnqueueFails(b) PROVE CountInv'
  <2>1. pc[b] = "enqueuing" /\ pc'[b] \in {"waiting", "done", "failing"} /\ runs' = runs
        /\ (pc'[b] = "done" => Backend # "inline" \/ b \notin Uploads)
    BY <1>2, <1>b DEF Enqueue, EnqueueFails, Goto, rows
  <2>2. work'[b].job \in {work[b].job, NoActor}
    BY <1>2, <1>b DEF Enqueue, EnqueueFails, CloseOrm, NoWork
  <2>3. jobs' = jobs \/ jobs' = [jobs EXCEPT ![b] = [state |-> "queued", version |-> view[b].version,
                                                     tries |-> 0]]
    BY <1>2 DEF Enqueue, EnqueueFails, Accept
  <2>4. jobs[b].state = "none" /\ jobs[b].tries = 0
    BY <1>2, <2>1 DEF CountInv, TriesAreRuns, Early
  <2>5. /\ \A q \in Requesters : q # b => jobs'[q] = jobs[q]
        /\ jobs'[b].tries = 0 /\ jobs'[b].state \in {"none", "queued"}
    BY <1>2, <1>b, <2>3, <2>4
  <2>6. \A r \in Requesters :
            /\ jobs'[r].tries = jobs[r].tries
            /\ jobs'[r].state = "none" => jobs[r].state = "none"
            /\ jobs'[r].state \in {"running", "done", "dead"} => jobs[r].tries > 0
            /\ pc'[r] \in Early => pc[r] \in Early /\ jobs'[r].state = jobs[r].state
            /\ Backend = "inline" /\ r \in Uploads /\ pc'[r] = "done" => jobs[r].tries > 0
    <3>1. \A r \in Requesters : r # b => pc'[r] = pc[r]
      BY <1>0, <1>b
    <3> QED
      BY <2>1, <2>4, <2>5, <3>1 DEF CountInv, TriesAreRuns, Early
  <2>7. \A a \in Actors : work'[a].job \in {work[a].job, NoActor}
    BY <1>0, <2>2
  <2> QED
    BY <2>1, <2>6, <2>7, CountKept
<1>3. CASE b \in Uploads /\ UploadStep(b)
  <2>1. CASE LoadMeeting(b) \/ StoreUpload(b) \/ CommitUpload(b)
    BY <1>1, <1>3, <1>b, <2>1
    DEF LoadMeeting, StoreUpload, CommitUpload, Goto, rows, Early
  <2>2. CASE RejectUpload(b) \/ MarkQueueFailed(b)
    BY <1>1, <1>3, <1>b, <2>2
    DEF RejectUpload, MarkQueueFailed, Goto, CloseOrm, CommitAndClose, NoWork, rows, Early
  <2>3. CASE InlineRunReturns(b)
    BY <1>1, <1>3, <1>b, <2>3 DEF InlineRunReturns, Goto, rows, Early
  <2> QED
    BY <1>2, <1>3, <1>a, <2>1, <2>2, <2>3 DEF UploadStep
<1>4. CASE b \in Lives /\ FinalizeStep(b)
  <2>0. b \notin Uploads
    BY <1>4, ActorsAssumption
  <2>1. CASE BeginFinalize(b) \/ NoAudio(b) \/ StoreWav(b) \/ ReloadMeeting(b) \/ FinalizeFails(b)
    BY <1>1, <1>4, <1>b, <2>0, <2>1
    DEF BeginFinalize, NoAudio, StoreWav, ReloadMeeting, FinalizeFails, Goto, rows, Early
  <2>2. CASE CommitLive(b)
    BY <1>1, <1>4, <1>b, <2>0, <2>2 DEF CommitLive, Goto, Early
  <2>3. CASE MarkSessionFailed(b)
    BY <1>1, <1>4, <1>b, <2>0, <2>3 DEF MarkSessionFailed, Goto, CloseOrm, NoWork, Early
  <2> QED
    BY <1>2, <1>4, <1>a, <2>1, <2>2, <2>3 DEF FinalizeStep
<1>5. CASE b \in Summarizers \cup Posters /\ ManualStep(b)
  <2>1. b \notin Requesters
    BY <1>5, ActorsAssumption
  <2>2. CASE BeginSummarize(b) \/ BeginPost(b)
    <3>1. \/ work'[b] = [work[b] EXCEPT !.transcript = Len(transcripts)]
          \/ work'[b] = [work[b] EXCEPT !.summary = Len(summaries)]
      BY <1>b, <2>2 DEF BeginSummarize, BeginPost
    <3>2. work'[b].job = work[b].job /\ runs' = runs /\ jobs' = jobs
      BY <1>b, <2>2, <3>1 DEF Work, BeginSummarize, BeginPost, rows
    <3> QED
      BY <1>1, <2>1, <3>2
  <2>3. CASE LoadMeeting(b) \/ PostSummary(b)
    BY <1>1, <2>1, <2>3 DEF LoadMeeting, PostSummary, rows
  <2>4. CASE CommitResummary(b) \/ MarkPosted(b) \/ ProviderFails(b)
    BY <1>1, <1>b, <2>1, <2>4
    DEF CommitResummary, MarkPosted, ProviderFails, CommitAndClose, CloseOrm, NoWork
  <2> QED
    BY <1>5, <2>2, <2>3, <2>4 DEF ManualStep
<1> QED
  BY <1>3, <1>4, <1>5 DEF RequestStep

\* The queue forgets no try.
LEMMA QueueKeepsTries ==
    ASSUME TypeOK, NEW r \in Requesters, Requeue(r) \/ Exhaust(r) \/ LoseInline
    PROVE  /\ \A q \in Requesters : jobs'[q].tries = jobs[q].tries
           /\ \A q \in Requesters : jobs'[q].state = "none" <=> jobs[q].state = "none"
           /\ \A q \in Requesters : jobs'[q].state \in {"running", "done"} =>
                                    jobs[q].state \in {"running", "done"}
           /\ \A q \in Requesters : jobs'[q].state = "dead" =>
                                    jobs[q].state = "dead" \/ jobs[q].tries = MaxTries
<1>1. jobs \in [Requesters -> Job] /\ \A q \in Requesters : jobs[q] \in Job
  BY DEF TypeOK
<1>2. CASE Requeue(r)
  <2>1. jobs[r].state = "running" /\ jobs' = [jobs EXCEPT ![r].state = "queued"]
    BY <1>2 DEF Requeue
  <2>2. \A q \in Requesters : jobs'[q].tries = jobs[q].tries
                              /\ jobs'[q].state = IF q = r THEN "queued" ELSE jobs[q].state
    BY <1>1, <2>1 DEF Job
  <2> QED
    BY <2>1, <2>2
<1>3. CASE Exhaust(r)
  <2>1. jobs[r].state = "queued" /\ jobs[r].tries = MaxTries
        /\ jobs' = [jobs EXCEPT ![r].state = "dead"]
    BY <1>3 DEF Exhaust
  <2>2. \A q \in Requesters : jobs'[q].tries = jobs[q].tries
                              /\ jobs'[q].state = IF q = r THEN "dead" ELSE jobs[q].state
    BY <1>1, <2>1 DEF Job
  <2> QED
    BY <2>1, <2>2
<1>4. CASE LoseInline
  <2>1. \A q \in Requesters : jobs'[q] = IF jobs[q].state \in {"queued", "running"}
                                         THEN [jobs[q] EXCEPT !.state = "lost"] ELSE jobs[q]
    BY <1>4 DEF LoseInline
  <2>2. \A q \in Requesters : jobs'[q].tries = jobs[q].tries
                              /\ jobs'[q].state \in {jobs[q].state, "lost"}
                              /\ (jobs'[q].state # jobs[q].state => jobs[q].state # "none")
    BY <1>1, <2>1 DEF Job
  <2> QED
    BY <2>2
<1> QED
  BY <1>2, <1>3, <1>4

LEMMA CountQueueStep ==
    ASSUME TypeOK, CountInv, NEW r \in Requesters, Requeue(r) \/ Exhaust(r) \/ LoseInline,
           runs' = runs,
           \A q \in Requesters : pc'[q] = pc[q] \/ pc'[q] \in {"idle", "crashed"},
           \A a \in Actors : work'[a].job \in {work[a].job, NoActor}
    PROVE  CountInv'
<1>1. \A q \in Requesters :
          /\ jobs[q].state \in {"running", "done", "dead"} => jobs[q].tries > 0
          /\ pc[q] \in Early => jobs[q].state = "none"
          /\ Backend = "inline" /\ q \in Uploads /\ pc[q] = "done" => jobs[q].tries > 0
  BY DEF CountInv, TriesAreRuns
<1>2. MaxTries > 0
  BY QueueAssumption
<1>3. \A q \in Requesters :
          /\ jobs'[q].tries = jobs[q].tries
          /\ jobs'[q].state = "none" => jobs[q].state = "none"
          /\ jobs'[q].state \in {"running", "done", "dead"} => jobs[q].tries > 0
  BY <1>1, <1>2, QueueKeepsTries
<1>4. \A q \in Requesters :
          /\ pc'[q] \in Early => pc[q] \in Early /\ jobs'[q].state = jobs[q].state
          /\ Backend = "inline" /\ q \in Uploads /\ pc'[q] = "done" => jobs[q].tries > 0
  BY <1>1, QueueKeepsTries DEF Early
<1> QED
  BY <1>3, <1>4, CountKept

\* Every run of a job is one of its tries, and there are at most MaxTries.
THEOREM TriesAreCounted == Spec => []CountInv
<1>1. Init => CountInv
  <2> SUFFICES ASSUME Init PROVE CountInv
    OBVIOUS
  <2>1. \A a \in Actors : work[a].job = NoActor
    BY DEF Init, NoWork
  <2>2. NoActor \notin Requesters
    BY ActorsAssumption DEF Actors
  <2>3. \A r \in Requesters : RunsOf(r) = {} /\ jobs[r].tries = 0 /\ jobs[r].state = "none"
    BY DEF Init, RunsOf, NoJob
  <2>4. \A r \in Requesters : pc[r] = "start"
    BY InitFrame
  <2>5. ASSUME NEW r \in Requesters PROVE TriesAreRuns(r)
    <3>1. Cardinality(RunsOf(r)) = 0
      BY <2>3, FS_EmptySet, Zenon
    <3>2. MaxTries \in Nat
      BY QueueAssumption
    <3> QED
      BY <2>3, <2>4, <3>1, <3>2 DEF TriesAreRuns
  <2> QED
    BY <2>1, <2>2, <2>5 DEF CountInv
<1>2. TypeOK /\ CountInv /\ [Next]_vars => CountInv'
  <2> SUFFICES ASSUME TypeOK, CountInv, [Next]_vars PROVE CountInv'
    OBVIOUS
  <2>1. CASE UNCHANGED vars
    BY <2>1 DEF vars, CountInv, TriesAreRuns, RunsOf
  <2>2. ASSUME NEW r \in Requesters, QueueStep(r) \/ ExpireUnderSlowWorker(r) PROVE CountInv'
    <3>1. runs' = runs /\ pc' = pc /\ work' = work
      BY <2>2, QueueFrame DEF rows
    <3>2. Requeue(r) \/ Exhaust(r)
      BY <2>2 DEF QueueStep, Redeliver, Abort, ExpireUnderSlowWorker
    <3> QED
      BY <3>1, <3>2, CountQueueStep
  <2>3. ASSUME NEW a \in Actors, Crash(a) PROVE CountInv'
    <3>1. runs' = runs
      BY <2>3, CrashFrame DEF rows
    <3>2. \A r \in Requesters : pc'[r] = pc[r] \/ pc'[r] \in {"idle", "crashed"}
      BY <2>3, CrashFrame DEF Actors
    <3>3. \A b \in Actors : work'[b] \in {work[b], NoWork}
      BY <2>3 DEF TypeOK, Crash
    <3>4. \A b \in Actors : work'[b].job \in {work[b].job, NoActor}
      BY <3>3 DEF NoWork
    <3>5. CASE jobs' = jobs
      BY <3>1, <3>2, <3>4, <3>5, CountUnchanged DEF Early
    <3>6. CASE LoseInline /\ Requesters # {}
      BY <3>1, <3>2, <3>4, <3>6, CountQueueStep
    <3>7. CASE Requesters = {}
      BY <3>4, <3>7 DEF CountInv
    <3> QED
      BY <2>3, <3>5, <3>6, <3>7 DEF Crash
  <2> QED
    BY <2>1, <2>2, <2>3, CountWorkerStep, CountRequestStep DEF Next
<1> QED
  BY <1>1, <1>2, TypeCorrect, PTL DEF Spec

\* The summaries of a job have runs of their own, and those are its tries.
LEMMA SummariesAreTries ==
    ASSUME TypeOK, RunInv, CountInv, NEW r \in Requesters
    PROVE  Cardinality(SummariesOf(r)) <= jobs[r].tries
<1> DEFINE f == [i \in SummariesOf(r) |-> summaries[i].run]
<1>1. \A i \in SummariesOf(r) : summaries[i].run \in RunsOf(r)
  BY DEF RunInv, SummariesApart, SummariesOf, RunsOf
<1>2. \A i, j \in SummariesOf(r) : summaries[i].run = summaries[j].run => i = j
  BY DEF RunInv, SummariesApart, SummariesOf
<1>3. f \in Injection(SummariesOf(r), RunsOf(r))
  BY <1>1, <1>2 DEF Injection, IsInjective
<1>4. IsFiniteSet(RunsOf(r))
  BY RunsAreFinite
<1> HIDE DEF f
<1>5. Cardinality(SummariesOf(r)) <= Cardinality(RunsOf(r))
  BY <1>3, <1>4, FS_Injection
<1> QED
  BY <1>5 DEF CountInv, TriesAreRuns

LEMMA SummariesAreFinite ==
    ASSUME TypeOK, NEW r
    PROVE  IsFiniteSet(SummariesOf(r))
<1>1. IsFiniteSet(DOMAIN summaries)
  <2>1. DOMAIN summaries = 1..Len(summaries) /\ Len(summaries) \in Nat
    BY DEF TypeOK
  <2> QED
    BY <2>1, FS_Interval
<1> QED
  BY <1>1, FS_Subset DEF SummariesOf

\* However often a job is redelivered, and under crashes and overlapping runs,
\* it leaves at most one summary per try.
THEOREM SummariesAreBounded == Spec => []SummariesBoundedByTries
<1>1. TypeOK /\ RunInv /\ CountInv => SummariesBoundedByTries
  <2> SUFFICES ASSUME TypeOK, RunInv, CountInv, NEW r \in Requesters
               PROVE  Cardinality(SummariesOf(r)) <= MaxTries
    BY DEF SummariesBoundedByTries
  <2>1. Cardinality(SummariesOf(r)) <= jobs[r].tries
    BY SummariesAreTries
  <2>2. jobs[r].tries <= MaxTries /\ jobs[r].tries \in Nat /\ MaxTries \in Nat
    BY QueueAssumption DEF CountInv, TriesAreRuns, TypeOK, Job
  <2>3. Cardinality(SummariesOf(r)) \in Nat
    BY SummariesAreFinite, FS_CardinalityType
  <2> QED
    BY <2>1, <2>2, <2>3
<1> QED
  BY <1>1, SucceededRunsDeliver, TriesAreCounted, TypeCorrect, PTL

----------------------------------------------------------------------------
(***************************************************************************)
(* Without a fault a job is tried once: as long as no process died and no  *)
(* key expired under a slow worker, a running job has its worker.          *)
(***************************************************************************)
TriedOnce(r) ==
    /\ jobs[r].tries <= 1
    /\ jobs[r].state = "queued" => jobs[r].tries = 0
    /\ jobs[r].state = "running" => \E w \in Workers : work[w].job = r

OnceInv ==
    /\ \A w \in Workers : pc[w] = "idle" => work[w].job = NoActor
    /\ faults = 0 => \A r \in Requesters : TriedOnce(r)

LEMMA OnceWorkerStep ==
    ASSUME TypeOK, OnceInv, NEW w \in Workers, WorkerStep(w), UNCHANGED faults
    PROVE  OnceInv'
<1>1. /\ \A v \in Workers : v # w => pc'[v] = pc[v] /\ work'[v] = work[v]
      /\ NoActor \notin Requesters
  BY WorkerFrame, ActorsAssumption DEF Actors
<1>2. CASE ~Finish(w) /\ \A r \in Requesters : ~StartRun(w, r)
  <2>1. work'[w].job = work[w].job /\ jobs' = jobs /\ pc'[w] # "idle"
    BY <1>2, WorkerKeepsJob
  <2>2. \A v \in Workers : work'[v].job = work[v].job /\ (pc'[v] = "idle" => pc[v] = "idle")
    BY <1>1, <2>1
  <2> QED
    BY <2>1, <2>2 DEF OnceInv, TriedOnce
<1>3. CASE Finish(w)
  <2>1. work'[w].job = NoActor
    BY <1>3, FinishIsDone
  <2>2. \A v \in Workers : pc'[v] = "idle" => work'[v].job = NoActor
    BY <1>1, <2>1 DEF OnceInv
  <2>3. ASSUME faults = 0, NEW q \in Requesters PROVE TriedOnce(q)'
    <3>1. TriedOnce(q)
      BY <2>3 DEF OnceInv
    <3>2. jobs'[q].tries = jobs[q].tries
          /\ jobs'[q].state = IF q = work[w].job THEN "done" ELSE jobs[q].state
      BY <1>3, FinishIsDone
    <3>3. jobs'[q].state = "running" => \E v \in Workers : work'[v].job = q
      BY <1>1, <3>1, <3>2 DEF TriedOnce
    <3> QED
      BY <3>1, <3>2, <3>3 DEF TriedOnce
  <2> QED
    BY <2>2, <2>3 DEF OnceInv
<1>4. ASSUME NEW r \in Requesters, StartRun(w, r) PROVE OnceInv'
  <2>1. /\ pc[w] = "idle" /\ jobs[r].state = "queued"
        /\ jobs' = [jobs EXCEPT ![r].state = "running", ![r].tries = @ + 1]
    BY <1>4 DEF StartRun, Take
  <2>2. jobs \in [Requesters -> Job] /\ jobs[r] \in Job
    BY DEF TypeOK
  <2>3. jobs'[r].state = "running" /\ jobs'[r].tries = jobs[r].tries + 1
        /\ \A q \in Requesters : q # r => jobs'[q] = jobs[q]
    BY <2>1, <2>2 DEF Job
  <2>4. work'[w].job = r /\ pc'[w] # "idle"
    BY <1>4 DEF TypeOK, StartRun, NoWork, Goto, Actors
  <2>5. work[w].job = NoActor
    BY <2>1 DEF OnceInv
  <2>6. \A v \in Workers : pc'[v] = "idle" => work'[v].job = NoActor
    BY <1>1, <2>4 DEF OnceInv
  <2>7. ASSUME faults = 0, NEW q \in Requesters PROVE TriedOnce(q)'
    <3>1. TriedOnce(q)
      BY <2>7 DEF OnceInv
    <3>2. CASE q = r
      BY <2>1, <2>2, <2>3, <2>4, <3>1, <3>2 DEF TriedOnce
    <3>3. CASE q # r
      <4>1. jobs'[q] = jobs[q]
        BY <2>3, <3>3
      <4>2. jobs'[q].state = "running" => \E v \in Workers : work'[v].job = q
        BY <1>1, <2>5, <3>1, <4>1 DEF TriedOnce
      <4> QED
        BY <3>1, <4>1, <4>2 DEF TriedOnce
    <3> QED
      BY <3>2, <3>3
  <2> QED
    BY <2>6, <2>7 DEF OnceInv
<1> QED
  BY <1>2, <1>3, <1>4

\* A request enqueues a job that was never tried, and touches no other.
LEMMA RequestKeepsJobs ==
    ASSUME TypeOK, CountInv, NEW b \in Actors, RequestStep(b)
    PROVE  \A q \in Requesters : \/ jobs'[q] = jobs[q]
                                 \/ jobs'[q].state = "queued" /\ jobs'[q].tries = 0
<1>1. CASE b \in Requesters /\ (Enqueue(b) \/ EnqueueFails(b))
  <2>1. jobs \in [Requesters -> Job]
    BY DEF TypeOK
  <2>2. jobs' = jobs \/ jobs' = [jobs EXCEPT ![b] = [state |-> "queued", version |-> view[b].version,
                                                     tries |-> 0]]
    BY <1>1 DEF Enqueue, EnqueueFails, Accept
  <2> QED
    BY <1>1, <2>1, <2>2
<1>2. CASE b \in Uploads /\ UploadStep(b)
  <2>1. b \in Requesters
    BY <1>2 DEF Requesters
  <2>2. Enqueue(b) \/ EnqueueFails(b) \/ jobs' = jobs
    BY <1>2 DEF UploadStep, LoadMeeting, StoreUpload, RejectUpload, CommitUpload,
                InlineRunReturns, MarkQueueFailed
  <2> QED
    BY <1>1, <2>1, <2>2
<1>3. CASE b \in Lives /\ FinalizeStep(b)
  <2>1. b \in Requesters
    BY <1>3 DEF Requesters
  <2>2. Enqueue(b) \/ EnqueueFails(b) \/ jobs' = jobs
    BY <1>3 DEF FinalizeStep, BeginFinalize, NoAudio, StoreWav, ReloadMeeting, CommitLive,
                FinalizeFails, MarkSessionFailed
  <2> QED
    BY <1>1, <2>1, <2>2
<1>4. CASE b \in Summarizers \cup Posters /\ ManualStep(b)
  BY <1>4 DEF ManualStep, LoadMeeting, BeginSummarize, CommitResummary, BeginPost, PostSummary,
              MarkPosted, ProviderFails
<1> QED
  BY <1>2, <1>3, <1>4 DEF RequestStep

LEMMA OnceRequestStep ==
    ASSUME TypeOK, CountInv, OnceInv, NEW b \in Actors, RequestStep(b), UNCHANGED faults
    PROVE  OnceInv'
<1>1. b \notin Workers
  BY ActorsAssumption DEF RequestStep, Requesters
<1>2. \A w \in Workers : pc'[w] = pc[w] /\ work'[w] = work[w]
  BY <1>1, RequestFrame DEF Actors
<1>3. ASSUME faults = 0, NEW q \in Requesters PROVE TriedOnce(q)'
  <2>1. TriedOnce(q)
    BY <1>3 DEF OnceInv
  <2>2. jobs'[q] = jobs[q] \/ (jobs'[q].state = "queued" /\ jobs'[q].tries = 0)
    BY RequestKeepsJobs
  <2> QED
    BY <1>2, <2>1, <2>2 DEF TriedOnce
<1> QED
  BY <1>2, <1>3 DEF OnceInv

LEMMA OnceQueueStep ==
    ASSUME TypeOK, OnceInv, NEW r \in Requesters,
           Redeliver(r) \/ Abort(r) \/ ExpireUnderSlowWorker(r)
    PROVE  OnceInv'
<1>1. pc' = pc /\ work' = work
  BY DEF Redeliver, Abort, ExpireUnderSlowWorker
<1>2. CASE ExpireUnderSlowWorker(r)
  <2>1. faults' # 0
    BY <1>2 DEF ExpireUnderSlowWorker, TypeOK
  <2> QED
    BY <1>1, <2>1 DEF OnceInv
<1>3. CASE Redeliver(r)
  <2>1. faults' = faults /\ jobs[r].state = "running" /\ ~\E w \in Workers : work[w].job = r
    BY <1>3 DEF Redeliver, Requeue, Holders
  <2>2. faults # 0
    BY <2>1 DEF OnceInv, TriedOnce
  <2> QED
    BY <1>1, <2>1, <2>2 DEF OnceInv
<1>4. CASE Abort(r)
  <2>1. faults' = faults /\ jobs' = [jobs EXCEPT ![r].state = "dead"]
    BY <1>4 DEF Abort, Exhaust
  <2>2. \A q \in Requesters : jobs[q] \in Job /\ jobs \in [Requesters -> Job]
    BY DEF TypeOK
  <2>3. \A q \in Requesters : jobs'[q].tries = jobs[q].tries
                              /\ jobs'[q].state \in {"dead", jobs[q].state}
    BY <2>1, <2>2 DEF Job
  <2> QED
    BY <1>1, <2>1, <2>3 DEF OnceInv, TriedOnce
<1> QED
  BY <1>2, <1>3, <1>4

LEMMA OnceCrash ==
    ASSUME TypeOK, OnceInv, NEW a \in Actors, Crash(a)
    PROVE  OnceInv'
<1>1. faults' # 0
  BY DEF Crash, TypeOK
<1>2. PICK victims : /\ work' = [b \in Actors |-> IF b \in victims THEN NoWork ELSE work[b]]
                     /\ pc' = [b \in Actors |-> IF b \notin victims THEN pc[b]
                                                ELSE IF b \in Workers THEN "idle" ELSE "crashed"]
  BY DEF Crash
<1>3. \A w \in Workers : pc'[w] = "idle" => work'[w].job = NoActor
  BY <1>2 DEF OnceInv, NoWork, Actors
<1> QED
  BY <1>1, <1>3 DEF OnceInv

\* As long as no process died and no key expired under a slow worker, a job
\* stores at most one summary, whatever requests run beside it: the promise
\* "Pipeline runs are idempotent per meeting version" of docs/features.md holds
\* until the first redelivery, and by its tries only.
THEOREM UnfailedRunsOnce == Spec => [](OnceInv /\ (faults = 0 => OneSummaryPerVersion))
<1>1. Init => OnceInv
  <2> SUFFICES ASSUME Init PROVE OnceInv
    OBVIOUS
  <2>1. \A w \in Workers : work[w].job = NoActor
    BY DEF Init, NoWork, Actors
  <2>2. \A r \in Requesters : jobs[r].tries = 0 /\ jobs[r].state = "none"
    BY DEF Init, NoJob
  <2> QED
    BY <2>1, <2>2 DEF OnceInv, TriedOnce
<1>2. TypeOK /\ CountInv /\ OnceInv /\ [Next]_vars => OnceInv'
  <2> SUFFICES ASSUME TypeOK, CountInv, OnceInv, [Next]_vars PROVE OnceInv'
    OBVIOUS
  <2>1. CASE UNCHANGED vars
    BY <2>1 DEF vars, OnceInv, TriedOnce
  <2> QED
    BY <2>1, OnceWorkerStep, OnceRequestStep, OnceQueueStep, OnceCrash DEF Next, QueueStep
<1>3. TypeOK /\ RunInv /\ CountInv /\ OnceInv => (faults = 0 => OneSummaryPerVersion)
  <2> SUFFICES ASSUME TypeOK, RunInv, CountInv, OnceInv, faults = 0, NEW r \in Requesters
               PROVE  Cardinality(SummariesOf(r)) <= 1
    BY DEF OneSummaryPerVersion
  <2>1. Cardinality(SummariesOf(r)) <= jobs[r].tries
    BY SummariesAreTries
  <2>2. jobs[r].tries \in {0, 1}
    BY DEF OnceInv, TriedOnce, TypeOK, Job
  <2>3. Cardinality(SummariesOf(r)) \in Nat
    BY SummariesAreFinite, FS_CardinalityType
  <2> QED
    BY <2>1, <2>2, <2>3
<1> QED
  BY <1>1, <1>2, <1>3, SucceededRunsDeliver, TriesAreCounted, TypeCorrect, PTL DEF Spec
----------------------------------------------------------------------------
(***************************************************************************)
(* What an answered upload can count on.                                   *)
(***************************************************************************)
\* A job that had a try had a run, of a recording not older than its own.
LEMMA TriedJobsWereRead ==
    ASSUME TypeOK, FreshInv, CountInv, NEW r \in Requesters, jobs[r].tries > 0
    PROVE  \E i \in DOMAIN runs : NotOlder(runs[i].recording, r)
<1>1. RunsOf(r) # {}
  <2>1. Cardinality(RunsOf(r)) = jobs[r].tries
    BY DEF CountInv, TriesAreRuns
  <2>2. Cardinality({}) = 0
    BY FS_EmptySet
  <2> QED
    BY <2>1, <2>2
<1> QED
  BY <1>1 DEF RunsOf, FreshInv, RunUsesFreshRecording

\* The upload was answered, but Redis knew its job id and dropped the job.
Dropped(u) == pc[u] = "done" /\ jobs[u].state = "none"

OtherAccepted(u) == \E q \in Requesters : q # u /\ jobs[q].state # "none"

UploadIsDropped == Backend = "arq" /\ \E u \in Uploads : Dropped(u) /\ OtherAccepted(u)

DropInv ==
    /\ \A r \in Requesters : jobs[r].state = "lost" => Backend = "inline"
    /\ \A u \in Uploads : Dropped(u) => OtherAccepted(u)

\* Once accepted, a job stays known; without an answer nothing is dropped.
LEMMA DropKept ==
    ASSUME DropInv,
           \A r \in Requesters :
               /\ jobs'[r].state = "none" => jobs[r].state = "none"
               /\ jobs[r].state = "none" \/ jobs'[r].state # "none"
               /\ jobs'[r].state = "lost" => jobs[r].state = "lost" \/ Backend = "inline",
           \A u \in Uploads : pc'[u] = "done" => pc[u] = "done" \/ jobs[u].state # "none"
                                                  \/ OtherAccepted(u)
    PROVE  DropInv'
<1>1. \A u \in Uploads : u \in Requesters
  BY DEF Requesters
<1>2. \A u \in Uploads : OtherAccepted(u) => OtherAccepted(u)'
  BY DEF OtherAccepted
<1> QED
  BY <1>1, <1>2 DEF DropInv, Dropped

LEMMA DropWorkerStep ==
    ASSUME TypeOK, CountInv, DropInv, NEW w \in Workers, WorkerStep(w)
    PROVE  DropInv'
<1>1. \A u \in Uploads : pc'[u] = pc[u]
  BY WorkerFrame DEF Requesters
<1>2. CASE Finish(w)
  <2>1. \A q \in Requesters :
            /\ jobs'[q].state = IF q = work[w].job THEN "done" ELSE jobs[q].state
            /\ q = work[w].job => jobs[q].state # "none"
    BY <1>2, FinishIsDone DEF CountInv, TriesAreRuns, Actors
  <2> QED
    BY <1>1, <2>1, DropKept
<1>3. CASE ~Finish(w) /\ \A r \in Requesters : ~StartRun(w, r)
  BY <1>1, <1>3, WorkerKeepsJob, DropKept
<1>4. ASSUME NEW r \in Requesters, StartRun(w, r) PROVE DropInv'
  <2>1. jobs[r].state = "queued"
        /\ jobs' = [jobs EXCEPT ![r].state = "running", ![r].tries = @ + 1]
    BY <1>4 DEF StartRun, Take
  <2>2. jobs \in [Requesters -> Job] /\ jobs[r] \in Job
    BY DEF TypeOK
  <2>3. jobs'[r].state = "running" /\ \A q \in Requesters : q # r => jobs'[q] = jobs[q]
    BY <2>1, <2>2 DEF Job
  <2>4. \A q \in Requesters :
            /\ jobs'[q].state = "none" <=> jobs[q].state = "none"
            /\ jobs'[q].state = "lost" => jobs[q].state = "lost"
    BY <2>1, <2>3
  <2> QED
    BY <1>1, <2>4, DropKept
<1> QED
  BY <1>2, <1>3, <1>4

\* ARQ drops a job only of an id it knows, which is of another job; the inline
\* queue answers when it has run the job.
LEMMA DropRequestStep ==
    ASSUME TypeOK, CountInv, DropInv, NEW b \in Actors, RequestStep(b)
    PROVE  DropInv'
<1>1. \A q \in Requesters : /\ jobs'[q].state = "none" => jobs[q].state = "none"
                            /\ jobs[q].state = "none" \/ jobs'[q].state # "none"
                            /\ jobs'[q].state = "lost" => jobs[q].state = "lost"
  BY RequestKeepsJobs
<1>2. \A u \in Uploads : u # b => pc'[u] = pc[u]
  BY RequestFrame DEF Requesters, Actors
<1>3. CASE b \in Uploads /\ UploadStep(b)
  <2>0. b \in Requesters /\ jobs \in [Requesters -> Job]
        /\ pc \in [Actors -> WorkerLabels \cup RequestLabels]
    BY <1>3 DEF Requesters, TypeOK
  <2>1. CASE Enqueue(b)
    <3>1. jobs[b].state = "none"
      BY <2>0, <2>1 DEF Enqueue, CountInv, TriesAreRuns, Early
    <3>2. CASE Known(view[b].version)
      <4>1. OtherAccepted(b)
        BY <3>1, <3>2 DEF Known, OtherAccepted
      <4> QED
        BY <1>1, <1>2, <4>1, DropKept
    <3>3. CASE ~Known(view[b].version)
      <4>1. jobs' = [jobs EXCEPT ![b] = [state |-> "queued", version |-> view[b].version,
                                         tries |-> 0]]
        BY <2>1, <3>3 DEF Enqueue, Accept
      <4>2. jobs'[b].state = "queued" /\ \A q \in Requesters : q # b => jobs'[q] = jobs[q]
        BY <2>0, <4>1
      <4>3. \A u \in Uploads : Dropped(u)' => u # b /\ Dropped(u)
        BY <1>2, <4>2 DEF Dropped, Requesters
      <4>4. \A u \in Uploads : OtherAccepted(u) => OtherAccepted(u)'
        BY <1>1 DEF OtherAccepted
      <4> QED
        BY <1>1, <4>3, <4>4 DEF DropInv
    <3> QED
      BY <3>2, <3>3
  <2>2. CASE InlineRunReturns(b)
    <3>1. jobs[b].state = "done"
      BY <2>2 DEF InlineRunReturns
    <3> QED
      BY <1>1, <1>2, <3>1, DropKept
  <2>3. CASE LoadMeeting(b) \/ StoreUpload(b) \/ RejectUpload(b) \/ CommitUpload(b)
             \/ EnqueueFails(b) \/ MarkQueueFailed(b)
    <3>1. pc'[b] # "done"
      BY <2>0, <2>3 DEF LoadMeeting, StoreUpload, RejectUpload, CommitUpload, EnqueueFails,
                        MarkQueueFailed, Goto, Actors
    <3> QED
      BY <1>1, <1>2, <3>1, DropKept
  <2> QED
    BY <1>3, <2>1, <2>2, <2>3 DEF UploadStep
<1>4. CASE b \notin Uploads
  BY <1>1, <1>2, <1>4, DropKept
<1> QED
  BY <1>3, <1>4, ActorsAssumption DEF RequestStep, Requesters

LEMMA DropFaultStep ==
    ASSUME TypeOK, DropInv, NEW r \in Requesters, NEW a \in Actors,
           QueueStep(r) \/ ExpireUnderSlowWorker(r) \/ Crash(a)
    PROVE  DropInv'
<1>1. CASE QueueStep(r) \/ ExpireUnderSlowWorker(r)
  <2>1. pc' = pc /\ (Requeue(r) \/ Exhaust(r))
    BY <1>1 DEF QueueStep, Redeliver, Abort, ExpireUnderSlowWorker
  <2>2. \A q \in Requesters : jobs'[q].state = "lost" => jobs[q].state = "lost"
    <3>1. PICK s \in {"queued", "dead"} : jobs' = [jobs EXCEPT ![r].state = s]
      BY <2>1 DEF Requeue, Exhaust
    <3>2. \A q \in Requesters : jobs[q] \in Job /\ jobs \in [Requesters -> Job]
      BY DEF TypeOK
    <3> QED
      BY <3>1, <3>2 DEF Job
  <2> QED
    BY <2>1, <2>2, QueueKeepsTries, DropKept
<1>2. CASE Crash(a)
  <2>1. \A u \in Uploads : pc'[u] = "done" => pc[u] = "done"
    BY <1>2, CrashFrame DEF Requesters, Actors
  <2>2. CASE Backend = "inline"
    BY <1>2, <2>1, <2>2, QueueKeepsTries, DropKept DEF Crash
  <2>3. CASE Backend # "inline"
    BY <1>2, <2>1, <2>3, DropKept DEF Crash
  <2> QED
    BY <2>2, <2>3
<1> QED
  BY <1>1, <1>2

\* Whatever has its job taken was read by a run.
AcceptedJobsAreRead ==
    \A r \in Requesters :
        jobs[r].state \in {"running", "done", "dead"} =>
            \E i \in DOMAIN runs : NotOlder(runs[i].recording, r)

\* An upload that was answered is processed, whatever crashes, unless ARQ dropped
\* its job because it knew the id from the job of another request: a dropped
\* enqueue, of which the code learns nothing, is the only way to lose it.
THEOREM AnsweredUploadsAreProcessed ==
    Spec => [](AcceptedJobsAreRead /\ (AnsweredUploadIsProcessed \/ UploadIsDropped))
<1>1. Init => DropInv
  <2> SUFFICES ASSUME Init PROVE DropInv
    OBVIOUS
  <2>1. /\ \A r \in Requesters : jobs[r].state = "none"
        /\ \A u \in Uploads : pc[u] # "done"
    BY ActorsAssumption DEF Init, NoJob, Requesters, Actors
  <2> QED
    BY <2>1 DEF DropInv, Dropped
<1>2. TypeOK /\ CountInv /\ DropInv /\ [Next]_vars => DropInv'
  <2> SUFFICES ASSUME TypeOK, CountInv, DropInv, [Next]_vars PROVE DropInv'
    OBVIOUS
  <2>1. CASE UNCHANGED vars
    BY <2>1, DropKept DEF vars
  <2>2. ASSUME NEW a \in Actors, Crash(a) PROVE DropInv'
    <3>1. CASE Requesters = {}
      BY <3>1 DEF DropInv, Requesters
    <3>2. CASE Requesters # {}
      BY <2>2, <3>2, DropFaultStep
    <3> QED
      BY <3>1, <3>2
  <2>3. ASSUME NEW r \in Requesters, QueueStep(r) \/ ExpireUnderSlowWorker(r) PROVE DropInv'
    <3>1. r \in Actors
      BY DEF Actors
    <3> QED
      BY <2>3, <3>1, DropFaultStep
  <2> QED
    BY <2>1, <2>2, <2>3, DropWorkerStep, DropRequestStep DEF Next
<1>3. TypeOK /\ FreshInv /\ CountInv => AcceptedJobsAreRead
  BY TriedJobsWereRead DEF AcceptedJobsAreRead, CountInv, TriesAreRuns
<1>4. TypeOK /\ FreshInv /\ CountInv /\ DropInv => AnsweredUploadIsProcessed \/ UploadIsDropped
  <2> SUFFICES ASSUME TypeOK, FreshInv, CountInv, DropInv, ~UploadIsDropped,
                      NEW u \in Uploads, pc[u] = "done",
                      ~\E i \in DOMAIN runs : NotOlder(runs[i].recording, u)
               PROVE  jobs[u].state = "queued"
    BY DEF AnsweredUploadIsProcessed, Requesters
  <2>1. u \in Requesters /\ jobs[u].state \in JobState
    BY DEF Requesters, TypeOK, Job
  <2>2. ~(jobs[u].tries > 0)
    BY <2>1, TriedJobsWereRead
  <2>3. Backend = "arq" /\ jobs[u].state \notin {"running", "done", "dead"}
    BY <2>1, <2>2, QueueAssumption DEF CountInv, TriesAreRuns
  <2>4. jobs[u].state # "lost"
    BY <2>1, <2>3 DEF DropInv
  <2>5. jobs[u].state # "none"
    BY <2>3 DEF DropInv, Dropped, UploadIsDropped
  <2> QED
    BY <2>1, <2>3, <2>4, <2>5 DEF JobState
<1> QED
  BY <1>1, <1>2, <1>3, <1>4, TypeCorrect, RunsAreFresh, TriesAreCounted, PTL DEF Spec
----------------------------------------------------------------------------
(***************************************************************************)
(* With one worker: what its run summarizes covers the job's recording.    *)
(***************************************************************************)
SoleWorker == \A v, w \in Workers : v = w

Covers(t, i) ==
    t \in DOMAIN transcripts /\ NotOlder(transcripts[t].recording, runs[i].job)

\* From the transcript it saves on, the newest transcript covers the run's
\* job: only finalizers add transcripts beside the worker, and theirs are of
\* newer recordings.
SummariesCovered ==
    \A i \in DOMAIN summaries :
        summaries[i].run # 0 => Covers(summaries[i].transcript, summaries[i].run)

WorkerCovered(w) ==
    /\ pc[w] = "reading" => Covers(Len(transcripts), work[w].run)
    /\ pc[w] = "summarizing" \/ (pc[w] = "closing" /\ work[w].outcome = "succeeded") =>
          Covers(work[w].transcript, work[w].run)

CoverInv == SummariesCovered /\ \A w \in Workers : WorkerCovered(w)

\* Transcripts, recordings and the jobs of runs stay.
RowsGrow ==
    /\ Grows(transcripts, transcripts')
    /\ DOMAIN runs \subseteq DOMAIN runs'
    /\ \A i \in DOMAIN runs : runs'[i].job = runs[i].job
    /\ \A a, b : NotOlder(a, b) => NotOlder(a, b)'

LEMMA CoversStays ==
    ASSUME RowsGrow, NEW t, NEW i \in DOMAIN runs, Covers(t, i)
    PROVE  Covers(t, i)'
BY DEF RowsGrow, Grows, Covers

\* The summaries that were covered stay covered, and those that are added are
\* of no run or of a covered one.
LEMMA SummariesStayCovered ==
    ASSUME SummariesApart, RowsGrow, CoverInv, NEW k, AddsSummary(k),
           \A s \in DOMAIN summaries' \ DOMAIN summaries :
               k # 0 => k \in DOMAIN runs /\ Covers(summaries'[s].transcript, k)
    PROVE  SummariesCovered'
<1> SUFFICES ASSUME NEW i \in DOMAIN summaries', summaries'[i].run # 0,
                    NEW t, t = summaries'[i].transcript, NEW j, j = summaries'[i].run
             PROVE  Covers(t, j)'
  BY DEF SummariesCovered
<1>1. CASE i \in DOMAIN summaries
  <2>1. summaries'[i] = summaries[i]
    BY <1>1 DEF AddsSummary, Grows
  <2>2. Covers(t, j) /\ j \in DOMAIN runs
    BY <1>1, <2>1 DEF CoverInv, SummariesCovered, SummariesApart
  <2> QED
    BY <2>2, CoversStays
<1>2. CASE i \notin DOMAIN summaries
  <2>1. j = k /\ k # 0
    BY <1>2 DEF AddsSummary
  <2>2. k \in DOMAIN runs /\ Covers(t, k)
    BY <1>2, <2>1
  <2> QED
    BY <2>1, <2>2, CoversStays
<1> QED
  BY <1>1, <1>2

LEMMA RowsOnlyGrow ==
    ASSUME TypeOK, DOMAIN runs \subseteq DOMAIN runs',
           \A i \in DOMAIN runs : runs'[i].job = runs[i].job,
           NEW x, transcripts' = transcripts \/ transcripts' = Append(transcripts, x),
           \/ recordings' = recordings
           \/ \E r \in Requesters : recordings' = Append(recordings, r)
    PROVE  RowsGrow
<1>1. Grows(transcripts, transcripts')
  <2>1. transcripts \in Seq(TranscriptRow)
    BY DEF TypeOK
  <2>2. CASE transcripts' = transcripts
    BY <2>2 DEF Grows
  <2>3. CASE transcripts' = Append(transcripts, x)
    BY <2>1, <2>3, AppendAdds
  <2> QED
    BY <2>2, <2>3
<1>2. \A a, b : NotOlder(a, b) => NotOlder(a, b)'
  <2>1. CASE recordings' = recordings
    BY <2>1 DEF NotOlder
  <2>2. CASE \E r \in Requesters : recordings' = Append(recordings, r)
    BY <2>2, CommitsStay
  <2> QED
    BY <2>1, <2>2
<1> QED
  BY <1>1, <1>2 DEF RowsGrow

LEMMA RowsUnchanged ==
    ASSUME TypeOK, transcripts' = transcripts, recordings' = recordings, runs' = runs
    PROVE  RowsGrow
BY DEF RowsGrow, Grows, NotOlder

\* A step in which every worker keeps what it has read, or stops.
LEMMA CoverKept ==
    ASSUME TypeOK, RunInv, CoverInv, RowsGrow, transcripts' = transcripts, AddsSummary(0),
           \A w \in Workers : \/ pc'[w] = pc[w] /\ work'[w] = work[w]
                              \/ pc'[w] = "idle"
    PROVE  CoverInv'
<1>1. SummariesCovered'
  BY SummariesStayCovered DEF RunInv
<1>2. ASSUME NEW w \in Workers PROVE WorkerCovered(w)'
  <2>1. CASE pc'[w] = "idle"
    BY <2>1 DEF WorkerCovered
  <2>2. CASE pc'[w] = pc[w] /\ work'[w] = work[w] /\ pc[w] \in RunLabels
    <3>1. work[w].run \in DOMAIN runs
      BY <2>2 DEF RunInv, HasRun
    <3> QED
      BY <2>2, <3>1, CoversStays DEF CoverInv, WorkerCovered
  <2>3. CASE pc'[w] = pc[w] /\ pc[w] \notin RunLabels
    BY <2>3 DEF WorkerCovered, RunLabels
  <2> QED
    BY <2>1, <2>2, <2>3
<1> QED
  BY <1>1, <1>2 DEF CoverInv

\* A finalizer's transcript is of the newest recording.
LEMMA CoverCommitLive ==
    ASSUME TypeOK, RunInv, CoverInv, NEW l \in Lives, CommitLive(l)
    PROVE  CoverInv'
<1> DEFINE row == [recording |-> l, source |-> "live"]
<1>0. /\ recordings' = Append(recordings, l) /\ transcripts' = Append(transcripts, row)
      /\ row.recording = l /\ runs' = runs /\ summaries' = summaries /\ work' = work
      /\ l \in Requesters /\ l \in Actors
  BY DEF CommitLive, Requesters, Actors
<1> HIDE DEF row
<1>1. RowsGrow
  BY <1>0, RowsOnlyGrow
<1>2. SummariesCovered'
  BY <1>0, <1>1, NothingAdded, SummariesStayCovered DEF RunInv
<1>3. \A w \in Workers : pc'[w] = pc[w]
  BY <1>0, ActorsAssumption DEF CommitLive, Goto, TypeOK, Requesters
<1>4. Len(transcripts') \in DOMAIN transcripts' /\ transcripts'[Len(transcripts')] = row
  BY <1>0 DEF TypeOK
<1>5. ASSUME NEW a, NEW b, NotOlder(a, b) PROVE NotOlder(l, b)'
  <2>1. PICK j \in DOMAIN recordings : recordings[j] = b
    BY <1>5 DEF NotOlder
  <2>2. /\ recordings \in Seq(Requesters) /\ DOMAIN recordings = 1..Len(recordings)
        /\ Len(recordings) \in Nat
    BY DEF TypeOK
  <2>3. /\ Len(recordings) + 1 \in DOMAIN recordings' /\ recordings'[Len(recordings) + 1] = l
        /\ j \in DOMAIN recordings' /\ recordings'[j] = b /\ j <= Len(recordings) + 1
    BY <1>0, <2>1, <2>2
  <2> QED
    BY <2>3 DEF NotOlder
<1>6. ASSUME NEW w \in Workers PROVE WorkerCovered(w)'
  <2>1. CASE pc[w] = "reading"
    <3>1. Covers(Len(transcripts), work[w].run)
      BY <2>1 DEF CoverInv, WorkerCovered
    <3>2. NotOlder(l, runs[work[w].run].job)'
      BY <1>0, <1>5, <3>1 DEF Covers
    <3> QED
      BY <1>0, <1>3, <1>4, <2>1, <3>2 DEF WorkerCovered, Covers
  <2>2. CASE pc[w] \in {"summarizing", "closing"}
    <3>1. work[w].run \in DOMAIN runs
      BY <2>2 DEF RunInv, HasRun, RunLabels
    <3> QED
      BY <1>0, <1>1, <1>3, <2>2, <3>1, CoversStays DEF CoverInv, WorkerCovered
  <2>3. CASE pc[w] \notin {"reading", "summarizing", "closing"}
    BY <1>3, <2>3 DEF WorkerCovered
  <2> QED
    BY <2>1, <2>2, <2>3
<1> QED
  BY <1>2, <1>6 DEF CoverInv

\* The only worker's step, from what it has read to what it stores.
LEMMA CoverWorker ==
    ASSUME RunInv, CoverInv, SoleWorker, NEW w \in Workers, RowsGrow,
           NEW k, AddsSummary(k),
           \A s \in DOMAIN summaries' \ DOMAIN summaries :
               k # 0 => k \in DOMAIN runs /\ Covers(summaries'[s].transcript, k),
           WorkerCovered(w)'
    PROVE  CoverInv'
<1>1. SummariesCovered'
  BY SummariesStayCovered DEF RunInv
<1> QED
  BY <1>1 DEF SoleWorker, CoverInv

\* What is saved is a transcript of the run's own recording.
LEMMA CoverSaveTranscript ==
    ASSUME TypeOK, FreshInv, RunInv, CoverInv, SoleWorker, NEW w \in Workers, WorkerStep(w),
           SaveTranscript(w)
    PROVE  CoverInv'
<1> DEFINE row == [recording |-> work[w].recording, source |-> SourceOf(work[w].recording)]
<1>1. /\ pc[w] = "transcribing" /\ pc'[w] = "reading" /\ recordings' = recordings
      /\ transcripts' = Append(transcripts, row) /\ row.recording = work[w].recording
      /\ runs' = runs /\ summaries' = summaries /\ work' = work
  BY DEF SaveTranscript, Goto, TypeOK, Actors
<1> HIDE DEF row
<1>2. RowsGrow
  BY <1>1, RowsOnlyGrow
<1>3. Len(transcripts') \in DOMAIN transcripts' /\ transcripts'[Len(transcripts')] = row
  BY <1>1 DEF TypeOK
<1>4. /\ work[w].run \in DOMAIN runs
      /\ runs[work[w].run].recording = work[w].recording
  BY <1>1 DEF RunInv, HasRun, RunLabels
<1>5. NotOlder(work[w].recording, runs[work[w].run].job)
  BY <1>4 DEF FreshInv, RunUsesFreshRecording
<1>6. NotOlder(work[w].recording, runs[work[w].run].job)'
  BY <1>1, <1>5 DEF NotOlder
<1>7. WorkerCovered(w)'
  BY <1>1, <1>3, <1>6 DEF WorkerCovered, Covers
<1> QED
  BY <1>1, <1>2, <1>7, NothingAdded, CoverWorker

LEMMA CoverWorkerStep ==
    ASSUME TypeOK, FreshInv, RunInv, CoverInv, SoleWorker, NEW w \in Workers, WorkerStep(w)
    PROVE  CoverInv'
<1>1. work[w] \in Work /\ w \in Actors /\ work \in [Actors -> Work]
      /\ pc \in [Actors -> WorkerLabels \cup RequestLabels]
  BY DEF TypeOK, Actors
<1>2. pc[w] \in RunLabels => work[w].run \in DOMAIN runs
  BY DEF RunInv, HasRun
<1>3. WorkerCovered(w)
  BY DEF CoverInv
<1>4. ASSUME summaries' = summaries, RowsGrow, WorkerCovered(w)' PROVE CoverInv'
  BY <1>4, NothingAdded, CoverWorker
<1>5. CASE ReadTranscript(w)
  <2>1. /\ pc[w] = "reading" /\ pc'[w] = "summarizing"
        /\ work'[w] = [work[w] EXCEPT !.transcript = Len(transcripts)]
        /\ UNCHANGED <<summaries, transcripts, recordings, runs>>
    BY <1>1, <1>5 DEF ReadTranscript, Goto
  <2>2. work'[w].run = work[w].run /\ work'[w].transcript = Len(transcripts)
    BY <1>1, <2>1, WorkUpdates
  <2>3. RowsGrow
    BY <2>1, RowsUnchanged
  <2>4. WorkerCovered(w)'
    BY <1>2, <1>3, <2>1, <2>2, <2>3, CoversStays DEF WorkerCovered, RunLabels
  <2> QED
    BY <1>4, <2>1, <2>3, <2>4
<1>6. CASE SelectSession(w)
  <2>1. PICK l : work'[w] = [work[w] EXCEPT !.closes = l]
    BY <1>1, <1>6 DEF SelectSession
  <2>2. /\ pc[w] = "summarizing" /\ pc'[w] = "closing"
        /\ UNCHANGED <<summaries, transcripts, recordings, runs>>
    BY <1>1, <1>6 DEF SelectSession, Goto
  <2>3. work'[w].run = work[w].run /\ work'[w].transcript = work[w].transcript
    BY <1>1, <2>1, WorkUpdates
  <2>4. RowsGrow
    BY <2>2, RowsUnchanged
  <2>5. WorkerCovered(w)'
    BY <1>2, <1>3, <2>2, <2>3, <2>4, CoversStays DEF WorkerCovered, RunLabels
  <2> QED
    BY <1>4, <2>2, <2>4, <2>5
<1>7. CASE CommitSummary(w)
  <2> DEFINE row == [transcript |-> work[w].transcript, run |-> work[w].run]
  <2>1. /\ summaries' = Append(summaries, row) /\ row.run = work[w].run
        /\ row.transcript = work[w].transcript
        /\ UNCHANGED <<transcripts, recordings, runs>>
        /\ pc[w] = "closing" /\ work[w].outcome = "succeeded"
        /\ pc'[w] \in {"delivering", "finishing"}
    BY <1>1, <1>7 DEF CommitSummary, Goto
  <2> HIDE DEF row
  <2>2. RowsGrow
    BY <2>1, RowsUnchanged
  <2>3. AddsSummary(work[w].run)
    BY <2>1, SummaryAdded
  <2>4. work[w].run \in DOMAIN runs /\ Covers(work[w].transcript, work[w].run)
    BY <1>2, <1>3, <2>1 DEF WorkerCovered, RunLabels
  <2>5. \A s \in DOMAIN summaries' \ DOMAIN summaries : summaries'[s] = row
    <3>1. summaries \in Seq(SummaryRow)
      BY DEF TypeOK
    <3> QED
      BY <2>1, <3>1, AppendAdds
  <2>6. WorkerCovered(w)'
    BY <2>1 DEF WorkerCovered
  <2> QED
    BY <2>1, <2>2, <2>3, <2>4, <2>5, <2>6, CoverWorker
<1>8. CASE RunFails(w)
  <2>1. PICK l : work' = [work EXCEPT ![w].closes = l, ![w].outcome = "failed"]
    BY <1>8 DEF RunFails
  <2>2. work'[w] = [work[w] EXCEPT !.closes = l, !.outcome = "failed"]
    BY <1>1, <2>1
  <2>3. work'[w].outcome = "failed"
    BY <1>1, <2>2, WorkUpdates
  <2>4. pc'[w] = "closing" /\ UNCHANGED <<summaries, transcripts, recordings, runs>>
    BY <1>1, <1>8 DEF RunFails, Goto
  <2>5. WorkerCovered(w)'
    BY <2>3, <2>4 DEF WorkerCovered
  <2> QED
    BY <1>4, <2>4, <2>5, RowsUnchanged
<1>9. CASE Deliver(w) \/ MarkSent(w) \/ CommitFailure(w) \/ Finish(w)
  <2>1. /\ pc'[w] \notin {"reading", "summarizing", "closing"}
        /\ UNCHANGED <<summaries, transcripts, recordings, runs>>
    BY <1>1, <1>9 DEF Deliver, MarkSent, CommitFailure, Finish, Goto
  <2>2. WorkerCovered(w)'
    BY <2>1 DEF WorkerCovered
  <2> QED
    BY <1>4, <2>1, <2>2, RowsUnchanged
<1>10. CASE FinishRun(w)
  <2>1. /\ pc'[w] = "acking" /\ UNCHANGED <<summaries, transcripts, recordings>>
    BY <1>1, <1>10 DEF FinishRun, Goto
  <2>2. /\ DOMAIN runs' = DOMAIN runs
        /\ \A j \in DOMAIN runs : runs'[j].job = runs[j].job
    BY <1>10, RunsKeepJobs DEF FinishRun
  <2>3. RowsGrow
    BY <2>1, <2>2, RowsOnlyGrow
  <2>4. WorkerCovered(w)'
    BY <2>1 DEF WorkerCovered
  <2> QED
    BY <1>4, <2>1, <2>3, <2>4
<1>11. ASSUME NEW r \in Requesters, StartRun(w, r) PROVE CoverInv'
  <2>1. /\ pc'[w] \in {"acking", "transcribing"}
        /\ UNCHANGED <<summaries, transcripts, recordings>>
        /\ \E x : runs' = Append(runs, x)
    BY <1>1, <1>11 DEF StartRun, Goto
  <2>2. Grows(runs, runs')
    <3>1. runs \in Seq(RunRow)
      BY DEF TypeOK
    <3> QED
      BY <2>1, <3>1, AppendAdds
  <2>3. RowsGrow
    BY <2>1, <2>2, RowsOnlyGrow DEF Grows
  <2>4. WorkerCovered(w)'
    BY <2>1 DEF WorkerCovered
  <2> QED
    BY <1>4, <2>1, <2>3, <2>4
<1> QED
  BY <1>5, <1>6, <1>7, <1>8, <1>9, <1>10, <1>11, CoverSaveTranscript DEF WorkerStep

\* A request's step: only finalizers add transcripts.
LEMMA CoverRequestStep ==
    ASSUME TypeOK, RunInv, CoverInv, NEW b \in Actors, RequestStep(b)
    PROVE  CoverInv'
<1>1. \A w \in Workers : w # b /\ w \in Actors
  BY ActorsAssumption DEF RequestStep, Requesters, Actors
<1>2. \A w \in Workers : pc'[w] = pc[w] /\ work'[w] = work[w]
  BY <1>1, RequestFrame
<1>3. ASSUME runs' = runs, transcripts' = transcripts, AddsSummary(0), NEW r \in Requesters,
             recordings' \in {recordings, Append(recordings, r)}
      PROVE  CoverInv'
  <2>1. RowsGrow
    BY <1>3, RowsOnlyGrow
  <2> QED
    BY <1>2, <1>3, <2>1, CoverKept
<1>4. ASSUME runs' = runs, transcripts' = transcripts, AddsSummary(0), recordings' = recordings
      PROVE  CoverInv'
  BY <1>2, <1>4, RowsUnchanged, CoverKept
<1>5. CASE b \in Uploads /\ UploadStep(b)
  <2>1. CASE CommitUpload(b)
    <3>1. /\ runs' = runs /\ transcripts' = transcripts /\ summaries' = summaries
          /\ recordings' = Append(recordings, b) /\ b \in Requesters
      BY <1>5, <2>1 DEF CommitUpload, Requesters
    <3> QED
      BY <1>3, <3>1, NothingAdded
  <2>2. CASE ~CommitUpload(b)
    <3>1. UNCHANGED <<runs, transcripts, summaries, recordings>>
      BY <1>5, <2>2
      DEF UploadStep, LoadMeeting, StoreUpload, RejectUpload, Enqueue, InlineRunReturns,
          EnqueueFails, MarkQueueFailed, rows
    <3> QED
      BY <1>4, <3>1, NothingAdded
  <2> QED
    BY <2>1, <2>2
<1>6. CASE b \in Lives /\ FinalizeStep(b)
  <2>1. CASE CommitLive(b)
    BY <1>6, <2>1, CoverCommitLive
  <2>2. CASE ~CommitLive(b)
    <3>1. UNCHANGED <<runs, transcripts, summaries, recordings>>
      BY <1>6, <2>2
      DEF FinalizeStep, BeginFinalize, NoAudio, StoreWav, ReloadMeeting, Enqueue, EnqueueFails,
          FinalizeFails, MarkSessionFailed, rows
    <3> QED
      BY <1>4, <3>1, NothingAdded
  <2> QED
    BY <2>1, <2>2
<1>7. CASE b \in Summarizers \cup Posters /\ ManualStep(b)
  <2>1. CASE CommitResummary(b)
    <3> DEFINE row == [transcript |-> work[b].transcript, run |-> 0]
    <3>1. summaries' = Append(summaries, row) /\ row.run = 0
          /\ UNCHANGED <<runs, transcripts, recordings>>
      BY <2>1 DEF CommitResummary
    <3> HIDE DEF row
    <3>2. AddsSummary(0)
      BY <3>1, SummaryAdded
    <3> QED
      BY <1>4, <3>1, <3>2
  <2>2. CASE ~CommitResummary(b)
    <3>1. UNCHANGED <<runs, transcripts, summaries, recordings>>
      BY <1>7, <2>2
      DEF ManualStep, LoadMeeting, BeginSummarize, BeginPost, PostSummary, MarkPosted,
          ProviderFails, rows
    <3> QED
      BY <1>4, <3>1, NothingAdded
  <2> QED
    BY <2>1, <2>2
<1> QED
  BY <1>5, <1>6, <1>7 DEF RequestStep

\* With one worker, the summary that a run stores is made from a transcript of
\* its job's recording or of a newer one, although the run reads the newest
\* transcript of the meeting and live finalizers commit theirs beside it.
THEOREM SummariesCoverJobs == Spec => [](SoleWorker => CoverInv /\ SummaryCoversJob)
<1>1. Init => CoverInv
  <2> SUFFICES ASSUME Init PROVE CoverInv
    OBVIOUS
  <2>1. DOMAIN summaries = {} /\ \A w \in Workers : pc[w] = "idle"
    BY DEF Init, Actors
  <2> QED
    BY <2>1 DEF CoverInv, SummariesCovered, WorkerCovered
<1>2. SoleWorker /\ TypeOK /\ FreshInv /\ RunInv /\ CoverInv /\ [Next]_vars => CoverInv'
  <2> SUFFICES ASSUME SoleWorker, TypeOK, FreshInv, RunInv, CoverInv, [Next]_vars PROVE CoverInv'
    OBVIOUS
  <2>1. ASSUME UNCHANGED <<runs, transcripts, summaries, recordings>>,
               \A w \in Workers : \/ pc'[w] = pc[w] /\ work'[w] = work[w]
                                  \/ pc'[w] = "idle"
        PROVE  CoverInv'
    BY <2>1, NothingAdded, RowsUnchanged, CoverKept
  <2>2. CASE UNCHANGED vars
    BY <2>1, <2>2 DEF vars
  <2>3. ASSUME NEW r \in Requesters, QueueStep(r) \/ ExpireUnderSlowWorker(r) PROVE CoverInv'
    BY <2>1, <2>3, QueueFrame DEF rows
  <2>4. ASSUME NEW a \in Actors, Crash(a) PROVE CoverInv'
    <3>1. UNCHANGED <<runs, transcripts, summaries, recordings>>
      BY <2>4, CrashFrame DEF rows
    <3>2. \A w \in Workers : \/ pc'[w] = pc[w] /\ work'[w] = work[w]
                             \/ pc'[w] = "idle"
      BY <2>4 DEF TypeOK, Crash, Actors
    <3> QED
      BY <2>1, <3>1, <3>2
  <2> QED
    BY <2>2, <2>3, <2>4, CoverWorkerStep, CoverRequestStep DEF Next
<1>3. CoverInv => SummaryCoversJob
  BY DEF CoverInv, SummariesCovered, Covers, SummaryCoversJob
<1>4. CASE SoleWorker
  BY <1>1, <1>2, <1>3, <1>4, TypeCorrect, RunsAreFresh, SucceededRunsDeliver, PTL DEF Spec
<1>5. CASE ~SoleWorker
  BY <1>5, PTL
<1> QED
  BY <1>4, <1>5
=============================================================================
