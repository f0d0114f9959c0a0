-------------------------- MODULE MCMeetingPipeline --------------------------
(***************************************************************************)
(* Instances of MeetingPipeline for TLC.                                   *)
(***************************************************************************)
EXTENDS MeetingPipeline, TLC

CONSTANTS u1, u2, l1, l2, s1, p1, w1, w2

OneUpload == {u1}
TwoUploads == {u1, u2}
OneLive == {l1}
TwoLives == {l1, l2}
None == {}
OneSummarizer == {s1}
OnePoster == {p1}
OneWorker == {w1}
TwoWorkers == {w1, w2}

NoRank == [l \in {} |-> 0]
OneRank == [l \in {l1} |-> 1]
TwoRanks == l1 :> 1 @@ l2 :> 2

WorkerSymmetry == Permutations(Workers)

\* Either jobs are redelivered, or manual requests run beside the job.
EitherInit ==
    /\ meeting = NewMeeting
    /\ recordings = <<>> /\ transcripts = <<>> /\ summaries = <<>> /\ deliveries = <<>>
    /\ objects = {} /\ runs = <<>>
    /\ session = [l \in Lives |-> "recording"]
    /\ jobs = [r \in Requesters |-> NoJob]
    /\ view = [a \in Actors |-> NewMeeting]
    /\ work = [a \in Actors |-> NoWork]
    /\ \E manual \in BOOLEAN :
           /\ faults = IF manual THEN MaxFaults ELSE 0
           /\ pc = [a \in Actors |-> IF a \in Workers THEN "idle"
                                    ELSE IF manual \/ a \in Requesters THEN "start"
                                    ELSE "refused"]

EitherSpec == EitherInit /\ [][Next]_vars /\ Fairness

\* Beside the first live session there is either another session, or an upload
\* and no fault.
PairInit ==
    /\ meeting = NewMeeting
    /\ recordings = <<>> /\ transcripts = <<>> /\ summaries = <<>> /\ deliveries = <<>>
    /\ objects = {} /\ runs = <<>>
    /\ session = [l \in Lives |-> "recording"]
    /\ jobs = [r \in Requesters |-> NoJob]
    /\ view = [a \in Actors |-> NewMeeting]
    /\ work = [a \in Actors |-> NoWork]
    /\ \E absent \in {u1, l2} :
           /\ faults = IF absent = u1 THEN 0 ELSE MaxFaults
           /\ pc = [a \in Actors |-> IF a \in Workers THEN "idle"
                                    ELSE IF a = absent THEN "refused" ELSE "start"]

PairSpec == PairInit /\ [][Next]_vars /\ Fairness
=============================================================================
