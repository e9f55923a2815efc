------------------------- MODULE MCSubmissionLease -------------------------
(* Instances of SubmissionLease for TLC: one worker of the server's own     *)
(* local judger and one of a remote judger, submissions to one problem.     *)
EXTENDS SubmissionLease

CONSTANTS local, remote, w1, w2, p1

MCSubmissions == {1, 2}
MCOneSubmission == {1}
MCWorkers == {w1, w2}
MCOneWorker == {w1}
MCJudgers == {local, remote}
MCJudgerOf == [w \in Workers |-> IF w = w1 THEN local ELSE remote]
MCProblemOf == [s \in Submissions |-> p1]
=============================================================================
