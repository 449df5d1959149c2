------------------------------ MODULE MoveJobs ------------------------------
(***************************************************************************)
(* What the store mover promises of its jobs (caravan/admin/               *)
(* store_moves.py: FINAL_JOB_STATES, MoveJob.finished): a job is started   *)
(* once, and once it has ended it never runs again, restarts of the        *)
(* controller included.                                                    *)
(***************************************************************************)
CONSTANT Jobs

VARIABLE jobs

JobStates == {"none", "open", "closed"}

TypeOK == jobs \in [Jobs -> JobStates]

Init == jobs = [j \in Jobs |-> "none"]

\* MoveRunner.start
Open(j) == jobs[j] = "none" /\ jobs' = [jobs EXCEPT ![j] = "open"]

\* Mover._finish, MoveRunner.cancel of a job still in line
Close(j) == jobs[j] = "open" /\ jobs' = [jobs EXCEPT ![j] = "closed"]

Next == \E j \in Jobs : Open(j) \/ Close(j)

Spec == Init /\ [][Next]_jobs
=============================================================================
