------------------------------ MODULE JobReports ------------------------------
(***************************************************************************)
(* What each generation of the service makes of a batch system's account   *)
(* of a job.  The launcher of v2 reads the event log of HTCondor itself,   *)
(* from its beginning, in every check; v1 asks condor_q for the present    *)
(* state, sacct for that of a Slurm job, and reads what a script run by    *)
(* bash has left in its stamp file.                                        *)
(***************************************************************************)
EXTENDS Integers, Sequences

CONSTANT None

(* An event of a log: the job it is about, its type and, of a termination, *)
(* whether the job ended normally with exit code zero.                     *)
EventType == {"SUBMIT", "EXECUTE", "JOB_HELD", "JOB_RELEASED", "JOB_TERMINATED",
              "JOB_ABORTED", "CLUSTER_REMOVE"}

Event == [cluster : Nat, proc : Nat, type : EventType, ok : BOOLEAN]

(* Several jobs may write to one log.  A row that knows no cluster, number *)
(* zero, takes every event of a first process for its own.                 *)
Concerns(e, cluster) == e.proc = 0 /\ (cluster = 0 \/ e.cluster = cluster)

Abends(e) ==
  \/ e.type \in {"JOB_ABORTED", "JOB_HELD", "CLUSTER_REMOVE"}
  \/ e.type = "JOB_TERMINATED" /\ ~e.ok

(* HTCondorLauncher.check: it does not stop at the event that makes it     *)
(* succeed, so what follows, or came before, may still make it raise.      *)
LauncherCheck(log, cluster) ==
  LET ours == {i \in DOMAIN log : Concerns(log[i], cluster)}
  IN  CASE \E i \in ours : Abends(log[i]) -> "raises"
        [] /\ \A i \in ours : ~Abends(log[i])
           /\ \E i \in ours : log[i].type = "JOB_TERMINATED" -> "done"
        [] OTHER -> "running"

-----------------------------------------------------------------------------
(* check_htcondor_job: the JobStatus and ExitCode of the last job condor_q *)
(* lists, or None if it did not run, or printed something else.            *)
CondorStatus(s) ==
  CASE s \in {1, 2, 6} -> "running"
    [] s \in {3, 4}    -> "reviewable"
    [] s = 5           -> "blocked"
    [] s = 7           -> "paused"

CondorCheck(answer) ==
  CASE answer = None -> "failed"
    [] answer # None /\ CondorStatus(answer.status) = "reviewable" ->
         IF answer.exit = 0 THEN "accepted" ELSE "failed"
    [] OTHER -> CondorStatus(answer.status)

(* check_slurm_job: unlike condor_q, a sacct that cannot be run or read    *)
(* raises; one that knows nothing of the job makes it a running one.       *)
SlurmStatus(s) ==
  CASE s \in {"BOOT_FAIL", "CANCELLED", "DEADLINE", "FAILED", "NODE_FAIL", "OUT_OF_MEMORY",
              "REVOKED", "SPECIAL_EXIT", "TIMEOUT"} -> "failed"
    [] s = "COMPLETED"     -> "accepted"
    [] s = "NOT_SUBMITTED" -> "prepared"
    [] s \in {"CONFIGURING", "COMPLETING", "PENDING", "PREEMPTED", "RUNNING", "RESV_DEL_HOLD",
              "REQUEUE_FED", "REQUEUE_HOLD", "REQUEUED", "RESIZING", "SIGNALING", "STAGE_OUT",
              "STOPPED", "SUSPENDED"} -> "running"
    [] OTHER -> "raises"

SlurmCheck(id, answer) ==
  CASE id = None -> "running"
    [] id # None /\ answer = None -> "raises"
    [] OTHER -> SlurmStatus(IF answer = "" THEN "PENDING" ELSE answer)

(* check_stamp_file: a script that has not written its stamp yet.          *)
StampCheck(stamp, default) == IF stamp = None THEN default ELSE stamp
=============================================================================
