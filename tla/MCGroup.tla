------------------------------ MODULE MCGroup ------------------------------
(* One group, whose workflow succeeds or fails; a failed one may have run  *)
(* its last job.  The mapping of reports to statuses is compared with the  *)
(* order in which its answers take precedence, for every report; the       *)
(* answer of the launcher with the event logs it is made from.             *)
EXTENDS GroupWorkflow

Reports == INSTANCE JobReports

Ends ==
  [state : {"SUCCEEDED", "FAILED"}, pipetaskInit : {"SUCCEEDED"}, finalJob : {"SUCCEEDED"}, held : {FALSE}]

ASSUME ReportsAreRead ==
  \A r \in WmsReport : LET s == StatusFromReport(r) IN
    /\ s = "blocked" <=> r.held
    /\ s = "accepted" => r.pipetaskInit # "FAILED" /\ (r.state = "SUCCEEDED" \/ r.finalJob = "SUCCEEDED")
    /\ s = "reviewable" => r.state = "FAILED" /\ r.finalJob # "SUCCEEDED"
    /\ r.state \notin {"RUNNING", "SUCCEEDED", "FAILED"} => s \in {"blocked", "failed"}

(* The logs HTCondor may have written of a job in each state of jobs, one  *)
(* that was released after a hold being bad whatever came of it.           *)
Writes(type, ok) == [cluster |-> 1, proc |-> 0, type |-> type, ok |-> ok]

Began  == <<Writes("SUBMIT", TRUE), Writes("EXECUTE", TRUE)>>
Ended  == {<<Writes("JOB_TERMINATED", FALSE)>>, <<Writes("JOB_ABORTED", TRUE)>>,
           <<Writes("CLUSTER_REMOVE", TRUE)>>}
Resumed == <<Writes("JOB_HELD", TRUE), Writes("JOB_RELEASED", TRUE), Writes("EXECUTE", TRUE)>>

LogsOf ==
  [queued |-> {<< >>, <<Began[1]>>, Began},
   good   |-> {Began \o <<Writes("JOB_TERMINATED", TRUE)>>},
   held   |-> {<<Began[1], Resumed[1]>>, Began \o <<Resumed[1]>>},
   bad    |-> {Began \o l : l \in Ended} \cup {Began \o Resumed}
                \cup {Began \o Resumed \o l : l \in Ended \cup {<<Writes("JOB_TERMINATED", TRUE)>>}}]

Answers == [queued |-> "running", good |-> "done", held |-> "raises", bad |-> "raises"]

Foreign == {[Writes(t, ok) EXCEPT !.cluster = 2] : t \in Reports!EventType, ok \in BOOLEAN}

(* The launcher answers as GroupWorkflow has it, whatever another job,     *)
(* such as the group's previous one, has written to the same log.          *)
ASSUME LogsAreRead ==
  \A state \in DOMAIN LogsOf : \A log \in LogsOf[state], e \in Foreign :
    /\ Reports!LauncherCheck(<<e>> \o log, 1) = Answers[state]
    /\ Reports!LauncherCheck(log \o <<e>>, 1) = Answers[state]

(* What condor_q lists for a job with such a log.                          *)
Listed(log) ==
  LET last == log[Len(log)] IN
  CASE last.type = "SUBMIT"         -> [status |-> 1, exit |-> None]
    [] last.type = "EXECUTE"        -> [status |-> 2, exit |-> None]
    [] last.type = "JOB_HELD"       -> [status |-> 5, exit |-> None]
    [] last.type = "JOB_TERMINATED" -> [status |-> 4, exit |-> IF last.ok THEN 0 ELSE 1]
    [] OTHER                        -> [status |-> 3, exit |-> None]

(* What v2 finds done v1 would accept; the reverse only holds of a job     *)
(* that was never held.  A held job is blocked in v1 and failed in v2.     *)
ASSUME GenerationsAgree ==
  \A state \in DOMAIN LogsOf : \A log \in LogsOf[state] \ {<< >>} :
    LET v1     == Reports!CondorCheck(Listed(log))
        v2     == Reports!LauncherCheck(log, 1)
        onHold == \E i \in DOMAIN log : log[i].type = "JOB_HELD"
    IN  /\ v2 = "done" <=> v1 = "accepted" /\ ~onHold
        /\ v1 = "blocked" => v2 = "raises"
        /\ v2 = "running" <=> v1 = "running" /\ ~onHold

(* A missing answer never passes for success: it fails a job of HTCondor   *)
(* and leaves one of Slurm or bash running, or raises.                     *)
ASSUME SilenceIsNotSuccess ==
  "accepted" \notin {Reports!CondorCheck(None), Reports!SlurmCheck(None, None),
                     Reports!SlurmCheck("1", None), Reports!SlurmCheck("1", ""),
                     Reports!SlurmCheck("1", "UNKNOWN"), Reports!StampCheck(None, "running")}
=============================================================================
