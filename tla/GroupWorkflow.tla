--------------------------- MODULE GroupWorkflow ---------------------------
(***************************************************************************)
(* The life of a group node.  Preparing it renders a script that submits a *)
(* workflow with bps, and a submit file that names the script; starting it *)
(* hands the submit file to HTCondor.  The launched job ends when bps has  *)
(* submitted the workflow and has printed its submit directory; the group  *)
(* is done when bps reports the workflow itself as done.  A failed group   *)
(* can be retried (submit anew), restarted (have bps go on with the old    *)
(* workflow, by another script) or reset (remove everything).              *)
(*                                                                         *)
(* A transition is one step here, with the files it writes; a crash of the *)
(* process that makes it leaves the files, but may lose what the database  *)
(* was to learn of it: the pickled machine, or that and the node's row.    *)
(***************************************************************************)
EXTENDS NodeLifecycle, Sequences, FiniteSets

CONSTANTS
  Endings,     \* the reports bps may give of a workflow that has ended
  MaxRequests, MaxCrashes,
  None,
  Bare         \* the executable of a chain to which no launcher was added

(* What bps reports of a workflow: its state, the states of its first and  *)
(* its last job, and whether any job is held.                              *)
WmsState  == {"RUNNING", "SUCCEEDED", "FAILED", "DELETED", "PENDING", "HELD", "PRUNED", "UNKNOWN"}
WmsReport == [state : WmsState, pipetaskInit : WmsState, finalJob : WmsState, held : BOOLEAN]

ASSUME GroupAssumption ==
  /\ Endings \subseteq {r \in WmsReport : r.state # "RUNNING"}
  /\ MaxRequests \in Nat /\ MaxCrashes \in Nat
  /\ None \notin Nat /\ Bare \notin Nat /\ Bare # None

VARIABLES
  status, bps, cluster, \* the row: its status, bps metadata and HTCondor job
  machine, \* the stored machine: its state and the executable in its chain, None
           \* if it has no chain
  disk,    \* the artifacts: scripts, submit file, bps output, submit dirs
  jobs,    \* the jobs HTCondor was given
  payload, \* what bps reports of the workflows, by the job that submitted
  want, epoch,        \* what the group became ready for last, how often (history)
  restarted, strayed, \* restarts since prepared; whether a job ran that no row knows (history)
  requests, crashes

row     == <<status, bps, cluster>>
world   == <<jobs, payload, strayed>>
history == <<want, epoch, restarted>>
vars    == <<row, machine, disk, world, history, requests, crashes>>

(* A script is named for the restarts its name counts: group.sh is 0,      *)
(* group_restart.sh is 1, group_restart_restart.sh would be 2.             *)
NoDisk == [scripts |-> {}, sub |-> None, stdout |-> None, target |-> None, dirs |-> {}]

Rendered == [NoDisk EXCEPT !.scripts = {0}, !.sub = 0]

Init ==
  /\ status = "waiting" /\ bps = None /\ cluster = 0
  /\ machine = None
  /\ disk = NoDisk
  /\ jobs = << >> /\ payload = << >> /\ strayed = FALSE
  /\ want = None /\ epoch = 0 /\ restarted = 0
  /\ requests = 0 /\ crashes = 0

-----------------------------------------------------------------------------
(* The daemon gives the machine the state of its row.  One that was never  *)
(* stored is built anew, without a chain.                                  *)
Loaded == [state |-> status, exe |-> IF machine = None THEN None ELSE machine.exe]

(* The row is written first, then the machine; a crash loses the rest.     *)
Saves(r, m) ==
  \/ /\ status' = r.status /\ bps' = r.bps /\ cluster' = r.cluster
     /\ machine' = m
     /\ UNCHANGED crashes
  \/ /\ crashes < MaxCrashes /\ crashes' = crashes + 1
     /\ status' = r.status /\ bps' = r.bps /\ cluster' = r.cluster
     /\ UNCHANGED machine
  \/ /\ crashes < MaxCrashes /\ crashes' = crashes + 1
     /\ UNCHANGED <<row, machine>>

Becomes(s)      == [status |-> s, bps |-> bps, cluster |-> cluster]
MovedTo(m, s)   == [m EXCEPT !.state = s]
Fails(b)        == Saves([Becomes("failed") EXCEPT !.bps = b], MovedTo(Loaded, "failed"))

(* The machine's list of templates may still be that of a restart, with    *)
(* which preparing must fail.                                              *)
Renderable == Loaded.exe \in {None, Bare, 0}

(* Preparing may fail before there is a new chain, before that has its     *)
(* launcher, or with some of the files.                                    *)
Unprepared ==
  \/ Fails(bps) /\ UNCHANGED <<disk, restarted>>
  \/ /\ disk' = NoDisk /\ restarted' = 0
     /\ Saves(Becomes("failed"), [state |-> "failed", exe |-> Bare])
  \/ /\ Renderable
     /\ disk' \in {NoDisk, Rendered, [Rendered EXCEPT !.scripts = {}], [Rendered EXCEPT !.sub = None]}
     /\ Saves(Becomes("failed"), [state |-> "failed", exe |-> 0])
     /\ restarted' = 0

(* History: the group is ready for a submission or a restart, if its row   *)
(* says so.                                                                *)
ReadyFor(w) ==
  IF status' # status THEN want' = w /\ epoch' = epoch + 1 ELSE UNCHANGED <<want, epoch>>

(* The daemon prepares a waiting group: a new chain, a new artifact        *)
(* directory, then the files.                                              *)
Prepare ==
  /\ status = "waiting"
  /\ \/ /\ Renderable
        /\ disk' = Rendered
        /\ Saves(Becomes("ready"), [state |-> "ready", exe |-> 0])
        /\ ReadyFor("submit") /\ restarted' = 0
     \/ /\ Unprepared
        /\ UNCHANGED <<want, epoch>>
  /\ UNCHANGED <<world, requests>>

(* The launcher wants a submit file, and the executable it names.          *)
Launchable ==
  /\ Loaded.exe \in Nat
  /\ disk.sub \in disk.scripts

Start ==
  /\ status = "ready"
  /\ \/ /\ Launchable
        /\ jobs' = Append(jobs, [script |-> disk.sub, state |-> "queued"])
        /\ Saves([Becomes("running") EXCEPT !.cluster = Len(jobs) + 1], MovedTo(Loaded, "running"))
     \/ Fails(bps) /\ UNCHANGED jobs
  /\ UNCHANGED <<disk, payload, strayed, history, requests>>

-----------------------------------------------------------------------------
Begun == [state |-> "RUNNING", pipetaskInit |-> "PENDING", finalJob |-> "PENDING", held |-> FALSE]

(* The launched script runs, when HTCondor gets to it, as it is on disk.   *)
(* Submitting creates a submit directory and prints its name; going on     *)
(* with a workflow prints to a file of its own.                            *)
JobRuns(i) ==
  /\ i \in DOMAIN jobs /\ jobs[i].state \in {"queued", "held"}
  /\ \/ /\ jobs[i].script = 0 /\ 0 \in disk.scripts
        /\ payload' = [j \in DOMAIN payload \cup {i} |->
                         IF j = i THEN [report |-> Begun, epoch |-> epoch] ELSE payload[j]]
        /\ disk' = [disk EXCEPT !.stdout = i, !.dirs = @ \cup {i}]
        /\ jobs' = [jobs EXCEPT ![i].state = IF @ = "held" THEN "bad" ELSE "good"]
     \/ /\ jobs[i].script = 1 /\ 1 \in disk.scripts
        /\ disk.target \in disk.dirs /\ payload[disk.target].report.state # "RUNNING"
        /\ payload' = [payload EXCEPT ![disk.target] = [report |-> Begun, epoch |-> epoch]]
        /\ jobs' = [jobs EXCEPT ![i].state = IF @ = "held" THEN "bad" ELSE "good"]
        /\ UNCHANGED disk
     \/ /\ jobs' = [jobs EXCEPT ![i].state = "bad"]
        /\ \/ UNCHANGED disk
           \/ jobs[i].script = 0 /\ 0 \in disk.scripts /\ disk' = [disk EXCEPT !.stdout = None]
        /\ UNCHANGED payload
  /\ strayed' = (strayed \/ i # cluster)
  /\ UNCHANGED <<row, machine, history, requests, crashes>>

(* HTCondor holds the job; whoever releases it lets it run after all, but  *)
(* the event log keeps the hold.  Holds of other jobs are not read.        *)
JobHeld(i) ==
  /\ i = cluster /\ status = "running"
  /\ jobs[i].state = "queued"
  /\ jobs' = [jobs EXCEPT ![i].state = "held"]
  /\ UNCHANGED <<row, machine, disk, payload, strayed, history, requests, crashes>>

PayloadEnds(p) ==
  /\ p \in DOMAIN payload /\ payload[p].report.state = "RUNNING"
  /\ \E r \in Endings : payload' = [payload EXCEPT ![p].report = r]
  /\ UNCHANGED <<row, machine, disk, jobs, strayed, history, requests, crashes>>

(* status_from_bps_report: the status a report stands for.                 *)
StatusFromReport(r) ==
  CASE r.held -> "blocked"
    [] ~r.held /\ r.pipetaskInit = "FAILED" -> "failed"
    [] OTHER ->
         CASE r.state = "RUNNING"   -> "running"
           [] r.state = "SUCCEEDED" -> "accepted"
           [] r.state = "FAILED"    -> IF r.finalJob = "SUCCEEDED" THEN "accepted" ELSE "reviewable"
           [] OTHER -> "failed"

WrongReport(b) ==
  IF b \notin disk.dirs THEN "raises"
  ELSE IF payload[b].report.state = "SUCCEEDED" THEN "done" ELSE "running"

(* check_bps_report: a workflow that runs is not asked further, one that   *)
(* failed or was deleted fails the group whatever status it stands for.    *)
Report(b) ==
  IF b \notin disk.dirs THEN "raises"
  ELSE LET r == payload[b].report
       IN  CASE r.state = "RUNNING" -> "running"
             [] /\ r.state \notin {"RUNNING", "FAILED", "DELETED"}
                /\ StatusFromReport(r) \in {"accepted", "reviewable"} -> "done"
             [] OTHER -> "raises"

WrongLauncher == IF jobs[cluster].state \in {"bad", "held"} THEN "raises" ELSE "done"

(* The event log of the job the row knows, read from its beginning: one    *)
(* hold, and the job counts as failed, though it may have gone on since.   *)
Launcher ==
  CASE jobs[cluster].state = "queued" -> "running"
    [] jobs[cluster].state = "good"   -> "done"
    [] OTHER -> "raises"

(* The daemon's finish: first the launcher, then what bps has printed, and *)
(* only then the report.                                                   *)
Nothing  == 0
Captured == IF disk.stdout = None THEN Nothing ELSE disk.stdout

Verdict ==
  IF Loaded.exe \notin Nat \/ Launcher = "raises" THEN [is |-> "raises", bps |-> bps]
  ELSE IF Launcher = "running" THEN [is |-> "running", bps |-> bps]
  ELSE [is |-> IF Captured = Nothing THEN "running" ELSE Report(Captured), bps |-> Captured]

Finish ==
  /\ status = "running"
  /\ CASE Verdict.is = "done" ->
            Saves([Becomes("accepted") EXCEPT !.bps = Verdict.bps], MovedTo(Loaded, "accepted"))
       [] Verdict.is = "raises" -> Fails(Verdict.bps)
       [] OTHER -> bps' = Verdict.bps /\ UNCHANGED <<status, cluster, machine, crashes>>
  /\ UNCHANGED <<disk, world, history, requests>>

-----------------------------------------------------------------------------
(* Users                                                                   *)
Asks(from) ==
  /\ status \in from
  /\ machine # None
  /\ requests < MaxRequests /\ requests' = requests + 1

WrongRetried(d) == [d EXCEPT !.dirs = {}]

(* Retry: the logs of the last submission are removed, its submit          *)
(* directory is moved away.  A chain, with or without a launcher, is all   *)
(* it takes.                                                               *)
Retried(d) == [d EXCEPT !.stdout = None, !.dirs = {}]

Retry ==
  /\ Asks({"failed"})
  /\ machine.state = "failed" /\ machine.exe # None
  /\ disk' = Retried(disk)
  /\ Saves([Becomes("ready") EXCEPT !.bps = None], MovedTo(machine, "ready"))
  /\ ReadyFor("submit")
  /\ UNCHANGED <<world, restarted>>

WrongRestarted(d, x) == [d EXCEPT !.scripts = @ \cup {1}, !.target = bps]

(* Restart: render a script that goes on with the known workflow, and let  *)
(* the submit file name the executable of the chain.                       *)
Restarted(d, x) == [d EXCEPT !.scripts = @ \cup {1}, !.target = bps, !.sub = x]

Restart ==
  /\ Asks({"failed"})
  /\ machine.state = "failed" /\ machine.exe \in Nat
  /\ bps \in disk.dirs
  /\ disk' = Restarted(disk, machine.exe + 1)
  /\ Saves(Becomes("ready"), [state |-> "ready", exe |-> machine.exe + 1])
  /\ ReadyFor("restart")
  /\ restarted' = restarted + 1
  /\ UNCHANGED world

(* Reset: remove what was prepared, if the machine knows of it.            *)
Reset ==
  /\ Asks({"failed"})
  /\ machine.state = "failed"
  /\ disk' = IF machine.exe = None THEN disk ELSE NoDisk
  /\ Saves([Becomes("waiting") EXCEPT !.bps = None], [state |-> "waiting", exe |-> None])
  /\ UNCHANGED <<world, history>>

(* Fail or force-accept the group; nothing is cancelled.                   *)
Decide(s) ==
  /\ Asks(Status \ {s})
  /\ Saves(Becomes(s), MovedTo(machine, s))
  /\ UNCHANGED <<disk, world, history>>

-----------------------------------------------------------------------------
Next ==
  \/ Prepare \/ Start \/ Finish
  \/ Retry \/ Restart \/ Reset
  \/ \E s \in {"failed", "accepted"} : Decide(s)
  \/ \E i \in DOMAIN jobs : JobRuns(i) \/ JobHeld(i) \/ PayloadEnds(i)

Spec == Init /\ [][Next]_vars

MaxJobs == 1 + MaxRequests + MaxCrashes

(* The daemon visits a running campaign's node in every iteration, and the *)
(* batch system gets to every job it does not hold and ends every workflow. *)
Fairness ==
  /\ WF_vars(Prepare) /\ WF_vars(Start) /\ WF_vars(Finish)
  /\ \A i \in 1..MaxJobs : WF_vars(i \in DOMAIN jobs /\ jobs[i].state = "queued" /\ JobRuns(i)) /\ WF_vars(PayloadEnds(i))

FairSpec == Spec /\ Fairness

-----------------------------------------------------------------------------
(* Types, and: the row names jobs and workflows that were really there,    *)
(* and what bps has printed names a directory that still is.               *)
GroupTypeOK ==
  /\ status \in {"waiting", "ready", "running", "accepted", "failed"}
  /\ bps \in DOMAIN payload \cup {None, Nothing}
  /\ cluster \in 0..Len(jobs) /\ Len(jobs) <= MaxJobs
  /\ status = "running" => cluster > 0
  /\ machine = None \/ (machine.state \in Status /\ machine.exe \in Nat \cup {None, Bare})
  /\ disk.scripts \subseteq {0, 1}
  /\ disk.dirs \subseteq DOMAIN payload /\ disk.stdout \in disk.dirs \cup {None}
  /\ DOMAIN payload \subseteq {i \in DOMAIN jobs : jobs[i].script = 0 /\ jobs[i].state \in {"good", "bad"}}

(* A group is not accepted by the report of a workflow that ran before it  *)
(* was retried or restarted, although that report, its directory and the   *)
(* printed name of the directory may all still be there; unless a job ran  *)
(* that the row did not, or no longer, know.                               *)
FinishesOnFreshReport ==
  [][status = "running" /\ Finish /\ status' = "accepted" /\ ~strayed
       => payload[bps'].report.state = "SUCCEEDED" /\ payload[bps'].epoch = epoch]_vars

(* What is launched is what the group became ready for, whatever crashed   *)
(* in between: a new submission after prepare or retry, the old workflow   *)
(* after restart.  A retry after a restart is the exception.               *)
LaunchesAsAsked ==
  [][Len(jobs') > Len(jobs) /\ (want = "submit" => restarted = 0)
       => jobs'[Len(jobs')].script = IF want = "submit" THEN 0 ELSE 1]_vars

(* The exception: "retry from scratch (new bps submit)", says do_retry,    *)
(* but after a restart the submit file still names the script of the       *)
(* restart.  The code does not keep this, and no run asks for it.          *)
RetriesSubmitAnew ==
  [][Len(jobs') > Len(jobs) /\ want = "submit" => jobs'[Len(jobs')].script = 0]_vars

(* A running group comes to an end, whatever becomes of its job and its    *)
(* workflow, and whatever was lost with a crash.                           *)
RunningGroupsSettle ==
  (status = "running" /\ ~strayed) ~> (status # "running" \/ strayed)
=============================================================================
