------------------------- MODULE ScheduledCampaigns -------------------------
(***************************************************************************)
(* Campaigns that start by the clock.  A schedule is a row that users edit *)
(* through the API.  The daemon lists the enabled ones in each iteration   *)
(* and sets up a job for each in a scheduler that lives in its memory; the *)
(* job, when it fires, reads the schedule again, renders its templates to  *)
(* a campaign whose name ends in the date, and writes back what it did.    *)
(* A one-shot run does the same in the API process for a schedule that is  *)
(* disabled.  Nobody tells the scheduler that a schedule was disabled or   *)
(* deleted: a job finds out when it fires.                                 *)
(***************************************************************************)
EXTENDS Naturals, FiniteSets

CONSTANTS
  Schedules,
  CronsOf,      \* the crons users may give a schedule
  Unsupported,  \* crons the API accepts and the scheduler cannot parse
  NameOf,       \* the campaign name in the templates of a schedule
  Days,         \* what the name is completed with
  MaxTroubles,  \* requests that change rows, and ends of processes, together
  Editable,     \* the schedules those requests are for
  None

Crons     == UNION {CronsOf[s] : s \in Schedules}
Kinds     == {"job", "oneshot"}
Runs      == Schedules \X Kinds
Campaigns == {NameOf[s] : s \in Schedules} \X Days

ASSUME ScheduleAssumption ==
  /\ DOMAIN CronsOf = Schedules
  /\ None \notin Crons \cup Schedules
  /\ MaxTroubles \in Nat /\ Editable \subseteq Schedules

VARIABLES
  state,     \* of each row: absent, enabled, disabled or deleted
  cron,      \* its cron
  last,      \* the campaign its metadata links to
  campaigns, \* who made each campaign
  up,        \* whether the daemon process is there
  jobs,      \* the cron of the job the scheduler has for a schedule
  listed,    \* the enabled schedules the iteration has read, with their crons
  run,       \* the runs in progress
  patch,     \* the PATCH in progress: what it has read and what it will set
  edits, crashes

tables  == <<state, cron, last, campaigns>>
process == <<up, jobs, listed>>
bounds  == <<edits, crashes>>
vars    == <<tables, process, run, patch, bounds>>

There(s)  == state[s] \in {"enabled", "disabled"}
Enabled   == {s \in Schedules : state[s] = "enabled"}
Ended(r)  == [run EXCEPT ![r] = None]

-----------------------------------------------------------------------------
Init ==
  /\ state = [s \in Schedules |-> "absent"]
  /\ cron = [s \in Schedules |-> None]
  /\ last = [s \in Schedules |-> None]
  /\ campaigns = [n \in Campaigns |-> None]
  /\ up = TRUE
  /\ jobs = [s \in Schedules |-> None]
  /\ listed = None
  /\ run = [r \in Runs |-> None]
  /\ patch = None
  /\ edits = 0 /\ crashes = 0

(* Users create a schedule, enabled or not.                                *)
Create(s) ==
  /\ state[s] = "absent"
  /\ \E st \in {"enabled", "disabled"}, c \in CronsOf[s] :
       state' = [state EXCEPT ![s] = st] /\ cron' = [cron EXCEPT ![s] = c]
  /\ UNCHANGED <<last, campaigns, process, run, patch, bounds>>

(* A PATCH reads the row, sets some columns and its own entry in the       *)
(* metadata, whose column it writes back whole.                            *)
PatchReads(s) ==
  /\ patch = None /\ There(s) /\ s \in Editable /\ edits + crashes < MaxTroubles
  /\ \E st \in {"enabled", "disabled"}, c \in CronsOf[s] :
       patch' = [row |-> s, state |-> st, cron |-> c, last |-> last[s]]
  /\ edits' = edits + 1
  /\ UNCHANGED <<tables, process, run, crashes>>

PatchCommits ==
  /\ patch # None
  /\ IF There(patch.row)
     THEN /\ state' = [state EXCEPT ![patch.row] = patch.state]
          /\ cron' = [cron EXCEPT ![patch.row] = patch.cron]
          /\ last' = [last EXCEPT ![patch.row] = patch.last]
     ELSE UNCHANGED <<state, cron, last>>
  /\ patch' = None
  /\ UNCHANGED <<campaigns, process, run, bounds>>

Delete(s) ==
  /\ There(s) /\ s \in Editable /\ edits + crashes < MaxTroubles
  /\ state' = [state EXCEPT ![s] = "deleted"]
  /\ edits' = edits + 1
  /\ UNCHANGED <<cron, last, campaigns, process, run, patch, crashes>>

(* A one-shot run is refused for an enabled schedule; what is accepted     *)
(* runs in a background task, later.                                       *)
AskOneShot(s) ==
  /\ state[s] = "disabled"
  /\ run[<<s, "oneshot">>] = None
  /\ run' = [run EXCEPT ![<<s, "oneshot">>] = [phase |-> "starts"]]
  /\ UNCHANGED <<tables, process, patch, bounds>>

-----------------------------------------------------------------------------
(* The daemon's part of a process end: its jobs and their runs are gone.   *)
WrongStops ==
  /\ up' = FALSE /\ listed' = None
  /\ jobs' = [s \in Schedules |-> None]
  /\ UNCHANGED run

Stops ==
  /\ up' = FALSE /\ listed' = None
  /\ jobs' = [s \in Schedules |-> None]
  /\ run' = [r \in Runs |-> IF r[2] = "job" THEN None ELSE run[r]]

(* Each iteration lists the enabled schedules ...                          *)
ConsiderReads ==
  /\ up /\ listed = None
  /\ listed' = [s \in Enabled |-> cron[s]]
  /\ UNCHANGED <<tables, up, jobs, run, patch, bounds>>

WrongScheduled(s) == IF jobs[s] # None THEN jobs[s] ELSE listed[s]

(* The job is added, or gets the cron the schedule has now.                *)
Scheduled(s) == listed[s]

(* ... and sets up their jobs, in whatever state the rows are by then.  A  *)
(* cron the scheduler cannot parse ends the iteration, and the daemon.     *)
ConsiderSets ==
  /\ up /\ listed # None
  /\ IF \E s \in DOMAIN listed : listed[s] \in Unsupported
     THEN Stops
     ELSE /\ jobs' = [s \in Schedules |-> IF s \in DOMAIN listed THEN Scheduled(s) ELSE jobs[s]]
          /\ listed' = None
          /\ UNCHANGED <<up, run>>
  /\ UNCHANGED <<tables, patch, bounds>>

(* The time of a job has come; it does not run twice at once.              *)
Fires(s) ==
  /\ up /\ jobs[s] # None
  /\ run[<<s, "job">>] = None
  /\ run' = [run EXCEPT ![<<s, "job">>] = [phase |-> "starts"]]
  /\ UNCHANGED <<tables, process, patch, bounds>>

WrongAfterReading(r) ==
  IF state[r[1]] = "enabled" \/ (There(r[1]) /\ r[2] = "oneshot")
  THEN [phase |-> "renders"] ELSE None

(* A run reads its schedule.  A job that finds it disabled asks to be      *)
(* removed; one that does not find it at all is left where it is.          *)
AfterReading(r) ==
  CASE ~There(r[1]) -> None
    [] state[r[1]] = "disabled" /\ r[2] = "job" -> [phase |-> "retires"]
    [] OTHER -> [phase |-> "renders"]

RunReads(r) ==
  /\ run[r] # None /\ run[r].phase = "starts"
  /\ run' = [run EXCEPT ![r] = AfterReading(r)]
  /\ UNCHANGED <<tables, process, patch, bounds>>

(* The scheduler's listener removes the job, whoever has set it up since.  *)
JobRetires(r) ==
  /\ run[r] # None /\ run[r].phase = "retires"
  /\ jobs' = [jobs EXCEPT ![r[1]] = None]
  /\ run' = Ended(r)
  /\ UNCHANGED <<tables, up, listed, patch, bounds>>

(* The templates may not render.                                           *)
RenderFails(r) ==
  /\ run[r] # None /\ run[r].phase = "renders"
  /\ run' = Ended(r)
  /\ UNCHANGED <<tables, process, patch, bounds>>

WrongCreated(r, n) == [phase |-> "records", campaign |-> n]

(* A campaign of that name is a conflict, and the end of the run: even     *)
(* when the exception is suppressed the session cannot be used any more.   *)
Created(r, n) ==
  IF campaigns[n] = None THEN [phase |-> "records", campaign |-> n] ELSE None

RunCreates(r, d) ==
  LET n == <<NameOf[r[1]], d>>
  IN  /\ run[r] # None /\ run[r].phase = "renders"
      /\ campaigns' = [campaigns EXCEPT ![n] = IF @ = None THEN r[1] ELSE @]
      /\ run' = [run EXCEPT ![r] = Created(r, n)]
      /\ UNCHANGED <<state, cron, last, process, patch, bounds>>

(* The run links the campaign from the schedule, if that is still there.   *)
RunRecords(r) ==
  /\ run[r] # None /\ run[r].phase = "records"
  /\ last' = IF There(r[1]) THEN [last EXCEPT ![r[1]] = run[r].campaign] ELSE last
  /\ run' = Ended(r)
  /\ UNCHANGED <<state, cron, campaigns, process, patch, bounds>>

-----------------------------------------------------------------------------
DaemonCrash ==
  /\ up /\ edits + crashes < MaxTroubles
  /\ Stops
  /\ crashes' = crashes + 1
  /\ UNCHANGED <<tables, patch, edits>>

(* Its health route fails once the daemon's task has ended, and whoever    *)
(* runs the service restarts it.                                           *)
Restart ==
  /\ ~up
  /\ up' = TRUE
  /\ UNCHANGED <<tables, jobs, listed, run, patch, bounds>>

ApiCrash ==
  /\ edits + crashes < MaxTroubles
  /\ patch # None \/ \E s \in Schedules : run[<<s, "oneshot">>] # None
  /\ patch' = None
  /\ run' = [r \in Runs |-> IF r[2] = "oneshot" THEN None ELSE run[r]]
  /\ crashes' = crashes + 1
  /\ UNCHANGED <<tables, process, edits>>

Users   == PatchCommits \/ \E s \in Schedules : Create(s) \/ PatchReads(s) \/ Delete(s) \/ AskOneShot(s)
Running(r) == RunReads(r) \/ JobRetires(r) \/ RenderFails(r) \/ RunRecords(r)
              \/ \E d \in Days : RunCreates(r, d)

Next ==
  \/ Users \/ ConsiderReads \/ ConsiderSets \/ Restart \/ DaemonCrash \/ ApiCrash
  \/ \E s \in Schedules : Fires(s)
  \/ \E r \in Runs : Running(r)

Spec == Init /\ [][Next]_vars

(* The daemon iterates and is restarted, every cron comes round again, and *)
(* the event loop goes on with the runs.                                   *)
Fairness ==
  /\ WF_vars(ConsiderReads) /\ WF_vars(ConsiderSets) /\ WF_vars(Restart)
  /\ WF_vars(PatchCommits)
  /\ \A s \in Schedules : WF_vars(Fires(s))
  /\ \A r \in Runs : WF_vars(Running(r))

FairSpec == Spec /\ Fairness

-----------------------------------------------------------------------------
(* Types, and: without a daemon there are neither jobs nor runs of jobs.   *)
ScheduleTypeOK ==
  /\ state \in [Schedules -> {"absent", "enabled", "disabled", "deleted"}]
  /\ cron \in [Schedules -> Crons \cup {None}]
  /\ last \in [Schedules -> Campaigns \cup {None}]
  /\ campaigns \in [Campaigns -> Schedules \cup {None}]
  /\ up \in BOOLEAN /\ jobs \in [Schedules -> Crons \cup {None}]
  /\ listed = None \/ (DOMAIN listed \subseteq Schedules /\ \A s \in DOMAIN listed : listed[s] \in Crons)
  /\ \A r \in Runs : \/ run[r] = None
                     \/ run[r].phase \in {"starts", "retires", "renders"}
                     \/ run[r].phase = "records" /\ run[r].campaign \in Campaigns
  /\ ~up => \A s \in Schedules : jobs[s] = None /\ run[<<s, "job">>] = None
  /\ edits + crashes \in 0..MaxTroubles

(* The campaign a schedule links to (the Last-Campaign header) is one that *)
(* it has made itself, though schedules may share names, runs may meet an  *)
(* existing campaign, and a PATCH may write back an older link.            *)
LinkedCampaignIsOurs ==
  \A s \in Schedules : last[s] # None => campaigns[last[s]] = s

(* A schedule that stays enabled has, from some time on, a job with its    *)
(* own cron, whatever was edited, retired or lost before: as long as no    *)
(* enabled schedule has a cron that ends the daemon.                       *)
EnabledSchedulesAreServed ==
  \A s \in Schedules :
    <>[](s \in Enabled /\ \A t \in Enabled : cron[t] \notin Unsupported) => <>[](jobs[s] = cron[s])

(* The job of a schedule that stays disabled goes away for good, although  *)
(* an iteration may add it once more from the list it has read before.     *)
DisabledSchedulesRetire ==
  \A s \in Schedules : <>[](state[s] = "disabled") => <>[](jobs[s] = None)
=============================================================================
