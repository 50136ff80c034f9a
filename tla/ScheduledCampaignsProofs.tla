---------------------- MODULE ScheduledCampaignsProofs ----------------------
(***************************************************************************)
(* Type correctness of ScheduledCampaigns, and that a schedule links only  *)
(* to campaigns it has made: for any schedules, crons and names, whichever *)
(* of them are shared, and any number of edits and crashes.                *)
(***************************************************************************)
EXTENDS ScheduledCampaigns, TLAPS

USE ScheduleAssumption

States    == {"absent", "enabled", "disabled", "deleted"}
RunStates == [phase : {"starts", "retires", "renders"}]
             \cup [phase : {"records"}, campaign : Campaigns]
Patches   == [row : Schedules, state : {"enabled", "disabled"}, cron : Crons,
              last : Campaigns \cup {None}]

-----------------------------------------------------------------------------
(* What the types rest on, besides themselves.                             *)
RowsTyped ==
  /\ state \in [Schedules -> States]
  /\ cron \in [Schedules -> Crons \cup {None}]
  /\ last \in [Schedules -> Campaigns \cup {None}]
  /\ campaigns \in [Campaigns -> Schedules \cup {None}]
  /\ \A s \in Schedules : state[s] # "absent" => cron[s] \in Crons

ProcessTyped ==
  /\ up \in BOOLEAN /\ jobs \in [Schedules -> Crons \cup {None}]
  /\ \/ listed = None
     \/ DOMAIN listed \subseteq Schedules /\ \A s \in DOMAIN listed : listed[s] \in Crons

RunsTyped  == run \in [Runs -> RunStates \cup {None}]
PatchTyped == patch \in Patches \cup {None}
Bounded    == edits \in Nat /\ crashes \in Nat /\ edits + crashes <= MaxTroubles
Quiet      == ~up => \A s \in Schedules : jobs[s] = None /\ run[<<s, "job">>] = None

Typed == RowsTyped /\ ProcessTyped /\ RunsTyped /\ PatchTyped /\ Bounded /\ Quiet

LEMMA TypedIsScheduleTypeOK == Typed => ScheduleTypeOK
<1>1. SUFFICES ASSUME Typed PROVE ScheduleTypeOK
  OBVIOUS
<1>2. \A r \in Runs : \/ run[r] = None
                      \/ run[r].phase \in {"starts", "retires", "renders"}
                      \/ run[r].phase = "records" /\ run[r].campaign \in Campaigns
  BY <1>1 DEF Typed, RunsTyped, RunStates
<1>3. edits + crashes \in 0..MaxTroubles
  BY <1>1 DEF Typed, Bounded
<1>4. QED
  BY <1>1, <1>2, <1>3
     DEF Typed, RowsTyped, ProcessTyped, Quiet, States, ScheduleTypeOK

LEMMA TypedInitially == Init => Typed
<1>1. ASSUME Init PROVE RowsTyped /\ ProcessTyped /\ PatchTyped /\ Bounded
  BY <1>1 DEF Init, RowsTyped, ProcessTyped, PatchTyped, Bounded, States
<1>2. ASSUME Init PROVE RunsTyped /\ Quiet
  BY <1>2 DEF Init, RunsTyped, Quiet
<1>3. QED
  BY <1>1, <1>2 DEF Typed

(* A run that goes on is one of a daemon that is there, or of the API.     *)
LEMMA RunGoesOn ==
  ASSUME Typed, NEW r \in Runs, run[r] # None, NEW x \in RunStates \cup {None},
         run' = [run EXCEPT ![r] = x], UNCHANGED up,
         \A s \in Schedules : jobs[s] = None => jobs'[s] = None
  PROVE  RunsTyped' /\ Quiet'
<1>1. RunsTyped'
  BY DEF Typed, RunsTyped
<1>2. ASSUME ~up, NEW s \in Schedules PROVE run'[<<s, "job">>] = None
  <2>1. <<s, "job">> \in Runs /\ run[<<s, "job">>] = None
    BY <1>2 DEF Typed, Quiet, Runs, Kinds
  <2>2. QED
    BY <2>1 DEF Typed, RunsTyped
<1>3. QED
  BY <1>1, <1>2 DEF Typed, Quiet

(* The users' requests.                                                    *)
LEMMA UsersKeepTyped == ASSUME Typed, Users PROVE Typed'
<1>1. ASSUME PatchCommits PROVE Typed'
  <2>1. RowsTyped'
    <3>1. CASE There(patch.row)
      <4>1. patch \in Patches
        BY <1>1 DEF PatchCommits, Typed, PatchTyped
      <4>2. state' \in [Schedules -> States] /\ cron' \in [Schedules -> Crons \cup {None}]
            /\ last' \in [Schedules -> Campaigns \cup {None}] /\ campaigns' = campaigns
        BY <1>1, <3>1, <4>1 DEF PatchCommits, Typed, RowsTyped, Patches, States
      <4>3. \A s \in Schedules : state'[s] # "absent" => cron'[s] \in Crons
        BY <1>1, <3>1, <4>1 DEF PatchCommits, Typed, RowsTyped, Patches, States
      <4>4. QED
        BY <4>2, <4>3 DEF Typed, RowsTyped
    <3>2. CASE ~There(patch.row)
      BY <1>1, <3>2 DEF PatchCommits, Typed, RowsTyped
    <3>3. QED
      BY <3>1, <3>2
  <2>2. QED
    BY <1>1, <2>1
       DEF PatchCommits, process, bounds, Typed, ProcessTyped, RunsTyped, PatchTyped, Bounded, Quiet
<1>2. ASSUME NEW s \in Schedules, Create(s) PROVE Typed'
  <2>1. CronsOf[s] \subseteq Crons
    BY DEF Crons
  <2>2. RowsTyped'
    BY <1>2, <2>1 DEF Create, Typed, RowsTyped, States
  <2>3. QED
    BY <1>2, <2>2
       DEF Create, process, bounds, Typed, ProcessTyped, RunsTyped, PatchTyped, Bounded, Quiet
<1>3. ASSUME NEW s \in Schedules, PatchReads(s) PROVE Typed'
  <2>1. CronsOf[s] \subseteq Crons /\ last[s] \in Campaigns \cup {None}
    BY DEF Crons, Typed, RowsTyped
  <2>2. PatchTyped'
    BY <1>3, <2>1 DEF PatchReads, PatchTyped, Patches
  <2>3. Bounded'
    BY <1>3 DEF PatchReads, Typed, Bounded
  <2>4. QED
    BY <1>3, <2>2, <2>3
       DEF PatchReads, tables, process, Typed, RowsTyped, ProcessTyped, RunsTyped, Quiet
<1>4. ASSUME NEW s \in Schedules, Delete(s) PROVE Typed'
  <2>1. RowsTyped'
    BY <1>4 DEF Delete, There, Typed, RowsTyped, States
  <2>2. Bounded'
    BY <1>4 DEF Delete, Typed, Bounded
  <2>3. QED
    BY <1>4, <2>1, <2>2
       DEF Delete, process, Typed, ProcessTyped, RunsTyped, PatchTyped, Quiet
<1>5. ASSUME NEW s \in Schedules, AskOneShot(s) PROVE Typed'
  <2>1. <<s, "oneshot">> \in Runs /\ [phase |-> "starts"] \in RunStates
    BY DEF Runs, Kinds, RunStates
  <2>2. RunsTyped'
    BY <1>5, <2>1 DEF AskOneShot, Typed, RunsTyped
  <2>3. \A t \in Schedules : run'[<<t, "job">>] = run[<<t, "job">>]
    <3>1. \A t \in Schedules : <<t, "job">> \in Runs /\ <<t, "job">> # <<s, "oneshot">>
      BY DEF Runs, Kinds
    <3>2. QED
      BY <1>5, <3>1 DEF AskOneShot, Typed, RunsTyped
  <2>4. QED
    BY <1>5, <2>2, <2>3
       DEF AskOneShot, tables, process, bounds, Typed, RowsTyped, ProcessTyped, PatchTyped,
           Bounded, Quiet
<1>6. QED
  BY <1>1, <1>2, <1>3, <1>4, <1>5 DEF Users

(* The daemon's iterations and the ends of processes.                      *)
LEMMA StopsKeepsTyped ==
  ASSUME Typed, Stops
  PROVE  ProcessTyped' /\ RunsTyped' /\ Quiet'
<1>1. ProcessTyped'
  BY DEF Stops, ProcessTyped
<1>2. RunsTyped'
  BY DEF Stops, Typed, RunsTyped
<1>3. \A s \in Schedules : jobs'[s] = None /\ run'[<<s, "job">>] = None
  <2>1. \A s \in Schedules : <<s, "job">> \in Runs /\ <<s, "job">>[2] = "job"
    BY DEF Runs, Kinds
  <2>2. QED
    BY <2>1 DEF Stops
<1>4. QED
  BY <1>1, <1>2, <1>3 DEF Quiet

LEMMA ProcessesKeepTyped ==
  ASSUME Typed,
         ConsiderReads \/ ConsiderSets \/ Restart \/ DaemonCrash \/ ApiCrash
  PROVE  Typed'
<1>1. ASSUME ConsiderReads PROVE Typed'
  <2>1. \A s \in Enabled : s \in Schedules /\ cron[s] \in Crons
    BY DEF Enabled, Typed, RowsTyped
  <2>2. ProcessTyped'
    BY <1>1, <2>1 DEF ConsiderReads, Typed, ProcessTyped
  <2>3. QED
    BY <1>1, <2>2
       DEF ConsiderReads, tables, bounds, Typed, RowsTyped, RunsTyped, PatchTyped, Bounded, Quiet
<1>2. ASSUME ConsiderSets PROVE Typed'
  <2>1. RowsTyped' /\ PatchTyped' /\ Bounded'
    BY <1>2 DEF ConsiderSets, tables, bounds, Typed, RowsTyped, PatchTyped, Bounded
  <2>2. CASE Stops
    BY <2>1, <2>2, StopsKeepsTyped DEF Typed
  <2>3. CASE ~Stops
    <3>1. /\ jobs' = [s \in Schedules |-> IF s \in DOMAIN listed THEN Scheduled(s) ELSE jobs[s]]
          /\ listed' = None /\ up /\ up' = up /\ run' = run /\ listed # None
      BY <1>2, <2>3 DEF ConsiderSets
    <3>2. \A s \in DOMAIN listed : listed[s] \in Crons
      BY <3>1 DEF Typed, ProcessTyped
    <3>3. ProcessTyped'
      BY <3>1, <3>2 DEF Scheduled, Typed, ProcessTyped
    <3>4. RunsTyped' /\ Quiet'
      BY <3>1 DEF Typed, RunsTyped, Quiet
    <3>5. QED
      BY <2>1, <3>3, <3>4 DEF Typed
  <2>4. QED
    BY <2>2, <2>3
<1>3. ASSUME Restart PROVE Typed'
  BY <1>3
     DEF Restart, tables, bounds, Typed, RowsTyped, ProcessTyped, RunsTyped, PatchTyped, Bounded, Quiet
<1>4. ASSUME DaemonCrash PROVE Typed'
  <2>1. RowsTyped' /\ PatchTyped' /\ Bounded'
    BY <1>4 DEF DaemonCrash, tables, Typed, RowsTyped, PatchTyped, Bounded
  <2>2. QED
    BY <1>4, <2>1, StopsKeepsTyped DEF DaemonCrash, Typed
<1>5. ASSUME ApiCrash PROVE Typed'
  <2>1. RowsTyped' /\ ProcessTyped' /\ PatchTyped' /\ Bounded'
    BY <1>5 DEF ApiCrash, tables, process, Typed, RowsTyped, ProcessTyped, PatchTyped, Bounded
  <2>2. RunsTyped'
    BY <1>5 DEF ApiCrash, Typed, RunsTyped
  <2>3. \A s \in Schedules : run'[<<s, "job">>] = run[<<s, "job">>]
    <3>1. \A s \in Schedules : <<s, "job">> \in Runs /\ <<s, "job">>[2] # "oneshot"
      BY DEF Runs, Kinds
    <3>2. QED
      BY <1>5, <3>1 DEF ApiCrash
  <2>4. Quiet'
    BY <1>5, <2>3 DEF ApiCrash, process, Typed, Quiet
  <2>5. QED
    BY <2>1, <2>2, <2>4 DEF Typed
<1>6. QED
  BY <1>1, <1>2, <1>3, <1>4, <1>5

(* The runs.                                                               *)
LEMMA RunsKeepTyped ==
  ASSUME Typed,
         \/ \E s \in Schedules : Fires(s)
         \/ \E r \in Runs : Running(r)
  PROVE  Typed'
<1> USE DEF RunStates
<1>1. ASSUME NEW s \in Schedules, Fires(s) PROVE Typed'
  <2>1. <<s, "job">> \in Runs /\ [phase |-> "starts"] \in RunStates
    BY DEF Runs, Kinds
  <2>2. RunsTyped'
    BY <1>1, <2>1 DEF Fires, Typed, RunsTyped
  <2>3. QED
    BY <1>1, <2>2
       DEF Fires, tables, process, bounds, Typed, RowsTyped, ProcessTyped, PatchTyped, Bounded, Quiet
<1>2. ASSUME NEW r \in Runs, RunReads(r) PROVE Typed'
  <2>1. AfterReading(r) \in RunStates \cup {None}
    BY DEF AfterReading
  <2>2. RunsTyped' /\ Quiet'
    BY <1>2, <2>1, RunGoesOn DEF RunReads, process
  <2>3. QED
    BY <1>2, <2>2
       DEF RunReads, tables, process, bounds, Typed, RowsTyped, ProcessTyped, PatchTyped, Bounded
<1>3. ASSUME NEW r \in Runs, JobRetires(r) PROVE Typed'
  <2>1. r[1] \in Schedules
    BY DEF Runs
  <2>2. ProcessTyped' /\ \A s \in Schedules : jobs[s] = None => jobs'[s] = None
    BY <1>3, <2>1 DEF JobRetires, Typed, ProcessTyped
  <2>3. RunsTyped' /\ Quiet'
    BY <1>3, <2>2, RunGoesOn DEF JobRetires, Ended
  <2>4. QED
    BY <1>3, <2>2, <2>3
       DEF JobRetires, tables, bounds, Typed, RowsTyped, PatchTyped, Bounded
<1>4. ASSUME NEW r \in Runs, RenderFails(r) PROVE Typed'
  <2>1. RunsTyped' /\ Quiet'
    BY <1>4, RunGoesOn DEF RenderFails, Ended, process
  <2>2. QED
    BY <1>4, <2>1
       DEF RenderFails, tables, process, bounds, Typed, RowsTyped, ProcessTyped, PatchTyped, Bounded
<1>5. ASSUME NEW r \in Runs, NEW d \in Days, RunCreates(r, d) PROVE Typed'
  <2> DEFINE n == <<NameOf[r[1]], d>>
  <2>1. r[1] \in Schedules /\ n \in Campaigns
    BY DEF Runs, Campaigns
  <2>2. Created(r, n) \in RunStates \cup {None}
    BY <2>1 DEF Created
  <2>3. RunsTyped' /\ Quiet'
    BY <1>5, <2>2, RunGoesOn DEF RunCreates, process
  <2>4. campaigns' \in [Campaigns -> Schedules \cup {None}]
    BY <1>5, <2>1 DEF RunCreates, Typed, RowsTyped
  <2>5. QED
    BY <1>5, <2>3, <2>4
       DEF RunCreates, process, bounds, Typed, RowsTyped, ProcessTyped, PatchTyped, Bounded
<1>6. ASSUME NEW r \in Runs, RunRecords(r) PROVE Typed'
  <2>1. r[1] \in Schedules /\ run[r].campaign \in Campaigns
    BY <1>6 DEF RunRecords, Typed, RunsTyped, Runs
  <2>2. last' \in [Schedules -> Campaigns \cup {None}]
    BY <1>6, <2>1 DEF RunRecords, Typed, RowsTyped
  <2>3. RunsTyped' /\ Quiet'
    BY <1>6, RunGoesOn DEF RunRecords, Ended, process
  <2>4. QED
    BY <1>6, <2>2, <2>3
       DEF RunRecords, process, bounds, Typed, RowsTyped, ProcessTyped, PatchTyped, Bounded
<1>7. QED
  BY <1>1, <1>2, <1>3, <1>4, <1>5, <1>6 DEF Running

LEMMA TypedIsKept == Typed /\ [Next]_vars => Typed'
<1>1. ASSUME Typed, Next PROVE Typed'
  BY <1>1, UsersKeepTyped, ProcessesKeepTyped, RunsKeepTyped DEF Next
<1>2. ASSUME Typed, UNCHANGED vars PROVE Typed'
  BY <1>2
     DEF vars, tables, process, bounds, Typed, RowsTyped, ProcessTyped, RunsTyped, PatchTyped,
         Bounded, Quiet
<1>3. QED
  BY <1>1, <1>2

(* The rows, the scheduler's jobs and the runs have their types, and a     *)
(* daemon that is gone has left neither jobs nor runs of jobs.             *)
THEOREM ScheduleTypeCorrect == Spec => []ScheduleTypeOK
BY TypedInitially, TypedIsKept, TypedIsScheduleTypeOK, PTL DEF Spec

-----------------------------------------------------------------------------
(* A campaign keeps its maker; what a run is about to record it has made   *)
(* itself, and the link a PATCH holds is one the schedule once had.        *)
RecordsOwn == \A r \in Runs :
  run[r] # None /\ run[r].phase = "records" => campaigns[run[r].campaign] = r[1]
PatchOwns  == patch # None /\ patch.last # None => campaigns[patch.last] = patch.row
Linked     == LinkedCampaignIsOurs /\ RecordsOwn /\ PatchOwns

LEMMA LinkedInitially == Init => Linked
BY DEF Init, Linked, LinkedCampaignIsOurs, RecordsOwn, PatchOwns

LEMMA MakersStay ==
  ASSUME Typed, Next
  PROVE  \A n \in Campaigns : campaigns[n] # None => campaigns'[n] = campaigns[n]
<1>1. ASSUME NEW r \in Runs, NEW d \in Days, RunCreates(r, d)
      PROVE  \A n \in Campaigns : campaigns[n] # None => campaigns'[n] = campaigns[n]
  BY <1>1 DEF RunCreates, Typed, RowsTyped
<1>2. CASE \A r \in Runs, d \in Days : ~RunCreates(r, d)
  <2>1. campaigns' = campaigns
    BY <1>2
       DEF Next, Users, Running, PatchCommits, Create, PatchReads, Delete, AskOneShot,
           ConsiderReads, ConsiderSets, Restart, DaemonCrash, ApiCrash, Fires, RunReads,
           JobRetires, RenderFails, RunRecords, tables
  <2>2. QED
    BY <2>1
<1>3. QED
  BY <1>1, <1>2

(* Nothing is recorded but what a run of that schedule has made.           *)
LEMMA RunningKeepsRecords ==
  ASSUME Typed, Linked, Next
  PROVE  RecordsOwn'
<1>1. SUFFICES ASSUME NEW r \in Runs, run'[r] # None, run'[r].phase = "records"
               PROVE  campaigns'[run'[r].campaign] = r[1]
  BY DEF RecordsOwn
<1>2. CASE run'[r] = run[r]
  <2>1. run[r].campaign \in Campaigns /\ campaigns[run[r].campaign] = r[1] /\ r[1] # None
    BY <1>1, <1>2 DEF Typed, RunsTyped, RunStates, Linked, RecordsOwn, Runs
  <2>2. QED
    BY <1>2, <2>1, MakersStay
<1>3. ASSUME NEW q \in Runs, NEW d \in Days, RunCreates(q, d), run'[r] # run[r]
      PROVE  campaigns'[run'[r].campaign] = r[1]
  <2> DEFINE n == <<NameOf[q[1]], d>>
  <2>1. q = r /\ run'[r] = Created(r, n)
    BY <1>3 DEF RunCreates, Typed, RunsTyped
  <2>2. n \in Campaigns
    BY DEF Campaigns, Runs
  <2>3. campaigns[n] = None /\ run'[r].campaign = n
    BY <1>1, <2>1 DEF Created
  <2>4. campaigns'[n] = r[1]
    BY <1>3, <2>1, <2>2, <2>3 DEF RunCreates, Typed, RowsTyped
  <2>5. QED
    BY <2>3, <2>4
<1>4. ASSUME NEW q \in Runs, NEW x, run' = [run EXCEPT ![q] = x],
             x = None \/ x.phase # "records", run'[r] # run[r]
      PROVE  FALSE
  BY <1>1, <1>4 DEF Typed, RunsTyped
<1>5. ASSUME NEW k \in Kinds, run'[r] # run[r],
             run' = [q \in Runs |-> IF q[2] = k THEN None ELSE run[q]]
      PROVE  FALSE
  BY <1>1, <1>5
<1>6. ASSUME run'[r] # run[r], \A q \in Runs, d \in Days : ~RunCreates(q, d)
      PROVE  FALSE
  <2>1. CASE Users
    <3>1. PICK s \in Schedules : AskOneShot(s)
      BY <1>6, <2>1 DEF Users, PatchCommits, Create, PatchReads, Delete
    <3>2. <<s, "oneshot">> \in Runs
      BY DEF Runs, Kinds
    <3>3. QED
      BY <1>4, <1>6, <3>1, <3>2 DEF AskOneShot
  <2>2. CASE ConsiderReads \/ ConsiderSets \/ Restart \/ DaemonCrash \/ ApiCrash
    BY <1>5, <1>6, <2>2
       DEF ConsiderReads, ConsiderSets, Restart, DaemonCrash, ApiCrash, Stops, Kinds
  <2>3. ASSUME NEW s \in Schedules, Fires(s) PROVE FALSE
    <3>1. <<s, "job">> \in Runs
      BY DEF Runs, Kinds
    <3>2. QED
      BY <1>4, <1>6, <2>3, <3>1 DEF Fires
  <2>4. ASSUME NEW q \in Runs, Running(q) PROVE FALSE
    <3>1. CASE RunReads(q)
      <4>1. AfterReading(q) = None \/ AfterReading(q).phase # "records"
        BY DEF AfterReading
      <4>2. QED
        BY <1>4, <1>6, <3>1, <4>1 DEF RunReads
    <3>2. CASE JobRetires(q) \/ RenderFails(q) \/ RunRecords(q)
      BY <1>4, <1>6, <3>2 DEF JobRetires, RenderFails, RunRecords, Ended
    <3>3. QED
      BY <1>6, <2>4, <3>1, <3>2 DEF Running
  <2>5. QED
    BY <2>1, <2>2, <2>3, <2>4 DEF Next
<1>7. QED
  BY <1>2, <1>3, <1>6

LEMMA LinkedIsKept == Typed /\ Linked /\ [Next]_vars => Linked'
<1>1. ASSUME Typed, Linked, Next PROVE Linked'
  <2>1. RecordsOwn'
    BY <1>1, RunningKeepsRecords
  <2>2. \A n \in Campaigns, s \in Schedules : campaigns[n] = s => campaigns'[n] = s
    BY <1>1, MakersStay
  <2>3. ASSUME last' = last PROVE LinkedCampaignIsOurs'
    BY <1>1, <2>2, <2>3 DEF Typed, RowsTyped, Linked, LinkedCampaignIsOurs
  <2>4. ASSUME patch' = patch \/ patch' = None PROVE PatchOwns'
    BY <1>1, <2>2, <2>4 DEF Typed, PatchTyped, Patches, Linked, PatchOwns
  <2>5. ASSUME PatchCommits PROVE Linked'
    <3>1. PatchOwns'
      BY <2>4, <2>5 DEF PatchCommits
    <3>2. CASE last' = last
      BY <2>1, <2>3, <3>1, <3>2 DEF Linked
    <3>3. CASE last' # last
      <4>1. patch \in Patches /\ last' = [last EXCEPT ![patch.row] = patch.last]
        BY <1>1, <2>5, <3>3 DEF PatchCommits, Typed, PatchTyped
      <4>2. campaigns' = campaigns
        BY <2>5 DEF PatchCommits
      <4>3. LinkedCampaignIsOurs'
        BY <1>1, <2>5, <4>1, <4>2
           DEF PatchCommits, Typed, RowsTyped, Patches, Linked, PatchOwns, LinkedCampaignIsOurs
      <4>4. QED
        BY <2>1, <3>1, <4>3 DEF Linked
    <3>4. QED
      BY <3>2, <3>3
  <2>6. ASSUME NEW s \in Schedules, PatchReads(s) PROVE Linked'
    <3>1. PatchOwns'
      BY <1>1, <2>6 DEF PatchReads, tables, Linked, LinkedCampaignIsOurs, PatchOwns
    <3>2. QED
      BY <2>1, <2>3, <2>6, <3>1 DEF PatchReads, tables, Linked
  <2>7. ASSUME NEW r \in Runs, RunRecords(r) PROVE Linked'
    <3>1. /\ run[r].campaign \in Campaigns /\ campaigns[run[r].campaign] = r[1]
          /\ r[1] \in Schedules /\ campaigns' = campaigns
      BY <1>1, <2>7 DEF RunRecords, Typed, RunsTyped, RunStates, Linked, RecordsOwn, Runs
    <3>2. LinkedCampaignIsOurs'
      BY <1>1, <2>7, <3>1 DEF RunRecords, Typed, RowsTyped, Linked, LinkedCampaignIsOurs
    <3>3. QED
      BY <2>1, <2>4, <2>7, <3>2 DEF RunRecords, Linked
  <2>8. ASSUME ~PatchCommits, \A s \in Schedules : ~PatchReads(s),
               \A r \in Runs : ~RunRecords(r)
        PROVE  Linked'
    <3>1. last' = last /\ (patch' = patch \/ patch' = None)
      BY <1>1, <2>8
         DEF Next, Users, Running, Create, Delete, AskOneShot, ConsiderReads, ConsiderSets,
             Restart, DaemonCrash, ApiCrash, Fires, RunReads, JobRetires, RenderFails,
             RunCreates, tables, process
    <3>2. QED
      BY <2>1, <2>3, <2>4, <3>1 DEF Linked
  <2>9. QED
    BY <2>5, <2>6, <2>7, <2>8
<1>2. ASSUME Linked, UNCHANGED vars PROVE Linked'
  BY <1>2 DEF vars, tables, process, bounds, Linked, LinkedCampaignIsOurs, RecordsOwn, PatchOwns
<1>3. QED
  BY <1>1, <1>2

(* Although schedules share names, a run may meet a campaign that exists,  *)
(* and a PATCH may write back an older link: a schedule links only to      *)
(* campaigns that a run of its own has made.                               *)
THEOREM LinksAreOurs == Spec => []LinkedCampaignIsOurs
<1>1. Init => Typed /\ Linked
  BY TypedInitially, LinkedInitially
<1>2. Typed /\ Linked /\ [Next]_vars => Typed' /\ Linked'
  BY TypedIsKept, LinkedIsKept
<1>3. Typed /\ Linked => LinkedCampaignIsOurs
  BY DEF Linked
<1>4. QED
  BY <1>1, <1>2, <1>3, PTL DEF Spec
=============================================================================
