------------------------ MODULE GroupWorkflowProofs ------------------------
(***************************************************************************)
(* Type correctness of GroupWorkflow; that what is launched is what the    *)
(* group became ready for; and that no report of an earlier workflow       *)
(* accepts it.  For any endings of workflows, requests and crashes.        *)
(***************************************************************************)
EXTENDS GroupWorkflow, TLAPS

USE GroupAssumption DEF Nothing, WmsState

GroupStatus == {"waiting", "ready", "running", "accepted", "failed"}
Job         == [script : Nat, state : {"queued", "held", "good", "bad"}]
Machine     == [state : Status, exe : Nat \cup {None, Bare}]
Disk        == [scripts : SUBSET {0, 1}, sub : Nat \cup {None}, stdout : Nat \cup {None},
                target : Nat \cup {None}, dirs : SUBSET Nat]

-----------------------------------------------------------------------------
(* What the types rest on, besides themselves.                             *)
RowTyped ==
  /\ status \in GroupStatus
  /\ bps \in DOMAIN payload \cup {None, Nothing}
  /\ cluster \in 0..Len(jobs)
  /\ status = "running" => cluster > 0

MachineTyped == machine \in Machine \cup {None}

DiskTyped ==
  /\ disk \in Disk
  /\ disk.dirs \subseteq DOMAIN payload
  /\ disk.stdout \in disk.dirs \cup {None}
  /\ disk.target \in DOMAIN payload \cup {None, Nothing}

WorldTyped ==
  /\ jobs \in Seq(Job)
  /\ DOMAIN payload \subseteq {i \in DOMAIN jobs : jobs[i].script = 0 /\ jobs[i].state \in {"good", "bad"}}
  /\ \A p \in DOMAIN payload : payload[p] \in [report : WmsReport, epoch : Nat]

HistoryTyped == epoch \in Nat /\ restarted \in Nat /\ strayed \in BOOLEAN

(* Every launch uses up the first prepare, a request or a crash.           *)
Pending == IF status \in {"waiting", "ready"} THEN 1 ELSE 0
Counted ==
  /\ requests \in 0..MaxRequests /\ crashes \in 0..MaxCrashes
  /\ Len(jobs) + Pending <= 1 + requests + crashes

Typed == RowTyped /\ MachineTyped /\ DiskTyped /\ WorldTyped /\ HistoryTyped /\ Counted

LEMMA GroupStatusIsStatus == GroupStatus \subseteq Status
BY DEF GroupStatus, Status, StatusValue

LEMMA TypedIsGroupTypeOK == Typed => GroupTypeOK
<1>1. SUFFICES ASSUME Typed PROVE GroupTypeOK
  OBVIOUS
<1>2. Len(jobs) \in Nat /\ Len(jobs) <= MaxJobs
  BY <1>1 DEF Typed, WorldTyped, Counted, Pending, MaxJobs
<1>3. machine = None \/ (machine.state \in Status /\ machine.exe \in Nat \cup {None, Bare})
  BY <1>1 DEF Typed, MachineTyped, Machine
<1>4. disk.scripts \subseteq {0, 1} /\ disk.dirs \subseteq DOMAIN payload
      /\ disk.stdout \in disk.dirs \cup {None}
  BY <1>1 DEF Typed, DiskTyped, Disk
<1>5. QED
  BY <1>1, <1>2, <1>3, <1>4 DEF Typed, RowTyped, WorldTyped, GroupStatus, GroupTypeOK

LEMMA TypedInitially == Init => Typed
<1>1. SUFFICES ASSUME Init PROVE Typed
  OBVIOUS
<1>2. RowTyped /\ MachineTyped
  BY <1>1 DEF Init, RowTyped, MachineTyped, GroupStatus
<1>3. DiskTyped
  BY <1>1 DEF Init, DiskTyped, Disk, NoDisk
<1>4. WorldTyped /\ HistoryTyped
  <2>1. payload \in Seq(Job) /\ Len(payload) = 0
    BY <1>1 DEF Init
  <2>2. DOMAIN payload = {}
    BY <2>1
  <2>3. jobs \in Seq(Job) /\ epoch \in Nat /\ restarted \in Nat
    BY <1>1 DEF Init
  <2>4. strayed \in BOOLEAN
    BY <1>1, Zenon DEF Init
  <2>5. QED
    BY <2>2, <2>3, <2>4 DEF WorldTyped, HistoryTyped
<1>5. Counted
  BY <1>1 DEF Init, Counted, Pending
<1>6. QED
  BY <1>2, <1>3, <1>4, <1>5 DEF Typed

-----------------------------------------------------------------------------
(* What can be left of a transition: all of it, the row only, or nothing.  *)
LEMMA SavesOrLoses ==
  ASSUME NEW r, NEW m, Saves(r, m), crashes \in 0..MaxCrashes
  PROVE  /\ \/ status' = r.status /\ bps' = r.bps /\ cluster' = r.cluster /\ crashes' \in {crashes, crashes + 1}
            \/ UNCHANGED row /\ crashes' = crashes + 1
         /\ machine' \in {machine, m}
         /\ crashes' \in 0..MaxCrashes
BY DEF Saves, row

LEMMA LoadedIsMachine ==
  ASSUME Typed, NEW s \in GroupStatus
  PROVE  Loaded \in Machine /\ MovedTo(Loaded, s) \in Machine
BY GroupStatusIsStatus DEF Typed, RowTyped, MachineTyped, Machine, Loaded, MovedTo

(* The daemon's transitions.                                               *)
LEMMA PrepareKeepsTyped == ASSUME Typed, Prepare PROVE Typed'
<1>1. PICK s \in {"ready", "failed"}, m \in Machine : Saves(Becomes(s), m)
  <2>1. \A s \in {"ready", "failed"}, x \in {Bare, 0} : [state |-> s, exe |-> x] \in Machine
    BY GroupStatusIsStatus DEF Machine, GroupStatus
  <2>2. Fails(bps) => Saves(Becomes("failed"), MovedTo(Loaded, "failed"))
    BY DEF Fails, Becomes
  <2>3. MovedTo(Loaded, "failed") \in Machine
    BY LoadedIsMachine DEF GroupStatus
  <2>4. QED
    BY <2>1, <2>2, <2>3 DEF Prepare, Unprepared
<1>3. RowTyped' /\ MachineTyped'
  BY <1>1, SavesOrLoses
     DEF Prepare, Becomes, Typed, RowTyped, MachineTyped, Counted, GroupStatus, world, row
<1>4. \/ disk' = disk
      \/ disk' \in {NoDisk, Rendered, [Rendered EXCEPT !.scripts = {}], [Rendered EXCEPT !.sub = None]}
  BY DEF Prepare, Unprepared
<1>5. ASSUME disk' # disk PROVE DiskTyped'
  <2>1. NoDisk \in Disk /\ Rendered \in Disk
    BY DEF NoDisk, Rendered, Disk
  <2>2. [Rendered EXCEPT !.scripts = {}] \in Disk /\ [Rendered EXCEPT !.sub = None] \in Disk
    BY <2>1 DEF Disk
  <2>3. disk' \in Disk
    BY <1>4, <1>5, <2>1, <2>2
  <2>4. disk'.dirs = {} /\ disk'.stdout = None /\ disk'.target = None
    <3>1. NoDisk.dirs = {} /\ NoDisk.stdout = None /\ NoDisk.target = None
      BY DEF NoDisk
    <3>2. Rendered.dirs = {} /\ Rendered.stdout = None /\ Rendered.target = None
      BY <3>1, <2>1 DEF Rendered, Disk
    <3>3. QED
      BY <1>4, <1>5, <2>1, <3>1, <3>2 DEF Disk
  <2>5. QED
    BY <2>3, <2>4 DEF DiskTyped
<1>6. WorldTyped' /\ HistoryTyped' /\ payload' = payload
  BY DEF Prepare, Unprepared, ReadyFor, world, Typed, WorldTyped, HistoryTyped
<1>7. Counted'
  <2>1. requests' = requests /\ jobs' = jobs /\ status = "waiting"
    BY DEF Prepare, world
  <2>2. crashes' \in 0..MaxCrashes /\ crashes' \in {crashes, crashes + 1}
    BY <1>1, SavesOrLoses DEF Typed, Counted
  <2>3. QED
    BY <2>1, <2>2 DEF Typed, WorldTyped, Counted, Pending
<1>8. DiskTyped'
  <2>1. CASE disk' = disk
    BY <1>6, <2>1 DEF Typed, DiskTyped
  <2>2. QED
    BY <1>5, <2>1
<1>9. QED
  BY <1>3, <1>6, <1>7, <1>8 DEF Typed

LEMMA StartKeepsTyped == ASSUME Typed, Start PROVE Typed'
<1>1. DiskTyped' /\ HistoryTyped'
  BY DEF Start, history, Typed, DiskTyped, HistoryTyped
<1>2. ASSUME Launchable, jobs' = Append(jobs, [script |-> disk.sub, state |-> "queued"]),
             Saves([Becomes("running") EXCEPT !.cluster = Len(jobs) + 1], MovedTo(Loaded, "running"))
      PROVE  Typed'
  <2>1. [script |-> disk.sub, state |-> "queued"] \in Job
    BY <1>2 DEF Launchable, Typed, DiskTyped, Disk, Job
  <2>2. jobs' \in Seq(Job) /\ Len(jobs') = Len(jobs) + 1 /\ Len(jobs) \in Nat
        /\ \A i \in DOMAIN jobs : i \in DOMAIN jobs' /\ jobs'[i] = jobs[i]
    BY <1>2, <2>1 DEF Typed, WorldTyped
  <2>3. WorldTyped'
    BY <2>2 DEF Start, Typed, WorldTyped
  <2>4. /\ \/ /\ status' = "running" /\ bps' = bps /\ cluster' = Len(jobs) + 1
              /\ crashes' \in {crashes, crashes + 1}
           \/ UNCHANGED row /\ crashes' = crashes + 1
        /\ machine' \in {machine, MovedTo(Loaded, "running")} /\ crashes' \in 0..MaxCrashes
    BY <1>2, SavesOrLoses DEF Becomes, Typed, Counted
  <2>5. RowTyped'
    BY <2>2, <2>4 DEF Start, Typed, RowTyped, GroupStatus, row
  <2>6. MachineTyped'
    BY <2>4, LoadedIsMachine DEF Typed, MachineTyped, GroupStatus
  <2>7. Counted'
    BY <2>2, <2>4 DEF Start, Typed, Counted, Pending, row
  <2>8. QED
    BY <1>1, <2>3, <2>5, <2>6, <2>7 DEF Typed
<1>3. ASSUME Fails(bps), UNCHANGED jobs PROVE Typed'
  <2>1. /\ \/ status' = "failed" /\ bps' = bps /\ cluster' = cluster /\ crashes' \in {crashes, crashes + 1}
           \/ UNCHANGED row /\ crashes' = crashes + 1
        /\ machine' \in {machine, MovedTo(Loaded, "failed")} /\ crashes' \in 0..MaxCrashes
    BY <1>3, SavesOrLoses DEF Fails, Becomes, Typed, Counted
  <2>2. WorldTyped' /\ RowTyped'
    BY <1>3, <2>1 DEF Start, Typed, WorldTyped, RowTyped, GroupStatus, row
  <2>3. MachineTyped'
    BY <2>1, LoadedIsMachine DEF Typed, MachineTyped, GroupStatus
  <2>4. Counted'
    BY <1>3, <2>1 DEF Start, Typed, WorldTyped, Counted, Pending, row
  <2>5. QED
    BY <1>1, <2>2, <2>3, <2>4 DEF Typed
<1>4. QED
  BY <1>2, <1>3 DEF Start

LEMMA VerdictIsTyped ==
  ASSUME Typed
  PROVE  /\ Verdict.bps \in {bps, Captured}
         /\ Captured \in DOMAIN payload \cup {Nothing}
BY DEF Verdict, Captured, Typed, DiskTyped

LEMMA FinishKeepsTyped == ASSUME Typed, Finish PROVE Typed'
<1>1. WorldTyped' /\ DiskTyped' /\ HistoryTyped'
  BY DEF Finish, world, history, Typed, WorldTyped, DiskTyped, HistoryTyped
<1>2. Verdict.bps \in DOMAIN payload \cup {None, Nothing}
  BY VerdictIsTyped DEF Typed, RowTyped
<1>3. /\ \/ /\ status' \in {"accepted", "failed", status} /\ bps' = Verdict.bps
            /\ cluster' = cluster /\ crashes' \in {crashes, crashes + 1}
         \/ UNCHANGED row /\ crashes' = crashes + 1
      /\ machine' \in {machine, MovedTo(Loaded, "accepted"), MovedTo(Loaded, "failed")}
      /\ crashes' \in 0..MaxCrashes
  <2>1. crashes \in 0..MaxCrashes
    BY DEF Typed, Counted
  <2>2. CASE Verdict.is = "done"
    BY <2>1, <2>2, SavesOrLoses DEF Finish, Becomes
  <2>3. CASE Verdict.is = "raises"
    BY <2>1, <2>3, SavesOrLoses DEF Finish, Fails, Becomes
  <2>4. CASE Verdict.is \notin {"done", "raises"}
    BY <2>1, <2>4 DEF Finish
  <2>5. QED
    BY <2>2, <2>3, <2>4
<1>4. RowTyped'
  BY <1>2, <1>3 DEF Finish, world, Typed, RowTyped, GroupStatus, row
<1>5. MachineTyped'
  BY <1>3, LoadedIsMachine DEF Typed, MachineTyped, GroupStatus
<1>6. Counted'
  BY <1>3 DEF Finish, world, Typed, WorldTyped, Counted, Pending, row
<1>7. QED
  BY <1>1, <1>4, <1>5, <1>6 DEF Typed

(* The batch system.                                                       *)
LEMMA JobChanges ==
  ASSUME Typed, NEW i \in DOMAIN jobs, NEW s \in {"queued", "held", "good", "bad"},
         jobs[i].state \in {"queued", "held"}, jobs' = [jobs EXCEPT ![i].state = s]
  PROVE  /\ jobs' \in Seq(Job) /\ DOMAIN jobs' = DOMAIN jobs /\ Len(jobs') = Len(jobs)
         /\ jobs'[i].state = s /\ jobs'[i].script = jobs[i].script
         /\ \A j \in DOMAIN jobs : j # i => jobs'[j] = jobs[j]
         /\ i \in Nat \ {0} /\ i \notin DOMAIN payload
<1>1. jobs \in Seq(Job) /\ jobs[i] \in Job
  BY DEF Typed, WorldTyped
<1>2. [jobs[i] EXCEPT !.state = s] \in Job
  BY <1>1 DEF Job
<1>3. jobs' = [jobs EXCEPT ![i] = [jobs[i] EXCEPT !.state = s]]
  OBVIOUS
<1>4. jobs' \in Seq(Job) /\ DOMAIN jobs' = DOMAIN jobs /\ Len(jobs') = Len(jobs)
  BY <1>1, <1>2, <1>3
<1>5. i \notin DOMAIN payload /\ i \in Nat \ {0}
  BY <1>1 DEF Typed, WorldTyped
<1>6. QED
  BY <1>1, <1>3, <1>4, <1>5 DEF Job

LEMMA JobRunsKeepsTyped == ASSUME Typed, NEW i, JobRuns(i) PROVE Typed'
<1>1. i \in DOMAIN jobs /\ jobs[i].state \in {"queued", "held"}
  BY DEF JobRuns
<1>2. PICK s \in {"good", "bad"} : jobs' = [jobs EXCEPT ![i].state = s]
  BY DEF JobRuns
<1>3. /\ jobs' \in Seq(Job) /\ DOMAIN jobs' = DOMAIN jobs /\ Len(jobs') = Len(jobs)
      /\ jobs'[i].state = s /\ jobs'[i].script = jobs[i].script
      /\ \A j \in DOMAIN jobs : j # i => jobs'[j] = jobs[j]
      /\ i \in Nat \ {0} /\ i \notin DOMAIN payload
  BY <1>1, <1>2, JobChanges
<1>4. Begun \in WmsReport /\ epoch \in Nat
  BY DEF Begun, WmsReport, Typed, HistoryTyped
<1>5. MachineTyped' /\ HistoryTyped' /\ Counted'
  <2>1. strayed' \in BOOLEAN
    BY DEF JobRuns, Typed, HistoryTyped
  <2>2. QED
    BY <1>3, <2>1
       DEF JobRuns, row, history, Typed, MachineTyped, HistoryTyped, Counted, Pending
<1>6. \A p \in DOMAIN payload :
        p \in DOMAIN jobs' /\ jobs'[p].script = 0 /\ jobs'[p].state \in {"good", "bad"}
  BY <1>3 DEF Typed, WorldTyped
<1>7. ASSUME jobs[i].script = 0, disk' = [disk EXCEPT !.stdout = i, !.dirs = @ \cup {i}],
             payload' = [j \in DOMAIN payload \cup {i} |->
                           IF j = i THEN [report |-> Begun, epoch |-> epoch] ELSE payload[j]]
      PROVE  WorldTyped' /\ DiskTyped' /\ RowTyped'
  <2>1. DOMAIN payload' = DOMAIN payload \cup {i}
    BY <1>7
  <2>2. WorldTyped'
    BY <1>1, <1>3, <1>4, <1>6, <1>7, <2>1 DEF Typed, WorldTyped
  <2>3. DiskTyped'
    BY <1>3, <1>7, <2>1 DEF Typed, DiskTyped, Disk
  <2>4. RowTyped'
    BY <1>3, <2>1 DEF JobRuns, row, Typed, RowTyped
  <2>5. QED
    BY <2>2, <2>3, <2>4
<1>8. ASSUME disk.target \in disk.dirs, UNCHANGED disk,
             payload' = [payload EXCEPT ![disk.target] = [report |-> Begun, epoch |-> epoch]]
      PROVE  WorldTyped' /\ DiskTyped' /\ RowTyped'
  <2>1. DOMAIN payload' = DOMAIN payload
    BY <1>8
  <2>2. WorldTyped'
    BY <1>3, <1>4, <1>6, <1>8, <2>1 DEF Typed, WorldTyped
  <2>3. QED
    BY <1>3, <1>8, <2>1, <2>2 DEF JobRuns, row, Typed, RowTyped, DiskTyped
<1>9. ASSUME UNCHANGED payload, disk' \in {disk, [disk EXCEPT !.stdout = None]}
      PROVE  WorldTyped' /\ DiskTyped' /\ RowTyped'
  <2>1. WorldTyped' /\ RowTyped'
    BY <1>3, <1>6, <1>9 DEF JobRuns, row, Typed, RowTyped, WorldTyped
  <2>2. DiskTyped'
    BY <1>9 DEF Typed, DiskTyped, Disk
  <2>3. QED
    BY <2>1, <2>2
<1>10. WorldTyped' /\ DiskTyped' /\ RowTyped'
  BY <1>7, <1>8, <1>9 DEF JobRuns
<1>11. QED
  BY <1>5, <1>10 DEF Typed

LEMMA WorldKeepsTyped ==
  ASSUME Typed, NEW i, JobHeld(i) \/ PayloadEnds(i)
  PROVE  Typed'
<1>1. ASSUME i \in DOMAIN jobs, JobHeld(i) PROVE Typed'
  <2>1. /\ jobs' \in Seq(Job) /\ DOMAIN jobs' = DOMAIN jobs /\ Len(jobs') = Len(jobs)
        /\ \A j \in DOMAIN jobs : j # i => jobs'[j] = jobs[j]
        /\ i \notin DOMAIN payload
    BY <1>1, JobChanges DEF JobHeld
  <2>2. WorldTyped'
    BY <1>1, <2>1 DEF JobHeld, Typed, WorldTyped
  <2>3. QED
    BY <1>1, <2>1, <2>2
       DEF JobHeld, row, history, Typed, RowTyped, MachineTyped, DiskTyped, HistoryTyped, Counted, Pending
<1>2. ASSUME JobHeld(i) PROVE i \in DOMAIN jobs
  BY <1>2 DEF JobHeld, Typed, RowTyped, WorldTyped
<1>3. ASSUME PayloadEnds(i) PROVE Typed'
  <2>1. PICK r \in WmsReport : payload' = [payload EXCEPT ![i].report = r]
    BY <1>3 DEF PayloadEnds
  <2>2. DOMAIN payload' = DOMAIN payload
        /\ \A p \in DOMAIN payload : payload'[p] \in [report : WmsReport, epoch : Nat]
    BY <2>1 DEF Typed, WorldTyped
  <2>3. WorldTyped'
    BY <1>3, <2>2 DEF PayloadEnds, Typed, WorldTyped
  <2>4. QED
    BY <1>3, <2>2, <2>3
       DEF PayloadEnds, row, history, Typed, RowTyped, MachineTyped, DiskTyped, HistoryTyped,
           Counted, Pending
<1>4. QED
  BY <1>1, <1>2, <1>3

(* Users.                                                                  *)
LEMMA RequestIsCounted ==
  ASSUME Typed, NEW from \in SUBSET (GroupStatus \ {"waiting", "ready"}), Asks(from), UNCHANGED jobs,
         crashes' \in 0..MaxCrashes, crashes' >= crashes
  PROVE  Counted'
BY DEF Asks, Typed, WorldTyped, Counted, Pending

LEMMA RequestsKeepTyped ==
  ASSUME Typed, Retry \/ Restart \/ Reset \/ \E s \in {"failed", "accepted"} : Decide(s)
  PROVE  Typed'
<1>1. machine \in Machine /\ WorldTyped' /\ crashes \in 0..MaxCrashes /\ jobs' = jobs
  BY DEF Retry, Restart, Reset, Decide, Asks, world, Typed, MachineTyped, WorldTyped, Counted
<1>2. ASSUME Retry PROVE Typed'
  <2>1. MovedTo(machine, "ready") \in Machine
    BY <1>1, GroupStatusIsStatus DEF MovedTo, Machine, GroupStatus
  <2>2. /\ status' \in {"ready", status} /\ bps' \in {bps, None} /\ cluster' = cluster
        /\ status # "running" /\ machine' \in Machine \cup {None}
        /\ crashes' \in 0..MaxCrashes /\ crashes' >= crashes
    BY <1>1, <1>2, <2>1, SavesOrLoses DEF Retry, Asks, Becomes, row
  <2>3. RowTyped' /\ MachineTyped'
    BY <1>2, <2>2 DEF Retry, world, Typed, RowTyped, MachineTyped, GroupStatus
  <2>4. DiskTyped'
    BY <1>2 DEF Retry, Retried, world, Typed, DiskTyped, Disk
  <2>5. HistoryTyped'
    BY <1>2 DEF Retry, ReadyFor, world, Typed, HistoryTyped
  <2>6. Counted'
    BY <1>1, <1>2, <2>2, RequestIsCounted DEF Retry, GroupStatus
  <2>7. QED
    BY <1>1, <2>3, <2>4, <2>5, <2>6 DEF Typed
<1>3. ASSUME Restart PROVE Typed'
  <2>1. machine.exe + 1 \in Nat /\ [state |-> "ready", exe |-> machine.exe + 1] \in Machine
    BY <1>1, <1>3, GroupStatusIsStatus DEF Restart, Machine, GroupStatus
  <2>2. /\ status' \in {"ready", status} /\ bps' = bps /\ cluster' = cluster
        /\ status # "running" /\ machine' \in Machine \cup {None}
        /\ crashes' \in 0..MaxCrashes /\ crashes' >= crashes
    BY <1>1, <1>3, <2>1, SavesOrLoses DEF Restart, Asks, Becomes, row
  <2>3. RowTyped' /\ MachineTyped'
    BY <1>3, <2>2 DEF Restart, world, Typed, RowTyped, MachineTyped, GroupStatus
  <2>4. DiskTyped'
    <3>1. bps \in disk.dirs /\ bps \in Nat
      BY <1>3 DEF Restart, Typed, DiskTyped, Disk
    <3>2. QED
      BY <1>3, <2>1, <3>1 DEF Restart, Restarted, world, Typed, DiskTyped, Disk
  <2>5. HistoryTyped'
    BY <1>3 DEF Restart, ReadyFor, world, Typed, HistoryTyped
  <2>6. Counted'
    BY <1>1, <1>3, <2>2, RequestIsCounted DEF Restart, GroupStatus
  <2>7. QED
    BY <1>1, <2>3, <2>4, <2>5, <2>6 DEF Typed
<1>4. ASSUME Reset PROVE Typed'
  <2>1. [state |-> "waiting", exe |-> None] \in Machine
    BY GroupStatusIsStatus DEF Machine, GroupStatus
  <2>2. /\ status' \in {"waiting", status} /\ bps' \in {bps, None} /\ cluster' = cluster
        /\ status # "running" /\ machine' \in Machine \cup {None}
        /\ crashes' \in 0..MaxCrashes /\ crashes' >= crashes
    BY <1>1, <1>4, <2>1, SavesOrLoses DEF Reset, Asks, Becomes, row
  <2>3. RowTyped' /\ MachineTyped'
    BY <1>4, <2>2 DEF Reset, world, Typed, RowTyped, MachineTyped, GroupStatus
  <2>4. DiskTyped' /\ HistoryTyped'
    BY <1>4 DEF Reset, NoDisk, world, history, Typed, DiskTyped, HistoryTyped, Disk
  <2>5. Counted'
    BY <1>1, <1>4, <2>2, RequestIsCounted DEF Reset, GroupStatus
  <2>6. QED
    BY <1>1, <2>3, <2>4, <2>5 DEF Typed
<1>5. ASSUME NEW s \in {"failed", "accepted"}, Decide(s) PROVE Typed'
  <2>1. MovedTo(machine, s) \in Machine
    BY <1>1, GroupStatusIsStatus DEF MovedTo, Machine, GroupStatus
  <2>2. /\ \/ status' = s /\ bps' = bps /\ cluster' = cluster /\ crashes' \in {crashes, crashes + 1}
           \/ UNCHANGED row /\ crashes' = crashes + 1
        /\ machine' \in Machine \cup {None} /\ crashes' \in 0..MaxCrashes
    BY <1>1, <1>5, <2>1, SavesOrLoses DEF Decide, Becomes
  <2>3. RowTyped' /\ MachineTyped'
    BY <1>1, <1>5, <2>2 DEF Decide, world, row, Typed, RowTyped, MachineTyped, GroupStatus
  <2>4. DiskTyped' /\ HistoryTyped'
    BY <1>5 DEF Decide, world, history, Typed, DiskTyped, HistoryTyped
  <2>5. Counted'
    BY <1>1, <1>5, <2>2 DEF Decide, Asks, row, Typed, WorldTyped, Counted, Pending
  <2>6. QED
    BY <1>1, <2>3, <2>4, <2>5 DEF Typed
<1>6. QED
  BY <1>2, <1>3, <1>4, <1>5

LEMMA TypedIsKept == Typed /\ [Next]_vars => Typed'
<1>1. ASSUME Typed, Next PROVE Typed'
  BY <1>1, PrepareKeepsTyped, StartKeepsTyped, FinishKeepsTyped, RequestsKeepTyped,
     JobRunsKeepsTyped, WorldKeepsTyped DEF Next
<1>2. ASSUME Typed, UNCHANGED vars PROVE Typed'
  BY <1>2
     DEF vars, row, world, history, Typed, RowTyped, MachineTyped, DiskTyped, WorldTyped,
         HistoryTyped, Counted, Pending
<1>3. QED
  BY <1>1, <1>2

(* A row names jobs and workflows that were really there, what bps has     *)
(* printed names a directory that still is, and no more is launched than   *)
(* the first prepare, the requests and the crashes account for.            *)
THEOREM GroupTypeCorrect == Spec => []GroupTypeOK
BY TypedInitially, TypedIsKept, TypedIsGroupTypeOK, PTL DEF Spec
-----------------------------------------------------------------------------
(* The submit file names the script that is asked for: only a restart lets *)
(* it name another than the first.                                         *)
AskedFor ==
  /\ restarted = 0 => disk.sub \in {0, None}
  /\ status = "ready" /\ want # "submit" => disk.sub \in Nat \ {0}

LEMMA AskedForIsKept == Typed /\ AskedFor /\ [Next]_vars => AskedFor'
<1>1. SUFFICES ASSUME Typed, AskedFor, [Next]_vars PROVE AskedFor'
  OBVIOUS
<1>2. disk.sub \in Nat \cup {None} /\ restarted \in Nat /\ crashes \in 0..MaxCrashes
  BY <1>1 DEF Typed, DiskTyped, Disk, HistoryTyped, Counted
<1>3. CASE Prepare
  <2>1. \/ restarted' = restarted /\ disk' = disk
        \/ restarted' = 0 /\ disk'.sub \in {0, None}
    <3>1. Rendered \in Disk /\ NoDisk \in Disk /\ Rendered.sub = 0 /\ NoDisk.sub = None
      BY DEF Rendered, NoDisk, Disk
    <3>2. QED
      BY <1>3, <3>1 DEF Prepare, Unprepared, Disk
  <2>2. status' = "ready" => want' = "submit"
    BY <1>2, <1>3, SavesOrLoses DEF Prepare, Unprepared, Fails, Becomes, ReadyFor, row
  <2>3. QED
    BY <1>1, <2>1, <2>2 DEF AskedFor
<1>4. CASE Start \/ Finish
  <2>1. UNCHANGED <<disk, want, restarted>>
    BY <1>4 DEF Start, Finish, history
  <2>2. status' = "ready" => status = "ready"
    BY <1>2, <1>4, SavesOrLoses DEF Start, Finish, Fails, Becomes, row
  <2>3. QED
    BY <1>1, <2>1, <2>2 DEF AskedFor
<1>5. CASE Retry
  <2>1. disk'.sub = disk.sub /\ restarted' = restarted
    BY <1>1, <1>5 DEF Retry, Retried, Typed, DiskTyped, Disk
  <2>2. status' = "ready" => want' = "submit"
    BY <1>2, <1>5, SavesOrLoses DEF Retry, Asks, Becomes, ReadyFor, row
  <2>3. QED
    BY <1>1, <2>1, <2>2 DEF AskedFor
<1>6. CASE Restart
  <2>1. machine.exe \in Nat
    BY <1>1, <1>6 DEF Restart, Asks, Typed, MachineTyped, Machine
  <2>2. disk'.sub = machine.exe + 1 /\ restarted' = restarted + 1
    BY <1>1, <1>6 DEF Restart, Restarted, Typed, DiskTyped, Disk
  <2>3. QED
    BY <1>2, <2>1, <2>2 DEF AskedFor
<1>7. CASE Reset \/ \E s \in {"failed", "accepted"} : Decide(s)
  <2>1. disk' \in {disk, NoDisk} /\ UNCHANGED <<want, restarted>>
    BY <1>7 DEF Reset, Decide, history
  <2>2. status' = "ready" => status = "ready" /\ disk' = disk
    BY <1>2, <1>7, SavesOrLoses DEF Reset, Decide, Asks, Becomes, row
  <2>3. NoDisk.sub = None
    BY DEF NoDisk
  <2>4. QED
    BY <1>1, <2>1, <2>2, <2>3 DEF AskedFor
<1>8. CASE \E i \in DOMAIN jobs : JobRuns(i) \/ JobHeld(i) \/ PayloadEnds(i)
  <2>1. UNCHANGED <<status, want, restarted>>
    BY <1>8 DEF JobRuns, JobHeld, PayloadEnds, row, history
  <2>2. disk'.sub = disk.sub
    BY <1>1, <1>8 DEF JobRuns, JobHeld, PayloadEnds, Typed, DiskTyped, Disk
  <2>3. QED
    BY <1>1, <2>1, <2>2 DEF AskedFor
<1>9. CASE UNCHANGED vars
  BY <1>1, <1>9 DEF vars, row, history, AskedFor
<1>10. QED
  BY <1>1, <1>3, <1>4, <1>5, <1>6, <1>7, <1>8, <1>9 DEF Next

(* Whatever crashed between the request and the launch, a group that was   *)
(* prepared or retried submits anew, and one that was restarted goes on    *)
(* with its workflow; but for a retry after a restart.                     *)
THEOREM LaunchesFollowRequests == Spec => LaunchesAsAsked
<1>1. Init => AskedFor
  BY DEF Init, NoDisk, AskedFor
<1>2. Typed /\ AskedFor /\ [Next]_vars
        => [Len(jobs') > Len(jobs) /\ (want = "submit" => restarted = 0)
              => jobs'[Len(jobs')].script = IF want = "submit" THEN 0 ELSE 1]_vars
  <2>1. SUFFICES ASSUME Typed, AskedFor, Next, Len(jobs') > Len(jobs),
                        want = "submit" => restarted = 0
                 PROVE  jobs'[Len(jobs')].script = IF want = "submit" THEN 0 ELSE 1
    BY DEF vars, world
  <2>2. jobs \in Seq(Job) /\ disk \in Disk
    BY <2>1 DEF Typed, WorldTyped, DiskTyped
  <2>3. CASE Start
    <3>1. status = "ready" /\ Launchable /\ jobs' = Append(jobs, [script |-> disk.sub, state |-> "queued"])
      BY <2>1, <2>2, <2>3 DEF Start
    <3>2. disk.sub \in {0, 1} /\ jobs'[Len(jobs')].script = disk.sub
      BY <2>2, <3>1 DEF Launchable, Disk
    <3>3. QED
      BY <2>1, <3>1, <3>2 DEF AskedFor
  <2>4. ASSUME NEW i \in DOMAIN jobs, JobRuns(i) \/ JobHeld(i) PROVE Len(jobs') = Len(jobs)
    <3>1. CASE JobRuns(i)
      BY <2>1, <3>1, JobChanges DEF JobRuns
    <3>2. CASE JobHeld(i)
      BY <2>1, <3>2, JobChanges DEF JobHeld
    <3>3. QED
      BY <2>4, <3>1, <3>2
  <2>5. ASSUME ~Start, \A i \in DOMAIN jobs : ~JobRuns(i) /\ ~JobHeld(i) PROVE jobs' = jobs
    BY <2>1, <2>5 DEF Next, Prepare, Finish, Retry, Restart, Reset, Decide, PayloadEnds, world
  <2>6. QED
    BY <2>1, <2>2, <2>3, <2>4, <2>5
<1>3. QED
  BY <1>1, <1>2, TypedInitially, TypedIsKept, AskedForIsKept, PTL DEF Spec, LaunchesAsAsked

-----------------------------------------------------------------------------
(* While the directory of a known workflow is there, bps has printed no    *)
(* other name than its own, and nothing that is to be launched or to run   *)
(* will.  A directory that was removed does not come back.                 *)
Onward(x) ==
  x \in disk.dirs =>
    /\ disk.stdout \in {x, None}
    /\ cluster > 0 /\ jobs[cluster].state \in {"queued", "held"} => jobs[cluster].script # 0
    /\ status = "ready" => disk.sub # 0

(* Once the group's job has done its work, the name that is printed is of  *)
(* a workflow that was submitted or restarted since the group was ready.   *)
Judged ==
  status = "running" /\ jobs[cluster].state = "good" /\ disk.stdout \in disk.dirs
    => payload[disk.stdout].epoch = epoch

Fresh == ~strayed => Onward(bps) /\ Onward(disk.target) /\ Judged

LEMMA LauncherDone ==
  ASSUME Launcher # "running", Launcher # "raises"
  PROVE  jobs[cluster].state = "good"
BY DEF Launcher

LEMMA DaemonKeepsFresh ==
  ASSUME Typed, Fresh, Prepare \/ Start \/ Finish
  PROVE  Fresh'
<1> USE DEF Fresh
<1>1. crashes \in 0..MaxCrashes /\ 0 \notin disk.dirs /\ None \notin disk.dirs
  BY DEF Typed, Counted, DiskTyped, WorldTyped
<1>2. CASE Prepare
  <2>1. disk'.dirs = {} \/ (Fails(bps) /\ UNCHANGED <<disk, epoch>>)
    <3>1. Rendered \in Disk /\ NoDisk \in Disk /\ Rendered.dirs = {} /\ NoDisk.dirs = {}
      BY DEF Rendered, NoDisk, Disk
    <3>2. QED
      BY <1>2, <3>1 DEF Prepare, Unprepared, Disk
  <2>2. CASE disk'.dirs = {}
    BY <2>2 DEF Onward, Judged
  <2>3. CASE Fails(bps) /\ UNCHANGED <<disk, epoch>>
    <3>1. bps' = bps /\ cluster' = cluster /\ status' \in {"failed", "waiting"}
      BY <1>1, <1>2, <2>3, SavesOrLoses DEF Prepare, Fails, Becomes, row
    <3>2. UNCHANGED <<jobs, payload, strayed>>
      BY <1>2 DEF Prepare, world
    <3>3. QED
      BY <2>3, <3>1, <3>2 DEF Onward, Judged
  <2>4. QED
    BY <2>1, <2>2, <2>3
<1>3. CASE Start
  <2>1. strayed' = strayed /\ disk' = disk /\ payload' = payload /\ epoch' = epoch /\ status = "ready"
    BY <1>3 DEF Start, history
  <2>2. ASSUME jobs' = Append(jobs, [script |-> disk.sub, state |-> "queued"]),
               status' = "running", bps' = bps, cluster' = Len(jobs) + 1
        PROVE  Fresh'
    <3>1. cluster' > 0 /\ jobs'[cluster'] = [script |-> disk.sub, state |-> "queued"]
      BY <2>2 DEF Typed, WorldTyped
    <3>2. QED
      BY <2>1, <2>2, <3>1 DEF Onward, Judged
  <2>3. ASSUME UNCHANGED row, jobs' = Append(jobs, [script |-> disk.sub, state |-> "queued"])
        PROVE  Fresh'
    <3>1. cluster > 0 => jobs'[cluster] = jobs[cluster]
      BY <2>3 DEF Typed, RowTyped, WorldTyped
    <3>2. QED
      BY <2>1, <2>3, <3>1 DEF row, Onward, Judged
  <2>4. ASSUME UNCHANGED jobs, bps' = bps, cluster' = cluster, status' \in {"failed", status}
        PROVE  Fresh'
    BY <2>1, <2>4 DEF Onward, Judged
  <2>5. QED
    BY <1>1, <1>3, <2>2, <2>3, <2>4, SavesOrLoses DEF Start, Fails, Becomes, row
<1>4. CASE Finish
  <2>1. UNCHANGED <<strayed, disk, payload, jobs, epoch>> /\ status = "running"
    BY <1>4 DEF Finish, world, history
  <2>2. cluster' = cluster /\ status' \in {"accepted", "failed", "running"}
        /\ bps' \in {bps, Verdict.bps}
    BY <1>1, <1>4, SavesOrLoses DEF Finish, Fails, Becomes, row
  <2>3. bps' = bps \/ (jobs[cluster].state = "good" /\ bps' = Captured)
    BY <2>2, LauncherDone DEF Verdict
  <2>4. Captured \in {disk.stdout, 0}
    BY DEF Captured
  <2>5. QED
    BY <1>1, <2>1, <2>2, <2>3, <2>4 DEF Onward, Judged
<1>5. QED
  BY <1>2, <1>3, <1>4

LEMMA UsersKeepFresh ==
  ASSUME Typed, Fresh, Retry \/ Restart \/ Reset \/ \E s \in {"failed", "accepted"} : Decide(s)
  PROVE  Fresh'
<1> USE DEF Fresh
<1>1. crashes \in 0..MaxCrashes /\ None \notin disk.dirs /\ disk \in Disk
  BY DEF Typed, Counted, DiskTyped, WorldTyped
<1>2. UNCHANGED <<jobs, payload, strayed>>
  BY DEF Retry, Restart, Reset, Decide, world
<1>3. CASE Retry
  <2>1. disk'.dirs = {}
    BY <1>1, <1>3 DEF Retry, Retried, Disk
  <2>2. QED
    BY <2>1 DEF Onward, Judged
<1>4. CASE Restart
  <2>1. machine.exe \in Nat
    BY <1>4 DEF Restart, Asks, Typed, MachineTyped, Machine
  <2>2. disk'.dirs = disk.dirs /\ disk'.stdout = disk.stdout /\ disk'.target = bps /\ disk'.sub # 0
    BY <1>1, <1>4, <2>1 DEF Restart, Restarted, Disk
  <2>3. bps' = bps /\ cluster' = cluster /\ status' # "running"
    BY <1>1, <1>4, SavesOrLoses DEF Restart, Asks, Becomes, row
  <2>4. QED
    BY <1>2, <2>2, <2>3 DEF Onward, Judged
<1>5. CASE Reset
  <2>1. disk' = disk \/ disk'.dirs = {}
    BY <1>5 DEF Reset, NoDisk
  <2>2. bps' \in {bps, None} /\ cluster' = cluster /\ status' \notin {"running", "ready"}
    BY <1>1, <1>5, SavesOrLoses DEF Reset, Asks, Becomes, row
  <2>3. CASE disk' = disk
    BY <1>1, <1>2, <2>2, <2>3 DEF Onward, Judged
  <2>4. CASE disk'.dirs = {}
    BY <2>4 DEF Onward, Judged
  <2>5. QED
    BY <2>1, <2>3, <2>4
<1>6. ASSUME NEW s \in {"failed", "accepted"}, Decide(s) PROVE Fresh'
  <2>1. bps' = bps /\ cluster' = cluster /\ status' \in {"failed", "accepted", status}
    BY <1>1, <1>6, SavesOrLoses DEF Decide, Becomes, row
  <2>2. UNCHANGED <<disk, epoch>>
    BY <1>6 DEF Decide, history
  <2>3. QED
    BY <1>2, <2>1, <2>2 DEF Onward, Judged
<1>7. QED
  BY <1>3, <1>4, <1>5, <1>6

LEMMA WorldKeepsFresh ==
  ASSUME Typed, Fresh, NEW i \in DOMAIN jobs, JobRuns(i) \/ JobHeld(i) \/ PayloadEnds(i)
  PROVE  Fresh'
<1> USE DEF Fresh
<1>1. UNCHANGED <<row, epoch>> /\ disk \in Disk
  BY DEF JobRuns, JobHeld, PayloadEnds, history, Typed, DiskTyped
<1>2. None \notin disk.dirs /\ disk.dirs \subseteq DOMAIN payload
      /\ {bps, disk.target} \subseteq DOMAIN payload \cup {None, 0}
  BY DEF Typed, RowTyped, DiskTyped, WorldTyped
<1>3. CASE JobRuns(i)
  <2>1. SUFFICES ASSUME ~strayed' PROVE Onward(bps)' /\ Onward(disk.target)' /\ Judged'
    OBVIOUS
  <2>2. i = cluster /\ ~strayed
    BY <1>3, <2>1 DEF JobRuns, Typed, HistoryTyped
  <2>3. PICK s \in {"good", "bad"} : jobs' = [jobs EXCEPT ![i].state = s]
    BY <1>3 DEF JobRuns
  <2>4. /\ jobs'[i].state = s /\ i # 0 /\ i # None /\ i \notin DOMAIN payload
        /\ cluster > 0 /\ jobs[i].state \in {"queued", "held"}
    <3>1. jobs[i].state \in {"queued", "held"}
      BY <1>3 DEF JobRuns
    <3>2. jobs'[i].state = s /\ i \in Nat \ {0} /\ i \notin DOMAIN payload
      BY <2>3, <3>1, JobChanges
    <3>3. QED
      BY <2>2, <3>1, <3>2
  <2>5. ASSUME jobs[i].script = 0, disk' = [disk EXCEPT !.stdout = i, !.dirs = @ \cup {i}],
               payload' = [j \in DOMAIN payload \cup {i} |->
                             IF j = i THEN [report |-> Begun, epoch |-> epoch] ELSE payload[j]]
        PROVE  Onward(bps)' /\ Onward(disk.target)' /\ Judged'
    <3>1. disk'.dirs = disk.dirs \cup {i} /\ disk'.stdout = i /\ disk'.target = disk.target
      BY <1>1, <2>5 DEF Disk
    <3>2. bps \notin disk.dirs /\ disk.target \notin disk.dirs
      BY <2>2, <2>4, <2>5 DEF Onward
    <3>3. bps' = bps /\ bps # i /\ disk.target # i
      BY <1>1, <1>2, <2>4 DEF row
    <3>4. payload'[i].epoch = epoch
      BY <2>5
    <3>5. QED
      BY <1>1, <3>1, <3>2, <3>3, <3>4 DEF Onward, Judged
  <2>6. ASSUME disk.target \in disk.dirs, UNCHANGED disk,
               payload' = [payload EXCEPT ![disk.target] = [report |-> Begun, epoch |-> epoch]]
        PROVE  Onward(bps)' /\ Onward(disk.target)' /\ Judged'
    <3>1. payload'[disk.target].epoch = epoch
      BY <1>2, <2>6
    <3>2. disk.stdout \in {disk.target, None}
      BY <2>2, <2>6 DEF Onward
    <3>3. QED
      BY <1>1, <1>2, <2>2, <2>4, <2>6, <3>1, <3>2 DEF row, Onward, Judged
  <2>7. ASSUME jobs' = [jobs EXCEPT ![i].state = "bad"], disk' \in {disk, [disk EXCEPT !.stdout = None]}
        PROVE  Onward(bps)' /\ Onward(disk.target)' /\ Judged'
    <3>1. jobs'[i].state = "bad"
      BY <2>4, <2>7, <1>3, JobChanges DEF JobRuns
    <3>2. disk'.dirs = disk.dirs /\ disk'.stdout \in {disk.stdout, None} /\ disk'.target = disk.target
          /\ disk'.sub = disk.sub
      BY <1>1, <2>7 DEF Disk
    <3>3. QED
      BY <1>1, <2>2, <3>1, <3>2 DEF row, Onward, Judged
  <2>8. QED
    BY <1>3, <2>5, <2>6, <2>7 DEF JobRuns
<1>4. CASE JobHeld(i)
  <2>1. jobs'[i].state = "held" /\ jobs'[i].script = jobs[i].script /\ i = cluster
        /\ jobs[i].state = "queued" /\ UNCHANGED <<strayed, disk, payload>>
    BY <1>4, JobChanges DEF JobHeld
  <2>2. QED
    BY <1>1, <2>1 DEF row, Onward, Judged
<1>5. CASE PayloadEnds(i)
  <2>1. UNCHANGED <<strayed, disk, jobs>>
    BY <1>5 DEF PayloadEnds
  <2>2. \A p \in DOMAIN payload : payload'[p].epoch = payload[p].epoch
    BY <1>5 DEF PayloadEnds, Typed, WorldTyped
  <2>3. QED
    BY <1>1, <1>2, <2>1, <2>2 DEF row, Onward, Judged
<1>6. QED
  BY <1>3, <1>4, <1>5

LEMMA FreshIsKept == Typed /\ Fresh /\ [Next]_vars => Fresh'
<1>1. ASSUME Typed, Fresh, Next PROVE Fresh'
  BY <1>1, DaemonKeepsFresh, UsersKeepFresh, WorldKeepsFresh DEF Next
<1>2. ASSUME Fresh, UNCHANGED vars PROVE Fresh'
  BY <1>2 DEF vars, row, world, history, Fresh, Onward, Judged
<1>3. QED
  BY <1>1, <1>2

LEMMA FreshInitially == Init => Fresh
<1>1. SUFFICES ASSUME Init PROVE Fresh
  OBVIOUS
<1>2. disk.dirs = {} /\ status # "running"
  BY <1>1 DEF Init, NoDisk
<1>3. QED
  BY <1>2 DEF Fresh, Onward, Judged

(* A group is accepted by the report of a workflow that was submitted or   *)
(* restarted after the group became ready for it last, as long as no job   *)
(* has run that its row does not know.                                     *)
THEOREM FreshReports == Spec => FinishesOnFreshReport
<1>1. Typed /\ Fresh /\ [Next]_vars
        => [status = "running" /\ Finish /\ status' = "accepted" /\ ~strayed
              => payload[bps'].report.state = "SUCCEEDED" /\ payload[bps'].epoch = epoch]_vars
  <2>1. SUFFICES ASSUME Typed, Fresh, Finish, status = "running", status' = "accepted", ~strayed
                 PROVE  payload[bps'].report.state = "SUCCEEDED" /\ payload[bps'].epoch = epoch
    BY DEF vars
  <2>2. crashes \in 0..MaxCrashes
    BY <2>1 DEF Typed, Counted
  <2>3. Verdict.is = "done" /\ bps' = Verdict.bps
    <3>1. CASE Verdict.is = "done"
      BY <2>1, <2>2, <3>1, SavesOrLoses DEF Finish, Becomes, row
    <3>2. CASE Verdict.is # "done"
      BY <2>1, <2>2, <3>2, SavesOrLoses DEF Finish, Fails, Becomes, row
    <3>3. QED
      BY <3>1, <3>2
  <2>4. Launcher # "running" /\ Launcher # "raises" /\ Verdict.bps = Captured
        /\ Captured # Nothing /\ Report(Captured) = "done"
    BY <2>3 DEF Verdict
  <2>5. Captured = disk.stdout /\ disk.stdout \in disk.dirs
    BY <2>4 DEF Captured, Report
  <2>6. payload[disk.stdout].epoch = epoch
    BY <2>1, <2>4, <2>5, LauncherDone DEF Fresh, Judged
  <2>7. payload[disk.stdout].report \in WmsReport
    BY <2>1, <2>5 DEF Typed, DiskTyped, WorldTyped
  <2>8. payload[disk.stdout].report.state = "SUCCEEDED"
    <3> DEFINE r == payload[disk.stdout].report
    <3>1. Report(disk.stdout) = "done"
      BY <2>4, <2>5
    <3>2. r.state \notin {"RUNNING", "FAILED", "DELETED"}
      BY <2>5, <3>1 DEF Report
    <3>3. StatusFromReport(r) \in {"accepted", "reviewable"}
      BY <2>5, <3>1 DEF Report
    <3>4. QED
      BY <3>2, <3>3 DEF StatusFromReport
  <2>9. QED
    BY <2>3, <2>4, <2>5, <2>6, <2>8
<1>2. QED
  BY <1>1, TypedInitially, TypedIsKept, FreshInitially, FreshIsKept, PTL
     DEF Spec, FinishesOnFreshReport
=============================================================================
