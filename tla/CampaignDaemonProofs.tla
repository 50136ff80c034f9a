------------------------ MODULE CampaignDaemonProofs ------------------------
(***************************************************************************)
(* Proofs about CampaignDaemon for every campaign graph, every choice of   *)
(* its other constants and any number of crashes and requests; and, from   *)
(* them, about CampaignOperators for any number of node PATCHes besides.   *)
(***************************************************************************)
EXTENDS CampaignOperators, TLAPS

(* The daemon alone knows five statuses of a node.                         *)
HappyOrFailed == {"waiting", "ready", "running", "accepted", "failed"}

StatusRange == \A n \in Nodes : status[n] \in HappyOrFailed

(* Transitions run only during phase two, each for a row of the table.     *)
JobsAreAwaited == pc \notin {"evolve", "commit"} => AllAwaited

JobsHaveTasks == \A t \in TaskId : job[t] # "none" => t \in tasks

(* A selected task that the loop has yet to visit has no transition, and   *)
(* if its node was in sync when selected it still is.                      *)
BatchIsFresh ==
  pc \in {"evolve", "commit"} =>
    \A t \in batch : InSync(t) => status[t[1]] = seen[t[1]] /\ job[t] = "none"

IInv ==
  /\ TypeOK
  /\ StatusRange
  /\ JobsAreAwaited
  /\ JobsHaveTasks
  /\ BatchIsFresh
  /\ SnapshotsFresh
  /\ ProcessedNodesAreReached

-----------------------------------------------------------------------------
(* The vocabulary                                                          *)

LEMMA StatusSet ==
  Status = {"overdue", "failed", "rejected", "blocked", "paused", "rescuable",
            "waiting", "ready", "prepared", "running", "reviewable",
            "accepted", "rescued"}
  BY DEF Status, StatusValue

LEMMA NeedsAttention ==
  /\ {"waiting", "ready", "running"} \subseteq ProcessableScript
  /\ ProcessableScript \cap HappyOrFailed = {"waiting", "ready", "running"}
<1>1. StatusValue["waiting"] = 0 /\ StatusValue["ready"] = 1 /\ StatusValue["running"] = 3
      /\ StatusValue["accepted"] = 5 /\ StatusValue["failed"] = -5
  BY DEF StatusValue
<1> QED
  BY <1>1, StatusSet DEF ProcessableScript, HappyOrFailed

(* A task's target is one step from the status it leaves, and no two       *)
(* targets leave the same status.                                          *)
LEMMA TargetFacts ==
  /\ \A s \in {"waiting", "ready", "running"} :
       NextStatus(s) \in Targets /\ PreviousOf[NextStatus(s)] = s
  /\ \A x \in Targets :
       /\ PreviousOf[x] \in {"waiting", "ready", "running"}
       /\ NextStatus(PreviousOf[x]) = x
       /\ x \in HappyOrFailed
  /\ \A x, y \in Targets : PreviousOf[x] = PreviousOf[y] => x = y
  BY DEF Targets, PreviousOf, NextStatus, HappyOrFailed

LEMMA TaskShape ==
  ASSUME NEW t \in TaskId
  PROVE  t[1] \in Nodes /\ t[2] \in Targets /\ t = <<t[1], t[2]>>
  BY DEF TaskId

(* Two tasks of one node that leave the same status are the same task.     *)
LEMMA SameTask ==
  ASSUME NEW t \in TaskId, NEW u \in TaskId,
         t[1] = u[1], PreviousOf[t[2]] = PreviousOf[u[2]]
  PROVE  t = u
  BY TaskShape, TargetFacts

-----------------------------------------------------------------------------
(* The graph walk                                                          *)

(* A processable node is reached through accepted nodes.                   *)
LEMMA ProcessableIsReached ==
  ASSUME StatusRange, NEW n \in Processable(status)
  PROVE  n \in Nodes /\ Promise!Reached(n) /\ status[n] \in {"waiting", "ready", "running"}
<1>1. n \in Nodes /\ status[n] \in {"waiting", "ready", "running"}
  BY NeedsAttention DEF Processable, StatusRange
<1>2. PICK p \in SimplePaths : \E i \in DOMAIN p :
        /\ p[i] = n
        /\ \A j \in 1..i-1 : status[p[j]] \notin ProcessableScript \cup {"failed"}
  BY DEF Processable
<1>3. PICK i \in DOMAIN p :
        /\ p[i] = n
        /\ \A j \in 1..i-1 : status[p[j]] \notin ProcessableScript \cup {"failed"}
  BY <1>2
<1>4. p \in Seq(Nodes) /\ i \in 1..Len(p)
  BY <1>3, GraphAssumption
<1>5. ASSUME NEW j \in 1..i-1 PROVE status[p[j]] = "accepted"
  <2>1. p[j] \in Nodes
    BY <1>4
  <2> QED
    BY <2>1, <1>3, NeedsAttention DEF StatusRange, HappyOrFailed
<1> QED
  BY <1>1, <1>3, <1>5 DEF Promise!Reached

(* Being reached lasts as long as accepted nodes stay accepted.            *)
LEMMA ReachedIsStable ==
  ASSUME \A m \in Nodes : status[m] = "accepted" => status'[m] = "accepted",
         NEW n \in Nodes, Promise!Reached(n)
  PROVE  Promise!Reached(n)'
<1>1. PICK p \in SimplePaths : \E i \in DOMAIN p :
        p[i] = n /\ \A j \in 1..i-1 : status[p[j]] = "accepted"
  BY DEF Promise!Reached
<1>2. PICK i \in DOMAIN p : p[i] = n /\ \A j \in 1..i-1 : status[p[j]] = "accepted"
  BY <1>1
<1>3. p \in Seq(Nodes) /\ i \in 1..Len(p)
  BY <1>2, GraphAssumption
<1>4. ASSUME NEW j \in 1..i-1 PROVE status'[p[j]] = "accepted"
  <2>1. p[j] \in Nodes
    BY <1>3
  <2> QED
    BY <2>1, <1>2
<1> QED
  BY <1>2, <1>4 DEF Promise!Reached

(* What phase one and the RPC plan are rows for reached nodes.             *)
LEMMA PlannedTasks ==
  ASSUME StatusRange, NEW ns \in SUBSET Nodes,
         \A n \in ns : /\ status[n] \in {"waiting", "ready", "running"}
                       /\ Promise!Reached(n)
  PROVE  TasksFor(ns) \subseteq TaskId /\ \A t \in TasksFor(ns) : Promise!Reached(t[1])
<1>1. ASSUME NEW t \in TasksFor(ns) PROVE t \in TaskId /\ Promise!Reached(t[1])
  <2>1. PICK n \in ns : t = <<n, NextStatus(status[n])>>
    BY DEF TasksFor
  <2>2. NextStatus(status[n]) \in Targets
    BY TargetFacts
  <2>3. t \in TaskId
    BY <2>1, <2>2 DEF TaskId
  <2> QED
    BY <2>1, <2>3
<1> QED
  BY <1>1

(* A step that leaves the nodes alone and plans for reached nodes only.    *)
LEMMA SameNodesReached ==
  ASSUME TypeOK, ProcessedNodesAreReached, status' = status,
         tasks' \cup plan' \cup rpc' \subseteq TaskId,
         \A t \in tasks' \cup plan' \cup rpc' :
           t \in tasks \cup plan \cup rpc \/ Promise!Reached(t[1])
  PROVE  ProcessedNodesAreReached'
<1>1. \A n \in Nodes : Promise!Reached(n) => Promise!Reached(n)'
  BY ReachedIsStable
<1>2. \A t \in tasks' \cup plan' \cup rpc' : t[1] \in Nodes
  BY TaskShape
<1> QED
  BY <1>1, <1>2 DEF ProcessedNodesAreReached

-----------------------------------------------------------------------------
(* The invariant                                                           *)

LEMMA InitInv == Init => IInv
<1> SUFFICES ASSUME Init PROVE IInv
  OBVIOUS
<1>1. TypeOK
  <2>1. "waiting" \in Status
    BY StatusSet
  <2>2. "none" \in JobPhase
    BY DEF JobPhase
  <2>3. InitialCampaign \in Status /\ MaxRequests \in Nat /\ MaxCrashes \in Nat
    BY RequestAssumption, BoundAssumption
  <2>4. status \in [Nodes -> Status] /\ seen \in [Nodes -> Status]
    BY <2>1 DEF Init
  <2>5. /\ fsm \in [Nodes -> Status \cup {"none"}] /\ seenFsm = fsm
        /\ job \in [TaskId -> JobPhase]
    BY <2>2 DEF Init
  <2>6. wms \in [Nodes -> {"none", "active", "done", "failed"}] /\ launches \in [Nodes -> Nat]
    BY DEF Init
  <2>7. campaign \in Status /\ seenCampaign \in Status
        /\ crashes \in 0..MaxCrashes /\ asked \in 0..MaxRequests
    BY <2>3 DEF Init
  <2>8. /\ pc \in {"campaigns", "locked", "planned", "nodes", "evolve", "commit"}
        /\ tasks = {} /\ submitted = {} /\ plan = {} /\ batch = {} /\ cur = {}
        /\ creqs = {} /\ rpc = {}
    BY DEF Init
  <2>9. dirty \in BOOLEAN
    BY DEF Init
  <2> QED
    BY <2>4, <2>5, <2>6, <2>7, <2>8, <2>9 DEF TypeOK
<1>2. StatusRange
  BY DEF Init, StatusRange, HappyOrFailed
<1>3. JobsAreAwaited /\ JobsHaveTasks /\ BatchIsFresh /\ SnapshotsFresh
  BY DEF Init, JobsAreAwaited, JobsHaveTasks, BatchIsFresh, SnapshotsFresh, AllAwaited, Unsaved
<1>4. ProcessedNodesAreReached
  BY DEF Init, ProcessedNodesAreReached
<1> QED
  BY <1>1, <1>2, <1>3, <1>4 DEF IInv

LEMMA PhaseOneInv ==
  ASSUME IInv, PlanTasks \/ CommitPlan
  PROVE  IInv'
<1> USE DEF IInv
<1>1. CASE PlanTasks
  <2>1. plan' \subseteq TaskId /\ \A t \in plan' : t \in tasks \cup plan \cup rpc \/ Promise!Reached(t[1])
    <3>1. CASE plan' = TasksFor(Processable(status))
      BY <3>1, ProcessableIsReached, PlannedTasks DEF Processable
    <3>2. CASE plan' = TasksFor(PausedNodes)
      BY <3>2, PlannedTasks DEF PausedNodes, ProcessedNodesAreReached
    <3> QED
      BY <1>1, <3>1, <3>2 DEF PlanTasks
  <2>2. TypeOK'
    BY <1>1, <2>1 DEF PlanTasks, TypeOK, rows, outside, snapshot, work, requests
  <2>3. ProcessedNodesAreReached'
    BY <1>1, <2>1, SameNodesReached DEF PlanTasks, TypeOK, rows, requests
  <2> QED
    BY <1>1, <2>2, <2>3
    DEF PlanTasks, rows, snapshot, work, StatusRange, JobsAreAwaited, JobsHaveTasks,
        BatchIsFresh, SnapshotsFresh, AllAwaited, InSync, Unsaved
<1>2. CASE CommitPlan
  <2>1. TypeOK'
    BY <1>2 DEF CommitPlan, InsertTasks, TypeOK, outside, snapshot, work, requests
  <2>2. ProcessedNodesAreReached'
    BY <1>2, SameNodesReached DEF CommitPlan, InsertTasks, TypeOK, requests
  <2> QED
    BY <1>2, <2>1, <2>2
    DEF CommitPlan, InsertTasks, snapshot, work, StatusRange, JobsAreAwaited,
        JobsHaveTasks, BatchIsFresh, SnapshotsFresh, AllAwaited, InSync, Unsaved
<1> QED
  BY <1>1, <1>2

LEMMA PhaseTwoInv ==
  ASSUME IInv,
         SelectTasks \/ CommitSubmission \/ EndIteration
           \/ \E t \in TaskId : SkipTask(t) \/ EvolveTask(t)
  PROVE  IInv'
<1> USE DEF IInv
<1>1. CASE SelectTasks
  <2>1. TypeOK'
    BY <1>1 DEF SelectTasks, TypeOK, rows, outside, work, requests
  <2>2. ProcessedNodesAreReached'
    BY <1>1, SameNodesReached DEF SelectTasks, TypeOK, rows, requests
  <2>3. AllAwaited /\ UNCHANGED <<status, job>> /\ batch' \subseteq TaskId
    BY <1>1 DEF SelectTasks, JobsAreAwaited, rows, work, TypeOK
  <2>4. SnapshotsFresh' /\ JobsHaveTasks' /\ BatchIsFresh'
    BY <1>1, <2>3
    DEF SelectTasks, SnapshotsFresh, JobsHaveTasks, BatchIsFresh, AllAwaited, Unsaved, InSync
  <2> QED
    BY <1>1, <2>1, <2>2, <2>3, <2>4 DEF SelectTasks, StatusRange, JobsAreAwaited
<1>2. CASE CommitSubmission
  <2>1. TypeOK'
    BY <1>2 DEF CommitSubmission, TypeOK, outside, work, requests
  <2>2. ProcessedNodesAreReached'
    BY <1>2, SameNodesReached DEF CommitSubmission, TypeOK, requests
  <2> QED
    BY <1>2, <2>1, <2>2
    DEF CommitSubmission, work, StatusRange, JobsAreAwaited, JobsHaveTasks,
        BatchIsFresh, SnapshotsFresh, AllAwaited, InSync, Unsaved
<1>3. CASE EndIteration
  <2>1. TypeOK'
    BY <1>3 DEF EndIteration, TypeOK, rows, outside, snapshot, work, requests
  <2>2. ProcessedNodesAreReached'
    BY <1>3, SameNodesReached DEF EndIteration, TypeOK, rows, requests
  <2> QED
    BY <1>3, <2>1, <2>2
    DEF EndIteration, rows, snapshot, work, StatusRange, JobsAreAwaited, JobsHaveTasks,
        BatchIsFresh, SnapshotsFresh, AllAwaited, InSync, Unsaved
<1>4. ASSUME NEW t \in TaskId, SkipTask(t) PROVE IInv'
  <2>1. TypeOK'
    BY <1>4 DEF SkipTask, TypeOK, rows, outside, snapshot, work, requests
  <2>2. ProcessedNodesAreReached'
    BY <1>4, SameNodesReached DEF SkipTask, TypeOK, rows, requests
  <2> QED
    BY <1>4, <2>1, <2>2
    DEF SkipTask, rows, snapshot, work, StatusRange, JobsAreAwaited, JobsHaveTasks,
        BatchIsFresh, SnapshotsFresh, AllAwaited, InSync, Unsaved
<1>5. ASSUME NEW t \in TaskId, EvolveTask(t) PROVE IInv'
  <2>1. TypeOK'
    BY <1>5 DEF EvolveTask, TypeOK, JobPhase, rows, outside, snapshot, requests
  <2>2. ProcessedNodesAreReached'
    BY <1>5, SameNodesReached DEF EvolveTask, TypeOK, rows, requests
  <2>3. /\ status[t[1]] = seen[t[1]] /\ seen[t[1]] = PreviousOf[t[2]]
        /\ \A u \in TaskId \ {t} : job'[u] = job[u]
        /\ UNCHANGED <<status, seen, tasks>> /\ t \in tasks
    BY <1>5 DEF EvolveTask, BatchIsFresh, TypeOK, InSync, rows, snapshot
  <2>4. SnapshotsFresh'
    BY <2>3 DEF SnapshotsFresh, Unsaved
  <2>5. BatchIsFresh' /\ JobsHaveTasks'
    BY <1>5, <2>3 DEF EvolveTask, BatchIsFresh, JobsHaveTasks, TypeOK, InSync
  <2> QED
    BY <1>5, <2>1, <2>2, <2>3, <2>4, <2>5
    DEF EvolveTask, StatusRange, JobsAreAwaited
<1> QED
  BY <1>1, <1>2, <1>3, <1>4, <1>5

-----------------------------------------------------------------------------
(* Transitions                                                             *)

(* What the steps of a transition that write no node have in common.       *)
LEMMA QuietJobInv ==
  ASSUME IInv, NEW t \in TaskId, TypeOK',
         UNCHANGED <<status, tasks, pc, plan, batch, seen, rpc>>,
         job[t] # "none",
         job' = [job EXCEPT ![t] = job'[t]],
         Unsaved(t)' => Unsaved(t)
  PROVE  IInv'
<1> USE DEF IInv
<1>1. ProcessedNodesAreReached'
  BY SameNodesReached DEF TypeOK
<1>2. \A u \in TaskId \ {t} : job'[u] = job[u]
  BY DEF TypeOK
<1>3. pc \in {"evolve", "commit"}
  BY DEF JobsAreAwaited, AllAwaited
<1>4. SnapshotsFresh'
  BY <1>2 DEF SnapshotsFresh, Unsaved
<1>5. BatchIsFresh' /\ JobsHaveTasks'
  <2>1. batch \subseteq TaskId
    BY DEF TypeOK
  <2>2. \A u \in batch : InSync(u) => u # t
    BY <1>3 DEF BatchIsFresh
  <2> QED
    BY <1>2, <1>3, <2>1, <2>2 DEF BatchIsFresh, JobsHaveTasks, InSync
<1> QED
  BY <1>1, <1>3, <1>4, <1>5 DEF StatusRange, JobsAreAwaited

(* A transition that writes its node: it finds it where it selected it, no *)
(* other transition and no task ahead in the batch is about that node, and *)
(* it writes an accepted node never.                                       *)
LEMMA WritingJobInv ==
  ASSUME IInv, NEW t \in TaskId, TypeOK', Unsaved(t),
         UNCHANGED <<tasks, pc, plan, batch, seen, rpc>>,
         NEW s \in HappyOrFailed, status' = [status EXCEPT ![t[1]] = s],
         job' = [job EXCEPT ![t] = job'[t]], ~Unsaved(t)'
  PROVE  IInv'
<1> USE DEF IInv
<1>1. /\ status[t[1]] = seen[t[1]] /\ seen[t[1]] = PreviousOf[t[2]]
      /\ status[t[1]] \in {"waiting", "ready", "running"}
  BY TaskShape, TargetFacts DEF SnapshotsFresh
<1>2. /\ \A u \in TaskId \ {t} : job'[u] = job[u]
      /\ \A n \in Nodes \ {t[1]} : status'[n] = status[n]
      /\ status'[t[1]] = s
  BY TaskShape DEF TypeOK
<1>3. pc \in {"evolve", "commit"} /\ job[t] # "none"
  BY DEF JobsAreAwaited, AllAwaited, Unsaved
<1>4. ASSUME NEW u \in TaskId, u # t, seen[u[1]] = PreviousOf[u[2]] PROVE u[1] # t[1]
  BY <1>1, <1>4, SameTask
<1>5. StatusRange'
  BY <1>2 DEF StatusRange
<1>6. SnapshotsFresh'
  BY <1>2, <1>4, TaskShape DEF SnapshotsFresh, Unsaved
<1>7. BatchIsFresh'
  <2>1. batch \subseteq TaskId
    BY DEF TypeOK
  <2>2. ASSUME NEW u \in batch, InSync(u)
        PROVE  status'[u[1]] = seen[u[1]] /\ job'[u] = "none"
    <3>1. u # t /\ status[u[1]] = seen[u[1]] /\ job[u] = "none"
      BY <1>3, <2>2 DEF BatchIsFresh
    <3>2. u[1] # t[1] /\ u[1] \in Nodes
      BY <1>4, <2>1, <2>2, <3>1, TaskShape DEF InSync
    <3> QED
      BY <1>2, <2>1, <3>1, <3>2
  <2> QED
    BY <2>2 DEF BatchIsFresh, InSync
<1>8. JobsHaveTasks'
  BY <1>2, <1>3 DEF JobsHaveTasks
<1>9. ProcessedNodesAreReached'
  <2>1. \A n \in Nodes : Promise!Reached(n) => Promise!Reached(n)'
    BY <1>1, <1>2, ReachedIsStable
  <2>2. Promise!Reached(t[1])
    BY <1>3 DEF JobsHaveTasks, ProcessedNodesAreReached
  <2>3. \A n \in Nodes : status'[n] # "waiting" => Promise!Reached(n)
    BY <1>2, <2>2 DEF ProcessedNodesAreReached
  <2>4. \A u \in tasks \cup plan \cup rpc : u[1] \in Nodes
    BY TaskShape DEF TypeOK
  <2> QED
    BY <2>1, <2>3, <2>4 DEF ProcessedNodesAreReached
<1> QED
  BY <1>3, <1>5, <1>6, <1>7, <1>8, <1>9 DEF JobsAreAwaited

LEMMA JobInv ==
  ASSUME IInv, NEW t \in TaskId, JobStep(t)
  PROVE  IInv'
<1> USE DEF IInv
<1>0. t[1] \in Nodes /\ t[2] \in Targets /\ t[2] \in HappyOrFailed /\ HappyOrFailed \subseteq Status
  BY TaskShape, TargetFacts, StatusSet DEF HappyOrFailed
<1>1. CASE JobActs(t)
  <2>1. dirty' \in BOOLEAN
    <3>1. CASE dirty' = (seenCampaign # "accepted")
      BY <3>1
    <3>2. CASE dirty' = dirty
      BY <3>2 DEF TypeOK
    <3> QED
      BY <1>1, <3>1, <3>2 DEF JobActs
  <2>2. seenCampaign' \in Status
    BY <1>1, StatusSet DEF JobActs, TypeOK
  <2>3. wms' \in [Nodes -> {"none", "active", "done", "failed"}] /\ launches' \in [Nodes -> Nat]
    BY <1>1 DEF JobActs, TypeOK, outside
  <2>4. job' \in [TaskId -> JobPhase]
    BY <1>1 DEF JobActs, TypeOK, JobPhase
  <2>5. TypeOK'
    BY <1>1, <2>1, <2>2, <2>3, <2>4 DEF JobActs, TypeOK, rows, loop, requests
  <2>6. job[t] # "none" /\ Unsaved(t)
    BY <1>1 DEF JobActs, Started, Unsaved
  <2> QED
    BY <1>1, <2>5, <2>6, QuietJobInv DEF JobActs, TypeOK, rows, loop, requests
<1>2. CASE JobDeclines(t) \/ JobRaises(t)
  <2>1. job' \in [TaskId -> JobPhase] /\ job' = [job EXCEPT ![t] = job'[t]]
    BY <1>2 DEF JobDeclines, JobRaises, TypeOK, JobPhase
  <2>2. TypeOK'
    BY <1>2, <2>1
    DEF JobDeclines, JobRaises, TypeOK, rows, outside, loop, snapshot, requests
  <2>3. job[t] # "none" /\ Unsaved(t)
    BY <1>2 DEF JobDeclines, JobRaises, Started, Unsaved
  <2> QED
    BY <1>2, <2>1, <2>2, <2>3, QuietJobInv
    DEF JobDeclines, JobRaises, rows, loop, snapshot, requests
<1>3. CASE JobSaves(t)
  <2>1. PICK s \in HappyOrFailed : MergeNode(t[1], s)
    BY <1>0, <1>3 DEF JobSaves, HappyOrFailed
  <2>2. /\ job' \in [TaskId -> JobPhase] /\ job' = [job EXCEPT ![t] = job'[t]]
        /\ ~Unsaved(t)' /\ Unsaved(t)
    BY <1>3 DEF JobSaves, TypeOK, JobPhase, Unsaved
  <2>3. fsm' \in [Nodes -> Status \cup {"none"}]
    BY <1>0, <2>1 DEF MergeNode, Unlinked, TypeOK
  <2>4. TypeOK'
    BY <1>0, <1>3, <2>1, <2>2, <2>3
    DEF JobSaves, MergeNode, TypeOK, outside, loop, snapshot, requests
  <2> QED
    BY <1>3, <2>1, <2>2, <2>4, WritingJobInv
    DEF JobSaves, MergeNode, loop, snapshot, requests
<1>4. CASE JobStores(t)
  <2>1. StoredState(t) \in Status
    BY <1>0, StatusSet DEF StoredState
  <2>2. job' \in [TaskId -> JobPhase] /\ job' = [job EXCEPT ![t] = job'[t]] /\ ~Unsaved(t)'
    BY <1>4 DEF JobStores, TypeOK, JobPhase, Unsaved
  <2>3. TypeOK'
    BY <1>0, <1>4, <2>1, <2>2 DEF JobStores, TypeOK, outside, loop, snapshot, requests
  <2> QED
    BY <1>4, <2>2, <2>3, QuietJobInv DEF JobStores, loop, snapshot, requests
<1>5. CASE JobWritesBack(t)
  <2>1. Unsaved(t) /\ seen[t[1]] \in HappyOrFailed
    BY <1>0, <1>5, TargetFacts
    DEF JobWritesBack, Unsaved, SnapshotsFresh, HappyOrFailed
  <2>2. job' \in [TaskId -> JobPhase] /\ job' = [job EXCEPT ![t] = job'[t]] /\ ~Unsaved(t)'
    BY <1>5 DEF JobWritesBack, TypeOK, JobPhase, Unsaved
  <2>3. fsm' \in [Nodes -> Status \cup {"none"}]
    BY <1>0, <1>5 DEF JobWritesBack, MergeNode, Unlinked, TypeOK
  <2>4. TypeOK'
    BY <1>0, <1>5, <2>1, <2>2, <2>3
    DEF JobWritesBack, MergeNode, TypeOK, outside, loop, snapshot, requests
  <2> QED
    BY <1>5, <2>1, <2>2, <2>4, WritingJobInv
    DEF JobWritesBack, MergeNode, loop, snapshot, requests
<1> QED
  BY <1>1, <1>2, <1>3, <1>4, <1>5 DEF JobStep

-----------------------------------------------------------------------------
(* The rest of the world                                                   *)

LEMMA WorldInv ==
  ASSUME IInv,
         Crash \/ ApiStep \/ (\E n \in Nodes : WmsCompletes(n)) \/ UNCHANGED vars
  PROVE  IInv'
<1> USE DEF IInv
<1>1. CASE Crash
  <2>a. dirty' \in BOOLEAN
    BY <1>1 DEF Crash
  <2>b. crashes' \in 0..MaxCrashes
    BY <1>1, BoundAssumption DEF Crash, TypeOK
  <2>c. job' \in [TaskId -> JobPhase]
    BY <1>1 DEF Crash, JobPhase
  <2>1. TypeOK'
    BY <1>1, <2>a, <2>b, <2>c DEF Crash, TypeOK, rows, outside, requests
  <2>2. ProcessedNodesAreReached'
    BY <1>1, SameNodesReached DEF Crash, TypeOK, rows, requests
  <2> QED
    BY <1>1, <2>1, <2>2
    DEF Crash, rows, StatusRange, JobsAreAwaited, JobsHaveTasks, BatchIsFresh,
        SnapshotsFresh, AllAwaited, InSync, Unsaved
<1>2. ASSUME NEW n \in Nodes, WmsCompletes(n) PROVE IInv'
  <2>1. TypeOK'
    BY <1>2 DEF WmsCompletes, TypeOK, rows, loop, snapshot, work, requests
  <2>2. ProcessedNodesAreReached'
    BY <1>2, SameNodesReached DEF WmsCompletes, TypeOK, rows, loop, requests
  <2> QED
    BY <1>2, <2>1, <2>2
    DEF WmsCompletes, rows, loop, snapshot, work, StatusRange, JobsAreAwaited,
        JobsHaveTasks, BatchIsFresh, SnapshotsFresh, AllAwaited, InSync, Unsaved
<1>3. CASE UNCHANGED vars
  <2>1. TypeOK'
    BY <1>3 DEF vars, TypeOK, rows, outside, loop, snapshot, work, requests
  <2>2. ProcessedNodesAreReached'
    BY <1>3, SameNodesReached DEF vars, TypeOK, rows, loop, requests
  <2> QED
    BY <1>3, <2>1, <2>2
    DEF vars, rows, loop, snapshot, work, StatusRange, JobsAreAwaited,
        JobsHaveTasks, BatchIsFresh, SnapshotsFresh, AllAwaited, InSync, Unsaved
<1>4. CASE ApiStep
  <2>1. UNCHANGED <<status, job, seen, pc, batch, plan>> /\ tasks \subseteq tasks'
    BY <1>4
    DEF ApiStep, RequestCampaign, ApplyCampaign, RpcReads, RpcCommits, InsertTasks,
        rows, loop, snapshot, work
  <2>2. TypeOK' /\ ProcessedNodesAreReached'
    <3>1. ASSUME NEW target \in CampaignTargets, RequestCampaign(target)
          PROVE  TypeOK' /\ ProcessedNodesAreReached'
      <4>1. [from |-> campaign, want |-> target.want, force |-> target.force]
              \in [from : Status, want : Status, force : BOOLEAN]
        BY RequestAssumption DEF TypeOK
      <4>2. TypeOK'
        BY <3>1, <4>1, BoundAssumption
        DEF RequestCampaign, TypeOK, rows, outside, loop, snapshot, work
      <4> QED
        BY <3>1, <4>2, SameNodesReached DEF RequestCampaign, TypeOK, rows, loop
    <3>2. ASSUME NEW r \in creqs, ApplyCampaign(r)
          PROVE  TypeOK' /\ ProcessedNodesAreReached'
      <4>1. campaign' \in Status
        <5>1. \A m \in CampaignTransitions : m.dest \in Status
          BY StatusSet DEF CampaignTransitions, Arrow
        <5> QED
          BY <3>2, <5>1 DEF ApplyCampaign, CampaignMoves, TypeOK
      <4>2. TypeOK'
        BY <3>2, <4>1 DEF ApplyCampaign, TypeOK, outside, loop, snapshot, work
      <4> QED
        BY <3>2, <4>2, SameNodesReached DEF ApplyCampaign, TypeOK, loop
    <3>3. CASE RpcReads
      <4>1. PICK ns \in SUBSET Nodes : ns \subseteq Processable(status) /\ rpc' = TasksFor(ns)
        BY <3>3 DEF RpcReads, RpcNodes, Processable
      <4>2. rpc' \subseteq TaskId /\ \A t \in rpc' : Promise!Reached(t[1])
        BY <4>1, ProcessableIsReached, PlannedTasks
      <4>3. TypeOK'
        BY <3>3, <4>2 DEF RpcReads, TypeOK, rows, outside, loop, snapshot, work
      <4> QED
        BY <3>3, <4>2, <4>3, SameNodesReached DEF RpcReads, TypeOK, rows, loop
    <3>4. CASE RpcCommits
      <4>1. TypeOK'
        BY <3>4 DEF RpcCommits, InsertTasks, TypeOK, outside, loop, snapshot, work
      <4> QED
        BY <3>4, <4>1, SameNodesReached DEF RpcCommits, InsertTasks, TypeOK, loop
    <3> QED
      BY <1>4, <3>1, <3>2, <3>3, <3>4 DEF ApiStep
  <2> QED
    BY <2>1, <2>2
    DEF StatusRange, JobsAreAwaited, JobsHaveTasks, BatchIsFresh, SnapshotsFresh,
        AllAwaited, InSync, Unsaved
<1> QED
  BY <1>1, <1>2, <1>3, <1>4

THEOREM Invariance == Spec => []IInv
<1>1. IInv /\ [Next]_vars => IInv'
  BY PhaseOneInv, PhaseTwoInv, JobInv, WorldInv DEF Next, DaemonStep
<1> QED
  BY InitInv, <1>1, PTL DEF Spec

-----------------------------------------------------------------------------
(* What it implies                                                         *)

(* The model is well typed.                                                *)
THEOREM TypeCorrect == Spec => []TypeOK
<1>1. IInv => TypeOK
  BY DEF IInv
<1> QED
  BY Invariance, <1>1, PTL

(* No concurrent transition, leftover task, crash or request moves a node  *)
(* between the moment a transition copied it and the moment it writes it:  *)
(* with one daemon, blind writes of node statuses lose no update.          *)
THEOREM NoLostUpdate == Spec => []SnapshotsFresh
<1>1. IInv => SnapshotsFresh
  BY DEF IInv
<1> QED
  BY Invariance, <1>1, PTL

(* In every graph, a node that left waiting, or has a task, is preceded by *)
(* accepted nodes on some path from START.                                 *)
THEOREM GraphOrder == Spec => []ProcessedNodesAreReached
<1>1. IInv => ProcessedNodesAreReached
  BY DEF IInv
<1> QED
  BY Invariance, <1>1, PTL

-----------------------------------------------------------------------------
(* The daemon keeps the promise                                            *)

LEMMA InitKeepsPromise == Init => Promise!Init
  BY DEF Init, Promise!Init

(* A transition advances its node by one status, fails it, or leaves it.   *)
LEMMA JobKeepsPromise ==
  ASSUME IInv, NEW t \in TaskId, JobStep(t)
  PROVE  [Promise!Next]_status
<1>1. t[1] \in Nodes /\ t[2] \in Targets
  BY TaskShape
<1>2. ASSUME Unsaved(t)
      PROVE  /\ status[t[1]] = seen[t[1]]
             /\ status[t[1]] \in {"waiting", "ready", "running"}
             /\ NextStatus(status[t[1]]) = t[2]
             /\ Promise!Reached(t[1])
  BY <1>1, <1>2, TargetFacts
  DEF IInv, SnapshotsFresh, JobsHaveTasks, ProcessedNodesAreReached, Unsaved
<1>3. CASE job[t] = "acted" /\ MergeNode(t[1], t[2])
  <2>1. status' = [status EXCEPT ![t[1]] = NextStatus(@)]
    BY <1>2, <1>3 DEF MergeNode, Unsaved, IInv, TypeOK
  <2>2. Promise!Advance(t[1])
    BY <1>2, <1>3, <2>1 DEF Promise!Advance, Promise!NextStatus, NextStatus, Unsaved
  <2> QED
    BY <1>1, <2>2 DEF Promise!Next
<1>4. CASE job[t] = "raised" /\ MergeNode(t[1], "failed")
  BY <1>1, <1>2, <1>4 DEF MergeNode, Unsaved, Promise!Next, Promise!Fail
<1>5. CASE job[t] = "declined" /\ MergeNode(t[1], seen[t[1]])
  BY <1>1, <1>2, <1>5 DEF MergeNode, Unsaved, IInv, TypeOK
<1>6. CASE UNCHANGED status
  BY <1>6
<1> QED
  BY <1>3, <1>4, <1>5, <1>6
  DEF JobStep, JobActs, JobDeclines, JobRaises, JobSaves, JobStores, JobWritesBack, rows

(* Everything else leaves the nodes alone.                                 *)
LEMMA OthersLeaveNodes ==
  ASSUME DaemonStep \/ (\E n \in Nodes : WmsCompletes(n)) \/ Crash \/ ApiStep
           \/ UNCHANGED vars
  PROVE  UNCHANGED status
  BY DEF DaemonStep, PlanTasks, CommitPlan, SelectTasks, CommitSubmission, EndIteration,
         SkipTask, EvolveTask, WmsCompletes, Crash, ApiStep, RequestCampaign,
         ApplyCampaign, RpcReads, RpcCommits, rows, vars

(* For every graph, flag and number of crashes the daemon, its concurrent  *)
(* transitions and the campaign API implement CampaignPromise.             *)
THEOREM Implementation == Spec => PromiseKept
<1>1. IInv /\ [Next]_vars => [Promise!Next]_status
  BY JobKeepsPromise, OthersLeaveNodes DEF Next
<1> QED
  BY Invariance, InitKeepsPromise, <1>1, PTL DEF Spec, PromiseKept, Promise!Spec

-----------------------------------------------------------------------------
(* Jobs submitted to the workload manager                                  *)

(* A node that is not yet running, and has no start under way that has     *)
(* submitted its job, owes every job it has to a crash.                    *)
LaunchInv ==
  \A n \in Nodes :
    /\ launches[n] <= crashes + 1
    /\ status[n] \in {"waiting", "ready"} /\ job[<<n, "running">>] # "acted"
         => launches[n] <= crashes

LEMMA LaunchInit == Init => LaunchInv
  BY DEF Init, LaunchInv, TaskId, Targets

LEMMA LaunchJob ==
  ASSUME IInv, LaunchInv, NEW t \in TaskId, JobStep(t)
  PROVE  LaunchInv'
<1> USE DEF IInv
<1>0. /\ t[1] \in Nodes /\ t[2] \in Targets /\ t = <<t[1], t[2]>>
      /\ \A n \in Nodes : <<n, "running">> \in TaskId
      /\ launches \in [Nodes -> Nat] /\ crashes \in Nat /\ job \in [TaskId -> JobPhase]
      /\ status \in [Nodes -> Status]
  BY TaskShape, BoundAssumption DEF TaskId, Targets, TypeOK
<1>1. Unsaved(t) => seen[t[1]] = PreviousOf[t[2]] /\ status[t[1]] = seen[t[1]]
  BY DEF SnapshotsFresh
<1>2. CASE JobActs(t)
  <2>1. UNCHANGED <<status, crashes>> /\ job' = [job EXCEPT ![t] = "acted"] /\ Unsaved(t)
        /\ job[t] # "acted"
    BY <1>2 DEF JobActs, rows, Started, Unsaved
  <2>2. CASE t[2] = "running" /\ t[1] \in Launching
    <3>1. launches' = [launches EXCEPT ![t[1]] = @ + 1] /\ job'[<<t[1], "running">>] = "acted"
      BY <1>0, <1>2, <2>1, <2>2 DEF JobActs
    <3>2. launches[t[1]] <= crashes
      BY <1>0, <1>1, <2>1, <2>2 DEF LaunchInv, PreviousOf
    <3>3. ASSUME NEW n \in Nodes, n # t[1]
          PROVE  launches'[n] = launches[n] /\ job'[<<n, "running">>] = job[<<n, "running">>]
      <4>1. <<n, "running">> # t
        BY <3>3
      <4> QED
        BY <1>0, <2>1, <3>1, <3>3, <4>1
    <3>4. launches'[t[1]] <= crashes' + 1
      BY <1>0, <2>1, <3>1, <3>2
    <3> QED
      BY <2>1, <3>1, <3>3, <3>4 DEF LaunchInv
  <2>3. CASE ~(t[2] = "running" /\ t[1] \in Launching)
    <3>1. launches' = launches
      BY <1>2, <2>3 DEF JobActs, outside
    <3>2. ASSUME NEW n \in Nodes, job'[<<n, "running">>] # "acted"
          PROVE  job[<<n, "running">>] # "acted"
      BY <1>0, <2>1, <3>2
    <3> QED
      BY <2>1, <3>1, <3>2 DEF LaunchInv
  <2> QED
    BY <2>2, <2>3
<1>3. CASE JobSaves(t)
  <2>1. UNCHANGED <<launches, crashes>>
        /\ \A u \in TaskId \ {t} : job'[u] = job[u]
        /\ \A n \in Nodes \ {t[1]} : status'[n] = status[n]
    BY <1>0, <1>3 DEF JobSaves, MergeNode, outside
  <2>2. ASSUME status'[t[1]] \in {"waiting", "ready"} PROVE launches[t[1]] <= crashes
    <3>1. job[t] = "acted" /\ t[2] = "ready" /\ Unsaved(t)
      BY <1>0, <1>3, <2>2 DEF JobSaves, MergeNode, Targets, Unsaved
    <3>2. status[t[1]] = "waiting"
      BY <1>1, <3>1 DEF PreviousOf
    <3>3. ASSUME Unsaved(<<t[1], "running">>) PROVE FALSE
      BY <1>0, <1>1, <3>1, <3>3, TargetFacts DEF SnapshotsFresh, PreviousOf, Targets
    <3> QED
      BY <1>0, <3>2, <3>3 DEF LaunchInv, Unsaved
  <2>3. ASSUME NEW n \in Nodes, n # t[1]
        PROVE  job'[<<n, "running">>] = job[<<n, "running">>] /\ status'[n] = status[n]
    <3>1. <<n, "running">> # t
      BY <2>3
    <3> QED
      BY <1>0, <2>1, <2>3, <3>1
  <2> QED
    BY <2>1, <2>2, <2>3 DEF LaunchInv
<1>4. CASE JobDeclines(t) \/ JobRaises(t) \/ JobStores(t) \/ JobWritesBack(t)
  <2>1. UNCHANGED <<launches, crashes, status>> /\ job[t] # "acted"
        /\ \A u \in TaskId \ {t} : job'[u] = job[u]
    BY <1>0, <1>1, <1>4
    DEF JobDeclines, JobRaises, JobStores, JobWritesBack, MergeNode, Started, Unsaved,
        outside, rows
  <2>2. \A n \in Nodes : job'[<<n, "running">>] # "acted" => job[<<n, "running">>] # "acted"
    BY <1>0, <2>1
  <2> QED
    BY <2>1, <2>2 DEF LaunchInv
<1> QED
  BY <1>2, <1>3, <1>4 DEF JobStep

LEMMA LaunchOthers ==
  ASSUME IInv, LaunchInv,
         DaemonStep \/ (\E n \in Nodes : WmsCompletes(n)) \/ Crash \/ ApiStep
           \/ UNCHANGED vars
  PROVE  LaunchInv'
<1>0. /\ \A n \in Nodes : <<n, "running">> \in TaskId
      /\ launches \in [Nodes -> Nat] /\ crashes \in Nat /\ job \in [TaskId -> JobPhase]
  BY BoundAssumption DEF IInv, TypeOK, TaskId, Targets
<1>1. status' = status
  BY OthersLeaveNodes
<1>2. CASE Crash
  <2>1. launches' = launches /\ crashes' = crashes + 1
    BY <1>2 DEF Crash, outside
  <2>2. ASSUME NEW n \in Nodes PROVE launches'[n] <= crashes'
    <3>1. launches[n] \in Nat /\ launches[n] <= crashes + 1
      BY <1>0 DEF LaunchInv
    <3> QED
      BY <2>1, <3>1
  <2>3. ASSUME NEW n \in Nodes PROVE launches'[n] <= crashes' + 1
    <3>1. launches'[n] \in Nat /\ crashes' \in Nat
      BY <1>0, <2>1
    <3> QED
      BY <2>2, <3>1
  <2> QED
    BY <2>2, <2>3 DEF LaunchInv
<1>3. ASSUME NEW t \in TaskId, EvolveTask(t) PROVE LaunchInv'
  <2>1. UNCHANGED <<launches, crashes>> /\ job[t] = "none"
        /\ job' = [job EXCEPT ![t] = job'[t]]
    BY <1>3 DEF EvolveTask, outside, IInv, BatchIsFresh, InSync
  <2>2. \A n \in Nodes : job'[<<n, "running">>] # "acted" => job[<<n, "running">>] # "acted"
    BY <1>0, <2>1
  <2> QED
    BY <1>1, <2>1, <2>2 DEF LaunchInv
<1>4. CASE ~Crash /\ ~(\E t \in TaskId : EvolveTask(t))
  <2>1. UNCHANGED <<launches, crashes, job>>
    BY <1>4
    DEF DaemonStep, PlanTasks, CommitPlan, SelectTasks, CommitSubmission, EndIteration,
        SkipTask, WmsCompletes, ApiStep, RequestCampaign, ApplyCampaign, RpcReads,
        RpcCommits, vars, outside, work
  <2> QED
    BY <1>1, <2>1 DEF LaunchInv
<1> QED
  BY <1>2, <1>3, <1>4

(* A node costs the workload manager one job and, for each crash of the    *)
(* daemon, at most one more.                                               *)
THEOREM LaunchBound == Spec => []LaunchesAreCounted
<1>1. IInv /\ LaunchInv /\ [Next]_vars => LaunchInv'
  BY LaunchJob, LaunchOthers DEF Next
<1>2. ASSUME IInv, LaunchInv, NEW n \in Nodes PROVE launches[n] <= 1 + crashes
  <2>1. launches[n] \in Nat /\ crashes \in Nat
    BY <1>2, BoundAssumption DEF IInv, TypeOK
  <2>2. launches[n] <= crashes + 1
    BY <1>2 DEF LaunchInv
  <2> QED
    BY <2>1, <2>2
<1>3. IInv /\ LaunchInv => LaunchesAreCounted
  BY <1>2 DEF LaunchesAreCounted
<1> QED
  BY Invariance, LaunchInit, <1>1, <1>3, PTL DEF Spec

-----------------------------------------------------------------------------
(* The pickled machine of a node                                           *)

(* As long as nothing has crashed: a transition under way selected its     *)
(* node at the status its task leaves; until it saves, the machine stored  *)
(* is that of the status selected; after that, the status is its own.      *)
Selected == \A t \in TaskId : job[t] # "none" => seen[t[1]] = PreviousOf[t[2]]

MachineSeen ==
  pc \in {"evolve", "commit"} => \A n \in Nodes : seen[n] = "waiting" \/ seenFsm[n] # "none"

MachineKept ==
  \A t \in TaskId :
    /\ Unsaved(t) => status[t[1]] = "waiting" \/ fsm[t[1]] = status[t[1]]
    /\ job[t] \in {"saved", "failsaved"} => status[t[1]] = StoredState(t)

MachineRests ==
  \A n \in Nodes : \/ status[n] = "waiting" \/ fsm[n] = status[n]
                   \/ \E target \in Targets : job[<<n, target>>] # "none"

StoreInv == crashes = 0 => Selected /\ MachineSeen /\ MachineKept /\ MachineRests

(* No other transition is about the node of one that is under way.         *)
LEMMA OneTransition ==
  ASSUME Selected, NEW t \in TaskId, seen[t[1]] = PreviousOf[t[2]],
         NEW u \in TaskId, u # t, job[u] # "none"
  PROVE  u[1] # t[1]
  BY SameTask DEF Selected

LEMMA StoreInit == Init => StoreInv
<1> SUFFICES ASSUME Init PROVE StoreInv
  OBVIOUS
<1>1. /\ \A t \in TaskId : job[t] = "none" /\ t[1] \in Nodes
      /\ \A n \in Nodes : status[n] = "waiting"
  BY TaskShape DEF Init
<1> QED
  BY <1>1 DEF Init, StoreInv, Selected, MachineSeen, MachineKept, MachineRests, Unsaved

(* A step of the transition of t that changes its node, if any, and leaves *)
(* the node's machine and the task in order.                               *)
LEMMA OneStores ==
  ASSUME IInv, NEW t \in TaskId, Selected, MachineSeen, MachineKept, MachineRests,
         job[t] # "none", UNCHANGED <<seen, seenFsm, pc>>,
         job' = [job EXCEPT ![t] = job'[t]],
         \A n \in Nodes \ {t[1]} : status'[n] = status[n] /\ fsm'[n] = fsm[n],
         Unsaved(t)' => status'[t[1]] = "waiting" \/ fsm'[t[1]] = status'[t[1]],
         job'[t] \in {"saved", "failsaved"} => status'[t[1]] = StoredState(t)',
         job'[t] = "none" => status'[t[1]] = "waiting" \/ fsm'[t[1]] = status'[t[1]]
  PROVE  Selected' /\ MachineSeen' /\ MachineKept' /\ MachineRests'
<1>1. /\ \A u \in TaskId \ {t} : job'[u] = job[u]
      /\ t[1] \in Nodes /\ t[2] \in Targets
  BY TaskShape DEF IInv, TypeOK
<1>2. Selected' /\ MachineSeen'
  BY <1>1 DEF Selected, MachineSeen
<1>3. MachineKept'
  <2>1. ASSUME NEW u \in TaskId, u # t, job'[u] # "none"
        PROVE  u[1] \in Nodes \ {t[1]} /\ job'[u] = job[u]
    BY <1>1, <2>1, OneTransition, TaskShape DEF Selected
  <2>2. \A u \in TaskId : u # t /\ job'[u] # "none" => StoredState(u)' = StoredState(u)
    BY <2>1 DEF StoredState
  <2> QED
    BY <1>1, <2>1, <2>2 DEF MachineKept, Unsaved
<1>4. MachineRests'
  <2>1. ASSUME NEW n \in Nodes, n # t[1], NEW target \in Targets, job[<<n, target>>] # "none"
        PROVE  job'[<<n, target>>] # "none"
    <3>1. <<n, target>> \in TaskId /\ <<n, target>> # t
      BY <2>1 DEF TaskId
    <3> QED
      BY <1>1, <2>1, <3>1
  <2>2. \/ status'[t[1]] = "waiting" \/ fsm'[t[1]] = status'[t[1]]
        \/ job'[<<t[1], t[2]>>] # "none"
    BY TaskShape
  <2> QED
    BY <1>1, <2>1, <2>2 DEF MachineRests
<1> QED
  BY <1>2, <1>3, <1>4

LEMMA StoreJob ==
  ASSUME IInv, StoreInv, NEW t \in TaskId, JobStep(t)
  PROVE  StoreInv'
<1> SUFFICES ASSUME crashes = 0
             PROVE  Selected' /\ MachineSeen' /\ MachineKept' /\ MachineRests'
  BY DEF StoreInv, JobStep, JobActs, JobDeclines, JobRaises, JobSaves, JobStores, JobWritesBack
<1>0. /\ Selected /\ MachineSeen /\ MachineKept /\ MachineRests
      /\ t[1] \in Nodes /\ t[2] \in Targets
      /\ job \in [TaskId -> JobPhase] /\ fsm \in [Nodes -> Status \cup {"none"}]
      /\ status \in [Nodes -> Status]
  BY TaskShape DEF StoreInv, IInv, TypeOK
<1>1. CASE JobActs(t) \/ JobDeclines(t) \/ JobRaises(t)
  <2>1. /\ UNCHANGED <<status, fsm, seen, seenFsm, pc>>
        /\ job' = [job EXCEPT ![t] = job'[t]] /\ Unsaved(t)
        /\ job'[t] \notin {"none", "saved", "failsaved"}
    BY <1>0, <1>1
    DEF JobActs, JobDeclines, JobRaises, Started, Unsaved, rows, loop, snapshot
  <2> QED
    BY <1>0, <2>1, OneStores DEF MachineKept, Unsaved
<1>2. CASE JobSaves(t)
  <2>1. PICK s \in {t[2], "failed"} :
          /\ MergeNode(t[1], s)
          /\ \/ job[t] = "acted" /\ job' = [job EXCEPT ![t] = "saved"] /\ s = t[2]
             \/ job[t] = "raised" /\ job' = [job EXCEPT ![t] = "failsaved"] /\ s = "failed"
    BY <1>2 DEF JobSaves
  <2>2. /\ job' = [job EXCEPT ![t] = job'[t]] /\ job[t] # "none" /\ ~Unsaved(t)' /\ job'[t] # "none"
        /\ s = StoredState(t)'
    BY <1>0, <2>1 DEF Unsaved, StoredState
  <2>3. \A n \in Nodes \ {t[1]} : status'[n] = status[n] /\ fsm'[n] = fsm[n]
    BY <1>0, <2>1 DEF MergeNode, Unlinked
  <2>4. status'[t[1]] = s
    BY <1>0, <2>1 DEF MergeNode
  <2>5. UNCHANGED <<seen, seenFsm, pc>>
    BY <1>2 DEF JobSaves, snapshot, loop
  <2> QED
    BY <1>0, <2>2, <2>3, <2>4, <2>5, OneStores
<1>3. CASE JobStores(t)
  <2>1. /\ job' = [job EXCEPT ![t] = job'[t]] /\ job[t] # "none" /\ job'[t] = "none" /\ ~Unsaved(t)'
        /\ job[t] \in {"saved", "failsaved"}
    BY <1>0, <1>3 DEF JobStores, Unsaved
  <2>2. /\ \A n \in Nodes \ {t[1]} : status'[n] = status[n] /\ fsm'[n] = fsm[n]
        /\ fsm'[t[1]] = StoredState(t) /\ status' = status
    BY <1>0, <1>3 DEF JobStores
  <2>3. UNCHANGED <<seen, seenFsm, pc>>
    BY <1>3 DEF JobStores, snapshot, loop
  <2> QED
    BY <1>0, <2>1, <2>2, <2>3, OneStores DEF MachineKept
<1>4. CASE JobWritesBack(t)
  <2>1. /\ job' = [job EXCEPT ![t] = job'[t]] /\ job[t] # "none" /\ job'[t] = "none" /\ ~Unsaved(t)'
        /\ Unsaved(t) /\ pc \in {"evolve", "commit"}
    BY <1>0, <1>4 DEF JobWritesBack, Unsaved, IInv, JobsAreAwaited, AllAwaited
  <2>2. /\ \A n \in Nodes \ {t[1]} : status'[n] = status[n] /\ fsm'[n] = fsm[n]
        /\ status'[t[1]] = seen[t[1]] /\ status[t[1]] = seen[t[1]]
        /\ seenFsm[t[1]] # "none" => fsm' = fsm
    BY <1>0, <1>4, <2>1 DEF JobWritesBack, MergeNode, Unlinked, IInv, SnapshotsFresh
  <2>3. status'[t[1]] = "waiting" \/ fsm'[t[1]] = status'[t[1]]
    BY <1>0, <2>1, <2>2 DEF MachineSeen, MachineKept
  <2>4. UNCHANGED <<seen, seenFsm, pc>>
    BY <1>4 DEF JobWritesBack, snapshot, loop
  <2> QED
    BY <1>0, <2>1, <2>2, <2>3, <2>4, OneStores
<1> QED
  BY <1>1, <1>2, <1>3, <1>4 DEF JobStep

LEMMA StoreOthers ==
  ASSUME IInv, StoreInv,
         DaemonStep \/ (\E n \in Nodes : WmsCompletes(n)) \/ Crash \/ ApiStep
           \/ UNCHANGED vars
  PROVE  StoreInv'
<1>0. /\ job \in [TaskId -> JobPhase] /\ crashes \in Nat /\ status \in [Nodes -> Status]
  BY BoundAssumption DEF IInv, TypeOK
<1>1. CASE Crash
  BY <1>0, <1>1 DEF Crash, StoreInv
<1>2. CASE SelectTasks
  <2>1. AllAwaited /\ UNCHANGED <<job, crashes, status, fsm>> /\ seen' = status /\ seenFsm' = fsm
    BY <1>2 DEF SelectTasks, IInv, JobsAreAwaited, work, rows
  <2>2. \A n \in Nodes, target \in Targets : job[<<n, target>>] = "none"
    BY <2>1 DEF AllAwaited, TaskId
  <2>3. ASSUME crashes = 0 PROVE \A n \in Nodes : status[n] = "waiting" \/ fsm[n] # "none"
    BY <1>0, <2>2, <2>3, StatusSet DEF StoreInv, MachineRests
  <2> QED
    BY <2>1, <2>3
    DEF StoreInv, Selected, MachineSeen, MachineKept, MachineRests, AllAwaited, Unsaved
<1>3. ASSUME NEW t \in TaskId, EvolveTask(t) PROVE StoreInv'
  <2>1. /\ UNCHANGED <<status, fsm, seen, seenFsm, crashes>> /\ job[t] = "none"
        /\ job' = [job EXCEPT ![t] = job'[t]] /\ job'[t] \in {"called", "bare"}
        /\ seen[t[1]] = PreviousOf[t[2]] /\ pc = "evolve"
    BY <1>0, <1>3 DEF EvolveTask, IInv, BatchIsFresh, InSync, rows, snapshot
  <2>2. /\ \A u \in TaskId \ {t} : job'[u] = job[u]
        /\ t[1] \in Nodes /\ t[2] \in Targets /\ <<t[1], t[2]>> = t
    BY <1>0, <2>1, TaskShape
  <2> SUFFICES ASSUME crashes = 0
               PROVE  Selected' /\ MachineSeen' /\ MachineKept' /\ MachineRests'
    BY <2>1 DEF StoreInv
  <2>3. Selected /\ MachineSeen /\ MachineKept /\ MachineRests
    BY DEF StoreInv
  <2>4. Selected' /\ MachineSeen'
    BY <2>1, <2>2, <2>3 DEF Selected, MachineSeen
  <2>5. \A target \in Targets : job[<<t[1], target>>] = "none"
    <3>1. ASSUME NEW target \in Targets, job[<<t[1], target>>] # "none" PROVE FALSE
      <4>1. <<t[1], target>> \in TaskId /\ <<t[1], target>> # t
        BY <2>1, <2>2, <3>1 DEF TaskId
      <4> QED
        BY <2>1, <2>3, <3>1, <4>1, OneTransition
    <3> QED
      BY <3>1
  <2>6. MachineKept'
    <3>1. status[t[1]] = "waiting" \/ fsm[t[1]] = status[t[1]]
      BY <2>2, <2>3, <2>5 DEF MachineRests
    <3>2. \A u \in TaskId \ {t} : StoredState(u)' = StoredState(u) /\ Unsaved(u)' = Unsaved(u)
      BY <2>2 DEF StoredState, Unsaved
    <3> QED
      BY <2>1, <2>3, <3>1, <3>2, <2>2 DEF MachineKept
  <2>7. MachineRests'
    <3>1. \A n \in Nodes, target \in Targets :
            job[<<n, target>>] # "none" => job'[<<n, target>>] # "none"
      BY <2>1, <2>2 DEF TaskId
    <3> QED
      BY <2>1, <2>3, <3>1 DEF MachineRests
  <2> QED
    BY <2>4, <2>6, <2>7
<1>4. CASE ~Crash /\ ~SelectTasks /\ ~(\E t \in TaskId : EvolveTask(t))
  <2>1. /\ UNCHANGED <<job, crashes, status, fsm, seen, seenFsm>>
        /\ pc' \in {"evolve", "commit"} => pc \in {"evolve", "commit"}
    BY <1>4
    DEF DaemonStep, PlanTasks, CommitPlan, CommitSubmission, EndIteration,
        SkipTask, WmsCompletes, ApiStep, RequestCampaign, ApplyCampaign, RpcReads,
        RpcCommits, vars, rows, work, snapshot, loop
  <2> QED
    BY <2>1
    DEF StoreInv, Selected, MachineSeen, MachineKept, MachineRests, Unsaved, StoredState
<1> QED
  BY <1>1, <1>2, <1>3, <1>4

(* Without a crash a node that has left waiting and has no transition      *)
(* under way has a pickled machine, in the state its row has: every later  *)
(* request finds what it acts on.                                          *)
THEOREM MachinesAreStored == Spec => []MachineIsStored
<1>1. IInv /\ StoreInv /\ [Next]_vars => StoreInv'
  BY StoreJob, StoreOthers DEF Next
<1>2. IInv /\ StoreInv => MachineIsStored
  BY BoundAssumption DEF IInv, TypeOK, StoreInv, MachineRests, MachineIsStored
<1> QED
  BY Invariance, StoreInit, <1>1, <1>2, PTL DEF Spec

-----------------------------------------------------------------------------
(* The end of the campaign                                                 *)

Ended == \/ status[END] = "accepted" \/ job[<<END, "accepted">>] = "acted"
         \/ crashes > 0

EndInv ==
  /\ campaign = "accepted" => Ended
  /\ seenCampaign = "accepted" => Ended
  /\ \A r \in creqs : ~r.force

(* Once END was accepted, or is about to be, it stays so.                  *)
LEMMA EndedIsStable ==
  ASSUME IInv, [Next]_vars, Ended
  PROVE  Ended'
<1>0. /\ END \in Nodes /\ <<END, "accepted">> \in TaskId /\ crashes \in Nat
      /\ job \in [TaskId -> JobPhase] /\ status \in [Nodes -> Status]
  BY GraphAssumption, BoundAssumption DEF IInv, TypeOK, TaskId, Targets
<1>1. CASE Crash
  BY <1>0, <1>1 DEF Crash, Ended
<1>2. ASSUME NEW t \in TaskId, JobStep(t) PROVE Ended'
  <2>1. crashes' = crashes /\ t[1] \in Nodes
        /\ \A u \in TaskId \ {t} : job'[u] = job[u]
    BY <1>0, <1>2, TaskShape
    DEF JobStep, JobActs, JobDeclines, JobRaises, JobSaves, JobStores, JobWritesBack
  <2>2. CASE status[END] = "accepted"
    <3>1. ASSUME Unsaved(t) PROVE status[t[1]] # "accepted"
      BY <3>1, TargetFacts, TaskShape DEF IInv, SnapshotsFresh
    <3>2. status'[END] = "accepted"
      BY <1>0, <1>2, <2>1, <2>2, <3>1
      DEF JobStep, JobActs, JobDeclines, JobRaises, JobSaves, JobStores, JobWritesBack,
          MergeNode, Unsaved, rows
    <3> QED
      BY <3>2 DEF Ended
  <2>3. CASE job[<<END, "accepted">>] = "acted"
    <3>1. CASE t # <<END, "accepted">>
      BY <1>0, <2>1, <2>3, <3>1 DEF Ended
    <3>2. CASE t = <<END, "accepted">>
      <4>1. JobSaves(t) /\ job[t] = "acted" /\ t[1] = END /\ t[2] = "accepted"
        BY <1>2, <2>3, <3>2
        DEF JobStep, JobActs, JobDeclines, JobRaises, JobStores, JobWritesBack, Started
      <4> QED
        BY <1>0, <4>1 DEF JobSaves, MergeNode, Ended
    <3> QED
      BY <3>1, <3>2
  <2> QED
    BY <1>0, <2>1, <2>2, <2>3 DEF Ended
<1>3. ASSUME NEW t \in TaskId, EvolveTask(t) PROVE Ended'
  <2>1. UNCHANGED <<status, crashes>> /\ job[t] = "none" /\ job' = [job EXCEPT ![t] = job'[t]]
    BY <1>3 DEF EvolveTask, IInv, BatchIsFresh, InSync, rows
  <2> QED
    BY <1>0, <2>1 DEF Ended
<1>4. CASE UNCHANGED <<status, crashes, job>>
  BY <1>4 DEF Ended
<1> QED
  BY <1>1, <1>2, <1>3, <1>4
  DEF Next, DaemonStep, PlanTasks, CommitPlan, SelectTasks, CommitSubmission, EndIteration,
      SkipTask, WmsCompletes, ApiStep, RequestCampaign, ApplyCampaign, RpcReads,
      RpcCommits, vars, rows, work

(* Only force and finish accept a campaign, and finish asks END.           *)
LEMMA AcceptingMoves ==
  ASSUME NEW r, ~r.force, NEW m \in CampaignMoves(r), m.dest = "accepted"
  PROVE  status[END] = "accepted"
<1>1. m.trigger \in {"finish", "force"}
  BY DEF CampaignMoves, CampaignTransitions, Arrow
<1>2. m.trigger # "force"
  BY DEF CampaignMoves, CampaignTrigger
<1> QED
  BY <1>1, <1>2 DEF CampaignMoves

LEMMA EndStep ==
  ASSUME \A target \in CampaignTargets : ~target.force, IInv, EndInv, [Next]_vars
  PROVE  EndInv'
<1>1. Ended => Ended'
  BY EndedIsStable
<1>2. CASE UNCHANGED <<campaign, seenCampaign, creqs>>
  BY <1>1, <1>2 DEF EndInv
<1>3. CASE SelectTasks
  BY <1>1, <1>3 DEF SelectTasks, rows, requests, EndInv
<1>4. CASE CommitSubmission
  BY <1>1, <1>4 DEF CommitSubmission, requests, EndInv
<1>5. ASSUME NEW t \in TaskId, JobStep(t) PROVE EndInv'
  <2>1. CASE JobActs(t)
    <3>1. UNCHANGED <<campaign, creqs>>
      BY <2>1 DEF JobActs, rows, requests
    <3>2. CASE AcceptsCampaign(t)
      <4>1. job'[<<END, "accepted">>] = "acted"
        BY <2>1, <3>2 DEF JobActs, AcceptsCampaign, IInv, TypeOK
      <4> QED
        BY <3>1, <4>1 DEF EndInv, Ended
    <3>3. CASE ~AcceptsCampaign(t)
      BY <1>1, <2>1, <3>1, <3>3 DEF JobActs, EndInv
    <3> QED
      BY <3>2, <3>3
  <2>2. CASE ~JobActs(t)
    <3>1. UNCHANGED <<seenCampaign, creqs>> /\ campaign' \in {campaign, seenCampaign}
      BY <1>5, <2>2
      DEF JobStep, JobDeclines, JobRaises, JobSaves, JobStores, JobWritesBack, MergeNode,
          rows, snapshot, requests
    <3> QED
      BY <1>1, <3>1 DEF EndInv
  <2> QED
    BY <2>1, <2>2
<1>6. ASSUME NEW target \in CampaignTargets, RequestCampaign(target) PROVE EndInv'
  BY <1>1, <1>6 DEF RequestCampaign, rows, snapshot, EndInv
<1>7. ASSUME NEW r \in creqs, ApplyCampaign(r) PROVE EndInv'
  <2>1. UNCHANGED seenCampaign /\ creqs' \subseteq creqs
    BY <1>7 DEF ApplyCampaign, snapshot
  <2>2. CASE UNCHANGED campaign
    BY <1>1, <2>1, <2>2 DEF EndInv
  <2>3. ASSUME NEW m \in CampaignMoves(r), campaign' = m.dest PROVE EndInv'
    <3>1. campaign' = "accepted" => Ended
      BY <2>3, AcceptingMoves DEF EndInv, Ended
    <3> QED
      BY <1>1, <2>1, <3>1 DEF EndInv
  <2> QED
    BY <1>7, <2>2, <2>3 DEF ApplyCampaign
<1> QED
  BY <1>2, <1>3, <1>4, <1>5, <1>6, <1>7
  DEF Next, DaemonStep, PlanTasks, CommitPlan, EndIteration, SkipTask, EvolveTask,
      WmsCompletes, Crash, ApiStep, RpcReads, RpcCommits, vars, rows, snapshot, requests

(* Unless users force it or the daemon crashes, a campaign is accepted     *)
(* only after its END, or while END's own transition saves both.           *)
THEOREM CampaignsEndWithEnd ==
  ASSUME InitialCampaign # "accepted", \A target \in CampaignTargets : ~target.force
  PROVE  Spec => []CampaignFollowsEnd
<1>1. Init => EndInv
  BY DEF Init, EndInv
<1>2. IInv /\ EndInv /\ [Next]_vars => EndInv'
  BY EndStep
<1>3. EndInv => CampaignFollowsEnd
  BY DEF EndInv, Ended, CampaignFollowsEnd
<1> QED
  BY Invariance, <1>1, <1>2, <1>3, PTL DEF Spec

-----------------------------------------------------------------------------
(* The last word on an accepted campaign                                   *)

(* Every write of the campaign's status is one of the copy that a batch    *)
(* shares.  As long as no user asked anything that copy never lags behind  *)
(* an accepted campaign, not even one that a crash left in memory.         *)
FinalInv ==
  /\ creqs = {} /\ asked = 0
  /\ campaign = "accepted" => seenCampaign = "accepted"

LEMMA FinalStep ==
  ASSUME MaxRequests = 0 \/ CampaignTargets = {}, FinalInv, [Next]_vars
  PROVE  FinalInv' /\ (campaign = "accepted" => campaign' = "accepted")
<1>1. CASE UNCHANGED <<campaign, seenCampaign, creqs, asked>>
  BY <1>1 DEF FinalInv
<1>2. CASE SelectTasks
  BY <1>2 DEF SelectTasks, rows, requests, FinalInv
<1>3. CASE CommitSubmission
  BY <1>3 DEF CommitSubmission, requests, FinalInv
<1>4. ASSUME NEW t \in TaskId, JobStep(t)
      PROVE  FinalInv' /\ (campaign = "accepted" => campaign' = "accepted")
  <2>1. CASE JobActs(t)
    BY <2>1 DEF JobActs, AcceptsCampaign, rows, requests, FinalInv
  <2>2. CASE ~JobActs(t)
    <3>1. UNCHANGED <<seenCampaign, creqs, asked>> /\ campaign' \in {campaign, seenCampaign}
      BY <1>4, <2>2
      DEF JobStep, JobDeclines, JobRaises, JobSaves, JobStores, JobWritesBack, MergeNode,
          rows, snapshot, requests
    <3> QED
      BY <3>1 DEF FinalInv
  <2> QED
    BY <2>1, <2>2
<1>5. ASSUME NEW target \in CampaignTargets, RequestCampaign(target) PROVE FALSE
  BY <1>5 DEF RequestCampaign, FinalInv
<1>6. ASSUME NEW r \in creqs PROVE FALSE
  BY <1>6 DEF FinalInv
<1> QED
  BY <1>1, <1>2, <1>3, <1>4, <1>5, <1>6
  DEF Next, DaemonStep, PlanTasks, CommitPlan, EndIteration, SkipTask, EvolveTask,
      WmsCompletes, Crash, ApiStep, RpcReads, RpcCommits, vars, rows, snapshot, requests

(* When users leave the campaign alone, nothing takes it back from         *)
(* accepted: not the merges of transitions selected before, not the commit *)
(* that flushes their shared copy, and not a crash between the two.        *)
THEOREM AcceptedStays ==
  ASSUME MaxRequests = 0 \/ CampaignTargets = {}
  PROVE  Spec => AcceptedCampaignIsFinal
<1>1. Init => FinalInv
  BY DEF Init, FinalInv
<1>2. FinalInv /\ [Next]_vars => FinalInv' /\ (campaign = "accepted" => campaign' = "accepted")
  BY FinalStep
<1> QED
  BY <1>1, <1>2, PTL DEF Spec, AcceptedCampaignIsFinal

-----------------------------------------------------------------------------
(* Users' PATCHes of nodes, beside the daemon                              *)

(* The statuses a node can get from the daemon or from users.              *)
NodeStatuses == HappyOrFailed \cup {"paused", "blocked", "rejected"}

InRange == \A n \in Nodes : status[n] \in NodeStatuses /\ seen[n] \in NodeStatuses

(* What an accepted node must have behind it.                              *)
Deserves(n) == /\ n \in Breakpoints => n \in forced
               /\ n \in Launching => n \in succeeded \cup forced

(* Whoever has, remembers or is about to write accepted is entitled to it. *)
Entitled ==
  /\ \A n \in Nodes :
       status[n] = "accepted" \/ seen[n] = "accepted" \/ job[<<n, "accepted">>] = "acted"
         => Deserves(n)
  /\ \A n \in Nodes : wms[n] = "done" => n \in succeeded
  /\ \A r \in patches :
       /\ r.from = "accepted" => Deserves(r.node)
       /\ PatchedTrigger(r) = "force" => r.node \in forced
       /\ r.phase = "acted" /\ PatchedTrigger(r) = "finish" => Deserves(r.node)

OInv ==
  /\ OperatorsTypeOK
  /\ InRange
  /\ \A r \in patches : r.from \in NodeStatuses
  /\ Entitled

-----------------------------------------------------------------------------
(* The vocabulary                                                          *)

LEMMA Ranges ==
  /\ NodeStatuses \subseteq Status
  /\ ProcessableScript \cap NodeStatuses = {"waiting", "ready", "running"}
  /\ Targets \subseteq NodeStatuses
<1>1. /\ StatusValue["paused"] = -2 /\ StatusValue["blocked"] = -3
      /\ StatusValue["rejected"] = -4 /\ StatusValue["waiting"] = 0
  BY DEF StatusValue
<1>2. "paused" \notin ProcessableScript /\ "blocked" \notin ProcessableScript
      /\ "rejected" \notin ProcessableScript
  BY <1>1 DEF ProcessableScript
<1>3. ProcessableScript \cap NodeStatuses = ProcessableScript \cap HappyOrFailed
  BY <1>2 DEF NodeStatuses
<1>4. NodeStatuses \subseteq Status /\ Targets \subseteq NodeStatuses
  BY StatusSet DEF NodeStatuses, HappyOrFailed, Targets
<1> QED
  BY <1>3, <1>4, NeedsAttention

(* No transition leads anywhere else, and two triggers alone accept.       *)
LEMMA TransitionFacts ==
  ASSUME NEW m \in NodeTransitions \cup BreakpointTransitions
  PROVE  m.dest \in NodeStatuses /\ (m.dest = "accepted" => m.trigger \in {"finish", "force"})
<1>1. CASE m \in NodeTransitions
  BY <1>1 DEF NodeTransitions, Arrow, NodeStatuses, HappyOrFailed
<1>2. CASE m \in Arrow("reject", Status \ {"accepted"}, "failed")
  BY <1>2 DEF Arrow, NodeStatuses, HappyOrFailed
<1> QED
  BY <1>1, <1>2 DEF BreakpointTransitions

LEMMA MoveFacts ==
  ASSUME NEW r, NEW m \in PatchMoves(r)
  PROVE  /\ m.dest \in NodeStatuses
         /\ m.dest = "accepted" => PatchedTrigger(r) \in {"finish", "force"}
  BY TransitionFacts DEF PatchMoves

(* What a request will do is settled by what it has read.                  *)
LEMMA MovesAreSettled ==
  ASSUME NEW r \in Patch, NEW q \in Patch, q.node = r.node, q.from = r.from,
         q.machine = r.machine, q.want = r.want, q.force = r.force
  PROVE  PatchedTrigger(q) = PatchedTrigger(r) /\ PatchMoves(q) = PatchMoves(r)
  BY DEF PatchedTrigger, PatchMoves, MachineState

-----------------------------------------------------------------------------
(* Types                                                                   *)

LEMMA PlansAreTasks ==
  ASSUME InRange
  PROVE  /\ TasksFor(Processable(status)) \subseteq TaskId
         /\ TasksFor(PausedNodes) \subseteq TaskId
         /\ \A n \in Processable(status) : TasksFor({n}) \subseteq TaskId
<1>1. \A n \in Processable(status) \cup PausedNodes :
        n \in Nodes /\ status[n] \in {"waiting", "ready", "running"}
  BY Ranges DEF InRange, Processable, PausedNodes
<1>2. \A n \in Processable(status) \cup PausedNodes : <<n, NextStatus(status[n])>> \in TaskId
  BY <1>1, TargetFacts DEF TaskId
<1> QED
  BY <1>2 DEF TasksFor

LEMMA DaemonTypes ==
  ASSUME TypeOK, InRange, DaemonStep
  PROVE  TypeOK' /\ InRange'
<1>1. CASE PlanTasks
  <2>1. plan' \subseteq TaskId
    BY <1>1, PlansAreTasks DEF PlanTasks
  <2> QED
    BY <1>1, <2>1 DEF PlanTasks, TypeOK, InRange, rows, outside, snapshot, work, requests
<1>2. CASE CommitPlan
  BY <1>2 DEF CommitPlan, InsertTasks, TypeOK, InRange, outside, snapshot, work, requests
<1>3. CASE SelectTasks
  BY <1>3 DEF SelectTasks, TypeOK, InRange, rows, outside, work, requests
<1>4. CASE CommitSubmission
  BY <1>4 DEF CommitSubmission, TypeOK, InRange, outside, work, requests
<1>5. CASE EndIteration
  BY <1>5 DEF EndIteration, TypeOK, InRange, rows, outside, snapshot, work, requests
<1>6. ASSUME NEW t \in TaskId, SkipTask(t) PROVE TypeOK' /\ InRange'
  BY <1>6 DEF SkipTask, TypeOK, InRange, rows, outside, snapshot, work, requests
<1>7. ASSUME NEW t \in TaskId, EvolveTask(t) PROVE TypeOK' /\ InRange'
  BY <1>7 DEF EvolveTask, TypeOK, JobPhase, InRange, rows, outside, snapshot, requests
<1> QED
  BY <1>1, <1>2, <1>3, <1>4, <1>5, <1>6, <1>7 DEF DaemonStep

LEMMA JobTypes ==
  ASSUME TypeOK, InRange, NEW t \in TaskId, JobStep(t)
  PROVE  TypeOK' /\ InRange'
<1>0. t[1] \in Nodes /\ t[2] \in Targets /\ t[2] \in NodeStatuses
      /\ {"failed", "accepted"} \subseteq NodeStatuses /\ NodeStatuses \subseteq Status
  BY TaskShape, Ranges DEF NodeStatuses, HappyOrFailed
<1>1. CASE JobActs(t)
  <2>1. seenCampaign' \in Status /\ dirty' \in BOOLEAN
    <3>1. CASE AcceptsCampaign(t)
      BY <1>0, <1>1, <3>1 DEF JobActs
    <3>2. CASE ~AcceptsCampaign(t)
      BY <1>1, <3>2 DEF JobActs, TypeOK
    <3> QED
      BY <3>1, <3>2
  <2>2. wms' \in [Nodes -> {"none", "active", "done", "failed"}] /\ launches' \in [Nodes -> Nat]
    BY <1>1 DEF JobActs, TypeOK, outside
  <2>3. job' \in [TaskId -> JobPhase]
    BY <1>1 DEF JobActs, TypeOK, JobPhase
  <2> QED
    BY <1>1, <2>1, <2>2, <2>3 DEF JobActs, TypeOK, InRange, rows, loop, requests
<1>2. CASE JobDeclines(t) \/ JobRaises(t)
  <2>1. job' \in [TaskId -> JobPhase]
    BY <1>2 DEF JobDeclines, JobRaises, TypeOK, JobPhase
  <2> QED
    BY <1>2, <2>1
    DEF JobDeclines, JobRaises, TypeOK, InRange, rows, outside, loop, snapshot, requests
<1>3. CASE JobSaves(t) \/ JobWritesBack(t)
  <2>1. PICK s \in NodeStatuses : MergeNode(t[1], s)
    BY <1>0, <1>3 DEF JobSaves, JobWritesBack, InRange
  <2>2. job' \in [TaskId -> JobPhase]
    BY <1>3 DEF JobSaves, JobWritesBack, TypeOK, JobPhase
  <2>3. fsm' \in [Nodes -> Status \cup {"none"}]
    BY <1>0, <2>1 DEF MergeNode, Unlinked, TypeOK
  <2>4. status' \in [Nodes -> Status] /\ \A n \in Nodes : status'[n] \in NodeStatuses
    BY <1>0, <2>1 DEF MergeNode, TypeOK, InRange
  <2> QED
    BY <1>3, <2>1, <2>2, <2>3, <2>4
    DEF JobSaves, JobWritesBack, MergeNode, TypeOK, InRange, outside, loop, snapshot, requests
<1>4. CASE JobStores(t)
  <2>1. StoredState(t) \in Status
    BY <1>0 DEF StoredState
  <2>2. job' \in [TaskId -> JobPhase] /\ fsm' \in [Nodes -> Status \cup {"none"}]
    BY <1>0, <1>4, <2>1 DEF JobStores, TypeOK, JobPhase
  <2> QED
    BY <1>4, <2>2 DEF JobStores, TypeOK, InRange, outside, loop, snapshot, requests
<1> QED
  BY <1>1, <1>2, <1>3, <1>4 DEF JobStep

LEMMA OtherTypes ==
  ASSUME TypeOK, InRange,
         Crash \/ ApiStep \/ (\E n \in Nodes : WmsCompletes(n)) \/ UNCHANGED vars
  PROVE  TypeOK' /\ InRange'
<1>1. CASE Crash
  <2>1. crashes' \in 0..MaxCrashes
    BY <1>1, BoundAssumption DEF Crash, TypeOK
  <2>2. job' \in [TaskId -> JobPhase]
    BY <1>1 DEF Crash, JobPhase
  <2> QED
    BY <1>1, <2>1, <2>2 DEF Crash, TypeOK, InRange, rows, outside, requests
<1>2. ASSUME NEW n \in Nodes, WmsCompletes(n) PROVE TypeOK' /\ InRange'
  BY <1>2 DEF WmsCompletes, TypeOK, InRange, rows, loop, snapshot, work, requests
<1>3. ASSUME NEW target \in CampaignTargets, RequestCampaign(target) PROVE TypeOK' /\ InRange'
  <2>1. /\ asked' \in 0..MaxRequests
        /\ creqs' \subseteq [from : Status, want : Status, force : BOOLEAN]
    BY <1>3, RequestAssumption, BoundAssumption DEF RequestCampaign, TypeOK
  <2> QED
    BY <1>3, <2>1 DEF RequestCampaign, TypeOK, InRange, rows, outside, loop, snapshot, work
<1>4. ASSUME NEW r \in creqs, ApplyCampaign(r) PROVE TypeOK' /\ InRange'
  <2>1. campaign' \in Status
    <3>1. \A m \in CampaignTransitions : m.dest \in Status
      BY StatusSet DEF CampaignTransitions, Arrow
    <3> QED
      BY <1>4, <3>1 DEF ApplyCampaign, CampaignMoves, TypeOK
  <2> QED
    BY <1>4, <2>1 DEF ApplyCampaign, TypeOK, InRange, outside, loop, snapshot, work
<1>5. CASE RpcReads
  BY <1>5, PlansAreTasks
  DEF RpcReads, RpcNodes, TypeOK, InRange, rows, outside, loop, snapshot, work
<1>6. CASE RpcCommits
  BY <1>6 DEF RpcCommits, InsertTasks, TypeOK, InRange, outside, loop, snapshot, work
<1>7. CASE UNCHANGED vars
  BY <1>7 DEF TypeOK, InRange, vars, rows, outside, loop, snapshot, work, requests
<1> QED
  BY <1>1, <1>2, <1>3, <1>4, <1>5, <1>6, <1>7 DEF ApiStep

-----------------------------------------------------------------------------
(* The daemon's steps                                                      *)

(* Who deserves to be accepted does so for ever.                           *)
LEMMA DeservesIsStable ==
  ASSUME OInv, OperatorsNext, NEW n, Deserves(n)
  PROVE  Deserves(n)'
<1>1. forced \subseteq forced' /\ succeeded \subseteq succeeded'
  BY DEF OperatorsNext, Daemon, RequestNode, PatchStep, PatchIgnored, PatchActs,
         PatchDeclines, PatchRaises, PatchSaves, PatchStores, PatchWritesBack, Becomes
<1> QED
  BY <1>1 DEF Deserves

(* What Entitled asks of the nodes and their jobs.                         *)
NodesEntitled ==
  \A n \in Nodes :
    status[n] = "accepted" \/ seen[n] = "accepted" \/ job[<<n, "accepted">>] = "acted"
      => Deserves(n)

LEMMA JobEntitled ==
  ASSUME OInv, NEW t \in TaskId, JobStep(t), \A n \in Nodes : Deserves(n) => Deserves(n)'
  PROVE  NodesEntitled'
<1>0. /\ t[1] \in Nodes /\ t[2] \in Targets /\ t = <<t[1], t[2]>>
      /\ \A n \in Nodes : <<n, "accepted">> \in TaskId
      /\ job \in [TaskId -> JobPhase] /\ status \in [Nodes -> Status]
      /\ seen' = seen
  BY TaskShape
  DEF OInv, OperatorsTypeOK, TypeOK, TaskId, Targets, JobStep, JobActs, JobDeclines,
      JobRaises, JobSaves, JobStores, JobWritesBack, snapshot
<1>1. NodesEntitled /\ \A u \in TaskId \ {t} : job'[u] = job[u]
  BY <1>0
  DEF OInv, Entitled, NodesEntitled, JobStep, JobActs, JobDeclines, JobRaises, JobSaves,
      JobStores, JobWritesBack
<1>2. CASE JobActs(t)
  <2>1. status' = status
    BY <1>2 DEF JobActs, rows
  <2>2. ASSUME t[2] = "accepted" PROVE Deserves(t[1])
    <3>1. t[1] \notin Breakpoints /\ (t[1] \in Launching => wms[t[1]] = "done")
      BY <1>0, <1>2, <2>2 DEF JobActs, NotDone, JobLost, OInv, OperatorsTypeOK, TypeOK
    <3> QED
      BY <1>0, <3>1 DEF Deserves, OInv, Entitled
  <2>3. ASSUME NEW n \in Nodes, job'[<<n, "accepted">>] = "acted" PROVE Deserves(n)
    <3>1. CASE <<n, "accepted">> = t
      BY <1>0, <2>2, <3>1
    <3>2. CASE <<n, "accepted">> # t
      BY <1>0, <1>1, <2>3, <3>2 DEF NodesEntitled
    <3> QED
      BY <3>1, <3>2
  <2> QED
    BY <1>0, <1>1, <2>1, <2>3 DEF NodesEntitled
<1>3. CASE ~JobActs(t)
  <2>1. job'[t] # "acted"
    BY <1>0, <1>3
    DEF JobStep, JobDeclines, JobRaises, JobSaves, JobStores, JobWritesBack
  <2>2. \A n \in Nodes : job'[<<n, "accepted">>] = "acted" => Deserves(n)
    BY <1>0, <1>1, <2>1 DEF NodesEntitled
  <2>3. ASSUME NEW n \in Nodes, status'[n] = "accepted", status[n] # "accepted"
        PROVE  Deserves(n)
    <3>1. n = t[1] /\ ((job[t] = "acted" /\ t[2] = "accepted") \/ seen[t[1]] = "accepted")
      BY <1>0, <1>3, <2>3
      DEF JobStep, JobDeclines, JobRaises, JobSaves, JobStores, JobWritesBack, MergeNode, rows
    <3> QED
      BY <1>0, <1>1, <3>1 DEF NodesEntitled
  <2> QED
    BY <1>0, <1>1, <2>2, <2>3 DEF NodesEntitled
<1> QED
  BY <1>2, <1>3

LEMMA OthersEntitled ==
  ASSUME OInv, \A n \in Nodes : Deserves(n) => Deserves(n)',
         DaemonStep \/ (\E n \in Nodes : WmsCompletes(n)) \/ Crash \/ ApiStep
           \/ UNCHANGED vars
  PROVE  NodesEntitled'
<1>0. /\ status' = status /\ NodesEntitled /\ job \in [TaskId -> JobPhase]
      /\ \A n \in Nodes : <<n, "accepted">> \in TaskId
  BY OthersLeaveNodes DEF OInv, Entitled, NodesEntitled, OperatorsTypeOK, TypeOK, TaskId, Targets
<1>1. \A n \in Nodes : job'[<<n, "accepted">>] = "acted" => job[<<n, "accepted">>] = "acted"
  <2>1. CASE Crash
    BY <1>0, <2>1 DEF Crash
  <2>2. ASSUME NEW t \in TaskId, EvolveTask(t)
        PROVE  \A u \in TaskId : job'[u] = "acted" => job[u] = "acted"
    BY <1>0, <2>2 DEF EvolveTask
  <2>3. CASE job' = job
    BY <2>3
  <2> QED
    BY <1>0, <2>1, <2>2, <2>3
    DEF DaemonStep, PlanTasks, CommitPlan, SelectTasks, CommitSubmission, EndIteration,
        SkipTask, WmsCompletes, ApiStep, RequestCampaign, ApplyCampaign, RpcReads,
        RpcCommits, vars, work
<1>2. seen' = seen \/ seen' = status
  BY DEF DaemonStep, PlanTasks, CommitPlan, SelectTasks, CommitSubmission, EndIteration,
         SkipTask, EvolveTask, WmsCompletes, Crash, ApiStep, RequestCampaign, ApplyCampaign,
         RpcReads, RpcCommits, vars, snapshot
<1> QED
  BY <1>0, <1>1, <1>2 DEF NodesEntitled

LEMMA DaemonInv ==
  ASSUME OInv, OperatorsNext, Daemon(Next)
  PROVE  OInv'
<1>1. TypeOK /\ InRange
  BY DEF OInv, OperatorsTypeOK
<1>2. TypeOK' /\ InRange'
  BY <1>1, DaemonTypes, JobTypes, OtherTypes DEF Daemon, Next
<1>3. UNCHANGED <<patches, patched, forced>>
      /\ succeeded' = succeeded \cup {n \in Nodes : wms'[n] = "done"}
  BY DEF Daemon
<1>4. OperatorsTypeOK'
  <2>1. \A r \in patches : PatchMoves(r)' = PatchMoves(r)
    BY DEF PatchMoves
  <2> QED
    BY <1>2, <1>3, <2>1 DEF OInv, OperatorsTypeOK
<1>5. \A n \in Nodes : Deserves(n) => Deserves(n)'
  BY DeservesIsStable
<1>6. NodesEntitled'
  BY <1>5, JobEntitled, OthersEntitled DEF Daemon, Next
<1>7. Entitled'
  <2>1. \A r \in patches : r.node \in Nodes
    BY DEF OInv, OperatorsTypeOK, Patch
  <2> QED
    BY <1>3, <1>5, <1>6, <2>1 DEF OInv, Entitled, NodesEntitled, PatchedTrigger
<1> QED
  BY <1>2, <1>3, <1>4, <1>7 DEF OInv

-----------------------------------------------------------------------------
(* The operators' steps                                                    *)

LEMMA RequestInv ==
  ASSUME OInv, OperatorsNext, NEW n \in Nodes, NEW target \in NodeTargets, RequestNode(n, target)
  PROVE  OInv'
<1>0. PICK r : r = [nr |-> patched + 1, phase |-> "asked", node |-> n, from |-> status[n],
                    machine |-> fsm[n], camp |-> campaign, want |-> target.want,
                    force |-> target.force]
  OBVIOUS
<1>1. /\ patches' = patches \cup {r} /\ patched' = patched + 1 /\ UNCHANGED <<vars, succeeded>>
      /\ forced \subseteq forced' /\ forced' \subseteq forced \cup {n}
      /\ target = [want |-> "accepted", force |-> TRUE] => n \in forced'
  BY <1>0 DEF RequestNode
<1>2. target \in [want : Status, force : BOOLEAN]
  BY PatchAssumption
<1>3. patched \in Nat /\ patched + 1 \in 1..MaxPatches
  BY PatchAssumption DEF RequestNode, OInv, OperatorsTypeOK
<1>4. /\ r \in Patch /\ r.node = n /\ r.from = status[n] /\ r.phase = "asked"
      /\ r.want = target.want /\ r.force = target.force
  BY <1>0, <1>2, <1>3 DEF Patch, PatchPhase, OInv, OperatorsTypeOK, TypeOK
<1>5. TypeOK' /\ InRange' /\ NodesEntitled'
  <2>1. \A m \in Nodes : Deserves(m) => Deserves(m)'
    BY DeservesIsStable
  <2> QED
    BY <1>1, <2>1, OtherTypes, OthersEntitled DEF OInv, OperatorsTypeOK
<1>6. OperatorsTypeOK'
  <2>1. \A q \in patches : PatchMoves(q)' = PatchMoves(q)
    BY DEF PatchMoves
  <2> QED
    BY <1>1, <1>3, <1>4, <1>5, <2>1 DEF OInv, OperatorsTypeOK
<1>7. PatchedTrigger(r) = "force" => n \in forced'
  <2>1. PatchedTrigger(r) = "force" => target.want = "accepted" /\ target.force
    BY <1>2, <1>4 DEF PatchedTrigger, PatchTrigger
  <2> QED
    BY <1>1, <1>2, <2>1
<1>8. status[n] \in NodeStatuses /\ (status[n] = "accepted" => Deserves(n)')
  BY DeservesIsStable DEF OInv, InRange, Entitled
<1>9. ASSUME NEW q \in patches
      PROVE  /\ q.from = "accepted" => Deserves(q.node)'
             /\ PatchedTrigger(q) = "force" => q.node \in forced'
             /\ q.phase = "acted" /\ PatchedTrigger(q) = "finish" => Deserves(q.node)'
  BY <1>1, DeservesIsStable DEF OInv, Entitled
<1>10. Entitled'
  <2>1. /\ r.from = "accepted" => Deserves(r.node)'
        /\ PatchedTrigger(r) = "force" => r.node \in forced'
        /\ r.phase # "acted"
    BY <1>4, <1>7, <1>8
  <2>2. \A m \in Nodes : wms'[m] = "done" => m \in succeeded'
    BY <1>1 DEF OInv, Entitled, vars, outside
  <2>3. \A q \in patches' : PatchedTrigger(q)' = PatchedTrigger(q)
    BY DEF PatchedTrigger
  <2> QED
    BY <1>1, <1>5, <1>9, <2>1, <2>2, <2>3 DEF Entitled, NodesEntitled
<1> QED
  BY <1>1, <1>4, <1>5, <1>6, <1>8, <1>10 DEF OInv

(* A step of the background task of r, which goes on as q or ends.         *)
LEMMA TaskInv ==
  ASSUME OInv, OperatorsNext, NEW r \in patches, NEW Q, Becomes(r, Q),
         TypeOK', InRange', NodesEntitled', UNCHANGED <<wms>>,
         \A q \in Q :
           /\ q \in Patch /\ q.node = r.node /\ q.from = r.from /\ q.machine = r.machine
           /\ q.want = r.want /\ q.force = r.force
           /\ q.phase \in {"acted", "saved"} => PatchMoves(r) # {}
           /\ q.phase = "acted" /\ PatchedTrigger(r) = "finish" => Deserves(r.node)
  PROVE  OInv'
<1>1. /\ patches' = (patches \ {r}) \cup Q /\ UNCHANGED <<patched, forced, succeeded>>
      /\ r \in Patch
  BY DEF Becomes, OInv, OperatorsTypeOK
<1>2. \A q \in Q : PatchedTrigger(q) = PatchedTrigger(r) /\ PatchMoves(q) = PatchMoves(r)
  BY <1>1, MovesAreSettled
<1>3. /\ \A q \in patches' : PatchMoves(q)' = PatchMoves(q) /\ PatchedTrigger(q)' = PatchedTrigger(q)
      /\ \A n : Deserves(n)' = Deserves(n)
  BY <1>1 DEF PatchMoves, PatchedTrigger, Deserves
<1>4. OperatorsTypeOK'
  BY <1>1, <1>2, <1>3 DEF OInv, OperatorsTypeOK
<1>5. Entitled'
  BY <1>1, <1>2, <1>3 DEF OInv, Entitled, NodesEntitled
<1> QED
  BY <1>1, <1>4, <1>5 DEF OInv

LEMMA QuietPatchInv ==
  ASSUME OInv, OperatorsNext, NEW r \in patches,
         PatchIgnored(r) \/ PatchActs(r) \/ PatchDeclines(r) \/ PatchRaises(r)
  PROVE  OInv'
<1>1. UNCHANGED vars
  BY DEF PatchIgnored, PatchActs, PatchDeclines, PatchRaises
<1>2. TypeOK' /\ InRange' /\ NodesEntitled' /\ wms' = wms
  <2>1. \A n \in Nodes : Deserves(n) => Deserves(n)'
    BY DeservesIsStable
  <2> QED
    BY <1>1, <2>1, OtherTypes, OthersEntitled DEF OInv, OperatorsTypeOK, vars, outside
<1>3. r \in Patch /\ r.node \in Nodes
  BY DEF OInv, OperatorsTypeOK, Patch
<1>4. CASE PatchActs(r)
  <2>1. PICK c \in Status : Becomes(r, {[r EXCEPT !.phase = "acted", !.camp = c]})
    <3>1. "accepted" \in Status /\ r.camp \in Status
      BY <1>3, StatusSet DEF Patch
    <3> QED
      BY <1>4, <3>1 DEF PatchActs
  <2>0. PICK q : q = [r EXCEPT !.phase = "acted", !.camp = c]
    OBVIOUS
  <2>2. /\ q \in Patch /\ q.node = r.node /\ q.from = r.from /\ q.machine = r.machine
        /\ q.want = r.want /\ q.force = r.force /\ Becomes(r, {q})
    BY <1>3, <2>1, <2>0 DEF Patch, PatchPhase
  <2>3. PatchMoves(r) # {}
    BY <1>4 DEF PatchActs, Fires
  <2>4. ASSUME PatchedTrigger(r) = "finish" PROVE Deserves(r.node)
    <3>1. r.node \notin Breakpoints /\ (r.node \in Launching => wms[r.node] = "done")
      BY <1>3, <1>4, <2>4
      DEF PatchActs, MustDecline, MustRaise, NotDone, JobLost, OInv, OperatorsTypeOK, TypeOK
    <3> QED
      BY <1>3, <3>1 DEF Deserves, OInv, Entitled
  <2> QED
    BY <1>2, <2>2, <2>3, <2>4, TaskInv
<1>5. CASE PatchDeclines(r) \/ PatchRaises(r)
  <2>1. PICK p \in {"declined", "raised"} : Becomes(r, {[r EXCEPT !.phase = p]})
    BY <1>5 DEF PatchDeclines, PatchRaises
  <2>2. /\ [r EXCEPT !.phase = p] \in Patch /\ [r EXCEPT !.phase = p].phase = p
    BY <1>3 DEF Patch, PatchPhase
  <2> QED
    BY <1>2, <1>3, <2>1, <2>2, TaskInv DEF Patch
<1>6. CASE PatchIgnored(r)
  BY <1>2, <1>6, TaskInv DEF PatchIgnored
<1> QED
  BY <1>4, <1>5, <1>6

(* What the background task writes is what it deserves or what it read.    *)
LEMMA MergeInv ==
  ASSUME OInv, OperatorsNext, NEW r \in patches, NEW s \in NodeStatuses, MergePatch(r, s),
         s = "accepted" => Deserves(r.node)
  PROVE  TypeOK' /\ InRange' /\ NodesEntitled' /\ wms' = wms
<1>0. r.node \in Nodes /\ r.machine \in Status \cup {"none"} /\ r.camp \in Status /\ s \in Status
  BY Ranges DEF OInv, OperatorsTypeOK, Patch
<1>1. /\ status' = [status EXCEPT ![r.node] = s] /\ fsm' = [fsm EXCEPT ![r.node] = r.machine]
      /\ campaign' = r.camp
      /\ UNCHANGED <<tasks, submitted, outside, loop, snapshot, work, requests>>
  BY DEF MergePatch
<1>2. TypeOK'
  BY <1>0, <1>1 DEF OInv, OperatorsTypeOK, TypeOK, outside, loop, snapshot, work, requests
<1>3. InRange'
  BY <1>0, <1>1 DEF OInv, OperatorsTypeOK, TypeOK, InRange, snapshot
<1>4. NodesEntitled'
  <2>1. \A n \in Nodes : Deserves(n) => Deserves(n)'
    BY DeservesIsStable
  <2>2. seen' = seen /\ job' = job
    BY <1>1 DEF snapshot, work
  <2>3. \A n \in Nodes : status'[n] = "accepted" => status[n] = "accepted" \/ Deserves(n)
    BY <1>0, <1>1 DEF OInv, OperatorsTypeOK, TypeOK
  <2> QED
    BY <2>1, <2>2, <2>3 DEF OInv, Entitled, NodesEntitled
<1> QED
  BY <1>1, <1>2, <1>3, <1>4 DEF outside

LEMMA WritingPatchInv ==
  ASSUME OInv, OperatorsNext, NEW r \in patches,
         PatchSaves(r) \/ PatchStores(r) \/ PatchWritesBack(r)
  PROVE  OInv'
<1>0. r \in Patch /\ r.node \in Nodes /\ "failed" \in NodeStatuses
  BY DEF OInv, OperatorsTypeOK, Patch, NodeStatuses, HappyOrFailed
<1>1. CASE PatchSaves(r)
  <2>1. PICK s \in NodeStatuses, p \in {"saved", "failsaved"} :
          /\ MergePatch(r, s) /\ Becomes(r, {[r EXCEPT !.phase = p]})
          /\ p = "saved" => r.phase = "acted"
          /\ s = "accepted" => r.phase = "acted" /\ PatchedTrigger(r) \in {"finish", "force"}
    BY <1>0, <1>1, MoveFacts DEF PatchSaves
  <2>2. s = "accepted" => Deserves(r.node)
    <3>1. PatchedTrigger(r) = "force" => Deserves(r.node)
      BY DEF OInv, Entitled, Deserves
    <3> QED
      BY <2>1, <3>1 DEF OInv, Entitled
  <2>3. TypeOK' /\ InRange' /\ NodesEntitled' /\ wms' = wms
    BY <2>1, <2>2, MergeInv
  <2>4. [r EXCEPT !.phase = p] \in Patch /\ [r EXCEPT !.phase = p].phase = p
    BY <1>0 DEF Patch, PatchPhase
  <2>5. p = "saved" => PatchMoves(r) # {}
    BY <2>1 DEF OInv, OperatorsTypeOK
  <2> QED
    BY <1>0, <2>1, <2>3, <2>4, <2>5, TaskInv DEF Patch
<1>2. CASE PatchStores(r)
  <2>1. PICK s \in NodeStatuses : fsm' = [fsm EXCEPT ![r.node] = s]
    BY <1>0, <1>2, MoveFacts DEF PatchStores
  <2>2. /\ Becomes(r, {})
        /\ UNCHANGED <<status, campaign, tasks, submitted, outside, loop, snapshot, work, requests>>
    BY <1>2 DEF PatchStores
  <2>3. fsm' \in [Nodes -> Status \cup {"none"}]
    BY <1>0, <2>1, Ranges DEF OInv, OperatorsTypeOK, TypeOK
  <2>4. TypeOK' /\ InRange'
    BY <2>2, <2>3
    DEF OInv, OperatorsTypeOK, TypeOK, InRange, outside, loop, snapshot, work, requests
  <2>5. NodesEntitled' /\ wms' = wms
    BY <2>2, DeservesIsStable DEF OInv, Entitled, NodesEntitled, snapshot, work, outside
  <2> QED
    BY <2>2, <2>4, <2>5, TaskInv
<1>3. CASE PatchWritesBack(r)
  <2>1. MergePatch(r, r.from) /\ Becomes(r, {}) /\ r.from \in NodeStatuses
    BY <1>3 DEF PatchWritesBack, OInv
  <2>2. r.from = "accepted" => Deserves(r.node)
    BY DEF OInv, Entitled
  <2>3. TypeOK' /\ InRange' /\ NodesEntitled' /\ wms' = wms
    BY <2>1, <2>2, MergeInv
  <2> QED
    BY <2>1, <2>3, TaskInv
<1> QED
  BY <1>1, <1>2, <1>3

-----------------------------------------------------------------------------
LEMMA OperatorsInitInv == OperatorsInit => OInv
<1> SUFFICES ASSUME OperatorsInit PROVE OInv
  OBVIOUS
<1>1. TypeOK
  BY InitInv DEF OperatorsInit, IInv
<1>2. OperatorsTypeOK
  BY <1>1, PatchAssumption DEF OperatorsInit, OperatorsTypeOK
<1>3. \A n \in Nodes : /\ status[n] = "waiting" /\ seen[n] = "waiting" /\ wms[n] = "none"
                      /\ job[<<n, "accepted">>] = "none"
  BY DEF OperatorsInit, Init, TaskId, Targets
<1> QED
  BY <1>2, <1>3 DEF OInv, OperatorsInit, InRange, NodeStatuses, HappyOrFailed, Entitled

LEMMA OperatorsStutterInv ==
  ASSUME OInv, UNCHANGED allvars
  PROVE  OInv'
<1>1. /\ UNCHANGED <<vars, patches, patched, forced, succeeded>>
      /\ UNCHANGED <<status, seen, job, wms>>
  BY DEF allvars, operators, vars, rows, snapshot, work, outside
<1>2. TypeOK' /\ InRange'
  BY <1>1, OtherTypes DEF OInv, OperatorsTypeOK
<1>3. \A r \in patches : PatchMoves(r)' = PatchMoves(r) /\ PatchedTrigger(r)' = PatchedTrigger(r)
  BY DEF PatchMoves, PatchedTrigger
<1> QED
  BY <1>1, <1>2, <1>3 DEF OInv, OperatorsTypeOK, Entitled, Deserves

LEMMA OperatorsInvariance == OperatorsSpec => []OInv
<1>1. OInv /\ [OperatorsNext]_allvars => OInv'
  BY DaemonInv, RequestInv, QuietPatchInv, WritingPatchInv, OperatorsStutterInv
  DEF OperatorsNext, PatchStep
<1> QED
  BY OperatorsInitInv, <1>1, PTL DEF OperatorsSpec

(* The model is well typed, and a request that is past its callbacks had a *)
(* transition to make.                                                     *)
THEOREM OperatorsTypeCorrect == OperatorsSpec => []OperatorsTypeOK
<1>1. OInv => OperatorsTypeOK
  BY DEF OInv
<1> QED
  BY OperatorsInvariance, <1>1, PTL

(* However requests, the daemon's transitions and crashes interleave, and  *)
(* whichever old copies they write back: a breakpoint is accepted only if  *)
(* some user asked for it with force.                                      *)
THEOREM BreakpointsAreUsers == OperatorsSpec => []BreakpointsNeedUsers
<1>1. OInv => BreakpointsNeedUsers
  BY KindAssumption DEF OInv, Entitled, Deserves, BreakpointsNeedUsers
<1> QED
  BY OperatorsInvariance, <1>1, PTL

(* Likewise a node that submits jobs is accepted only if one of its jobs   *)
(* has succeeded or some user asked for it with force.                     *)
THEOREM AcceptedIsDone == OperatorsSpec => []AcceptedWorkWasDone
<1>1. OInv => AcceptedWorkWasDone
  BY KindAssumption DEF OInv, Entitled, Deserves, AcceptedWorkWasDone
<1> QED
  BY OperatorsInvariance, <1>1, PTL
=============================================================================
