--------------------------- MODULE CampaignDaemon ---------------------------
(***************************************************************************)
(* One campaign driven by one daemon process: the two phases of an         *)
(* iteration (consider campaigns, consider nodes), the node state machines *)
(* that run as concurrent asyncio tasks, the workload manager they submit  *)
(* to, crashes of the daemon, and the campaign PATCH and process requests  *)
(* that the API serves meanwhile.                                          *)
(*                                                                         *)
(* Every action ends at a commit or at an await: what a transaction reads  *)
(* and what it later writes are separate steps wherever the code lets      *)
(* another transaction in between.                                         *)
(***************************************************************************)
EXTENDS NodeLifecycle, FiniteSets, Sequences

CONSTANTS
  Nodes, START, END,    \* the campaign's graph nodes, its source and its sink
  SimplePaths,          \* the paths from START to END that repeat no node
  Breakpoints,          \* nodes of kind breakpoint: never done by themselves
  Launching,            \* nodes that submit a job to the workload manager
  Flaky,                \* nodes whose callbacks may raise
  AllowTaskUpsert,      \* the feature flag ALLOW_TASK_UPSERT
  InitialCampaign,      \* the campaign's status when the daemon starts
  CampaignTargets,      \* [want, force] of the campaign PATCHes users may send
  MaxRequests,          \* bound: campaign PATCHes sent
  WithRpc,              \* whether users call the process RPC
  MaxCrashes            \* bound: crashes of the daemon

ASSUME GraphAssumption ==
  /\ START \in Nodes /\ END \in Nodes /\ START # END
  /\ SimplePaths \subseteq Seq(Nodes)
  /\ \A p \in SimplePaths :
       /\ p # <<>> /\ p[1] = START /\ p[Len(p)] = END
       /\ \A i, j \in DOMAIN p : p[i] = p[j] => i = j

ASSUME KindAssumption ==
  /\ Breakpoints \subseteq Nodes \ {START, END}
  /\ Launching \subseteq Nodes \ Breakpoints
  /\ Flaky \subseteq Nodes \ Breakpoints

ASSUME RequestAssumption ==
  /\ InitialCampaign \in Status
  /\ CampaignTargets \subseteq [want : Status, force : BOOLEAN]

ASSUME BoundAssumption ==
  /\ MaxRequests \in Nat /\ MaxCrashes \in Nat
  /\ AllowTaskUpsert \in BOOLEAN /\ WithRpc \in BOOLEAN

TaskId == Nodes \X Targets

JobPhase == {"none", "called", "bare", "acted", "raised", "declined",
             "saved", "failsaved"}

-----------------------------------------------------------------------------
VARIABLES
  status,        \* nodes_v2.status
  fsm,           \* the state of the node's pickled machine, or "none"
  campaign,      \* campaigns_v2.status
  tasks,         \* rows of tasks_v2
  submitted,     \* those with a submitted_at
  wms,           \* what the event log of the node's latest job says
  launches,      \* how many jobs the node has had submitted
  pc,            \* where the daemon is in its iteration
  plan,          \* tasks the open transaction of phase one will insert
  batch,         \* selected tasks that the loop of phase two has yet to visit
  cur,           \* the task whose submitted_at awaits its commit
  seen,          \* node statuses as phase two selected them
  seenFsm,       \* and whether they had a pickled machine
  seenCampaign,  \* the Campaign object that all nodes of the batch share
  dirty,         \* that object was modified and not flushed
  job,           \* phase of the asyncio task of a transition
  crashes,       \* crashes of the daemon so far
  creqs,         \* background tasks of accepted campaign PATCHes
  asked,         \* campaign PATCHes so far
  rpc            \* tasks an RPC transaction has yet to insert

rows      == <<status, fsm, campaign, tasks, submitted>>
outside   == <<wms, launches>>
loop      == <<pc, plan, batch, cur>>
snapshot  == <<seen, seenFsm, seenCampaign, dirty>>
work      == <<job, crashes>>
requests  == <<creqs, asked, rpc>>
vars      == <<rows, outside, loop, snapshot, work, requests>>

TypeOK ==
  /\ status \in [Nodes -> Status]
  /\ fsm \in [Nodes -> Status \cup {"none"}]
  /\ campaign \in Status
  /\ tasks \subseteq TaskId /\ submitted \subseteq tasks
  /\ wms \in [Nodes -> {"none", "active", "done", "failed"}]
  /\ launches \in [Nodes -> Nat]
  /\ pc \in {"campaigns", "locked", "planned", "nodes", "evolve", "commit"}
  /\ plan \subseteq TaskId /\ batch \subseteq tasks /\ cur \subseteq tasks
  /\ seen \in [Nodes -> Status]
  /\ seenFsm \in [Nodes -> Status \cup {"none"}]
  /\ seenCampaign \in Status /\ dirty \in BOOLEAN
  /\ job \in [TaskId -> JobPhase]
  /\ crashes \in 0..MaxCrashes
  /\ creqs \subseteq [from : Status, want : Status, force : BOOLEAN]
  /\ asked \in 0..MaxRequests
  /\ rpc \subseteq TaskId

Init ==
  /\ status = [n \in Nodes |-> "waiting"]
  /\ fsm = [n \in Nodes |-> "none"]
  /\ campaign = InitialCampaign
  /\ tasks = {} /\ submitted = {}
  /\ wms = [n \in Nodes |-> "none"]
  /\ launches = [n \in Nodes |-> 0]
  /\ pc = "campaigns" /\ plan = {} /\ batch = {} /\ cur = {}
  /\ seen = status /\ seenFsm = fsm /\ seenCampaign = campaign /\ dirty = FALSE
  /\ job = [t \in TaskId |-> "none"]
  /\ crashes = 0
  /\ creqs = {} /\ asked = 0 /\ rpc = {}

-----------------------------------------------------------------------------
(* Definitions whose names begin with Wrong are not part of the model.     *)
(* Each is a mistake one could make in the code of the definition that     *)
(* follows it, and shows that a property of the model tells the two apart. *)

(* Phase one: consider campaigns                                           *)

(* Look past a node that is still being worked on.                         *)
WrongWalkOn(st) ==
  {n \in Nodes :
     /\ st[n] \in ProcessableScript
     /\ \E p \in SimplePaths : \E i \in DOMAIN p :
          p[i] = n /\ \A j \in 1..i-1 : st[p[j]] # "failed"}

(* Look past a failed node.                                                *)
WrongWalkPastFailed(st) ==
  {n \in Nodes :
     /\ st[n] \in ProcessableScript
     /\ \E p \in SimplePaths : \E i \in DOMAIN p :
          p[i] = n /\ \A j \in 1..i-1 : st[p[j]] \notin ProcessableScript}

(* Walk every path until a node that needs attention, or a failed one.     *)
Processable(st) ==
  {n \in Nodes :
     /\ st[n] \in ProcessableScript
     /\ \E p \in SimplePaths : \E i \in DOMAIN p :
          /\ p[i] = n
          /\ \A j \in 1..i-1 : st[p[j]] \notin ProcessableScript \cup {"failed"}}

(* Aim at the status the node already has.                                 *)
WrongTasksFor(ns) == {<<n, status[n]>> : n \in ns}

(* The row daemon_process_node inserts for each node of ns.                *)
TasksFor(ns) == {<<n, NextStatus(status[n])>> : n \in ns}

(* Never give an existing row a second chance.                             *)
WrongInsert(ts) == tasks' = tasks \cup ts /\ submitted' = submitted

(* Insert task rows: an existing row is kept as it is, or, with the upsert *)
(* flag, loses its submitted_at.                                           *)
InsertTasks(ts) ==
  /\ tasks' = tasks \cup ts
  /\ submitted' = IF AllowTaskUpsert THEN submitted \ ts ELSE submitted

WrongPausedNodes == {}

(* In a paused campaign the running nodes are checked, and no others.      *)
PausedNodes == {n \in Nodes : status[n] = "running"}

(* The campaign row stays locked until the transaction commits, if the     *)
(* campaign was selected for its running or ready status; the nodes of a   *)
(* paused campaign are read without a lock.                                *)
PlanTasks ==
  /\ pc = "campaigns"
  /\ \/ /\ campaign \in {"ready", "running"}
        /\ plan' = TasksFor(Processable(status))
        /\ pc' = "locked"
     \/ /\ campaign = "paused"
        /\ plan' = TasksFor(PausedNodes)
        /\ pc' = "planned"
     \/ /\ campaign \notin {"ready", "running", "paused"}
        /\ plan' = {}
        /\ pc' = "planned"
  /\ UNCHANGED <<rows, outside, batch, cur, snapshot, work, requests>>

CommitPlan ==
  /\ pc \in {"locked", "planned"}
  /\ InsertTasks(plan)
  /\ plan' = {}
  /\ pc' = "nodes"
  /\ UNCHANGED <<status, fsm, campaign, outside, batch, cur, snapshot, work, requests>>

-----------------------------------------------------------------------------
(* Phase two: consider nodes                                               *)

SelectTasks ==
  /\ pc = "nodes"
  /\ batch' = tasks \ submitted
  /\ seen' = status /\ seenFsm' = fsm
  /\ seenCampaign' = campaign
  /\ dirty' = FALSE
  /\ pc' = "evolve"
  /\ UNCHANGED <<rows, outside, plan, cur, work, requests>>

WrongInSync(t) == TRUE

(* The node is where it was when the task was created.                     *)
InSync(t) == seen[t[1]] = PreviousOf[t[2]]

(* A task whose node has moved on is dropped, and stays unsubmitted.       *)
SkipTask(t) ==
  /\ pc = "evolve" /\ t \in batch /\ ~InSync(t)
  /\ batch' = batch \ {t}
  /\ UNCHANGED <<rows, outside, pc, plan, cur, snapshot, work, requests>>

(* The machine is unpickled or, failing that, built anew: a bare machine   *)
(* has no configuration chain.  Its trigger becomes an asyncio task, which *)
(* runs from the next await on: the commit of submitted_at.                *)
EvolveTask(t) ==
  /\ pc = "evolve" /\ t \in batch /\ InSync(t)
  /\ batch' = batch \ {t}
  /\ cur' = {t}
  /\ job' = [job EXCEPT ![t] = IF seenFsm[t[1]] = "none" THEN "bare" ELSE "called"]
  /\ pc' = "commit"
  /\ UNCHANGED <<rows, outside, plan, snapshot, crashes, requests>>

(* The commit also flushes the Campaign object if do_finish changed it.    *)
CommitSubmission ==
  /\ pc = "commit"
  /\ submitted' = submitted \cup cur
  /\ campaign' = IF dirty THEN seenCampaign ELSE campaign
  /\ dirty' = FALSE
  /\ cur' = {}
  /\ pc' = "evolve"
  /\ UNCHANGED <<status, fsm, tasks, outside, plan, batch, seen, seenFsm,
                 seenCampaign, work, requests>>

WrongAwaited == TRUE

(* The task group awaits every transition before the iteration ends.       *)
AllAwaited == \A t \in TaskId : job[t] = "none"

EndIteration ==
  /\ pc = "evolve" /\ batch = {}
  /\ AllAwaited
  /\ pc' = "campaigns"
  /\ UNCHANGED <<rows, outside, plan, batch, cur, snapshot, work, requests>>

-----------------------------------------------------------------------------
(* A transition of a node's state machine, run as an asyncio task          *)

Started(t) == job[t] \in {"called", "bare"}

(* A machine without a configuration chain can only be prepared.           *)
Unequipped(t) == job[t] = "bare" /\ t[1] \in Launching /\ t[2] # "ready"

(* Take a breakpoint for a node that is done at once.                      *)
WrongNotDone(t) ==
  t[2] = "accepted" /\ t[1] \in Launching /\ wms[t[1]] = "active"

(* is_done_running: not yet, or not ever for a breakpoint.                 *)
NotDone(t) ==
  /\ t[2] = "accepted"
  /\ \/ t[1] \in Breakpoints
     \/ t[1] \in Launching /\ wms[t[1]] = "active"

JobLost(t) == t[2] = "accepted" /\ t[1] \in Launching /\ wms[t[1]] \in {"none", "failed"}

WrongAcceptsCampaign(t) == t[2] = "accepted"

(* EndMachine.do_finish marks the shared Campaign object accepted.         *)
AcceptsCampaign(t) == t = <<END, "accepted">>

(* The condition holds and the before-callback succeeds: a start submits a *)
(* job to the workload manager.                                            *)
JobActs(t) ==
  /\ Started(t) /\ ~Unequipped(t) /\ ~NotDone(t) /\ ~JobLost(t)
  /\ job' = [job EXCEPT ![t] = "acted"]
  /\ IF t[2] = "running" /\ t[1] \in Launching
     THEN /\ wms' = [wms EXCEPT ![t[1]] = "active"]
          /\ launches' = [launches EXCEPT ![t[1]] = @ + 1]
     ELSE UNCHANGED outside
  /\ IF AcceptsCampaign(t)
     THEN seenCampaign' = "accepted" /\ dirty' = (seenCampaign # "accepted")
     ELSE UNCHANGED <<seenCampaign, dirty>>
  /\ UNCHANGED <<rows, loop, seen, seenFsm, crashes, requests>>

JobDeclines(t) ==
  /\ Started(t) /\ ~Unequipped(t) /\ NotDone(t)
  /\ job' = [job EXCEPT ![t] = "declined"]
  /\ UNCHANGED <<rows, outside, loop, snapshot, crashes, requests>>

(* A callback raises; the error handler triggers fail.                     *)
JobRaises(t) ==
  /\ Started(t) /\ (Unequipped(t) \/ JobLost(t) \/ t[1] \in Flaky)
  /\ job' = [job EXCEPT ![t] = "raised"]
  /\ UNCHANGED <<rows, outside, loop, snapshot, crashes, requests>>

(* The machines when the columns of n are written as they were selected.   *)
Unlinked(n) == IF seenFsm[n] = "none" THEN [fsm EXCEPT ![n] = "none"] ELSE fsm

(* Only END's copy of the campaign follows its changes.                    *)
WrongMerge(n, s) ==
  /\ status' = [status EXCEPT ![n] = s]
  /\ fsm' = Unlinked(n)
  /\ campaign' = IF n = END THEN seenCampaign ELSE InitialCampaign

(* Merging the node writes its columns, the link to a pickled machine      *)
(* among them, and, by cascade, the Campaign's.                            *)
MergeNode(n, s) ==
  /\ status' = [status EXCEPT ![n] = s]
  /\ fsm' = Unlinked(n)
  /\ campaign' = seenCampaign

JobSaves(t) ==
  /\ \/ /\ job[t] = "acted"
        /\ MergeNode(t[1], t[2])
        /\ job' = [job EXCEPT ![t] = "saved"]
     \/ /\ job[t] = "raised"
        /\ MergeNode(t[1], "failed")
        /\ job' = [job EXCEPT ![t] = "failsaved"]
  /\ UNCHANGED <<tasks, submitted, outside, loop, snapshot, crashes, requests>>

WrongStoredState(t) == seen[t[1]]

StoredState(t) == IF job[t] = "saved" THEN t[2] ELSE "failed"

(* finalize after a change: the machine is pickled in a further commit.    *)
JobStores(t) ==
  /\ job[t] \in {"saved", "failsaved"}
  /\ fsm' = [fsm EXCEPT ![t[1]] = StoredState(t)]
  /\ job' = [job EXCEPT ![t] = "none"]
  /\ UNCHANGED <<status, campaign, tasks, submitted, outside, loop, snapshot,
                 crashes, requests>>

(* finalize after a declined check merges the node as it was selected.     *)
JobWritesBack(t) ==
  /\ job[t] = "declined"
  /\ MergeNode(t[1], seen[t[1]])
  /\ job' = [job EXCEPT ![t] = "none"]
  /\ UNCHANGED <<tasks, submitted, outside, loop, snapshot, crashes, requests>>

-----------------------------------------------------------------------------
(* The workload manager, crashes, and the API                              *)

WmsCompletes(n) ==
  /\ wms[n] = "active"
  /\ wms' = [wms EXCEPT ![n] = "done"] \/ wms' = [wms EXCEPT ![n] = "failed"]
  /\ UNCHANGED <<rows, launches, loop, snapshot, work, requests>>

(* The daemon dies and is restarted; what it had committed remains.        *)
Crash ==
  /\ crashes < MaxCrashes
  /\ crashes' = crashes + 1
  /\ pc' = "campaigns" /\ plan' = {} /\ batch' = {} /\ cur' = {}
  /\ job' = [t \in TaskId |-> "none"]
  /\ dirty' = FALSE
  /\ UNCHANGED <<rows, outside, seen, seenFsm, seenCampaign, requests>>

(* A campaign PATCH reads the campaign and leaves the change of its status *)
(* to a background task, which works on that copy.                         *)
RequestCampaign(target) ==
  /\ pc # "locked"
  /\ asked < MaxRequests
  /\ asked' = asked + 1
  /\ creqs' = creqs \cup {[from |-> campaign, want |-> target.want, force |-> target.force]}
  /\ UNCHANGED <<rows, outside, loop, snapshot, work, rpc>>

(* Do not ask whether the campaign is successful.                          *)
WrongCampaignMoves(r) ==
  {m \in CampaignTransitions :
     m.trigger = CampaignTrigger(r.from, r.want, r.force) /\ m.source = r.from}

(* The transition the campaign machine makes for r, if any: its graph is   *)
(* valid, so only finish has a condition that may fail.                    *)
CampaignMoves(r) ==
  {m \in CampaignTransitions :
     /\ m.trigger = CampaignTrigger(r.from, r.want, r.force)
     /\ m.source = r.from
     /\ m.trigger = "finish" => status[END] = "accepted"}

ApplyCampaign(r) ==
  /\ r \in creqs
  /\ creqs' = creqs \ {r}
  /\ \/ CampaignMoves(r) = {} /\ UNCHANGED campaign
     \/ /\ pc # "locked"
        /\ \E m \in CampaignMoves(r) : campaign' = m.dest
  /\ UNCHANGED <<status, fsm, tasks, submitted, outside, loop, snapshot, work,
                 asked, rpc>>

(* Skip the question whether a node is processable in its graph.           *)
WrongRpcNodes == {n \in Nodes : status[n] \in ProcessableScript}

RpcNodes == Processable(status)

(* The process RPC plans tasks for a paused campaign, or for one node.     *)
RpcReads ==
  /\ WithRpc /\ rpc = {} /\ campaign = "paused"
  /\ \/ rpc' = TasksFor(Processable(status))
     \/ \E n \in RpcNodes : rpc' = TasksFor({n})
  /\ UNCHANGED <<rows, outside, loop, snapshot, work, creqs, asked>>

RpcCommits ==
  /\ rpc # {}
  /\ InsertTasks(rpc)
  /\ rpc' = {}
  /\ UNCHANGED <<status, fsm, campaign, outside, loop, snapshot, work, creqs, asked>>

-----------------------------------------------------------------------------
DaemonStep ==
  \/ PlanTasks \/ CommitPlan \/ SelectTasks \/ CommitSubmission \/ EndIteration
  \/ \E t \in TaskId : SkipTask(t) \/ EvolveTask(t)

JobStep(t) ==
  \/ JobActs(t) \/ JobDeclines(t) \/ JobRaises(t)
  \/ JobSaves(t) \/ JobStores(t) \/ JobWritesBack(t)

ApiStep ==
  \/ \E target \in CampaignTargets : RequestCampaign(target)
  \/ \E r \in creqs : ApplyCampaign(r)
  \/ RpcReads \/ RpcCommits

Next ==
  \/ DaemonStep
  \/ \E t \in TaskId : JobStep(t)
  \/ \E n \in Nodes : WmsCompletes(n)
  \/ Crash
  \/ ApiStep

Spec == Init /\ [][Next]_vars

(* The event loop serves every runnable coroutine, the daemon is restarted *)
(* after a crash, and jobs end.  Users owe nothing.                        *)
Fairness ==
  /\ WF_vars(DaemonStep)
  /\ \A t \in TaskId : WF_vars(JobStep(t))
  /\ \A n \in Nodes : WF_vars(WmsCompletes(n))

FairSpec == Spec /\ Fairness
-----------------------------------------------------------------------------
(* Properties                                                              *)

Promise == INSTANCE CampaignPromise WITH Nodes <- Nodes, SimplePaths <- SimplePaths, status <- status

(* A task's transition has begun and has not yet written the node.         *)
Unsaved(t) == job[t] \in {"called", "bare", "acted", "raised", "declined"}

(* The transitions of a batch work on copies of their nodes and write them *)
(* back blindly (daemon_v2.py make_transient, meta.py repatriate_node):    *)
(* while one is under way nothing else may have moved its node, or its     *)
(* write would undo that move.                                             *)
SnapshotsFresh ==
  \A t \in TaskId :
    Unsaved(t) => status[t[1]] = seen[t[1]] /\ seen[t[1]] = PreviousOf[t[2]]

(* No node is processed, has a task or is about to get one unless some     *)
(* path leads to it through accepted nodes (processable_graph_nodes), even *)
(* when the task was planned from an older state of the graph.             *)
ProcessedNodesAreReached ==
  /\ \A n \in Nodes : status[n] # "waiting" => Promise!Reached(n)
  /\ \A t \in tasks \cup plan \cup rpc : Promise!Reached(t[1])

(* The watcher's view of the nodes: no step of the daemon, its concurrent  *)
(* transitions, its crashes or the API skips, repeats or undoes a status.  *)
PromiseKept == Promise!Spec

(* A node's job is submitted once, and once more at most for each crash    *)
(* that came between the submission and the commit of running.             *)
LaunchesAreCounted == \A n \in Nodes : launches[n] <= 1 + crashes

(* When a node is at rest its pickled machine is there for the next user   *)
(* request (tasks.py change_node_state), unless a crash lost it.           *)
MachineIsStored ==
  \A n \in Nodes :
    \/ status[n] = "waiting" \/ fsm[n] = status[n] \/ crashes > 0
    \/ \E target \in Targets : job[<<n, target>>] # "none"

(* A campaign is accepted only because END was (meta.py do_finish), though *)
(* the sibling transitions of a batch may write that first.                *)
CampaignFollowsEnd ==
  campaign = "accepted" =>
    status[END] = "accepted" \/ job[<<END, "accepted">>] = "acted" \/ crashes > 0

(* When no user interferes an accepted campaign stays accepted, although   *)
(* transitions selected before that merge their copy of it afterwards.     *)
AcceptedCampaignIsFinal ==
  [][campaign = "accepted" => campaign' = "accepted"]_vars

(* A running node whose job succeeded is looked at again, in a running and *)
(* in a paused campaign (daemon_v2.py consider_campaigns).                 *)
RunningNodesAreChecked ==
  \A n \in Launching : (status[n] = "running" /\ wms[n] = "done") ~> status[n] # "running"

(* The campaign runs to its end, unless a node fails or it stays paused.   *)
CampaignConcludes ==
  \/ <>(campaign = "accepted" \/ \E n \in Nodes : status[n] = "failed")
  \/ <>[](campaign = "paused")

(* END is reached only after all other nodes: what campaign.py is_successful *)
(* and graph.py processable_graph_nodes say of the graph walk.             *)
EndWaitsForAllNodes ==
  status[END] # "waiting" => \A n \in Nodes \ {END} : status[n] = "accepted"

(* Once paused, a campaign runs again only by a user's resume (campaign.py *)
(* TRANSITIONS: "User-initiated transitions").                             *)
OnlyUsersResume ==
  [][campaign = "paused" /\ campaign' = "running" =>
       \E r \in creqs : ApplyCampaign(r)]_vars
=============================================================================
