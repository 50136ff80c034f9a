# A TLA+ verification of cm-service

cm-service runs data-processing *campaigns* for the Rubin Observatory. A
campaign is a directed graph of *nodes* between a START and an END. A daemon
walks the graph and moves each node along `waiting -> ready -> running ->
accepted`, submitting jobs to HTCondor on the way, while operators pause,
resume, retry, reset or force nodes and campaigns over a REST API. Both
programs share nothing but a PostgreSQL database.

This directory models the second generation (v2) of that service, and the
queue and handlers of the first (v1), which is still served next to it, and
checks them with TLC and TLAPS. Paths below are relative to the repository's
`src/lsst/cmservice/` unless they begin with `packages/`.

## 1. The system

| Part | State | Operations | Talks to |
| --- | --- | --- | --- |
| v2 daemon (`common/daemon_v2.py`, `daemon.py`) | one open transaction, the batch of selected tasks, the asyncio tasks of their transitions | iteration = consider campaigns, consider nodes; once a minute schedules | database; node machines (coroutines in one task group) |
| Node machines (`machines/nodes/`, `machines/node.py`) | a status, a copy of the node row, a pickle in `machines_v2` | 16 triggers with conditions, before-callbacks, and a common tail: save the status, log, pickle the machine | database, Butler and BPS on disk, HTCondor |
| Campaign machine (`machines/campaign.py`) | a copy of the campaign row | start, finish, pause, resume, reject, force | database |
| Task table (`tasks_v2`) | one row per node and desired status: `submitted_at`, `finished_at` | insert, upsert, select unsubmitted, mark | daemon, process RPC |
| API (`routers/v2/`) | background tasks of accepted PATCHes | status PATCH of a campaign or node, process RPC, edits of graph and manifests, schedules | database only |
| Graph library (`packages/cm-models/.../lib/graph.py`) | none (edges in the database) | walk, validate, insert, append, delete | daemon, API, step machine |
| Steps and groups (`machines/nodes/steps.py`, `group.py`) | groups of a step, BPS run metadata | prepare splits a step into group nodes, unprepare removes them; retry, restart, reset | graph library, Butler, BPS |
| HTCondor launcher (`machines/nodes/mixin.py`, `common/htcondor.py`) | an event log per job | submit, check | schedd (external) |
| Scheduler (`common/scheduler.py`, `routers/v2/schedules.py`) | jobs in memory, schedules in the database | enable, disable, fire, one-shot, remove itself | daemon, API |
| Manifests and versions (`routers/v2/manifests.py`, `nodes.py`, `common/jsonpatch.py`) | the versions of manifests and nodes | post, patch (RFC 6902), copy, delete; a node looks its configuration up | database |
| Splitters (`common/splitters/`, `handlers/elements.py`) | none | the ids a query finds become groups | Butler (external) |
| Legacy v1 (`handlers/`, `db/`, `common/daemon.py`, `routers/`) | a queue table and its own element, job and script tables | process a queue entry: one deep pass down a tree of elements and scripts; retry, rescue, set statuses | database, bash, HTCondor, Slurm |
| The rest | none of its own | CRUD routes, clients, command lines, web pages, configuration, templates | |

### What is hard about it

* **Copies.** A node is *expunged* from the session that selected it, carried
  through a transition that may take minutes, and *merged* back, all columns
  at once (`meta.py` `repatriate_node`). The merge cascades to the campaign
  that was loaded with it, and in a batch all nodes share that one object.
* **Commits in the middle.** The launch happens before `running` is committed;
  `submitted_at` is committed when a transition starts; the pickled machine is
  stored after the status. A crash may fall between any two.
* **Leftover work.** A task row stays after a crash, a decline, or a change of
  the node behind its back, and must neither be lost nor act on a node that
  has moved on.
* **Requests that are answered before they are done.** A PATCH reads its
  object, answers 202 and lets a background task act on that copy.
* **Retries through one row.** Task ids are derived from node and desired
  status, so every later attempt must reuse the first attempt's row.
* **Answers from yesterday.** A group is judged by files and reports that a
  former attempt may have left: a submit directory's printed name, a submit
  file, an event log that still tells of a hold.
* **One transaction for a whole pass.** The v1 daemon holds what it has read
  and written of a tree until the end of its iteration, while users change the
  same rows.
* **Two memories of one fact.** A schedule is a row and a job of the in-memory
  scheduler; a manifest's newest version is found in two different ways.

### What makes each part correct

* daemon: a node is processed only after its predecessors; every node that can
  move is eventually tried again; a job is not submitted twice without a
  crash; blind writes lose no update.
* machines: the stored status, the stored machine and the job agree when
  nothing is under way.
* campaign: it is accepted only because END was, stays so, and is paused and
  resumed by users only.
* API: a request never makes an illegal move, however late it acts; a
  breakpoint is passed only by a user's decision.
* graph edits: one source, one sink, every node on a path, no cycle.
* steps: preparing twice, or after a crash, leaves one set of groups.
* groups: accepted only by the report of the workflow it was last asked to run;
  what is launched is what was asked for; a running group settles.
* scheduler: an enabled schedule has a job with its own cron, a disabled one
  loses it, and a schedule links to campaigns it has made.
* versions: one line of versions per manifest or node, each made from the one
  before; both ways of looking up a configuration agree.
* splitters: every id in exactly one group, groups within their bounds.
* v1: a script is launched once, after what it waits for, and the campaign ends.

## 2. The modules

| Module | What it is |
| --- | --- |
| `NodeLifecycle` | the statuses, the transition tables of node, breakpoint and campaign, and the choice of a trigger. No state. |
| `CampaignDaemon` | one campaign, one daemon process: both phases, transitions, crashes, the workload manager, campaign PATCH and process RPC. |
| `CampaignPromise` | the abstract specification: what the daemon promises about the statuses of nodes, in three lines of action. |
| `CampaignDaemonProofs` | the theorems about `CampaignDaemon` and `CampaignOperators`. |
| `CampaignOperators` | `CampaignDaemon` composed with node PATCHes. |
| `CampaignGraph` | a graph as a set of edges: `validate_graph`, insert, append, delete. No state. |
| `CampaignGraphProofs` | theorems about those, for graphs of any size. |
| `GraphEditing` | the routes that edit a campaign's graph, next to the resume that checks it. |
| `GraphEditingProofs` | its type correctness, what a resume may rely on, and what edits keep. |
| `StepExpansion` | a step that is split into groups and reset, on top of `CampaignGraph`: every commit, crash and stored machine. |
| `GroupWorkflow` | one group: its row, machine, files, launcher jobs and bps workflows, through retry, restart and reset. |
| `JobReports` | what v2 and v1 make of an event log, of condor_q, sacct and a stamp file. No state; evaluated by `MCGroup`. |
| `ScheduledCampaigns` | schedules, the scheduler's jobs in the daemon, one-shot runs in the API, and the campaigns runs make. |
| `JsonPatch` | a document and the JSON patch operations, as the service applies them and as RFC 6902 says. No state. |
| `JsonObjects` | the same patch operations on objects in memory, of which a copy is held in two places; what `MCRevisions` holds `JsonPatch` against. No state. |
| `Revisions` | versions of manifests and nodes under overlapping requests, on top of `JsonPatch`. |
| `QuerySplit` | the arithmetic of both generations' query splitters. No state; evaluated by `MCSteps`. |
| `LegacyProcessing` | the v1 queue, daemon, handlers and user requests over a tree of elements and scripts. |
| `StepExpansionProofs` | theorems about `StepExpansion` and `QuerySplit`. |
| `LegacyProofs` | the theorems about `LegacyProcessing`. |
| `GroupWorkflowProofs`, `ScheduledCampaignsProofs`, `RevisionsProofs` | theorems about the modules of those names. |
| `MCDaemon`, `MCOperators`, `MCGraph`, `MCSteps`, `MCGroup`, `MCSchedules`, `MCRevisions`, `MCLegacy` | the instances of the TLC runs. |

Operators whose names begin with `Wrong` are not used by the model. Each is a
plausible mistake in the code of the definition after it; putting it in that
definition's place makes a property fail, which shows that the property depends
on the code.

### CampaignDaemon: state

| Variable | In the code |
| --- | --- |
| `status`, `campaign` | the columns `nodes_v2.status`, `campaigns_v2.status` |
| `fsm` | the state inside the pickle that `nodes_v2.machine` points to, or none |
| `tasks`, `submitted` | rows of `tasks_v2`, and those with a `submitted_at`; a row is identified by node and desired status, as its UUID is |
| `pc`, `plan`, `batch`, `cur` | the position of the daemon's own coroutine and its open transaction |
| `seen`, `seenFsm`, `seenCampaign`, `dirty` | the ORM objects selected in phase two: nodes with status and machine column, and the one Campaign object they share with its modified flag |
| `job` | how far the asyncio task of a transition is |
| `wms`, `launches` | what the HTCondor event log of the node's latest job says, and how many were submitted |
| `creqs`, `rpc` | campaign PATCHes whose background task has not run, tasks an RPC has yet to insert |
| `crashes`, `asked` | counters for the bounds |

### CampaignDaemon: actions

An action ends at a commit or at an await that lets another coroutine or
process in.

| Action | Code |
| --- | --- |
| `PlanTasks`, `CommitPlan` | `consider_campaigns`: the graph walk and the inserts, then the commit. Campaigns found running or ready are locked `FOR NO KEY UPDATE` until the commit (`pc = "locked"`), so a PATCH waits. |
| `SelectTasks` | the select of unsubmitted tasks with their nodes |
| `SkipTask`, `EvolveTask`, `CommitSubmission` | one round of the loop of `consider_nodes`: the assertion that drops a task whose node has moved on; the machine and its asyncio task; the commit of `submitted_at`, which also flushes a modified Campaign |
| `JobActs`, `JobDeclines`, `JobRaises` | conditions and before-callbacks of the trigger: success, a false condition, an exception |
| `JobSaves` | `update_persistent_status`: merge and commit of the new status, or of `failed` by the nested trigger of `error_handler` |
| `JobStores`, `JobWritesBack` | `finalize`, after a change (pickle the machine) and after a decline (merge the node as it was selected) |
| `EndIteration` | the task group awaits all transitions |
| `Crash` | the process dies and is started again; rows, event logs and jobs remain |
| `WmsCompletes` | external: the job ends well or badly |
| `RequestCampaign`, `ApplyCampaign` | the PATCH and its background task with the campaign machine |
| `RpcReads`, `RpcCommits` | the process RPC |

### CampaignOperators

It adds `patches` (background tasks of node PATCHes), and the histories
`forced` and `succeeded`. `RequestNode` reads node, pickled machine and
campaign in one transaction. The background task either gives up
(`PatchIgnored`), acts, declines or raises, and then saves and stores in
further steps, each with the *copies* it was given. Every step of
`CampaignDaemon` may come in between.

### CampaignGraph and GraphEditing

`CampaignGraph` states what NetworkX computes without recursion: there is a
path from m to n if every set of nodes that holds m and that no edge leaves
holds n; a graph is acyclic if every set of nodes has a first and a last one.
`ValidGraph` is `validate_graph`, test by test. `Walkable` is what the daemon
needs and `validate_graph` only asks for in a TODO.

| Variable | In the code |
| --- | --- |
| `edges` | rows of `edges_v2`, as a function from the row's id to its end points. A posted edge's id is made of the nodes it was posted with; an id the library makes is random, here the number of the request |
| `campaign` | `campaigns_v2.status`, paused or running |
| `edits` | requests under way, with the rows their select found |
| `resume` | whether a resume has checked the graph and not yet committed |

| Action | Code |
| --- | --- |
| `RequestEdit` | the routes `replace_node_in_graph`, `update_node_in_graph` up to the test that the campaign is paused |
| `SelectRows` | the first `SELECT ... FOR UPDATE`, which may have to wait |
| `CommitEdit` | the rows it gets, those that still match; the changes; the commit, or its refusal by the unique constraint |
| `PostEdge`, `DeleteEdge` | the edge routes, which ask for no status |
| `ResumeChecks`, `ResumeCommits`, `Pause` | the campaign machine |

`Walkable` joins this part to the daemon's walk (`Processable`): the graph of
`CampaignDaemon`, given by its simple paths from START to END, is walkable by
assumption. The composition of both, an edit while
a paused campaign's nodes still run, is not modelled.

### StepExpansion

| Variable | In the code |
| --- | --- |
| `graph`, `rows` | `edges_v2` and the ids in `nodes_v2`, as committed. A node may have a row and no edge |
| `status`, `stored` | the step's status and its pickled machine: state, `anchor_group`, `collect_group` |
| `machine`, `pc`, `dest` | the machine of the transition under way, how far it is, the status it will save |
| `doomed` | the targets that `do_unprepare` has selected and not yet deleted |
| `misled` | history: a prepare put groups in with a machine that still remembered the nodes of an expansion already reset |

| Action | Code |
| --- | --- |
| `BeginPrepare` | the daemon unpickles the machine, but not its state |
| `PrepareCommits`, `PrepareRaises` | `do_prepare` up to its commit: `make_collect_step`, `make_group` for every predicate; or any exception, with the fail that `error_handler` triggers. The database forgets such an attempt, the machine does not (`RolledBack`) |
| `RenderEnds` | the templates, after the commit |
| `StartRaises`, `Retry` | the other ways between ready and failed |
| `BeginReset`, `FindGroups`, `DeleteGroup`, `DeleteAnchor`, `DeleteCollect` | `do_reset` and `do_unprepare`, one commit at a time |
| `SaveStatus`, `StoreMachine` | `update_persistent_status`, `finalize` |
| `Crash` | the process of the transition dies, between any two commits; also a deletion that raises, or a store, which `finalize` only logs |

A failed step whose machine was never stored is stuck, as no request can act
on it: the runs do not check for deadlock.

### GroupWorkflow and JobReports

| Variable | In the code |
| --- | --- |
| `status`, `bps`, `cluster` | the row: status, the submit directory in its bps metadata, the HTCondor cluster of its launch; zero where nothing was found |
| `machine` | the pickled machine: its state and the executable in its configuration chain, `group.sh` (0), `group_restart.sh` (1); `Bare` if the chain has no launcher yet, `None` if there is no chain |
| `disk` | rendered scripts, the script the submit file names, what the job printed, the workflow a restart goes on with, submit directories |
| `jobs`, `payload` | what HTCondor was given; what `bps report` says of the workflow a job submitted |
| `want`, `epoch`, `restarted`, `strayed` | histories: what the group became ready for, how often, restarts, and whether a job ran that the row did not know |

| Action | Code |
| --- | --- |
| `Prepare`, `Start`, `Finish` | the daemon's triggers with `do_prepare`, the launch, and the check: launcher first, then the printed name, then the report. A prepare may fail before its new chain, before the launcher is added to it, or while it renders (`Unprepared`) |
| `Retry`, `Restart`, `Reset`, `Decide` | the users' triggers and their callbacks on the files; a retry needs a chain, a restart a launcher in it; `Decide` is fail and forced accept |
| `JobRuns`, `JobHeld`, `PayloadEnds` | external: HTCondor runs or holds the launched script, bps ends the workflow |

A transition is atomic but for its two last commits: `Saves` lets a crash lose
the machine, or both. Pause, resume and unforced accept are in
`CampaignOperators`. `JobReports` says how the launcher's answer comes out of an
event log, and `MCGroup` compares it, for every log of a job in each state and
any event of another job, with the answer `GroupWorkflow` assumes
(`LogsAreRead`), and with what v1 would make of the same job
(`GenerationsAgree`).

### ScheduledCampaigns

| Variable | In the code |
| --- | --- |
| `state`, `cron`, `last` | the row: enabled or not, its cron, `last_campaign_id` in its metadata |
| `campaigns` | which schedule made each campaign; a name is template and day |
| `up`, `jobs`, `listed` | the daemon process, the jobs of its APScheduler, the schedules `consider_schedules` has read |
| `run` | the run of a job, in the daemon, and the one-shot run, in the API |
| `patch` | a PATCH between its read and its commit |

`Create`, `PatchReads`, `PatchCommits`, `Delete` and `AskOneShot` are the
routes; `ConsiderReads` and `ConsiderSets` the two halves of
`consider_schedules`; `Fires` the trigger; `RunReads`, `JobRetires`,
`RenderFails`, `RunCreates` and `RunRecords` the steps of
`create_campaign_from_schedule`. A cron that the API accepts and APScheduler
cannot parse ends the daemon (`Unsupported`).

### Revisions and JsonPatch

| Variable | In the code |
| --- | --- |
| `rows` | manifests and nodes with id, name, version and document, and, as history, the version they were patched from |
| `edits` | requests that have read what they need and have not committed |
| `clock` | the number of commits, which orders them |
| `given` | history: manifests and nodes whose first POST said where their versions begin |

`Post`, `Patch`, `CopyTo` and `Delete` are the routes up to their commit;
`Commit` adds the row or meets the primary key or the unique constraint of its
table, that of manifests or that of nodes. A first version is one more than
what the metadata of its POST say (`FirstVersions`). A document is a function
from paths to leaves; `ApplyOp` is one branch of `apply_json_patch` per
operation.

`apply_json_patch` copies by reference: until the document is written a copied
dict or list is one object in two places, and an operation below one of them
shows in the other, which RFC 6902 does not say. `JsonPatch` is about documents
as values. That is the same as long as nothing but tests follows a copy in its
patch (`CopiesLast`), which is a condition on `Patches` (`RevisionAssumption`)
and on the patches of the theorems (`IsPatch`). `JsonObjects` has the objects
and the references, and `MCRevisions` compares: under the condition both agree
(`ValuesAreObjects`), and without it they do not (`CopiesAreShared`).

### LegacyProcessing

| Variable | In the code |
| --- | --- |
| `status` | the status of every element, job and script, or absent |
| `queue` | the queue entries: absent, active, paused, finished |
| `wms`, `launches` | what the batch system, or a report's file, says of a script; how often it was launched |
| `todo`, `entry`, `seen` | the iteration: entries left, the one in hand, what was read for it |
| `written`, `closed` | what the iteration has flushed and will commit |
| `request` | a user's transaction in flight |

`IterationBegins`, `EntryBegins`, `EntryEnds`, `IterationCommits` are the daemon.
A pass is a function, `Process`: `ElementPass` and `ScriptPass` follow
`ElementHandler.process` and `BaseScriptHandler.process`, on a record of
statuses, launches and mishaps. Each is given the pass over what is below; as a
tree is four levels deep, `CampaignPass` is four of them nested, and nothing is
recursive but the walk along one element's children or scripts (`PassAll`). A pass
is a composition of stages, and an exception is a flag of the record, after
which no stage changes a status (`Put`, `Rewrite`). `UserAsks`, `UserCommits`,
`UserQueues` and `UserProcesses` are the routes, each in a transaction of its
own; `Finishes` is external.

### QuerySplit

Ids are numbers in order, a group is what its predicate selects.
`np.linspace` computes boundaries in floating point: `Boundary` allows the
exact floor and, where n/k is not exact, one less (n = 122, k = 14, i = 7 is a
case), and the checks and proofs hold for every choice. The v1 splitter steps by
`min(max, n // min)`, which is zero for fewer ids than groups: `LegacyEnds`.

### Abstractions

* `LegacyProcessing`: `run_check` routes, the superseded flag, the times of
  next checks and `fake_status` are left out; a report is a verdict. A user's
  status update is the only way to `rescuable`.
* `ScheduledCampaigns`: time is left out; a cron may fire whenever it has a
  job. Templates render or do not.
* `Revisions`: the merge patch, the binary delta patch of nodes and reading by
  name and version are left out, and patches that go on after a copy with
  anything but tests. No patch of the instance renames.

* `StepExpansion` lets one transition of the step be under way at a time, and
  no user edits the graph meanwhile. What happens to the step after it was
  started is reduced to `StartRaises`.
* A group's id is made of a Python hash, which another process computes
  differently: any sequence in `Splits` may come up in any attempt. Group names
  are not modelled; numbered names collide only where the collect node does.

* `CommitEdit` is one step from the moment it has its locks: nobody else can
  change the rows it then holds. The database runs READ COMMITTED.
* The unit of work updates rows before it inserts new ones.
* Which exit an append to a step finds first (`.limit(1)`, no order) is left
  open.
* There is one version of START and one of END.
* A node's configuration, metadata, activity log and artifacts are left out;
  a callback succeeds, or raises if the node is in `Flaky`.
* The graph is given by its simple paths (`SimplePaths`), which is what
  `processable_graph_nodes` enumerates. It does not change during a run.
* Only nodes in `Launching` have a job; the three answers of a check are
  active, done and failed.
* `RequestCampaign` is atomic, so `SKIP LOCKED` never finds the campaign locked
  by a PATCH. Skipping it would only delay phase one by an iteration.
* The campaign machine's finish checks END and commits in one step.
* The background tasks of the API have no fairness: one that is never run is
  one that died with the API process.
* `finished_at` and the finalizer coroutines that write it are left out: the
  daemon never reads them.

## 3. The runs

| Run | Instance | Properties | Distinct states |
| --- | --- | --- | --- |
| `chain` | s, a, e in a row; a launches and may fail; 1 crash, 1 PATCH to pause or resume; fairness | LaunchesAreCounted, RunningNodesAreChecked, CampaignConcludes | 22,000 |
| `diamond` | s, then a and breakpoint b, then e; s, a, e launch and may fail; 1 crash | TypeOK, SnapshotsFresh, MachineIsStored, CampaignFollowsEnd, AcceptedCampaignIsFinal, PromiseKept | 53,000 |
| `users` | s, e; e may fail; the campaign starts paused; RPC; 2 PATCHes, each to resume or to finish | ProcessedNodesAreReached, CampaignFollowsEnd | 750,000 |
| `operators` | s, breakpoint b, e in a row; s launches and may fail; any one node PATCH; fairness | OperatorsTypeOK, BreakpointsNeedUsers, AcceptedWorkWasDone, ReadyNodesAreStarted | 57,000 |
| `graph` | s, step a, e in a row and two more nodes; 3 requests of any kind, one at a time | GraphTypeOK, ResumedGraphIsWalkable, EditsKeepGraphValid, OrderIsKept | 77,000 |
| `steps` | s, step a, then f and e; splits of none to three groups, whose first may differ; 3 crashes or failed stores, anywhere | StepTypeOK, CommittedGraphIsValid, GroupsAreParallel, CollectGuardsSuccessors, RememberedResetRestores | 12,000 |
| `groups` | one group whose workflow succeeds or fails, its last job run or not; 2 user requests, 1 crash; fairness | GroupTypeOK, FinishesOnFreshReport, LaunchesAsAsked, RunningGroupsSettle | 228,000 |
| `schedules` | two schedules of one name, one with two crons, one with a cron that ends the daemon; edits and crashes 2 together; fairness | ScheduleTypeOK, LinkedCampaignIsOurs, EnabledSchedulesAreServed, DisabledSchedulesRetire | 69,000 |
| `revisions` | a campaign and the library, manifests butler and bps and nodes, four patches of which one ends with a copy, first versions from 1 or 3; 2 requests at once, 4 versions | HistoryIsLinear, PatchedAsRequested, ConfigurationsAgree | 101,000 |
| `legacy` | steps s1, s2; s1 has a group whose job can be tried twice, s2 a bash script; two queue entries; three rounds of requests; 1 mishap or crash; fairness | LegacyTypeOK, LaunchesAreAccounted, WorkWaits, AcceptedMeansDone, LegacyCampaignConcludes | 66,000 |
| `early_end` | the diamond without crash | EndWaitsForAllNodes, violated | |
| `resumed` | the chain without upsert, 1 PATCH | OnlyUsersResume, violated | |

`steps` also evaluates `SplitsAreSound`, `LegacySplitsCover` and `RangesMeet`
(`QuerySplit` against what a split should be), `groups` the assumptions of
`MCGroup` on `JobReports` and on the reading of bps reports, and `revisions`
`PatchesAreStandard`: every single operation, and every add or remove followed
by any operation, does what RFC 6902 says unless `Departs` names it;
`ValuesAreObjects`, that objects in memory give what documents as values give,
for any one operation and any two of a smaller set of which a copy is the last; and
`CopiesAreShared`, an edit after a copy that shows in both places.

### Bounds

Two branches are enough for everything that siblings of a batch do to each
other, since they interact only through the shared Campaign object. One crash
separates each pair of commits. One request meets every phase of the daemon; a
second one, in `users`, finds a campaign that the first has resumed;
two node PATCHes were checked on a smaller set of requests (5 million states,
the three invariants of `operators` hold) and are left out of the run for time.
The counters `MaxCrashes`, `MaxRequests`, `MaxPatches` and `MaxEdits` are the
only bounds of the state space; the theorems hold for all of their values.

In `graph` three requests on five nodes reach every graph that two posts or
deletes and an edit make of the chain, broken ones included. `MaxInFlight = 1`
is a condition, not only a bound: with two requests at once an edge may be
deleted between the check of a resume and its commit, and
`ResumedGraphIsWalkable` fails. `EditsKeepGraphValid` and `OrderIsKept` are
likewise about edits that meet no other.

In `steps` three crashes are enough to cut a prepare, a reset and the prepare
after it, between any two commits. One sequence the code does not survive: the
machine is lost after its reset was committed, because the process dies or the
store fails, which `finalize` only logs. The pickle then names an anchor and a
collect node that are gone, and a prepare that goes by it has its first group, whose
id the same daemon computes again, appended to itself. The groups have
rows and no edges, the campaign passes them by, and the next reset deletes the
collect node as if it were a group, which cuts the graph in two. `misled` says
that such a prepare has put groups in. The properties are about what happens
before; without that condition TLC refutes each of the four with a single
crash. A lost reset by itself, with whatever is done after it up to
that prepare, is covered.

In `groups` two requests are a retry or restart after any failure, and another
after the next; one crash falls between any two commits of any of them. A
launch that crashes before its commit leaves a job no row knows: it, or a job
still queued when a user fails the group, may overwrite the printed directory,
and then a restart is judged by another workflow or waits for ever. `strayed`
says so, and the properties exclude it.

In `schedules` two edits or crashes are enough to disable a schedule and enable
it again around an iteration, or to delete it under a run. In `revisions` two
requests at once meet every pair of read and commit, and four versions make
chains and collisions of a copy with a patch; a first version of 3 keeps what
begins elsewhere apart from what the properties speak of (`given`). In `legacy` the first request may
be any of fifteen, the second and third bring a rescued group back to life;
two entries, of the campaign and of a step, make two passes of one iteration
overlap in the tree.

### Fairness

`FairSpec` assumes weak fairness of the daemon's coroutine (its loop never
ends, and a supervisor restarts the process), of each transition's coroutine
(asyncio runs every ready task, and callbacks end), and of each job (HTCondor
ends a job one way or the other). Users, the API and crashes owe nothing.
`Crash` is bounded, as a daemon that crashes in every iteration concludes
nothing.

`ScheduledCampaigns` assumes in addition that the daemon is restarted, that
every cron comes round, and that a PATCH is answered. `GroupWorkflow` assumes
the daemon's three triggers, that HTCondor runs every queued job, not every
held one, and that bps ends every workflow. `LegacyProcessing` assumes the
daemon's steps and the ends of jobs; users owe nothing, and
`LegacyCampaignConcludes` is about the behaviours in which they do nothing. The
runs `steps`, `schedules`, `groups`, `revisions` and `legacy` do not check for
deadlock, as each of these parts may stop: a failed step without a machine, a
settled group, a finished campaign, a bound.

### Conditions of the properties

Where the code keeps a property only up to some event, the event is a history
variable and the property says what holds without it. What these conditions
leave out is not covered by any run:

| Condition | Of | Leaves out |
| --- | --- | --- |
| no crash | `MachineIsStored` | the node that is left with a status and an older machine, or none, when the daemon dies between the two commits |
| `~misled` | the four of `StepExpansion` | what follows a prepare by a machine whose reset was lost |
| `~strayed` | `FinishesOnFreshReport`, `RunningGroupsSettle` | a group submitted twice, and jobs of a group that was failed or reset before they ran |
| no schedule enabled with a cron in `Unsupported` | `EnabledSchedulesAreServed` | the other schedules, while one such cron ends the daemon in every life |
| not in `given` | `HistoryIsLinear`, `ConfigurationsAgree` | versions that begin where a POST says |
| `CopiesLast` | `PatchedAsRequested` | edits below a value that was copied by the same patch |
| `MaxInFlight = 1` | the three of `GraphEditing` that are about edits | requests that overlap |

### What the violations show

1. `early_end`: a node that joins two branches is processable once *one* path
   to it is complete, so END is reached, and the campaign accepted, while the
   other branch waits at a breakpoint. `graph.py` and `campaign.py` state the
   opposite.
2. `resumed`: a user pauses the campaign while a transition runs; the merge of
   the node writes the `running` it was selected with over the pause.

### Refuted, not among the runs

These definitions say what a reader might expect. TLC refutes them when they
are put in a configuration (`PatchesKeepNames` with a patch of the name among
`Patches`); the runs are spent on what holds, and on the two violations that
concern a whole campaign.

| Definition | What happens instead |
| --- | --- |
| `RunningNodesAreChecked` with `AllowTaskUpsert = FALSE` | without the feature flag `ALLOW_TASK_UPSERT` a finish task is selected once; if the job had not ended by then the node is never looked at again |
| `OnlyUsersMoveBreakpoints` (`CampaignOperators`) | the declined check of a running breakpoint writes the node back as it was selected and takes back a force-accept |
| `InsertSeparates` (`GraphEditing`) | two inserts at one node at the same time: the second waits for the first, and then finds none of the edges it has to move |
| `ResetRestores` (`StepExpansion`) | the daemon dies between the commit of a step's groups and that of the step: the next prepare fails on the collect node, the reset after it knows of no groups and removes none |
| `RetriesSubmitAnew` (`GroupWorkflow`) | after a restart the submit file names the restart script, and a retry launches it, though its workflow was moved away |
| `CampaignManifestWins` (`Revisions`) | a library manifest that was patched has version 1 or more and may beat the campaign's in `get_manifest` |
| `CommittedGraphIsValid`, `GroupsAreParallel`, `CollectGuardsSuccessors`, `RememberedResetRestores` (`StepExpansion`) without `~misled` | a machine whose reset was lost prepares the step again with the anchor it remembers |
| `HistoryIsLinear` (`Revisions`) of keys in `given` | two first POSTs that overlap, one of which says where versions begin, both commit: 1 and 3, in either order |
| `PatchesKeepNames` (`Revisions`) | a patch of `/metadata/name` renames, contrary to the docstrings of both routes |
| `ResetCleansUp` (`LegacyProcessing`) | `_clean_up_node` returns without removing anything: a reset element keeps its scripts |

More observations are part of the model but have no run of their own. A
paused or rejected node does not hold back its successors, because the walk
stops only at processable and failed nodes. And an unforced accept of a node
whose machine is not running *fails* the node, because `error_handler` runs for
refused triggers too. `validate_graph` counts sources and sinks but does not ask
that they are START and END: a node may be put in front of START. A prepare
that fails while it splits, after its first group, leaves an anchor without a
row in the stored machine, and `do_unprepare` raises on it: that step can be
retried but never reset. The retry makes it ready without groups.

Of groups: a user's fail cancels no job; a restart prints to a log that is never
read; a second restart asks for a file `<name>_restart_restart.sh` that is not
rendered, and fails; a job that was held and released counts as failed whatever
it did afterwards, in v2 only. Of schedules: a cron such as `0 0 * * sun-tue` passes
the API and ends the daemon; the job of a deleted schedule stays; a one-shot run
is not checked again when it starts; a PATCH writes the metadata back whole and
may lose the last campaign. Of versions: library manifests that were patched
cannot be deleted and the configuration chain ignores them; a copy's id ignores
the kind, so that two copies may collide; a node's new version shares the old
one's pickled machine; what a patch does below a copy it has made shows in the
original as well (`CopiesAreShared`), contrary to RFC 6902; a campaign's
manifest whose first POST gives a negative version has version 0 or less and may be
deleted like a library manifest; moving a list item overwrites its target, and moving one
onto itself deletes it. Of v1: a pass sets every row twice, and so overrides a
user's reject that was committed since the row was read; a job whose errors need review
is accepted in the pass that finds them; fewer ids than `split_min_groups` make
the splitter loop for ever.

## 4. The theorems

`CampaignDaemonProofs` proves, for every finite or infinite set of nodes, every
graph that satisfies `GraphAssumption`, either setting of the feature flag and
all bounds:

| Theorem | Says |
| --- | --- |
| `TypeCorrect` | `Spec => []TypeOK` |
| `NoLostUpdate` | `Spec => []SnapshotsFresh` |
| `GraphOrder` | `Spec => []ProcessedNodesAreReached` |
| `Implementation` | `Spec => PromiseKept`: CampaignDaemon implements CampaignPromise |
| `LaunchBound` | `Spec => []LaunchesAreCounted` |
| `MachinesAreStored` | `Spec => []MachineIsStored`, which exempts behaviours with a crash |
| `CampaignsEndWithEnd` | `Spec => []CampaignFollowsEnd`, if the campaign is not accepted from the start and no request is a force |
| `AcceptedStays` | `Spec => AcceptedCampaignIsFinal`, if there is no PATCH of the campaign |

The first five rest on `Invariance`, `Spec => []IInv`. `SnapshotsFresh` is not inductive by
itself. It needs to know that a transition under way comes from a submitted
task, that two transitions of the same node cannot be under way together
(their tasks would need two different previous statuses), and that what is left
in the batch is as the database has it, as long as no transition of the same
node has begun. `ProcessedNodesAreReached` needs that accepted is final
(lemma `ReachedIsStable`) and that the statuses never leave the happy path or
failed. The lemmas follow the structure of `Next`: phase one, phase two,
transitions that only change `job`, transitions that write, and the world
outside. `Implementation` maps `status` to itself: `JobSaves` is `Advance` or
`Fail`, and by `SnapshotsFresh` a write-back is a stutter.

`MachinesAreStored` adds `StoreInv`, which holds as long as nothing crashes:
what was selected has a machine in its state, a transition that has saved is
about to store, and no other transition of that node exists (`OneTransition`).
`CampaignsEndWithEnd` adds `EndInv`: the campaign, and the daemon's copy of it,
are accepted only if END is, which is stable; only a finish or a force accepts,
and a merge writes one of the two. `AcceptedStays` adds `FinalInv`: the copy of
an accepted campaign that a batch shares, or that a crash left behind, is
accepted too. Its condition is needed: a PATCH answered while the campaign ran
acts on the campaign as it was read, and may pause it after its END.

The assumptions are those of the module: `GraphAssumption` (START and END
differ, simple paths lead from one to the other and repeat no node),
`KindAssumption`, `RequestAssumption`, `BoundAssumption`.

The same module, with node PATCHes, any number of them at once:

| Theorem | Says |
| --- | --- |
| `OperatorsTypeCorrect` | `OperatorsSpec => []OperatorsTypeOK` |
| `BreakpointsAreUsers` | a breakpoint is accepted only if a user forced it |
| `AcceptedIsDone` | a launching node is accepted only if a job of it succeeded or a user forced it |

`SnapshotsFresh` is false here, and not needed. The invariant `Entitled` says
that whoever holds, remembers or is about to write *accepted* for a node, be it
the row, the daemon's copy or a background task's, does so of a node that
deserves it; what a node deserves by, `forced` and `succeeded`, only grows, so
that an old copy written back does no harm.

`CampaignGraphProofs` and `GraphEditingProofs`, for sets of edges of any size:

| Theorem | Says |
| --- | --- |
| `ValidGraphIsWalkable` | a graph that `validate_graph` accepts has every node on paths from its source and to its sink |
| `InsertKeepsValid` | inserting a new node behind any node but the sink, or a first node other than START, keeps a valid graph valid |
| `DeleteUndoesInsert` | deleting an inserted node, with healing, gives the graph back |
| `TwinsKeepValid` | so does putting new nodes in parallel to what leads from one inner node to another: what append does |
| `GraphTypeCorrect` | `GraphSpec => []GraphTypeOK`, for any number of requests at once |
| `ResumedIsWalkable` | `GraphSpec => ResumedGraphIsWalkable` if `MaxInFlight = 1` |
| `EditsAreOperations` | if `MaxInFlight = 1`, a committed edit makes of the graph what its operation does |
| `ValidGraphsStayValid` | `GraphSpec => EditsKeepGraphValid` if `MaxInFlight = 1`: an insert, append or replace that its user could mean (`Sensible`) keeps a valid graph valid. Nothing is said of edges that are posted or deleted |
| `OrderIsNeverLost` | `GraphSpec => OrderIsKept` if `MaxInFlight = 1` |

`ValidGraphIsWalkable` takes the set of nodes that are *not* reached from the
source; if it were not empty it would have a first node, by acyclicity, and
that would be a second source. For the insert, each of the tests of
`validate_graph` has a lemma; the cut argument of each replaces a set of nodes
of the new graph by its part in the old one. `ResumedIsWalkable` needs
`CheckedIsCurrent`: while a resume is between check and commit no edit is under
way and the graph is still valid. The last three need `SelectionIsCurrent`: the
one request that is served finds the rows it selected as they were, and none of
the rows is of its own making yet. Then the rows it moves and adds are the
operation on sets of edges that `CampaignGraph` defines (`EditsAreOperations`,
with an insert, append or replace each shown apart), and what is left is graphs:
a path of the old graph is one of the new (order), and each test of
`validate_graph` survives.

The assumptions are `NodesAssumption` (START and END differ and have their
kinds) and `EditingAssumption` (requests name nodes of the campaign).

The other components, each under the named assumption of its module:

| Theorem | Says |
| --- | --- |
| `ScheduleTypeCorrect`, `LinksAreOurs` | `Spec => []ScheduleTypeOK`, `Spec => []LinkedCampaignIsOurs`, for any schedules, names and crons |
| `GroupTypeCorrect` | `Spec => []GroupTypeOK` |
| `LaunchesFollowRequests`, `FreshReports` | `Spec => LaunchesAsAsked`, `Spec => FinishesOnFreshReport`, for any number of requests and crashes |
| `LinearHistory` | `HistoryIsLinear` always, as long as no patch renames (`NamesAreKept`); of what no POST said begins elsewhere |
| `SameConfiguration` | `ConfigurationsAgree` always, likewise |
| `ServiceFollowsStandard` | the service and RFC 6902 make the same of a patch that both accept, but for what `Departs` names; for any document and any number of operations of which nothing but tests follows a copy |
| `PatchesApply` | `Spec => []PatchedAsRequested`, whatever is posted, and patched with nothing but tests after a copy |
| `SplitKeepsBounds`, `EveryIdInOneGroup` | for every number of ids: at least min groups of one to max ids, and every id in exactly one |
| `LegacySplitCovers` | the v1 splitter, where it ends, leaves no id out |
| `StepTypeCorrect`, `GroupsStayParallel`, `SuccessorsStayGuarded` | `StepSpec => []StepTypeOK`, `[]GroupsAreParallel`, `[]CollectGuardsSuccessors`, wherever processes die and stores fail |
| `CommittedIsValid`, `ResetsRestore` | `StepSpec => []CommittedGraphIsValid` if `StartsValid`, `StepSpec => RememberedResetRestores` |
| `LegacyTypeCorrect`, `LaunchesAccountedFor`, `WorkIsHeldBack`, `AcceptedIsDone` | `Spec => []LegacyTypeOK`, `[]LaunchesAreAccounted`, `[]WorkWaits`, `AcceptedMeansDone` |

`LinksAreOurs` needs that a run about to record, and a PATCH about to write a
link back, have a campaign of their own schedule (`RecordsOwn`, `PatchOwns`),
and that a campaign's maker stays (`MakersStay`). `LaunchesFollowRequests` needs
`AskedFor`, what the submit file names when the group is ready; `FreshReports`
needs `Fresh`: while a known workflow's directory is there, nothing else has
been printed, and what a good job has printed is of this epoch. Both count the jobs
(`Counted`) for the types. `LinearHistory` needs `Follows`: what a
request is about to add follows a version that is there; since versions of a
campaign are never deleted, and the unique constraint refuses a repetition, a
commit adds exactly the next number. `PatchesApply` needs that every row, and
every row that a request is about to add, is what its patch makes of the row it
was made from, and that all of them are documents (`MadeBy`); renaming patches are
allowed. Both it and `ServiceFollowsStandard` assume only that inputs
are documents and patches (`InputsAreWellFormed`, which `MCRevisions` evaluates on its
instance): paths are sequences of tokens, and below a list the next token
is a number; nothing but tests follows a copy. Every operation that is not refused keeps
that (`OpIsDoc`), and two folds over the same operations agree because the
single operations do (`OpsAgree`). The one that takes work is a move: the service
assigns and then removes, the standard removes and then assigns, and with a
list the elements behind the removed one are renumbered in between
(`ShiftCommutes`, `DiscardCommutes`); where the target is above the source, the removal
is overwritten (`Overwrites`). The splits are proved without induction: a
boundary b satisfies k·b ≤ i·n < k·(b+1), or that of one less, from which
neighbouring boundaries are apart (`Apart`) and near (`Near`); the id at x is in
group ((x+1)k − 1) ÷ n, or the next if that group's end was rounded down to x.

The theorems of `StepExpansion` hold for every graph, every set of splits and any
number of crashes and resets, and assume nothing of when a process dies or a
store fails. `CommittedIsValid` alone has an assumption,
`StartsValid`: the campaign's graph is valid before the step is prepared, and
the step neither its first nor its last node. (`MCSteps` checks that its
instance is such a one.) Their invariant, `StepsAreSound`, says that types are
kept and that, as long as no machine is `misled`, `StepInv` holds, whatever lost
resets there were. `StepInv` says first that the
graph is a function of the groups there are (`ShapeIsKnown`: `Expanded`, which
`ExpandIs`, `FirstGroup` and `NextGroup` show to be what prepare makes, group by group). That is not inductive
by itself: a reset finds the groups by the anchor and the collect node in the
machine, and a prepare appends to the anchor. So it needs what each machine
remembers (`MachinesRemember`), that a waiting step's pickle remembers
nothing or, after a crash, an anchor that is gone (`WaitingIsHarmless`), and how far a reset has come (`ResetIsOnCourse`,
`EndIsOnCourse`). Validity follows from `InsertKeepsValid` for the collect node
and the first group, and `TwinsKeepValid` for the others.

The theorems of `LegacyProcessing` hold for every tree that satisfies
`TreeAssumption` and `ScriptAssumption`: four kinds of elements, no element or
script below two others. Most of each proof is about one pass. A property of two
records, before and after, that is reflexive and transitive and that each kind
of script has, belongs to a whole pass: `PassAllRuns` carries it along the
children of an element, `ElementRuns` from one level of the tree to the
next. The passes launch no script twice and write nothing outside the tree they
are given; that is where the disjointness of subtrees comes in.

* `LaunchesAccountedFor` needs `CountInv`: a script that anybody may still find
  waiting, ready or prepared, in the database, among what the daemon has
  written, or in what it has read, was launched only as often as crashes and
  users account for.
* `WorkIsHeldBack` needs `LegalInv`: whatever copy of the statuses anybody holds,
  what is ready or beyond it in that copy has its prerequisites among the rows
  that were accepted at some time.
* `AcceptedIsDone` needs `ReviewInv`: no copy has an element in review, and the
  daemon goes on with the rows it has written.

They assume of the environment, each where it is named:

* `VerdictsEnd`: the batch system never reports a script as waiting, ready or
  prepared. The map of condor_q has no such state; that of sacct (`common/slurm.py`)
  maps one name to prepared, NOT_SUBMITTED, which sacct does not report.
* `NoSkips` (`WorkIsHeldBack`): no user sets a script or step ready or prepared
  by hand that has prerequisites.
* `NoReviews` (`AcceptedIsDone`): no user sets an element to reviewable by hand,
  which the next pass would accept unseen.

The requests of the run keep to all three (`TheoremsApply` in `MCLegacy`).

### Model-checked only

Liveness (`RunningNodesAreChecked`, `CampaignConcludes`, `ReadyNodesAreStarted`,
`EnabledSchedulesAreServed`, `DisabledSchedulesRetire`, `RunningGroupsSettle`,
`LegacyCampaignConcludes`) is out of the prover's reach. Every other
property that a passing run checks is a theorem. For small numbers only are the
assumptions that `MCGroup`, `MCSteps` and `MCRevisions` evaluate; that
of `MCRevisions` about patches (`PatchesAreStandard`) is an instance of
`ServiceFollowsStandard`. That documents as values give what objects in memory
give (`ValuesAreObjects`) is evaluated for patches of one or two operations and
not proved.

Recursion is not out of reach where it is a function on an interval of numbers:
`PassAll`, `Expand`, `ApplyPatch` and `Standard` are such functions, and what is shown of them is shown by
induction over a *set* of indices (`Leads`), as the library's induction theorems,
which take an operator, are of no use to the installed provers.

## 5. The plan

1. *(done)* `NodeLifecycle`, `CampaignDaemon`, `CampaignPromise`; every
   invariant a run checks is a theorem.
2. *(done)* `CampaignOperators`; all three invariants are theorems.
3. *(done)* `CampaignGraph`, `GraphEditing`; every safety property is a theorem.
4. *(done)* `StepExpansion`, with every safety property a theorem; open: user
   edits while a step is expanded.
5. *(done)* `GroupWorkflow`, `JobReports`, `ScheduledCampaigns`, `Revisions`,
   `JsonPatch`, `QuerySplit`, `LegacyProcessing`; every safety property is a
   theorem.
6. `TaskClaim`: two daemons on one task table; the early release of row locks;
   `finished_at`; two versions of a node that share a machine.
7. v1 reports: how products and errors become a verdict.

## 6. Not modelled

Several daemons on one database, and the reports of v1 jobs, are in the plan
above. Creating and cloning a campaign, CRUD and read routes, clients, command
lines, web pages, templates, configuration, logging, notification and
migrations keep no state that a property could be about: they translate between
formats, or read. Butler, BPS, PanDA and Slurm are external programs; what the
service makes of their answers is in `JobReports` and `GroupWorkflow`. These
parts are by far the most of the repository's lines, so the definitions here
stand for about one line in seven of the whole, and for most of the lines that
decide what a campaign does.

## 7. Running it

    tlc -config MCDiamond.cfg MCDaemon
    tlc -config MCGraph.cfg MCGraph
    tlc -config MCGroup.cfg MCGroup
    tlapm CampaignDaemonProofs.tla
    tlapm GroupWorkflowProofs.tla
    tlapm LegacyProofs.tla
