-------------------------- MODULE LegacyProcessing --------------------------
(***************************************************************************)
(* The first generation of the service, which is still served next to v2:  *)
(* a tree of elements (a campaign of steps of groups of jobs), the scripts *)
(* of each element, and a queue of the nodes a daemon has to process.      *)
(* Processing a node is one deep pass down the tree that takes every       *)
(* script as far as it will go.  The daemon serves all due queue entries   *)
(* in one transaction that it commits at the end, on rows it has read      *)
(* earlier; users change statuses, retry, rescue and process nodes through *)
(* the API in transactions of their own, and batch jobs end when they      *)
(* like.                                                                   *)
(***************************************************************************)
EXTENDS NodeLifecycle, Sequences, FiniteSets, TLC

Seqs == INSTANCE SequencesExt

CONSTANTS
  Campaign, Steps, Groups, Jobs,
  Children,     \* the elements below an element, in order; attempts of a job
  ScriptsOf,    \* the scripts of an element, in the order of its spec block
  Kind,         \* what handles a script
  Prereqs,      \* the steps before a step, the scripts before a script
  Entries, NodeOf, \* the queue entries and the nodes they are for
  Queued,       \* the entries that are there, and active, from the start
  Requests,     \* the requests users may send first, second, ...: [op, row, to]
  Verdicts,     \* how the job of a script may end, or the report it reads
  Mishaps,      \* what may go wrong in a pass: [what, row]
  MaxTroubles,  \* mishaps and crashes, together
  None

Elements == {Campaign} \cup Steps \cup Groups \cup Jobs
ScriptSets == [e \in Elements |-> Seqs!ToSet(ScriptsOf[e])]
ScriptsIn(e) == ScriptSets[e]
Scripts  == UNION {ScriptsIn(e) : e \in Elements}
Rows     == Elements \cup Scripts
OwnerOf  == [s \in Scripts |-> CHOOSE e \in Elements : s \in ScriptsIn(e)]
Owner(s) == OwnerOf[s]

Kids(es)     == UNION {Seqs!ToSet(Children[e]) : e \in es}
JobsUnder    == [e \in Elements |->
                   Jobs \cap (Kids({e}) \cup Kids(Kids({e})) \cup Kids(Kids(Kids({e}))))]
JobsBelow(e) == JobsUnder[e]

(* Campaign, step, group, job: whatever is below an element is below no    *)
(* other of its kind, and a script is one element's.                       *)
ASSUME TreeAssumption ==
  /\ Campaign \notin Steps \cup Groups \cup Jobs
  /\ Steps \cap Groups = {} /\ Steps \cap Jobs = {} /\ Groups \cap Jobs = {}
  /\ Children \in [Elements -> Seq(Elements)]
  /\ Kids({Campaign}) \subseteq Steps /\ Kids(Steps) \subseteq Groups
  /\ Kids(Groups) \subseteq Jobs /\ Kids(Jobs) = {}
  /\ \A e, f \in Elements : e # f => Kids({e}) \cap Kids({f}) = {}

ASSUME ScriptAssumption ==
  /\ ScriptsOf \in [Elements -> Seq(Scripts)] /\ Scripts \cap Elements = {}
  /\ \A e, f \in Elements : e # f => ScriptsIn(e) \cap ScriptsIn(f) = {}
  /\ Prereqs \in [Rows -> SUBSET Rows]
  /\ Kind \in [Scripts -> {"batch", "bash", "report", "steps", "groups", "jobs"}]
  /\ \A s \in Scripts : Kind[s] = "jobs" => Children[Owner(s)] # <<>>
  /\ Verdicts \in [Scripts -> SUBSET (Status \cup {"missing"})]

ASSUME QueueAssumption ==
  /\ NodeOf \in [Entries -> Rows] /\ Queued \subseteq Entries
  /\ Entries \cap Rows = {} /\ None \notin Entries
  /\ MaxTroubles \in Nat

ASSUME RequestAssumption ==
  \A rq \in UNION Seqs!ToSet(Requests) :
    /\ rq # None
    /\ rq.op \in {"reject", "accept", "reset", "update"}   => rq.row \in Rows
    /\ rq.op \in {"reset_script", "retry"}               => rq.row \in Scripts
    /\ rq.op \in {"rescue", "rescued", "mark_rescued"}   => rq.row \in Groups
    /\ rq.op \in {"toggle", "enqueue"}                   => rq.row \in Entries
    /\ rq.op = "process" => rq.row \in Rows \cup Entries
    /\ rq.op = "update"  => rq.to \in Status
    /\ rq.op = "enqueue" => rq.to \in {"active", "paused"}

VARIABLES
  status,    \* the committed status of every row, "absent" before it exists
  queue,     \* the committed state of every queue entry
  wms,       \* what the batch system or a report file says of a script
  launches,  \* how often each script was handed to bash or a batch system
  todo, entry, seen,  \* the iteration: entries left, the one in hand, what was read for it
  written, closed,    \* what the iteration will commit: statuses, finished entries
  request,   \* the user's transaction in flight, or None
  requests, mishaps, crashes, again, \* what has been spent, and relaunches users asked for
  done       \* every row that was ever accepted (history)

rows      == <<status, queue>>
outside   == <<wms, launches>>
iteration == <<todo, entry, seen, written, closed>>
spent     == <<requests, mishaps, crashes, again>>
vars      == <<rows, outside, iteration, request, spent, done>>

(* The rows of w over those of st.                                         *)
Over(w, st) ==
  [x \in DOMAIN w \cup DOMAIN st |-> IF x \in DOMAIN w THEN w[x] ELSE st[x]]

Exists(st, x)  == st[x] # "absent"
AtLeast(st, x, s) == Exists(st, x) /\ StatusValue[st[x]] >= StatusValue[s]
Present(st, q) == {x \in Seqs!ToSet(q) : Exists(st, x)}

IsTerminal(x, s) ==
  IF x \in Scripts THEN IsTerminalScript(s)
  ELSE StatusValue[s] >= StatusValue["accepted"] \/ IsBad(s)

WrongIsProcessable(x, s) ==
  IF x \in Scripts THEN s \in ProcessableScript
  ELSE StatusValue[s] \in StatusValue["waiting"]..StatusValue["prepared"]

IsProcessable(x, s) ==
  IF x \in Scripts THEN s \in ProcessableScript
  ELSE StatusValue[s] \in StatusValue["waiting"]..StatusValue["reviewable"]

-----------------------------------------------------------------------------
(* A pass.  It is a function of what was read: r.st holds the statuses as  *)
(* the pass has changed them, r.launched the scripts it has launched,      *)
(* r.raised whether an exception is on its way out, r.mishap what goes     *)
(* wrong, and r.present the rows whose insertion the database refuses.     *)
(* With an exception on its way out no status changes any more.            *)
Put(r, x, s)        == IF r.raised THEN r ELSE [r EXCEPT !.st[x] = s]
Raise(r)            == [r EXCEPT !.raised = TRUE]
Suffers(r, what, x) == r.mishap = [what |-> what, row |-> x]

Passes ==
  [st : [Rows -> Status \cup {"absent"}], launched : SUBSET Scripts, rewritten : SUBSET Rows,
   raised : BOOLEAN, mishap : Mishaps \cup {None}, present : SUBSET Rows]

(* Process those of the nodes xs that are among chosen in order, up to the *)
(* first that raises; pass[x][r] is what processing x makes of r.          *)
PassAll(pass, r, xs, chosen) ==
  LET after[i \in 0..Len(xs)] ==
        IF i = 0 THEN r
        ELSE LET a == after[i - 1]
             IN  IF a.raised \/ xs[i] \notin chosen THEN a ELSE pass[xs[i]][a]
  IN  after[Len(xs)]

PrerequisitesDone(st, x) == \A p \in Prereqs[x] : AtLeast(st, p, "accepted")

WrongStartable(st, x) == st[x] \in {"waiting", "ready"}

Startable(st, x) ==
  \/ st[x] = "ready"
  \/ st[x] = "waiting" /\ PrerequisitesDone(st, x)

(* Insert rows; a row that is there already, in the database or since the  *)
(* pass began, violates a unique constraint.                               *)
Insert(r, xs) ==
  IF \E x \in xs : x \in r.present \/ Exists(r.st, x) THEN Raise(r)
  ELSE [r EXCEPT !.st = Over([x \in xs |-> "waiting"], @)]

(* Set a status twice, with the row read again in between: the second      *)
(* write overrides what others have committed since the pass has read it.  *)
Rewrite(r, x, s) ==
  IF r.raised THEN r ELSE [r EXCEPT !.st[x] = s, !.rewritten = @ \cup {x}]

(* RunElementScriptHandler: process every child, whatever became of it, by *)
(* the pass over what is below; the script is accepted when all of them    *)
(* are.                                                                    *)
Gather(r, cs, s) ==
  Rewrite(r, s, IF \A c \in cs : AtLeast(r.st, c, "accepted") THEN "accepted" ELSE "running")

RunChildren(below, r, s) ==
  LET cs == Present(r.st, Children[Owner(s)])
  IN  Gather(PassAll(below, r, Children[Owner(s)], cs), cs, s)

WrongLaunch(r, s) == [r EXCEPT !.launched = @ \cup {s}, !.st[s] = "prepared"]

(* Hand the script to bash or a batch system.                              *)
Launch(r, s) ==
  IF Suffers(r, "unlaunched", s) THEN Raise(Put(r, s, "prepared"))
  ELSE [r EXCEPT !.launched = @ \cup {s}, !.st[s] = "running"]

(* Write the script's files, unless they are there, and hand it over.      *)
BeginWork(r, s) ==
  IF r.st[s] # "prepared" /\ Suffers(r, "unprepared", s) THEN Raise(r)
  ELSE IF Suffers(r, "refused", s) THEN Put(r, s, "failed")
  ELSE IF Suffers(r, "broken", s)  THEN Put(Launch(r, s), s, "failed")
  ELSE Launch(r, s)

BeginSteps(below, r, s) == RunChildren(below, Put(r, s, "prepared"), s)

(* Split the step into groups, and process them.                           *)
BeginGroups(below, r, s) ==
  BeginSteps(below,
             IF r.st[s] = "prepared" THEN r ELSE Insert(r, Seqs!ToSet(Children[Owner(s)])), s)

(* Give the group its first job, which the next pass processes.            *)
BeginJobs(below, r, s) ==
  IF r.st[s] = "prepared" THEN RunChildren(below, r, s)
  ELSE Put(Insert(r, {Children[Owner(s)][1]}), s, "running")

BeginReport(r, s) == Put(r, s, "running")

(* Prepare and launch a script, by the class of its handler.               *)
Begin(below, r, s) ==
  CASE Kind[s] \in {"batch", "bash"} -> BeginWork(r, s)
    [] Kind[s] = "report" -> BeginReport(r, s)
    [] Kind[s] = "steps"  -> BeginSteps(below, r, s)
    [] Kind[s] = "groups" -> BeginGroups(below, r, s)
    [] Kind[s] = "jobs"   -> BeginJobs(below, r, s)

(* What a batch system, a stamp file or a report says of the script.       *)
Outcome(r, s) ==
  IF s \in r.launched THEN IF Kind[s] = "bash" THEN "accepted" ELSE "running"
  ELSE IF wms[s] = "idle" THEN "running" ELSE wms[s]

CheckScript(below, r, s) ==
  IF r.st[s] # "running" THEN r
  ELSE IF Kind[s] \in {"steps", "groups", "jobs"} THEN RunChildren(below, r, s)
  ELSE IF Outcome(r, s) = "missing" THEN Raise(r)
  ELSE Rewrite(r, s, Outcome(r, s))

ScriptPass(below) ==
  [s \in Scripts |-> [r \in Passes |->
     CheckScript(below,
       IF Startable(r.st, s) \/ r.st[s] = "prepared" THEN Begin(below, r, s) ELSE r, s)]]

WrongRemaining(st, e) ==
  \E s \in ScriptsIn(e) : Exists(st, s) /\ ~AtLeast(st, s, "reviewable")

(* What keeps an element from its last check: a script of its own that is  *)
(* not at least reviewable, a job below it that is not at least accepted.  *)
Remaining(st, e) ==
  \/ \E s \in ScriptsIn(e) : Exists(st, s) /\ ~AtLeast(st, s, "reviewable")
  \/ \E j \in JobsBelow(e) : Exists(st, j) /\ ~AtLeast(st, j, "accepted")

PrepareElement(r, e) ==
  IF Startable(r.st, e) THEN Put(Insert(r, ScriptsIn(e)), e, "prepared") ELSE r

(* continue_processing, of an element with this status: every script that  *)
(* remains, in order.                                                      *)
Continue(below, r, e, from) ==
  LET left == {s \in ScriptsIn(e) : Exists(r.st, s) /\ ~AtLeast(r.st, s, "reviewable")}
  IN  IF r.st[e] = from
      THEN Rewrite(PassAll(ScriptPass(below), r, ScriptsOf[e], left), e, "running")
      ELSE r

(* check: a job whose pipetask errors match a fatal type fails here.  One  *)
(* whose errors need a review is reviewed by the same pass, which accepts. *)
CheckElement(r, e) ==
  IF r.st[e] # "running" THEN r
  ELSE IF Remaining(r.st, e) THEN Put(r, e, "running")
  ELSE Put(r, e, IF Suffers(r, "fatal_error", e) THEN "failed" ELSE "accepted")

ReviewElement(r, e) == IF r.st[e] = "reviewable" THEN Put(r, e, "accepted") ELSE r

ElementPass(below) ==
  [e \in Elements |-> [r \in Passes |->
     ReviewElement(
       Continue(below,
         CheckElement(Continue(below, PrepareElement(r, e), e, "prepared"), e), e, "running"), e)]]

(* A tree is four levels deep, with nothing below its jobs.                *)
NoPass       == [e \in Elements |-> [r \in Passes |-> r]]
JobPass      == ElementPass(NoPass)
GroupPass    == ElementPass(JobPass)
StepPass     == ElementPass(GroupPass)
CampaignPass == ElementPass(StepPass)

(* A node is an element, or a script, which may process elements in turn.  *)
Pass(r, x) == IF x \in Scripts THEN ScriptPass(StepPass)[x][r] ELSE CampaignPass[x][r]

(* A pass over x from the statuses st it has read.                         *)
Process(st, x, mishap) ==
  Pass([st |-> st, launched |-> {}, rewritten |-> {}, raised |-> FALSE, mishap |-> mishap,
        present |-> {y \in Rows : Exists(Over(written, status), y)}], x)

(* The rows a pass writes: the ones it has changed, and the ones it has    *)
(* set twice and found changed by somebody else.                           *)
Writes(st, r) ==
  [x \in {y \in Rows : \/ r.st[y] # st[y]
                       \/ y \in r.rewritten /\ r.st[y] # status[y]} |-> r.st[x]]

Launched(r) ==
  /\ launches' = [s \in Scripts |-> launches[s] + IF s \in r.launched THEN 1 ELSE 0]
  /\ wms' = [s \in Scripts |->
               IF s \notin r.launched THEN wms[s]
               ELSE IF Kind[s] = "bash" THEN "accepted" ELSE "idle"]

Accepted(st) == {x \in Rows : AtLeast(st, x, "accepted")}

Suffered == IF mishaps + crashes < MaxTroubles THEN {None} \cup Mishaps ELSE {None}

Spend(mishap) == mishaps' = mishaps + IF mishap = None THEN 0 ELSE 1

-----------------------------------------------------------------------------
Init ==
  /\ status = [x \in Rows |-> IF x \in {Campaign} \cup Steps THEN "waiting" ELSE "absent"]
  /\ queue = [q \in Entries |-> IF q \in Queued THEN "active" ELSE "absent"]
  /\ wms = [s \in Scripts |-> "idle"]
  /\ launches = [s \in Scripts |-> 0]
  /\ todo = {} /\ entry = None /\ seen = <<>> /\ written = <<>> /\ closed = {}
  /\ request = None
  /\ requests = 0 /\ mishaps = 0 /\ crashes = 0
  /\ again = [s \in Scripts |-> 0]
  /\ done = {}

WrongSelectable == {q \in Entries : queue[q] # "finished"}

Selectable == {q \in Entries : queue[q] = "active"}

(* The daemon selects the entries that are due: some of the active ones.   *)
IterationBegins ==
  /\ todo = {} /\ entry = None /\ written = <<>> /\ closed = {}
  /\ todo' \in SUBSET Selectable \ {{}}
  /\ UNCHANGED <<rows, outside, entry, seen, written, closed, request, spent, done>>

(* It takes one and reads the rows; a node that cannot be processed keeps  *)
(* its entry, which sleeps.                                                *)
EntryBegins(q) ==
  /\ entry = None
  /\ q \in todo
  /\ LET st == Over(written, status)
     IN  IF IsProcessable(NodeOf[q], st[NodeOf[q]])
         THEN entry' = q /\ seen' = st
         ELSE entry' = None /\ seen' = <<>>
  /\ todo' = todo \ {q}
  /\ UNCHANGED <<rows, outside, written, closed, request, spent, done>>

(* The entry is finished when its node is; an exception leaves it as it is.*)
Closes(q, r) == ~r.raised /\ IsTerminal(NodeOf[q], r.st[NodeOf[q]])

EntryEnds ==
  /\ entry # None
  /\ \E mishap \in Suffered :
       \E r \in {Process(seen, NodeOf[entry], mishap)} :
         /\ written' = Over(Writes(seen, r), written)
         /\ closed' = IF Closes(entry, r) THEN closed \cup {entry} ELSE closed
         /\ Launched(r)
         /\ Spend(mishap)
         /\ done' = done \cup Accepted(r.st)
  /\ entry' = None /\ seen' = <<>>
  /\ UNCHANGED <<rows, todo, request, requests, crashes, again>>

(* One commit for all the entries of the iteration.                        *)
IterationCommits ==
  /\ todo = {} /\ entry = None
  /\ written # <<>> \/ closed # {}
  /\ status' = Over(written, status)
  /\ queue' = [q \in Entries |-> IF q \in closed THEN "finished" ELSE queue[q]]
  /\ written' = <<>> /\ closed' = {}
  /\ UNCHANGED <<outside, todo, entry, seen, request, spent, done>>

(* The daemon dies: what it has not committed never happened, what it has  *)
(* launched runs on.                                                       *)
Crash ==
  /\ mishaps + crashes < MaxTroubles
  /\ todo # {} \/ entry # None \/ written # <<>> \/ closed # {}
  /\ crashes' = crashes + 1
  /\ todo' = {} /\ entry' = None /\ seen' = <<>> /\ written' = <<>> /\ closed' = {}
  /\ UNCHANGED <<rows, outside, request, requests, mishaps, again, done>>

(* A batch job ends, or the report on it says how it went.                 *)
Finishes(s) ==
  /\ wms[s] = "idle"
  /\ \/ Kind[s] = "batch" /\ launches[s] > 0
     \/ Kind[s] = "report" /\ Exists(status, s)
  /\ \E v \in Verdicts[s] : wms' = [wms EXCEPT ![s] = v]
  /\ UNCHANGED <<rows, launches, iteration, request, spent, done>>

-----------------------------------------------------------------------------
(* Users.  A request reads its rows, decides, and writes in a transaction  *)
(* of its own that takes no lock before it writes.                         *)
JobsOf(g)      == {j \in Seqs!ToSet(Children[g]) : Exists(status, j)}
Rescuable(g)   == {j \in JobsOf(g) : status[j] = "rescuable"}
NextAttempt(g) == Children[g][Cardinality(JobsOf(g)) + 1]

Decides(rq, writes) == request' = [rq |-> rq, writes |-> writes, seen |-> <<>>]

(* A change of the status of the row, if that is one of statuses.          *)
Sets(rq, statuses, to) == status[rq.row] \in statuses /\ Decides(rq, [x \in {rq.row} |-> to])

Reject(rq) == Sets(rq, Status \ {"accepted", "rescued"}, "rejected")
Accept(rq) == Sets(rq, {"blocked", "running", "reviewable", "rescuable"}, "accepted")
Reset(rq)  == Sets(rq, {"blocked", "rejected", "failed", "ready"}, "waiting")
Update(rq) == Sets(rq, Status, rq.to)

(* Scripts go back before they have been launched, or after they failed.   *)
MayGoBackTo(to) ==
  {s \in Status : IsBad(s)}
    \cup {s \in Status : StatusValue[s] \in StatusValue[to] + 1 .. StatusValue["prepared"]}

ResetScript(rq) ==
  rq.to \in {"waiting", "ready", "prepared"} /\ Sets(rq, MayGoBackTo(rq.to), rq.to)

RetryScript(rq) == Sets(rq, {s \in Status : IsBad(s)}, "waiting")

(* Another attempt at the work of a job that may be rescued.               *)
RescueJob(rq) ==
  /\ Rescuable(rq.row) # {} /\ JobsOf(rq.row) # Seqs!ToSet(Children[rq.row])
  /\ Decides(rq, [j \in {NextAttempt(rq.row)} |-> "waiting"])

PermitsRescued(g) ==
  /\ \A j \in JobsOf(g) : status[j] \in {"rescuable", "rescued", "accepted"}
  /\ Cardinality({j \in JobsOf(g) : status[j] = "accepted"}) = 1

MarkJobRescued(rq) ==
  PermitsRescued(rq.row) /\ Decides(rq, [j \in Rescuable(rq.row) |-> "rescued"])

(* The group's own route never commits what it answers with.               *)
MarkRescuedOfGroup(rq) == PermitsRescued(rq.row) /\ Decides(rq, <<>>)

Enqueue(rq) ==
  queue[rq.row] = "absent" /\ Exists(status, NodeOf[rq.row]) /\ Decides(rq, [q \in {rq.row} |-> rq.to])

ToggleActive(rq) ==
  /\ queue[rq.row] # "absent"
  /\ Decides(rq, [q \in {rq.row} |-> IF queue[q] = "active" THEN "paused" ELSE "active"])

ProcessNode(rq) ==
  /\ IF rq.row \in Entries THEN queue[rq.row] # "absent" ELSE Exists(status, rq.row)
  /\ request' = [rq |-> rq, writes |-> <<>>, seen |-> status]

UserAsks(rq) ==
  /\ request = None
  /\ requests < Len(Requests) /\ rq \in Requests[requests + 1]
  /\ \/ rq.op = "reject"       /\ Reject(rq)
     \/ rq.op = "accept"       /\ Accept(rq)
     \/ rq.op = "reset"        /\ Reset(rq)
     \/ rq.op = "update"       /\ Update(rq)
     \/ rq.op = "reset_script" /\ ResetScript(rq)
     \/ rq.op = "retry"        /\ RetryScript(rq)
     \/ rq.op = "rescue"       /\ RescueJob(rq)
     \/ rq.op = "rescued"      /\ MarkJobRescued(rq)
     \/ rq.op = "mark_rescued" /\ MarkRescuedOfGroup(rq)
     \/ rq.op = "enqueue"      /\ Enqueue(rq)
     \/ rq.op = "toggle"       /\ ToggleActive(rq)
     \/ rq.op = "process"      /\ ProcessNode(rq)
  /\ requests' = requests + 1
  /\ UNCHANGED <<rows, outside, iteration, mishaps, crashes, again, done>>

(* Rows the daemon has written stay locked until it commits.               *)
Unlocked(xs) == xs \cap (DOMAIN written \cup closed) = {}

UserCommits ==
  LET rq == request.rq
  IN  /\ request # None
      /\ rq.op \notin {"process", "toggle", "enqueue"}
      /\ Unlocked(DOMAIN request.writes)
      /\ status' = Over(request.writes, status)
      /\ done' = done \cup Accepted(status')
      /\ again' = IF rq.op \in {"reset", "retry", "reset_script", "update"} /\ rq.row \in Scripts
                  THEN [again EXCEPT ![rq.row] = @ + 1] ELSE again
      /\ wms' = IF rq.op \in {"retry", "reset_script"} THEN [wms EXCEPT ![rq.row] = "idle"] ELSE wms
      /\ request' = None
      /\ UNCHANGED <<queue, launches, iteration, requests, mishaps, crashes>>

UserQueues ==
  /\ request # None
  /\ request.rq.op \in {"toggle", "enqueue"}
  /\ Unlocked({request.rq.row})
  /\ queue' = IF queue[request.rq.row] = "finished" THEN queue ELSE Over(request.writes, queue)
  /\ request' = None
  /\ UNCHANGED <<status, outside, iteration, spent, done>>

(* The API processes a node, or the node of a queue entry, in the request; *)
(* an exception rolls everything back but what was launched.               *)
UserProcesses ==
  LET x    == request.rq.row
      node == IF x \in Entries THEN NodeOf[x] ELSE x
  IN  /\ request # None
      /\ request.rq.op = "process"
      /\ \E mishap \in Suffered :
           \E r \in {Process(request.seen, node, mishap)} :
           LET skip == x \in Entries /\ ~IsProcessable(node, request.seen[node])
               w    == IF skip \/ r.raised THEN <<>> ELSE Writes(request.seen, r)
           IN  /\ Unlocked(DOMAIN w \cup {x})
               /\ status' = Over(w, status)
               /\ queue' = IF x \in Entries /\ ~skip /\ Closes(x, r)
                           THEN [queue EXCEPT ![x] = "finished"] ELSE queue
               /\ IF skip THEN UNCHANGED outside ELSE Launched(r)
               /\ Spend(mishap)
               /\ done' = IF skip THEN done ELSE done \cup Accepted(r.st)
      /\ again' = [s \in Scripts |-> again[s] + 1]
      /\ request' = None
      /\ UNCHANGED <<iteration, requests, crashes>>

Daemon == \/ IterationBegins
          \/ \E q \in Entries : EntryBegins(q)
          \/ EntryEnds
          \/ IterationCommits

Users == (\E rq \in UNION Seqs!ToSet(Requests) : UserAsks(rq)) \/ UserCommits \/ UserQueues \/ UserProcesses

Next == Daemon \/ Crash \/ Users \/ \E s \in Scripts : Finishes(s)

Spec == Init /\ [][Next]_vars

(* The daemon's loop goes on, and batch jobs end.  EntryEnds is what makes *)
(* an entry leave the daemon's hand, unless a crash does.                  *)
EntryLeaves == entry # None /\ entry' = None

Fairness ==
  /\ WF_vars(IterationBegins) /\ WF_vars(\E q \in Entries : EntryBegins(q))
  /\ WF_entry(EntryLeaves) /\ WF_vars(IterationCommits)
  /\ \A s \in Scripts : WF_vars(Finishes(s))

FairSpec == Spec /\ Fairness

-----------------------------------------------------------------------------
LegacyTypeOK ==
  /\ status \in [Rows -> Status \cup {"absent"}]
  /\ queue \in [Entries -> {"absent", "active", "paused", "finished"}]
  /\ DOMAIN wms = Scripts
  /\ \A s \in Scripts : wms[s] \in {"idle", "accepted"} \cup Verdicts[s]
  /\ launches \in [Scripts -> Nat] /\ again \in [Scripts -> Nat]
  /\ todo \subseteq {q \in Entries : queue[q] # "absent"} /\ entry \in Entries \cup {None} /\ closed \subseteq Entries
  /\ entry # None => DOMAIN seen = Rows
  /\ DOMAIN written \subseteq Rows /\ \A x \in DOMAIN written : written[x] \in Status
  /\ done \subseteq Rows
  /\ {requests, mishaps, crashes} \subseteq Nat

(* What hands a script out, what hands it on, and the scripts there are to *)
(* hand out.                                                               *)
Fresh == {"absent", "waiting", "ready", "prepared"}
Ripe  == {"ready", "prepared"}
Works == {s \in Scripts : Kind[s] \in {"batch", "bash"}}

(* The properties below want these of users and batch systems.  No batch   *)
(* system or stamp file sends a script back to where it is handed out;     *)
(* users hand a script or a step on only when nothing comes before it; and *)
(* they put no element up for review, which a pass accepts as it is.       *)
VerdictsEnd == \A s \in Works : Verdicts[s] \cap Fresh = {}

NoSkips ==
  \A rq \in UNION Seqs!ToSet(Requests) :
    rq.op \in {"update", "reset_script"} /\ rq.to \in Ripe /\ rq.row \in Works \cup Steps =>
      Prereqs[rq.row] = {}

NoReviews ==
  \A rq \in UNION Seqs!ToSet(Requests) :
    rq.op = "update" /\ rq.row \in Elements => rq.to # "reviewable"

(* A script is handed out once, and once more for each crash of the daemon *)
(* and each time users asked for it: neither two passes over a new         *)
(* element, nor a rescue, nor a reset of the element launches work twice.  *)
LaunchesAreAccounted ==
  \A s \in Scripts : launches[s] <= 1 + crashes + again[s]

StepOf(s) ==
  {e \in Steps : s \in UNION {ScriptsIn(x) : x \in {e} \cup Kids({e}) \cup Kids(Kids({e}))}}

(* Nothing is launched before the scripts before it, and the steps before  *)
(* its step, have been accepted, whoever processes what and when.          *)
WorkWaits ==
  \A s \in Scripts : launches[s] > 0 =>
    /\ Prereqs[s] \subseteq done
    /\ \A e \in StepOf(s) : Prereqs[e] \subseteq done

(* An element that a pass of the daemon accepts has no job below it that   *)
(* is not accepted or rescued, even when users have accepted the elements  *)
(* in between by hand.                                                     *)
AcceptedMeansDone ==
  [][\A e \in Elements :
       entry # None /\ entry' = None /\ ~AtLeast(seen, e, "accepted")
         /\ e \in DOMAIN written' /\ written'[e] = "accepted" =>
       \A j \in JobsBelow(e) : LET st == Over(written', seen)
                               IN  Exists(st, j) => AtLeast(st, j, "accepted")]_vars

Troubled ==
  \/ \E x \in Rows : status[x] \in {"failed", "blocked"}
  \/ \E s \in Scripts : wms[s] = "missing"

(* A campaign that users leave alone is accepted in the end, or there is a *)
(* failed or held node or a report that cannot be read: no queue entry is  *)
(* forgotten, and no pass comes to rest before the work is done.           *)
LegacyCampaignConcludes ==
  [](requests = 0) => <>(status[Campaign] = "accepted" \/ Troubled)

(* An element that waits has no scripts left from an earlier life: "clean  *)
(* up stuff that a node has made" (_clean_up_node), which the code does    *)
(* not do.  No run asks for it.                                            *)
ResetCleansUp ==
  \A e \in Elements : status[e] = "waiting" =>
    \A s \in ScriptsIn(e) : ~Exists(status, s)
=============================================================================
