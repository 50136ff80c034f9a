---------------------------- MODULE StepExpansion ----------------------------
(***************************************************************************)
(* How a step splits into groups: prepare puts the groups and the node     *)
(* that collects them behind the step, reset takes them out again.  The    *)
(* machine remembers the first group and the collect node, in memory and,  *)
(* after each transition, in its pickle.  The daemon prepares, the API     *)
(* process resets; either may die, and the other one goes on.              *)
(***************************************************************************)
EXTENDS CampaignGraph, Naturals, Sequences

Seqs == INSTANCE SequencesExt

CONSTANTS
  Step,          \* the step
  Collect,       \* its collect node, whose id is made of its name
  Splits,        \* the sequences of groups the splitter may yield
  InitialEdges,  \* the graph before the step is prepared
  NoNode,        \* None
  MaxCrashes     \* bound: times a process dies or a machine is not stored

Groups == UNION {Seqs!ToSet(split) : split \in Splits}

ASSUME StepAssumption ==
  /\ InitialEdges \subseteq Pair
  /\ Step \in Vertices(InitialEdges) /\ Kind[Step] = "step"
  /\ Collect \in Nodes \ Vertices(InitialEdges) /\ Kind[Collect] = "collect_groups"
  /\ Splits \subseteq Seq(Nodes) /\ \A split \in Splits : Seqs!IsInjective(split)
  /\ Groups \subseteq Nodes \ Vertices(InitialEdges)
  /\ \A g \in Groups : Kind[g] = "group"
  /\ NoNode \notin Nodes
  /\ MaxCrashes \in Nat

VARIABLES
  graph,     \* edges_v2, as committed
  rows,      \* nodes_v2: the nodes there are
  status,    \* nodes_v2.status of the step
  stored,    \* the machine as pickled, or none
  pc,        \* how far the transition under way is
  machine,   \* the machine of that transition
  dest,      \* the status it will save
  doomed,    \* nodes that the reset under way has found and not yet deleted
  crashes,   \* how often a process died
  misled     \* history: groups were put in with a machine whose reset was lost

vars == <<graph, rows, status, stored, pc, machine, dest, doomed, crashes, misled>>

Remembered == [state : {"waiting", "ready", "failed"},
               anchor : Groups \cup {NoNode}, collect : {Collect, NoNode}]

NoMachine == [state |-> "none", anchor |-> NoNode, collect |-> NoNode]

StepTypeOK ==
  /\ graph \subseteq Pair
  /\ status \in {"waiting", "ready", "failed"}
  /\ stored \in Remembered \cup {NoMachine}
  /\ pc \in {"idle", "prepare", "expanded", "reset", "groups", "collect",
             "save", "store"}
  /\ machine \in Remembered
  /\ dest \in {"waiting", "ready", "failed"}
  /\ rows \subseteq Nodes
  /\ doomed \subseteq Nodes \ {machine.anchor}
  /\ doomed # {} => pc = "groups"
  /\ crashes \in 0..MaxCrashes
  /\ misled \in BOOLEAN /\ (misled => crashes > 0)

StepInit ==
  /\ graph = InitialEdges /\ rows = Vertices(InitialEdges)
  /\ status = "waiting" /\ stored = NoMachine
  /\ pc = "idle" /\ dest = "waiting" /\ doomed = {} /\ crashes = 0
  /\ misled = FALSE
  /\ machine = [NoMachine EXCEPT !.state = "waiting"]

(* Wrong... definitions are not part of the model: see CampaignDaemon.     *)

-----------------------------------------------------------------------------
(* Prepare                                                                 *)

(* The daemon takes the pickle, if there is one, but not its state.        *)
Rehydrated == [stored EXCEPT !.state = status]

BeginPrepare ==
  /\ pc = "idle" /\ status = "waiting"
  /\ pc' = "prepare" /\ machine' = Rehydrated
  /\ UNCHANGED <<graph, rows, status, stored, dest, doomed, crashes, misled>>

(* Put every group behind the one before it.                               *)
WrongWithGroup(E, anchor, g) ==
  IF anchor = NoNode THEN Insert(E, Step, g) ELSE Insert(E, anchor, g)

(* make_group: without an anchor the group is inserted behind the step,    *)
(* with one it is appended to that, even if it is the group itself.        *)
WithGroup(E, anchor, g) ==
  IF anchor = NoNode THEN Insert(E, Step, g) ELSE AppendNode(E, anchor, anchor, g)

(* The first group becomes the anchor, if the machine has none yet.        *)
Anchor(split) ==
  IF machine.anchor # NoNode \/ split = <<>> THEN machine.anchor ELSE split[1]

(* make_collect_step, then make_group for each predicate of the splitter.  *)
Expand(E, split) ==
  LET expanded[i \in 0..Len(split)] ==
        IF i = 0 THEN Insert(E, Step, Collect)
        ELSE WithGroup(expanded[i - 1], IF i = 1 THEN machine.anchor ELSE Anchor(split), split[i])
  IN  expanded[Len(split)]

(* Give the collect node an id of its own in every attempt.                *)
WrongCollides(split) == FALSE

(* Rows of an earlier attempt are there.  The id of the collect node is    *)
(* the same in every attempt; that of a group is made of a hash that only  *)
(* the same process computes again.  Numbered names may collide too, but   *)
(* only where the collect node does.                                       *)
Collides(split) == ({Collect} \cup Seqs!ToSet(split)) \cap rows # {}

(* append looks up the row of the anchor.                                  *)
AnchorIsThere(split) ==
  split # <<>> => machine.anchor \in {NoNode, split[1]} \cup rows

PrepareCommits ==
  /\ pc = "prepare"
  /\ \E split \in Splits :
       /\ ~Collides(split) /\ AnchorIsThere(split)
       /\ graph' = Expand(graph, split)
       /\ rows' = rows \cup {Collect} \cup Seqs!ToSet(split)
       /\ machine' = [machine EXCEPT !.anchor = Anchor(split), !.collect = Collect]
       /\ misled' = (misled \/ (split # <<>> /\ machine.collect # NoNode))
  /\ pc' = "expanded"
  /\ UNCHANGED <<status, stored, dest, doomed, crashes>>

(* What the machine keeps of an attempt that was rolled back: nothing, if  *)
(* it failed before or at the collect node, or that, or an anchor as well. *)
RolledBack ==
  {machine} \cup
    IF Collect \in rows THEN {}
    ELSE {[machine EXCEPT !.anchor = a, !.collect = Collect] :
            a \in {machine.anchor} \cup {Anchor(split) : split \in Splits}}

(* Manifests, Butler, splitter or database raise: error_handler fails the  *)
(* step.                                                                   *)
PrepareRaises ==
  /\ pc = "prepare"
  /\ machine' \in RolledBack
  /\ pc' = "save" /\ dest' = "failed"
  /\ UNCHANGED <<graph, rows, status, stored, doomed, crashes, misled>>

(* The templates are rendered after the commit, which may raise too.       *)
RenderEnds ==
  /\ pc = "expanded"
  /\ pc' = "save" /\ dest' \in {"ready", "failed"}
  /\ UNCHANGED <<graph, rows, status, stored, machine, doomed, crashes, misled>>

-----------------------------------------------------------------------------
(* Start, where it fails, retry and reset                                  *)

StartRaises ==
  /\ pc = "idle" /\ status = "ready"
  /\ pc' = "save" /\ dest' = "failed" /\ machine' = Rehydrated
  /\ UNCHANGED <<graph, rows, status, stored, doomed, crashes, misled>>

(* A user's request needs the pickle, in the state its trigger is for.     *)
Retry ==
  /\ pc = "idle" /\ status = "failed" /\ stored.state = "failed"
  /\ pc' = "save" /\ dest' = "ready" /\ machine' = stored
  /\ UNCHANGED <<graph, rows, status, stored, doomed, crashes, misled>>

BeginReset ==
  /\ pc = "idle" /\ status = "failed" /\ stored.state = "failed"
  /\ pc' = "reset" /\ machine' = stored
  /\ UNCHANGED <<graph, rows, status, stored, dest, doomed, crashes, misled>>

(* do_unprepare: without an anchor there is nothing to look for, and with  *)
(* one whose row is not there it raises.                                   *)
FindGroups ==
  /\ pc = "reset"
  /\ \/ /\ machine.anchor = NoNode
        /\ pc' = "collect" /\ doomed' = {}
     \/ /\ machine.anchor # NoNode /\ machine.anchor \notin rows
        /\ pc' = "idle" /\ doomed' = {}
     \/ /\ machine.anchor \in rows
        /\ pc' = "groups"
        /\ doomed' = {e[2] : e \in Out(graph, Step)} \ {machine.anchor}
  /\ UNCHANGED <<graph, rows, status, stored, machine, dest, crashes, misled>>

(* Every node is deleted, and committed, by itself.                        *)
DeleteGroup(g) ==
  /\ pc = "groups"
  /\ graph' = Delete(graph, g, FALSE) /\ rows' = rows \ {g}
  /\ doomed' = doomed \ {g}
  /\ UNCHANGED <<status, stored, pc, machine, dest, crashes, misled>>

(* Delete the anchor like every other group.                               *)
WrongWithoutAnchor(E) == Delete(E, machine.anchor, FALSE)

WithoutAnchor(E) == Delete(E, machine.anchor, TRUE)

DeleteAnchor ==
  /\ pc = "groups" /\ doomed = {}
  /\ graph' = WithoutAnchor(graph) /\ rows' = rows \ {machine.anchor}
  /\ pc' = "collect"
  /\ UNCHANGED <<status, stored, machine, dest, doomed, crashes, misled>>

(* Leave the collect node in.                                              *)
WrongWithoutCollect(E) == E

WithoutCollect(E) ==
  IF machine.collect \in rows THEN Delete(E, machine.collect, TRUE) ELSE E

DeleteCollect ==
  /\ pc = "collect"
  /\ graph' = WithoutCollect(graph) /\ rows' = rows \ {machine.collect}
  /\ machine' = [machine EXCEPT !.anchor = NoNode, !.collect = NoNode]
  /\ pc' = "save" /\ dest' = "waiting"
  /\ UNCHANGED <<status, stored, doomed, crashes, misled>>

-----------------------------------------------------------------------------
(* The end of every transition: the status, then the machine, is committed *)

SaveStatus ==
  /\ pc = "save"
  /\ status' = dest /\ machine' = [machine EXCEPT !.state = dest]
  /\ pc' = "store"
  /\ UNCHANGED <<graph, rows, stored, dest, doomed, crashes, misled>>

(* Pickle a machine that has no state yet.                                 *)
WrongPickle(m) == [m EXCEPT !.state = "none"]

Pickle(m) == m

StoreMachine ==
  /\ pc = "store"
  /\ stored' = Pickle(machine)
  /\ pc' = "idle"
  /\ UNCHANGED <<graph, rows, status, machine, dest, doomed, crashes, misled>>

(* The process of the transition dies, or, at the end, the machine is not  *)
(* stored: that error is only logged.  Uncommitted work is rolled back.  A *)
(* deletion that raises ends a reset in the same way.                      *)
Crash ==
  /\ pc # "idle" /\ crashes < MaxCrashes
  /\ pc' = "idle" /\ doomed' = {} /\ crashes' = crashes + 1
  /\ UNCHANGED <<graph, rows, status, stored, machine, dest, misled>>

StepNext ==
  \/ BeginPrepare \/ PrepareCommits \/ PrepareRaises \/ RenderEnds
  \/ StartRaises \/ Retry
  \/ BeginReset \/ FindGroups \/ \E g \in doomed : DeleteGroup(g)
  \/ DeleteAnchor \/ DeleteCollect
  \/ SaveStatus \/ StoreMachine \/ Crash

StepSpec == StepInit /\ [][StepNext]_vars
-----------------------------------------------------------------------------
(* Properties                                                              *)

(* The step is between the first and the last node of a valid graph.       *)
StartsValid ==
  /\ ValidGraph(InitialEdges)
  /\ Step \notin Sources(InitialEdges) \cup Sinks(InitialEdges)

(* A reset is committed before its machine is.  When the second fails, or  *)
(* the process dies before it, the pickle names nodes that are gone, and   *)
(* the next prepare goes by it: from the moment that puts groups in, the   *)
(* code keeps none of the properties below.  They say what holds until     *)
(* then, whatever else is cut short.                                       *)

(* Whatever is committed, between any two of the deletions too, is a graph *)
(* of nodes that are there, and validate_graph accepts it (make_group,     *)
(* do_unprepare).                                                          *)
CommittedGraphIsValid ==
  ~misled => ValidGraph(graph) /\ Vertices(graph) \subseteq rows

GroupsThere == Groups \cap rows

(* Groups run in parallel: each one there is follows the step and nothing  *)
(* else, and only the collect node follows it (make_group).                *)
GroupsAreParallel ==
  ~misled =>
    \A g \in GroupsThere : /\ In(graph, g) = {<<Step, g>>}
                           /\ Out(graph, g) = {<<g, Collect>>}

(* What followed the step before follows it or, while there is one, the    *)
(* collect node: nothing downstream overtakes the groups                   *)
(* (make_collect_step, do_unprepare).                                      *)
CollectGuardsSuccessors ==
  ~misled =>
    \A e \in Out(InitialEdges, Step) :
      IF Collect \in rows THEN <<Collect, e[2]>> \in graph /\ e \notin graph
      ELSE e \in graph /\ GroupsThere = {}

Resets == status = "failed" /\ status' = "waiting"

(* A reset by a machine that knows its groups gives the graph back as it   *)
(* was, in spite of resets that were cut short before (do_unprepare).      *)
RememberedResetRestores ==
  [][Resets /\ stored.collect # NoNode /\ ~misled => graph' = InitialEdges]_vars

(* Every reset does: "all dynamic nodes removed from the graph.  Graph is  *)
(* reset to its state before prepare was triggered" (StepMachine).  The    *)
(* code does not keep this after a crash.  No run asks for it.             *)
ResetRestores == [][Resets => graph' = InitialEdges]_vars
=============================================================================
