------------------------- MODULE CampaignOperators -------------------------
(***************************************************************************)
(* CampaignDaemon together with the node PATCHes that operators send: the  *)
(* request reads the node, its pickled machine and its campaign, and       *)
(* leaves the change of status to a background task of the API process,    *)
(* which fires a trigger on that copy of the machine and writes that copy  *)
(* of the node back, whatever the daemon has done to either meanwhile.     *)
(***************************************************************************)
EXTENDS CampaignDaemon

CONSTANTS
  NodeTargets,   \* [want, force] of the node PATCHes users may send
  Restartable,   \* groups: the nodes for which is_restartable may hold
  MaxPatches     \* bound: node PATCHes sent

ASSUME PatchAssumption ==
  /\ NodeTargets \subseteq [want : Status, force : BOOLEAN]
  /\ Restartable \subseteq Launching
  /\ MaxPatches \in Nat

VARIABLES
  patches,   \* background tasks of node PATCHes
  patched,   \* node PATCHes so far
  forced,        \* nodes that some user asked to accept unconditionally
  succeeded      \* nodes with a job that succeeded, be it the latest or not

operators == <<patches, patched, forced, succeeded>>
allvars == <<vars, operators>>

PatchPhase == {"asked", "acted", "raised", "declined", "saved", "failsaved"}

Patch ==
  [nr : 1..MaxPatches, phase : PatchPhase, node : Nodes, from : Status,
   machine : Status \cup {"none"}, camp : Status, want : Status, force : BOOLEAN]

OperatorsInit ==
  Init /\ patches = {} /\ patched = 0 /\ forced = {} /\ succeeded = {}

-----------------------------------------------------------------------------
(* What the background task will do                                        *)

(* Without a pickled machine only a waiting node can be moved.             *)
HasMachine(r) == r.machine # "none" \/ r.from = "waiting"

(* The state of the machine: the one pickled with it, not the node's.      *)
MachineState(r) == IF r.machine = "none" THEN "waiting" ELSE r.machine

PatchedTrigger(r) == PatchTrigger(r.from, r.want, r.force)

(* The transition that leaves that state by that trigger, if there is one. *)
PatchMoves(r) ==
  {m \in IF r.node \in Breakpoints THEN BreakpointTransitions ELSE NodeTransitions :
     m.trigger = PatchedTrigger(r) /\ m.source = MachineState(r)}

Pending(r) == r \in patches /\ r.phase = "asked"

(* Act on a trigger that the machine refuses.                              *)
WrongFires(r) == Pending(r) /\ HasMachine(r)

Fires(r) == Pending(r) /\ HasMachine(r) /\ PatchMoves(r) # {}

(* is_done_running and is_restartable; the latter holds for no node but a  *)
(* group whose submission left its files behind.                           *)
MustDecline(r) ==
  \/ PatchedTrigger(r) = "finish" /\ NotDone(<<r.node, "accepted">>)
  \/ PatchedTrigger(r) = "restart" /\ r.node \notin Restartable

MustRaise(r) == PatchedTrigger(r) = "finish" /\ JobLost(<<r.node, "accepted">>)

(* The task r goes on as q, and nothing of the campaign changes.           *)
Becomes(r, q) ==
  /\ patches' = (patches \ {r}) \cup q
  /\ UNCHANGED <<patched, forced, succeeded>>

(* A PATCH of a node's status: the columns of the node, its machine and    *)
(* its campaign are read, under locks, in one transaction.                 *)
RequestNode(n, target) ==
  /\ pc # "locked"
  /\ patched < MaxPatches
  /\ patched' = patched + 1
  /\ patches' = patches \cup
       {[nr |-> patched + 1, phase |-> "asked", node |-> n, from |-> status[n],
         machine |-> fsm[n], camp |-> campaign, want |-> target.want,
         force |-> target.force]}
  /\ forced' = IF target = [want |-> "accepted", force |-> TRUE]
               THEN forced \cup {n} ELSE forced
  /\ UNCHANGED <<vars, succeeded>>

(* No machine, no trigger, or a trigger that the machine refuses in its    *)
(* state without failing for it.                                           *)
PatchIgnored(r) ==
  /\ Pending(r)
  /\ \/ ~HasMachine(r)
     \/ PatchMoves(r) = {} /\ PatchedTrigger(r) \notin AutoFail
  /\ Becomes(r, {})
  /\ UNCHANGED vars

(* The conditions hold and the callbacks succeed: finishing END accepts    *)
(* the copy of the campaign, forcing it does not.                          *)
PatchActs(r) ==
  /\ Fires(r) /\ ~MustDecline(r) /\ ~MustRaise(r)
  /\ Becomes(r, {[r EXCEPT !.phase = "acted",
                           !.camp = IF PatchedTrigger(r) = "finish" /\ r.node = END
                                    THEN "accepted" ELSE @]})
  /\ UNCHANGED vars

(* A condition fails, or a callback of retry, reset or restart raises: the *)
(* machine stays where it is.                                              *)
PatchDeclines(r) ==
  /\ Fires(r)
  /\ \/ MustDecline(r) \/ PatchedTrigger(r) = "restart"
     \/ r.node \in Flaky /\ PatchedTrigger(r) \in {"retry", "reset"}
  /\ Becomes(r, {[r EXCEPT !.phase = "declined"]})
  /\ UNCHANGED vars

(* prepare and finish fail the node when they raise, and also when the     *)
(* machine refuses them in its state.                                      *)
PatchRaises(r) ==
  /\ Pending(r) /\ HasMachine(r) /\ PatchedTrigger(r) \in AutoFail
  /\ PatchMoves(r) = {} \/ MustRaise(r) \/ r.node \in Flaky
  /\ Becomes(r, {[r EXCEPT !.phase = "raised"]})
  /\ UNCHANGED vars

-----------------------------------------------------------------------------
(* What it writes                                                          *)

(* Merging the copy of the node writes its columns and, by cascade, the    *)
(* machine and the campaign that were loaded with it.                      *)
MergePatch(r, s) ==
  /\ status' = [status EXCEPT ![r.node] = s]
  /\ fsm' = [fsm EXCEPT ![r.node] = r.machine]
  /\ campaign' = r.camp
  /\ UNCHANGED <<tasks, submitted, outside, loop, snapshot, work, requests>>

PatchSaves(r) ==
  /\ r \in patches
  /\ \/ /\ r.phase = "acted"
        /\ \E m \in PatchMoves(r) : MergePatch(r, m.dest)
        /\ Becomes(r, {[r EXCEPT !.phase = "saved"]})
     \/ /\ r.phase = "raised"
        /\ MergePatch(r, "failed")
        /\ Becomes(r, {[r EXCEPT !.phase = "failsaved"]})

PatchStores(r) ==
  /\ r \in patches /\ r.phase \in {"saved", "failsaved"}
  /\ IF r.phase = "saved"
     THEN \E m \in PatchMoves(r) : fsm' = [fsm EXCEPT ![r.node] = m.dest]
     ELSE fsm' = [fsm EXCEPT ![r.node] = "failed"]
  /\ Becomes(r, {})
  /\ UNCHANGED <<status, campaign, tasks, submitted, outside, loop, snapshot, work,
                 requests>>

PatchWritesBack(r) ==
  /\ r \in patches /\ r.phase = "declined"
  /\ MergePatch(r, r.from)
  /\ Becomes(r, {})

-----------------------------------------------------------------------------
PatchStep(r) ==
  \/ PatchIgnored(r) \/ PatchActs(r) \/ PatchDeclines(r) \/ PatchRaises(r)
  \/ PatchSaves(r) \/ PatchStores(r) \/ PatchWritesBack(r)

(* What CampaignDaemon does, as seen by the history of jobs.               *)
Daemon(step) ==
  /\ step
  /\ succeeded' = succeeded \cup {n \in Nodes : wms'[n] = "done"}
  /\ UNCHANGED <<patches, patched, forced>>

OperatorsNext ==
  \/ Daemon(Next)
  \/ \E n \in Nodes, target \in NodeTargets : RequestNode(n, target)
  \/ \E r \in patches : PatchStep(r)

OperatorsSpec == OperatorsInit /\ [][OperatorsNext]_allvars

(* The daemon's fairness, as in CampaignDaemon.  A background task of the  *)
(* API may be lost with its process, so it owes nothing.                   *)
OperatorsFairSpec ==
  /\ OperatorsSpec
  /\ WF_allvars(Daemon(DaemonStep))
  /\ \A t \in TaskId : WF_allvars(Daemon(JobStep(t)))
  /\ \A n \in Nodes : WF_allvars(Daemon(WmsCompletes(n)))

-----------------------------------------------------------------------------
(* Properties                                                              *)

(* A machine that is past its callbacks had a transition to make.          *)
OperatorsTypeOK ==
  /\ TypeOK
  /\ patches \subseteq Patch
  /\ \A r \in patches : r.phase \in {"acted", "saved"} => PatchMoves(r) # {}
  /\ patched \in 0..MaxPatches
  /\ forced \subseteq Nodes /\ succeeded \subseteq Nodes

(* A breakpoint is accepted only after some user asked for it with force   *)
(* (BreakPointMachine), whatever the daemon and other requests are doing.  *)
BreakpointsNeedUsers ==
  \A n \in Breakpoints : status[n] = "accepted" => n \in forced

(* A node that submits jobs is accepted only if one of them succeeded, or  *)
(* with force (mixin.py check), even when requests and transitions write   *)
(* old copies of it over each other.                                       *)
AcceptedWorkWasDone ==
  \A n \in Launching : status[n] = "accepted" => n \in succeeded \cup forced

(* A node that a user put back to ready is started again by a running      *)
(* campaign, through the task row of its first start, as long as the graph *)
(* leads to it.                                                            *)
ReadyNodesAreStarted ==
  \A n \in Nodes :
    (status[n] = "ready" /\ [](campaign = "running") /\ [](n \in Processable(status)))
      ~> status[n] # "ready"

(* Once accepted, a breakpoint is moved only by users (the docstring of    *)
(* BreakPointMachine).  The code does not keep this: a check that was under *)
(* way takes a force-accept back.  No run asks for it.                     *)
OnlyUsersMoveBreakpoints ==
  [][\A n \in Breakpoints :
       status[n] = "accepted" /\ status'[n] # "accepted"
         => \E r \in patches : PatchSaves(r) \/ PatchWritesBack(r)]_allvars
=============================================================================
