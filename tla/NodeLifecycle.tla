--------------------------- MODULE NodeLifecycle ---------------------------
(***************************************************************************)
(* The vocabulary of the second-generation (v2) campaign service: the      *)
(* status enumeration with its predicates, the transition tables of the    *)
(* node and campaign state machines, and the mapping from a requested      *)
(* status to a trigger.  No state lives here; CampaignDaemon and           *)
(* CampaignOperators build on these definitions.                           *)
(***************************************************************************)
EXTENDS Integers

(* StatusEnum: the order of the values is what the predicates compare.     *)
StatusValue ==
  [ overdue   |-> -6, failed   |-> -5, rejected |-> -4, blocked |-> -3,
    paused    |-> -2, rescuable |-> -1, waiting |-> 0,  ready   |-> 1,
    prepared  |-> 2,  running  |-> 3,  reviewable |-> 4,
    accepted  |-> 5,  rescued  |-> 6 ]

Status == DOMAIN StatusValue

IsBad(s) == StatusValue[s] <= StatusValue["rejected"]

IsTerminalScript(s) ==
  \/ StatusValue[s] >= StatusValue["accepted"]
  \/ IsBad(s)
  \/ s = "reviewable"

(* The statuses a graph walk stops at because the node needs attention.    *)
ProcessableScript ==
  {s \in Status : /\ StatusValue[s] >= StatusValue["waiting"]
                  /\ StatusValue[s] <= StatusValue["running"]}

(* One step along the happy path; anything off the path heads for failed.  *)
NextStatus(s) ==
  CASE s = "waiting"               -> "ready"
    [] s = "ready"                 -> "running"
    [] s \in {"running", "accepted"} -> "accepted"
    [] OTHER                       -> "failed"

-----------------------------------------------------------------------------
(* A row of the node transition table.                                     *)
Arrow(trigger, sources, dest) ==
  {[trigger |-> trigger, source |-> s, dest |-> dest] : s \in sources}

NodeTransitions ==
  UNION { Arrow("prepare",   {"waiting"},  "ready"),
          Arrow("start",     {"ready"},    "running"),
          Arrow("finish",    {"running"},  "accepted"),
          Arrow("block",     {"running"},  "blocked"),
          Arrow("fail",      Status,       "failed"),
          Arrow("pause",     {"running"},  "paused"),
          Arrow("unblock",   {"blocked"},  "running"),
          Arrow("resume",    {"paused"},   "running"),
          Arrow("force",     Status,       "accepted"),
          Arrow("reject",    {"accepted"}, "rejected"),
          Arrow("revive",    {"failed"},   "running"),
          Arrow("unprepare", {"ready"},    "waiting"),
          Arrow("stop",      {"paused"},   "ready"),
          Arrow("restart",   {"failed"},   "ready"),
          Arrow("retry",     {"failed"},   "ready"),
          Arrow("reset",     {"failed"},   "waiting") }

(* The breakpoint machine adds a reject from anywhere that fails the node; *)
(* from accepted the common row comes first and wins.                      *)
BreakpointTransitions ==
  NodeTransitions \cup Arrow("reject", Status \ {"accepted"}, "failed")

CampaignTransitions ==
  UNION { Arrow("start",  {"waiting"}, "running"),
          Arrow("finish", {"running"}, "accepted"),
          Arrow("pause",  {"running"}, "paused"),
          Arrow("reject", Status,      "rejected"),
          Arrow("resume", {"paused"},  "running"),
          Arrow("force",  Status,      "accepted") }

(* The order in which the machine holds its events: table order.           *)
TriggerOrder ==
  << "prepare", "start", "finish", "block", "fail", "pause", "unblock",
     "resume", "force", "reject", "revive", "unprepare", "stop", "restart",
     "retry", "reset" >>

(* The first trigger that leads from the task's previous to its desired    *)
(* status, or "none".                                                      *)
TriggerForTransition(previous, desired) ==
  LET Leads(i) == [trigger |-> TriggerOrder[i], source |-> previous,
                   dest |-> desired] \in NodeTransitions
      hits     == {i \in DOMAIN TriggerOrder : Leads(i)}
  IN  IF hits = {} THEN "none"
      ELSE TriggerOrder[CHOOSE i \in hits : \A j \in hits : i <= j]

-----------------------------------------------------------------------------
(* The tasks the daemon can create: one per node and desired status.  The  *)
(* desired status of a processable node determines the status it left.     *)
Targets == {"ready", "running", "accepted"}

PreviousOf == [ready |-> "waiting", running |-> "ready", accepted |-> "running"]

TargetTrigger == [ready |-> "prepare", running |-> "start", accepted |-> "finish"]

(* The three functions above are what next_status and the search through   *)
(* the transition table yield; TLC evaluates this on every run.            *)
ASSUME TargetsFollowTheTable ==
  \A t \in Targets : /\ NextStatus(PreviousOf[t]) = t
                     /\ TriggerForTransition(PreviousOf[t], t) = TargetTrigger[t]

(* Triggers whose failure moves the node to failed by itself.              *)
AutoFail == {"prepare", "start", "finish"}

(* Accept whatever the node's state, force or not.                         *)
WrongPatchTrigger(from, want, force) ==
  IF want = "accepted" THEN "force" ELSE "none"

(* The trigger a PATCH of a node's status asks for, "none" when refused.   *)
PatchTrigger(from, want, force) ==
  CASE from = "waiting"  /\ want = "ready"    -> "prepare"
    [] from = "failed"   /\ want = "ready"    -> IF force THEN "restart" ELSE "retry"
    [] from = "failed"   /\ want = "waiting"  -> "reset"
    [] from = "running"  /\ want = "paused"   -> "pause"
    [] from = "paused"   /\ want = "running"  -> "resume"
    [] from = "accepted" /\ want = "rejected" -> "reject"
    [] want = "accepted" -> IF force THEN "force" ELSE "finish"
    [] want = "failed"   -> "fail"
    [] OTHER -> "none"

(* The same for a PATCH of the campaign's status.                          *)
CampaignTrigger(from, want, force) ==
  CASE from = "waiting" /\ want = "running" -> "start"
    [] from = "running" /\ want = "paused"  -> "pause"
    [] from = "paused"  /\ want = "running" -> "resume"
    [] want = "rejected" -> "reject"
    [] want = "accepted" -> IF force THEN "force" ELSE "finish"
    [] OTHER -> "none"
=============================================================================
