-------------------------- MODULE CampaignPromise --------------------------
(***************************************************************************)
(* What a campaign promises to those who watch its nodes, without a word   *)
(* about tasks, snapshots, machines or crashes: a node leaves waiting only *)
(* when every node before it on some path from START is accepted, it moves *)
(* one step of its happy path at a time or fails, and accepted and failed  *)
(* are final.                                                              *)
(***************************************************************************)
EXTENDS NodeLifecycle, Sequences

CONSTANTS Nodes, SimplePaths

VARIABLE status

(* Some path leads to n through accepted nodes only.                       *)
Reached(n) ==
  \E p \in SimplePaths : \E i \in DOMAIN p :
    /\ p[i] = n
    /\ \A j \in 1..i-1 : status[p[j]] = "accepted"

Init == status = [n \in Nodes |-> "waiting"]

Advance(n) ==
  /\ Reached(n)
  /\ status[n] \in {"waiting", "ready", "running"}
  /\ status' = [status EXCEPT ![n] = NextStatus(@)]

Fail(n) ==
  /\ Reached(n)
  /\ status[n] \in {"waiting", "ready", "running"}
  /\ status' = [status EXCEPT ![n] = "failed"]

Next == \E n \in Nodes : Advance(n) \/ Fail(n)

Spec == Init /\ [][Next]_status
=============================================================================
