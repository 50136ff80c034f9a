---------------------------- MODULE MCOperators ----------------------------
(* Small campaign graphs on which TLC checks CampaignOperators.            *)
EXTENDS CampaignOperators

CONSTANTS s, b, e

(* s -> e, and s -> b -> e *)
PairPaths == {<<s, e>>}
ChainPaths == {<<s, b, e>>}

NoRequests == {}

(* Every request on a node that names a trigger.                           *)
EveryTarget ==
  [want : {"ready", "accepted"}, force : BOOLEAN] \cup
  [want : {"waiting", "running", "paused", "rejected", "failed"}, force : {FALSE}]

ForceAccept == {[want |-> "accepted", force |-> TRUE]}
=============================================================================
