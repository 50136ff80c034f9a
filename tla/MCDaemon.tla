------------------------------ MODULE MCDaemon ------------------------------
(* Small campaign graphs on which TLC checks CampaignDaemon.               *)
EXTENDS CampaignDaemon

CONSTANTS s, a, b, e

(* s -> e *)
PairPaths == {<<s, e>>}

(* s -> a -> e *)
ChainPaths == {<<s, a, e>>}

(* s -> a -> e and s -> b -> e *)
DiamondPaths == {<<s, a, e>>, <<s, b, e>>}

NoRequests == {}

ResumeAndFinish ==
  [want : {"running", "accepted"}, force : {FALSE}]

PauseAndResume == [want : {"paused", "running"}, force : {FALSE}]
=============================================================================
