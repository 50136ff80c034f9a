---------------------------- MODULE MCSchedules ----------------------------
(* Two schedules whose templates name the same campaign.                   *)
EXTENDS ScheduledCampaigns

CONSTANTS s1, s2

Choice == [s \in Schedules |-> IF s = s1 THEN {"daily", "weekly"} ELSE {"around"}]
Shared == [s \in Schedules |-> "nightly"]
=============================================================================
