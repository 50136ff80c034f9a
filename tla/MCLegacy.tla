------------------------------ MODULE MCLegacy ------------------------------
(* A small legacy campaign for LegacyProcessing: two steps in order, the   *)
(* first with a group whose job can be attempted twice, the second with    *)
(* nothing to split.                                                       *)
EXTENDS LegacyProcessing

CONSTANTS c, s1, s2, g, j1, j2,
          runSteps, runGroups1, collect, runJobs, submit1, report1, submit2, report2,
          forCampaign, forStep

Below == c :> <<s1, s2>> @@ s1 :> <<g>> @@ s2 :> <<>> @@ g :> <<j1, j2>> @@ j1 :> <<>> @@ j2 :> <<>>

Blocks == c :> <<runSteps>> @@ s1 :> <<runGroups1>> @@ s2 :> <<collect>> @@ g :> <<runJobs>>
            @@ j1 :> <<submit1, report1>> @@ j2 :> <<submit2, report2>>

Handlers == runSteps :> "steps" @@ runGroups1 :> "groups" @@ collect :> "bash"
              @@ runJobs :> "jobs" @@ submit1 :> "batch" @@ report1 :> "report"
              @@ submit2 :> "bash" @@ report2 :> "report"

Before == [x \in Rows |-> CASE x = s2 -> {s1} [] x = report1 -> {submit1}
                             [] x = report2 -> {submit2} [] OTHER -> {}]

NodesOf == forCampaign :> c @@ forStep :> s1

Ask(ops, xs) == [op : ops, row : xs, to : {""}]

MCRequests ==
  << Ask({"reject", "accept", "reset"}, {g, j1}) \cup Ask({"reject", "retry"}, {submit1})
       \cup [op : {"update"}, row : {j1}, to : {"rescuable"}]
       \cup [op : {"reset_script"}, row : {submit1, report1}, to : {"ready"}]
       \cup Ask({"process"}, {s1, forCampaign}) \cup Ask({"toggle"}, {forCampaign})
       \cup [op : {"enqueue"}, row : {forStep}, to : {"active"}],
     Ask({"rescue", "rescued"}, {g}),
     Ask({"rescued", "mark_rescued"}, {g}) >>

Ends == [s \in Scripts |-> CASE s = submit1 -> {"accepted", "failed"}
                              [] s = report1 -> {"accepted", "reviewable", "missing"}
                              [] s = report2 -> {"accepted"}
                              [] OTHER -> {}]

MCMishaps ==
  [what : {"refused", "unlaunched"}, row : {submit1}]
    \cup [what : {"unprepared", "broken"}, row : {submit2}]
    \cup [what : {"fatal_error"}, row : {j1}]

(* The theorems about the properties of this run apply to it.              *)
ASSUME TheoremsApply == VerdictsEnd /\ NoSkips /\ NoReviews
=============================================================================
