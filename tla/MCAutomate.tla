----------------------------- MODULE MCAutomate ------------------------------
(* The workflows that run, those that are loaded, and the schedules of cron   *)
(* that trigger them, each on their own.                                     *)
EXTENDS WorkflowRuns, Workflows, Cron, TLC

CONSTANTS m1, m2, m3, f1, f2, c1, c2, s1, j1

Messages == {m1, m2, m3}
Kinds3 == (m1 :> "cron") @@ (m2 :> "wait") @@ (m3 :> "unknown")
NothingWaits == <<>>
FilesValue == {f1, f2}
CronsValue == {c1, c2}
OnValue == (f1 :> c1) @@ (f2 :> c2)

\* One job with two slots, that may skip s1, and one without a limit.
TwoSlots == [j \in Jobs |-> IF j = j1 THEN 2 ELSE 0]
OfFirst == [j \in Jobs |-> IF j = j1 THEN {s1} ELSE {}]

\* Names are interchangeable: a call uses one that was used, or the next.
NamesInOrder ==
  \A r \in Requests : request[r].name \in Names \ {1} => \E q \in 1..r - 1 : request[q].name = request[r].name - 1

VARIABLE part

MCInit ==
  /\ part \in {"runs", "workflows", "cron"}
  /\ RunsInit /\ WorkflowsInit /\ Init
  /\ part # "runs" => ~faultless

MCNext ==
  /\ UNCHANGED part
  /\ \/ part = "runs" /\ RunsNext /\ UNCHANGED <<workflowVars, vars>>
     \/ part = "workflows" /\ WorkflowsNext /\ NamesInOrder' /\ UNCHANGED <<runVars, vars>>
     \/ part = "cron" /\ Next /\ UNCHANGED <<runVars, workflowVars>>

MCSpec ==
  /\ MCInit
  /\ [][MCNext]_<<part, runVars, workflowVars, vars>>
  /\ RunsFairness /\ CronFairness
==============================================================================
