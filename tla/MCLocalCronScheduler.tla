------------------------ MODULE MCLocalCronScheduler ------------------------
(***************************************************************************)
(* An instance of LocalCronScheduler for TLC: two automations of two       *)
(* agents, one with an interval or with two cron schedules, and a clock    *)
(* that passes several occurrences of each.                                *)
(***************************************************************************)
EXTENDS LocalCronScheduler

CONSTANTS a1, a2, g1, g2

TwoAutomations == {a1, a2}
TwoAgents == {g1, g2}
OneEach == [a \in TwoAutomations |-> IF a = a1 THEN g1 ELSE g2]
InOrder == [a \in TwoAutomations |-> IF a = a1 THEN 1 ELSE 2]

Interval == <<[every |-> 2]>>
Crons == <<[cron |-> {2, 3}], [cron |-> {1, 4}]>>
Definitions == {<<>>, Interval, Crons}
=============================================================================
