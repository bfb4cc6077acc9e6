------------------------- MODULE MCAgentWorkerPool -------------------------
(***************************************************************************)
(* An instance of AgentWorkerPool for TLC: two calls on one store and one  *)
(* on another, for a pool of one worker.                                   *)
(***************************************************************************)
EXTENDS AgentWorkerPool

CONSTANTS s1, s2, k1, k2, k3

TwoStores == {s1, s2}
ThreeCalls == {k1, k2, k3}
Shared == [k \in ThreeCalls |-> IF k = k3 THEN s2 ELSE s1]
=============================================================================
