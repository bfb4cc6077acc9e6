--------------------------- MODULE MCPendingWakes ---------------------------
(***************************************************************************)
(* An instance of PendingWakes for TLC: a subagent and a cloud agent,      *)
(* which share a lane, and a shell.                                        *)
(***************************************************************************)
EXTENDS PendingWakes

CONSTANTS sub, cloud, sh

OneOfEach == {sub, cloud, sh}
Kinds == [w \in OneOfEach |-> IF w = sub THEN "subagent" ELSE IF w = sh THEN "shell" ELSE "cloud"]
=============================================================================
