--------------------------- MODULE MCTurnRecovery ---------------------------
(***************************************************************************)
(* Instances of TurnRecovery for TLC: four messages, enough for a carrier  *)
(* that is itself overtaken while a break lies between.                    *)
(***************************************************************************)
EXTENDS TurnRecovery, TLC

CONSTANTS m1, m2, m3, m4

FourSends == {m1, m2, m3, m4}
Texts == {"plain", "rich", "fork"}
PlainOrBare == {"plain", "bare"}

Interchangeable == Permutations(Send)
=============================================================================
