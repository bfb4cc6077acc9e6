--------------------------- MODULE MCSendDelivery ---------------------------
(***************************************************************************)
(* Instances of SendDelivery for TLC.                                      *)
(***************************************************************************)
EXTENDS SendDelivery

CONSTANTS m1, m2, d1, d2

TwoSends == {m1, m2}
TwoRedrives == {d1, d2}
=============================================================================
