--------------------------- MODULE MCRunScheduler ---------------------------
(***************************************************************************)
(* Instances of RunScheduler for TLC.                                      *)
(***************************************************************************)
EXTENDS RunScheduler

T(l, s, i) == [lane |-> l, source |-> s, id |-> i]

\* One task of every class.
OfEveryClass == {T("user", "turn", 1), T("user", "group-member", 2),
                 T("agent", "other", 3), T("background", "other", 4)}
=============================================================================
