---------------------------- MODULE Subsequences ----------------------------
(***************************************************************************)
(* Parts of a sequence, by the positions that they keep.  They are what    *)
(* filters and removals of duplicates in the code compute.  The definition *)
(* is not recursive, so that facts about it can be proved.                 *)
(***************************************************************************)
EXTENDS Integers, Sequences, FiniteSets

Items(s) == {s[i] : i \in DOMAIN s}

\* How many of the positions P come up to i, and the one that is the k-th.
Ordinal(P, i) == Cardinality({j \in P : j <= i})
Nth(P, k) == CHOOSE i \in P : Ordinal(P, i) = k

\* The elements of s at the positions P, in the order of s.
Subsequence(s, P) == [k \in 1 .. Cardinality(P) |-> s[Nth(P, k)]]

\* s without what occurs earlier in it.
Distinct(s) ==
    Subsequence(s, {i \in DOMAIN s : \A j \in 1 .. i - 1 : s[j] # s[i]})
=============================================================================
