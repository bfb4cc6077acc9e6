---------------------------- MODULE MCGroupChat ----------------------------
(***************************************************************************)
(* Instances of GroupChat for TLC.  A run's output sets are chosen for the *)
(* question it asks.                                                       *)
(***************************************************************************)
EXTENDS GroupChat, TLC

CONSTANTS a, b, c

Text == [to |-> <<>>, everyone |-> FALSE]
At(m) == [to |-> <<m>>, everyone |-> FALSE]
Loud(m) == [to |-> <<m>>, everyone |-> TRUE]
AtAll == [to |-> <<>>, everyone |-> TRUE]

TwoMembers == <<a, b>>
ThreeMembers == <<a, b, c>>

\* The user names one member, or all.
NameOneOrAll == {At(a), AtAll}

\* Outputs of one run: nothing (it failed), texts, calls of others.
OneOrTwoTexts == {<<>>, <<Text>>, <<Text, Text>>}
Handoffs == {<<>>, <<At(c)>>, <<Text, Loud(b)>>}

\* Bound: the length of a room with two user messages.
OverlapLength == 4
ShortOverlap == epoch + undispatched = 2 => Len(history) <= OverlapLength
=============================================================================
