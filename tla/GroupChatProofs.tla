--------------------------- MODULE GroupChatProofs ---------------------------
(***************************************************************************)
(* Proofs about GroupChat, for every roster, all that members and the user *)
(* may write, all limits and any number of messages of the user.           *)
(***************************************************************************)
EXTENDS GroupChat, SequenceLemmas

\* What a message in the room may be, up to epoch e.
RoomMessage(e) ==
    [by : Member \cup {User}, to : Seq(Member), everyone : BOOLEAN, epoch : 0 .. e]

HasUserMessage(h) == \E i \in DOMAIN h : h[i].by = User

-----------------------------------------------------------------------------
(* Who is woken.                                                           *)

LEMMA LastByIs ==
    ASSUME NEW T, NEW h \in Seq(T), NEW who
    PROVE  /\ LastBy(h, who) \in 0 .. Len(h)
           /\ LastBy(h, who) > 0 => h[LastBy(h, who)].by = who
           /\ \A i \in DOMAIN h : h[i].by = who => i <= LastBy(h, who)
<1> DEFINE I == {i \in 1 .. Len(h) : h[i].by = who}
<1>1. Len(h) \in Nat /\ DOMAIN h = 1 .. Len(h)
  OBVIOUS
<1>2. LastBy(h, who) = IF I # {} THEN CHOOSE x \in I : \A y \in I : x >= y ELSE 0
  BY DEF LastBy, SelectLastInSeq, Max
<1>3. CASE I = {}
  BY <1>1, <1>2, <1>3
<1>4. CASE I # {}
  <2>1. I \subseteq Nat /\ \A i \in I : i <= Len(h)
    BY <1>1
  <2>2. \E x \in I : \A y \in I : y <= x
    <3> HIDE DEF I
    <3> QED BY <1>1, <1>4, <2>1, GreatestNatural
  <2>3. \E x \in I : \A y \in I : x >= y
    <3> HIDE DEF I
    <3> QED BY <2>1, <2>2
  <2>4. LastBy(h, who) \in I /\ \A y \in I : LastBy(h, who) >= y
    <3> HIDE DEF I
    <3> QED BY <1>2, <1>4, <2>3
  <2>5. LastBy(h, who) \in 1 .. Len(h) /\ h[LastBy(h, who)].by = who
    BY <2>4
  <2>6. \A i \in DOMAIN h : h[i].by = who => i <= LastBy(h, who)
    BY <1>1, <2>4, <2>5
  <2> QED BY <1>1, <2>5, <2>6
<1> QED BY <1>3, <1>4

\* The user's last message, and the members' that follow it.
LEMMA ExchangeFacts ==
    ASSUME NEW e \in Nat, NEW h \in Seq(RoomMessage(e)), HasUserMessage(h)
    PROVE  /\ LastBy(h, User) \in 1 .. Len(h)
           /\ h[LastBy(h, User)].by = User
           /\ Len(h) \in Nat
           /\ Addressed(h) \subseteq Member /\ Delegated(h) \subseteq Member
           /\ \A i \in LastBy(h, User) + 1 .. Len(h) :
                 i \in DOMAIN h /\ h[i] \in RoomMessage(e) /\ h[i].by \in Member
<1>1. /\ Len(h) \in Nat /\ DOMAIN h = 1 .. Len(h)
      /\ \A i \in 1 .. Len(h) : h[i] \in RoomMessage(e)
  OBVIOUS
<1>2. LastBy(h, User) \in 1 .. Len(h) /\ h[LastBy(h, User)].by = User
  <2>1. PICK i \in DOMAIN h : h[i].by = User
    BY DEF HasUserMessage
  <2>2. i <= LastBy(h, User) /\ LastBy(h, User) \in 0 .. Len(h)
    BY <2>1, LastByIs
  <2>3. LastBy(h, User) > 0
    BY <1>1, <2>1, <2>2
  <2> QED BY <1>1, <2>2, <2>3, LastByIs
<1>3. \A i \in 1 .. Len(h) : ToSet(h[i].to) \subseteq Member
  BY <1>1 DEF RoomMessage, ToSet
<1>4. Addressed(h) \subseteq Member
  BY <1>2, <1>3 DEF Addressed
<1>5. Delegated(h) \subseteq Member
  <2>1. \A i \in Exchange(h) : i \in 1 .. Len(h)
    BY <1>1, <1>2 DEF Exchange
  <2> QED BY <1>3, <2>1 DEF Delegated
<1>6. ASSUME NEW i \in LastBy(h, User) + 1 .. Len(h)
      PROVE  i \in DOMAIN h /\ h[i] \in RoomMessage(e) /\ h[i].by \in Member
  <2>1. i \in DOMAIN h /\ ~(i <= LastBy(h, User))
    BY <1>1, <1>2
  <2>2. h[i].by # User
    BY <2>1, LastByIs
  <2> QED BY <1>1, <2>1, <2>2 DEF RoomMessage
<1> QED BY <1>1, <1>2, <1>4, <1>5, <1>6

LEMMA RosterOfIs ==
    ASSUME NEW M \in SUBSET Member
    PROVE  RosterOf(M) \in Seq(Member) /\ ToSet(RosterOf(M)) = M
<1> DEFINE P == {i \in DOMAIN Roster : Roster[i] \in M}
<1>1. Roster \in Seq(Member) /\ P \in SUBSET DOMAIN Roster
  BY GroupAssumption
<1>2. RosterOf(M) = Subsequence(Roster, P)
  BY DEF RosterOf
<1>3. \A m \in M : \E i \in P : Roster[i] = m
  BY DEF Member, ToSet
<1>4. {Roster[i] : i \in P} = M
  BY <1>3
<1> HIDE DEF P
<1>5. Subsequence(Roster, P) \in Seq(Member)
  BY <1>1, SubsequenceKeeps
<1>6. ToSet(Subsequence(Roster, P)) = {Roster[i] : i \in P}
  BY <1>1, SubsequenceElements
<1> QED BY <1>2, <1>4, <1>5, <1>6

LEMMA RespondersAre ==
    ASSUME NEW e \in Nat, NEW h \in Seq(RoomMessage(e)), HasUserMessage(h)
    PROVE  /\ ResolveResponders(h) \in Seq(Member)
           /\ ResolveResponders(h) # <<>>
           /\ ToSet(ResolveResponders(h)) =
                 {m \in Member : Elects(h, CallsEveryone(h), m)}
<1> DEFINE M == {m \in Member : Elects(h, CallsEveryone(h), m)}
<1>1. ResolveResponders(h) = RosterOf(M)
  BY DEF ResolveResponders
<1>2. RosterOf(M) \in Seq(Member) /\ ToSet(RosterOf(M)) = M
  BY RosterOfIs
<1>3. Member # {}
  <2>1. Roster \in Seq(Member) /\ Roster # <<>>
    BY GroupAssumption
  <2> QED BY <2>1
<1>4. M # {}
  <2>1. Addressed(h) \cup Delegated(h) \subseteq Member
    BY ExchangeFacts
  <2> QED BY <1>3, <2>1 DEF Elects
<1>5. RosterOf(M) # <<>>
  <2> HIDE DEF M
  <2> QED BY <1>2, <1>4, ToSetEmpty
<1> QED BY <1>1, <1>2, <1>5

\* A round goes through the same members, from another one on.
LEMMA RotationKeeps ==
    ASSUME NEW s \in Seq(Member), s # <<>>, NEW r \in Nat
    PROVE  /\ OrderRoundSpeakers(s, r) \in Seq(Member) \ {<<>>}
           /\ ToSet(OrderRoundSpeakers(s, r)) = ToSet(s)
<1> DEFINE o == r % Len(s)
           a == SubSeq(s, o + 1, Len(s))
           b == SubSeq(s, 1, o)
<1>1. Len(s) \in Nat /\ Len(s) > 0 /\ DOMAIN s = 1 .. Len(s)
  OBVIOUS
<1>2. o \in 0 .. Len(s) - 1
  BY <1>1
<1> HIDE DEF o
<1>3. /\ a \in Seq(Member) /\ Len(a) = Len(s) - o
      /\ \A i \in 1 .. Len(s) - o : a[i] = s[o + i]
  BY <1>1, <1>2
<1>4. b \in Seq(Member) /\ Len(b) = o /\ \A i \in 1 .. o : b[i] = s[i]
  BY <1>1, <1>2
<1>5. ToSet(a) \cup ToSet(b) = ToSet(s)
  <2>1. \A i \in DOMAIN a : o + i \in DOMAIN s /\ a[i] = s[o + i]
    BY <1>1, <1>2, <1>3
  <2>2. \A i \in DOMAIN b : i \in DOMAIN s /\ b[i] = s[i]
    BY <1>1, <1>2, <1>4
  <2>3. ASSUME NEW i \in DOMAIN s
        PROVE  (\E k \in DOMAIN a : a[k] = s[i]) \/ (\E k \in DOMAIN b : b[k] = s[i])
    <3>1. CASE i > o
      <4>1. i - o \in DOMAIN a /\ o + (i - o) = i
        BY <1>1, <1>2, <1>3, <3>1
      <4> HIDE DEF a
      <4> QED BY <2>1, <4>1
    <3>2. CASE ~(i > o)
      <4>1. i \in DOMAIN b
        BY <1>1, <1>2, <1>4, <3>2
      <4> HIDE DEF b
      <4> QED BY <2>2, <4>1
    <3> QED BY <3>1, <3>2
  <2> HIDE DEF a, b
  <2> QED BY <2>1, <2>2, <2>3 DEF ToSet
<1>6. OrderRoundSpeakers(s, r) = a \o b
  BY DEF OrderRoundSpeakers, o
<1> HIDE DEF a, b
<1>7. a \o b \in Seq(Member) /\ Len(a \o b) = Len(s)
  <2>1. a \o b \in Seq(Member) /\ Len(a \o b) = Len(a) + Len(b)
    BY <1>3, <1>4
  <2> QED BY <1>1, <1>2, <1>3, <1>4, <2>1
<1>8. ToSet(a \o b) = ToSet(a) \cup ToSet(b)
  BY <1>3, <1>4, ToSetConcat
<1> QED BY <1>1, <1>5, <1>6, <1>7, <1>8

\* A relay wakes those that a member named and that have not spoken since.
LEMMA PendingAre ==
    ASSUME NEW e \in Nat, NEW h \in Seq(RoomMessage(e)), HasUserMessage(h)
    PROVE  /\ PendingMentionTargets(h) \in Seq(Member)
           /\ \A m : m \in ToSet(PendingMentionTargets(h)) <=>
                 \E i \in LastBy(h, User) + 1 .. Len(h) :
                     m \in ToSet(h[i].to) /\ LastBy(h, m) <= i
<1> DEFINE u == LastBy(h, User)
           P(i) == {k \in DOMAIN h[i].to : LastBy(h, h[i].to[k]) <= i}
           part(i) == Subsequence(h[i].to, P(i))
           ss == [k \in 1 .. Len(h) - u |-> part(u + k)]
<1>1. /\ u \in 1 .. Len(h) /\ Len(h) \in Nat
      /\ \A i \in u + 1 .. Len(h) : i \in DOMAIN h /\ h[i] \in RoomMessage(e)
  BY ExchangeFacts
<1> HIDE DEF u
<1>2. PendingMentionTargets(h) = Distinct(FlattenSeq(ss))
  BY DEF PendingMentionTargets, u
<1>3. ASSUME NEW i \in u + 1 .. Len(h)
      PROVE  /\ part(i) \in Seq(Member)
             /\ \A m : m \in ToSet(part(i)) <=>
                          m \in ToSet(h[i].to) /\ LastBy(h, m) <= i
  <2>1. h[i].to \in Seq(Member)
    BY <1>1 DEF RoomMessage
  <2>2. P(i) \in SUBSET DOMAIN h[i].to
    OBVIOUS
  <2>3. {h[i].to[k] : k \in P(i)} = {m \in ToSet(h[i].to) : LastBy(h, m) <= i}
    BY DEF ToSet
  <2> HIDE DEF P
  <2>4. part(i) \in Seq(Member)
    BY <2>1, <2>2, SubsequenceKeeps
  <2>5. ToSet(part(i)) = {h[i].to[k] : k \in P(i)}
    BY <2>1, <2>2, SubsequenceElements
  <2> QED BY <2>3, <2>4, <2>5
<1> HIDE DEF part
<1>4. /\ ss \in Seq(Seq(Member)) /\ DOMAIN ss = 1 .. Len(h) - u
      /\ \A k \in 1 .. Len(h) - u : u + k \in u + 1 .. Len(h) /\ ss[k] = part(u + k)
  <2>1. \A k \in 1 .. Len(h) - u : u + k \in u + 1 .. Len(h)
    BY <1>1
  <2>2. \A k \in 1 .. Len(h) - u : part(u + k) \in Seq(Member)
    BY <1>3, <2>1
  <2>3. Len(h) - u \in Nat
    BY <1>1
  <2> QED BY <2>1, <2>2, <2>3
<1>5. \A i \in u + 1 .. Len(h) : \E k \in DOMAIN ss : ss[k] = part(i)
  <2> SUFFICES ASSUME NEW i \in u + 1 .. Len(h) PROVE \E k \in DOMAIN ss : ss[k] = part(i)
    OBVIOUS
  <2>1. i - u \in 1 .. Len(h) - u /\ u + (i - u) = i
    BY <1>1
  <2> HIDE DEF ss
  <2> QED BY <1>4, <2>1
<1> HIDE DEF ss
<1>6. /\ FlattenSeq(ss) \in Seq(Member)
      /\ ToSet(FlattenSeq(ss)) = UNION {ToSet(ss[k]) : k \in DOMAIN ss}
  BY <1>4, FlattenElements
<1>7. /\ Distinct(FlattenSeq(ss)) \in Seq(Member)
      /\ ToSet(Distinct(FlattenSeq(ss))) = ToSet(FlattenSeq(ss))
  BY <1>6, DistinctElements
<1>8. ASSUME NEW m
      PROVE  m \in ToSet(FlattenSeq(ss)) <=>
                 \E i \in u + 1 .. Len(h) : m \in ToSet(part(i))
  <2>1. \A k \in DOMAIN ss : \E i \in u + 1 .. Len(h) : ss[k] = part(i)
    BY <1>4
  <2> QED BY <1>5, <1>6, <2>1
<1> QED BY <1>2, <1>3, <1>7, <1>8 DEF u

\* A closing sweep wakes those that have spoken.
LEMMA ClosingAre ==
    ASSUME NEW e \in Nat, NEW h \in Seq(RoomMessage(e)), HasUserMessage(h)
    PROVE  /\ ClosingAuthors(h) \in Seq(Member)
           /\ \A m \in ToSet(ClosingAuthors(h)) :
                 \E i \in LastBy(h, User) + 1 .. Len(h) : h[i].by = m
           /\ \A i \in LastBy(h, User) + 1 .. Len(h) : h[i].by \in ToSet(ClosingAuthors(h))
<1> DEFINE u == LastBy(h, User)
           n == Len(h) - u
           by == [k \in 1 .. n |-> h[u + k].by]
           back == Reverse(by)
<1>1. /\ u \in 1 .. Len(h) /\ Len(h) \in Nat
      /\ \A i \in u + 1 .. Len(h) : h[i].by \in Member
  BY ExchangeFacts
<1> HIDE DEF u
<1>2. ClosingAuthors(h) = Distinct(back)
  BY DEF ClosingAuthors, u
<1>3. n \in Nat /\ \A k \in 1 .. n : u + k \in u + 1 .. Len(h)
  BY <1>1
<1> HIDE DEF n
<1>4. by \in Seq(Member) /\ Len(by) = n /\ \A k \in 1 .. n : by[k] = h[u + k].by
  BY <1>1, <1>3
<1> HIDE DEF by
<1>5. /\ back \in Seq(Member) /\ DOMAIN back = 1 .. n
      /\ \A k \in 1 .. n : n - k + 1 \in 1 .. n /\ back[k] = by[n - k + 1]
  <2>1. back = [k \in 1 .. n |-> by[n - k + 1]]
    BY <1>4 DEF Reverse
  <2>2. \A k \in 1 .. n : n - k + 1 \in 1 .. n
    BY <1>3
  <2>3. \A k \in 1 .. n : by[n - k + 1] \in Member
    BY <1>4, <2>2
  <2> HIDE DEF back
  <2> QED BY <1>3, <2>1, <2>2, <2>3
<1> HIDE DEF back
<1>6. /\ Distinct(back) \in Seq(Member)
      /\ ToSet(Distinct(back)) = ToSet(back)
  BY <1>5, DistinctElements
<1>7. \A m \in ToSet(back) : \E i \in u + 1 .. Len(h) : h[i].by = m
  <2>1. ASSUME NEW k \in 1 .. n PROVE \E i \in u + 1 .. Len(h) : h[i].by = back[k]
    <3>1. n - k + 1 \in 1 .. n /\ back[k] = by[n - k + 1]
      BY <1>5
    <3>2. back[k] = h[u + (n - k + 1)].by /\ u + (n - k + 1) \in u + 1 .. Len(h)
      BY <1>3, <1>4, <3>1
    <3> QED BY <3>2
  <2> QED BY <1>5, <2>1 DEF ToSet
<1>8. ASSUME NEW i \in u + 1 .. Len(h) PROVE h[i].by \in ToSet(back)
  <2> DEFINE k == n - (i - u) + 1
  <2>1. k \in 1 .. n /\ n - k + 1 = i - u /\ i - u \in 1 .. n /\ u + (i - u) = i
    BY <1>1, <1>3 DEF n
  <2> HIDE DEF k
  <2>2. back[k] = h[i].by
    BY <1>4, <1>5, <2>1
  <2> QED BY <1>5, <2>1, <2>2 DEF ToSet
<1> QED BY <1>2, <1>6, <1>7, <1>8 DEF u

-----------------------------------------------------------------------------
(* What a member posts.                                                    *)

LEMMA MinIs ==
    ASSUME NEW a \in Int, NEW b \in Int, NEW c \in Int
    PROVE  /\ Min({a, b, c}) \in {a, b, c}
           /\ Min({a, b, c}) <= a /\ Min({a, b, c}) <= b /\ Min({a, b, c}) <= c
<1>1. \E x \in {a, b, c} : \A y \in {a, b, c} : x <= y
  OBVIOUS
<1>2. /\ Min({a, b, c}) \in {a, b, c}
      /\ \A y \in {a, b, c} : Min({a, b, c}) <= y
  BY <1>1 DEF Min
<1> QED BY <1>2

LEMMA PostsAre ==
    ASSUME NEW e \in Nat, NEW t, t.epoch \in 0 .. e, t.speakers \in Seq(Member) \ {<<>>},
           t.total \in 0 .. GROUP_MAX_MEMBER_TURNS, NEW out \in Output
    PROVE  /\ Posts(t, out) \in Seq(RoomMessage(e))
           /\ Len(Posts(t, out)) \in 0 .. GROUP_MAX_MEMBER_TURNS - t.total
           /\ \A i \in 1 .. Len(Posts(t, out)) :
                 /\ Posts(t, out)[i].by = Head(t.speakers)
                 /\ Posts(t, out)[i].epoch = t.epoch
<1> DEFINE P == {i \in DOMAIN out : out[i] # Pass}
           room == GROUP_MAX_MEMBER_TURNS - t.total
           kept == Min({Len(Said(out)), GROUP_MAX_MESSAGES_PER_TURN, room})
<1>1. /\ out \in Seq(Content \cup {Pass}) /\ P \in SUBSET DOMAIN out
      /\ GROUP_MAX_MEMBER_TURNS \in Nat /\ GROUP_MAX_MESSAGES_PER_TURN \in Nat
  BY GroupAssumption
<1>2. /\ Said(out) \in Seq(Content \cup {Pass}) /\ Len(Said(out)) \in Nat
      /\ \A k \in 1 .. Len(Said(out)) : Said(out)[k] # Pass
  <2>1. Said(out) = Subsequence(out, P)
    BY DEF Said
  <2>2. \A i \in P : out[i] # Pass
    OBVIOUS
  <2> HIDE DEF P
  <2>3. /\ Subsequence(out, P) \in Seq(Content \cup {Pass})
        /\ Cardinality(P) \in Nat /\ Len(Subsequence(out, P)) = Cardinality(P)
        /\ \A k \in 1 .. Cardinality(P) :
              Nth(P, k) \in P /\ Subsequence(out, P)[k] = out[Nth(P, k)]
    BY <1>1, SubsequenceKeeps
  <2> QED BY <2>1, <2>2, <2>3
<1>3. \A k \in 1 .. Len(Said(out)) : Said(out)[k] \in Content
  BY <1>2
<1>4. room \in Nat
  BY <1>1
<1>5. kept \in Nat /\ kept <= Len(Said(out)) /\ kept <= room
  <2> DEFINE l == Len(Said(out))
  <2> HIDE DEF room, l
  <2>1. l \in Nat /\ kept = Min({l, GROUP_MAX_MESSAGES_PER_TURN, room})
    BY <1>2 DEF l
  <2> HIDE DEF kept
  <2>2. kept \in {l, GROUP_MAX_MESSAGES_PER_TURN, room} /\ kept <= l /\ kept <= room
    <3>1. l \in Int /\ GROUP_MAX_MESSAGES_PER_TURN \in Int /\ room \in Int
      BY <1>1, <1>4, <2>1
    <3>2. LET k == Min({l, GROUP_MAX_MESSAGES_PER_TURN, room})
          IN  k \in {l, GROUP_MAX_MESSAGES_PER_TURN, room} /\ k <= l /\ k <= room
      BY <3>1, MinIs
    <3> QED BY <2>1, <3>2
  <2> QED BY <1>1, <1>4, <2>1, <2>2 DEF l
<1>6. Posts(t, out) = [i \in 1 .. kept |-> Message(Head(t.speakers), Said(out)[i], t.epoch)]
  BY DEF Posts
<1> HIDE DEF kept, room
<1>7. Head(t.speakers) \in Member
  OBVIOUS
<1>8. \A i \in 1 .. kept : Said(out)[i] \in Content
  BY <1>2, <1>3, <1>5
<1>9. \A i \in 1 .. kept :
         Message(Head(t.speakers), Said(out)[i], t.epoch) \in RoomMessage(e)
  BY <1>7, <1>8 DEF Message, RoomMessage, Content
<1>10. Posts(t, out) \in Seq(RoomMessage(e)) /\ Len(Posts(t, out)) = kept
  BY <1>5, <1>6, <1>9
<1> QED BY <1>4, <1>5, <1>6, <1>10 DEF room, Message

-----------------------------------------------------------------------------
(* The phases of a room turn.                                              *)

\* The turn n has just begun a phase that was planned from the history h.
Begins(n, e, phase, total, h) ==
    /\ n \in RunningTurn
    /\ n.epoch = e /\ n.phase = phase /\ n.total = total /\ n.posts = 0
    /\ n.basis = Len(h) /\ n.attempt = 1
    /\ \A i \in DOMAIN n.speakers : Known(h, n.speakers[i])

LEMMA WakeAllBegins ==
    ASSUME NEW e \in 1 .. epoch, NEW phase \in {"round", "relay", "closing"},
           NEW round \in 0 .. GROUP_MAX_ROUNDS - 1, NEW sweep \in 0 .. Sweeps - 1,
           NEW speakers \in Seq(Member), speakers # <<>>,
           NEW total \in 0 .. GROUP_MAX_MEMBER_TURNS - 1,
           NEW h, Len(h) \in Nat, \A m \in ToSet(speakers) : Known(h, m)
    PROVE  Begins(WakeAll(e, phase, round, sweep, speakers, total, h), e, phase, total, h)
<1>1. \A i \in DOMAIN speakers : Known(h, speakers[i])
  BY DEF ToSet
<1>2. WakeAll(e, phase, round, sweep, speakers, total, h) \in RunningTurn
  BY DEF WakeAll, RunningTurn, Attempts
<1> QED BY <1>1, <1>2 DEF WakeAll, Begins

LEMMA RoundBegins ==
    ASSUME epoch \in Nat, NEW e \in 1 .. epoch, NEW round \in 0 .. GROUP_MAX_ROUNDS - 1,
           NEW total \in 0 .. GROUP_MAX_MEMBER_TURNS - 1,
           NEW h \in Seq(RoomMessage(epoch)), HasUserMessage(h)
    PROVE  Begins(Round(e, round, total, h), e, "round", total, h)
<1> DEFINE r == ResolveResponders(h)
           s == OrderRoundSpeakers(r, round)
<1>1. r \in Seq(Member) /\ r # <<>> /\ ToSet(r) = {m \in Member : Elects(h, CallsEveryone(h), m)}
  BY RespondersAre
<1>2. s \in Seq(Member) \ {<<>>} /\ ToSet(s) = ToSet(r)
  <2>1. round \in Nat
    OBVIOUS
  <2> QED BY <1>1, <2>1, RotationKeeps
<1>3. ASSUME NEW m \in Member, Elects(h, CallsEveryone(h), m) PROVE Known(h, m)
  <2>1. LastBy(h, User) \in Exchange(h)
    BY ExchangeFacts DEF Exchange
  <2>2. CASE m \in Addressed(h)
    BY <2>1, <2>2 DEF Addressed, Known
  <2>3. CASE m \in Delegated(h)
    BY <2>3 DEF Delegated, Known
  <2> QED BY <1>3, <2>2, <2>3 DEF Elects, Known
<1>4. Len(h) \in Nat /\ 0 \in 0 .. Sweeps - 1
  BY DEF Sweeps
<1> HIDE DEF s
<1>5. \A m \in ToSet(s) : Known(h, m)
  BY <1>1, <1>2, <1>3
<1>6. Round(e, round, total, h) = WakeAll(e, "round", round, 0, s, total, h)
  BY DEF Round, s
<1> QED BY <1>2, <1>4, <1>5, <1>6, WakeAllBegins

\* The wind-down ends the turn in quiet or begins a phase.
Winds(n, t, phases, h) ==
    \/ n = Ended(t.epoch, "quiet", t.basis)
    \/ \E phase \in phases : Begins(n, t.epoch, phase, t.total, h)

LEMMA RunningTurnFields ==
    ASSUME NEW t \in RunningTurn
    PROVE  /\ t.epoch \in 1 .. epoch /\ t.phase \in {"round", "relay", "closing"}
           /\ t.round \in 0 .. GROUP_MAX_ROUNDS - 1 /\ t.sweep \in 0 .. Sweeps - 1
           /\ t.speakers \in Seq(Member) /\ t.speakers # <<>> /\ t.posts \in Nat
           /\ t.total \in 0 .. GROUP_MAX_MEMBER_TURNS - 1 /\ t.basis \in Nat
           /\ t.attempt \in 1 .. Attempts
BY DEF RunningTurn

LEMMA CloseWinds ==
    ASSUME epoch \in Nat, NEW t \in RunningTurn, NEW sweep \in 0 .. Sweeps - 1,
           NEW h \in Seq(RoomMessage(epoch)), HasUserMessage(h)
    PROVE  Winds(CloseWith(t, sweep, h), t, {"closing"}, h)
<1> DEFINE s == ClosingAuthors(h)
<1>1. s \in Seq(Member)
  BY ClosingAre
<1>2. \A m \in ToSet(s) : Known(h, m)
  <2>1. \A i \in LastBy(h, User) + 1 .. Len(h) : i \in Exchange(h)
    BY ExchangeFacts DEF Exchange
  <2> QED BY <2>1, ClosingAre DEF Known
<1>3. Len(h) \in Nat
  OBVIOUS
<1> HIDE DEF s
<1>4. CASE s = <<>>
  BY <1>4 DEF CloseWith, Winds, s
<1>5. CASE s # <<>>
  <2>1. Begins(WakeAll(t.epoch, "closing", t.round, sweep, s, t.total, h),
               t.epoch, "closing", t.total, h)
    BY <1>1, <1>2, <1>3, <1>5, RunningTurnFields, WakeAllBegins
  <2> QED BY <1>5, <2>1 DEF CloseWith, Winds, s
<1> QED BY <1>4, <1>5

LEMMA RelayWinds ==
    ASSUME epoch \in Nat, NEW t \in RunningTurn, NEW sweep \in 0 .. Sweeps - 1,
           NEW h \in Seq(RoomMessage(epoch)), HasUserMessage(h)
    PROVE  Winds(Relay(t, sweep, h), t, {"relay", "closing"}, h)
<1> DEFINE s == PendingMentionTargets(h)
<1>1. s \in Seq(Member)
  BY PendingAre
<1>2. \A m \in ToSet(s) : Known(h, m)
  <2>1. \A i \in LastBy(h, User) + 1 .. Len(h) : i \in Exchange(h)
    BY ExchangeFacts DEF Exchange
  <2> QED BY <2>1, PendingAre DEF Known
<1>3. Len(h) \in Nat
  OBVIOUS
<1> HIDE DEF s
<1>4. CASE s = <<>>
  <2>1. Winds(CloseWith(t, sweep, h), t, {"closing"}, h)
    BY CloseWinds
  <2> QED BY <1>4, <2>1 DEF Relay, Winds, s
<1>5. CASE s # <<>>
  <2>1. Begins(WakeAll(t.epoch, "relay", t.round, sweep, s, t.total, h),
               t.epoch, "relay", t.total, h)
    BY <1>1, <1>2, <1>3, <1>5, RunningTurnFields, WakeAllBegins
  <2> QED BY <1>5, <2>1 DEF Relay, Winds, s
<1> QED BY <1>4, <1>5

\* The phases of a turn in their order, as Remaining counts them.
PhasesLeft(phase) == CASE phase = "round" -> 2 [] phase = "relay" -> 1 [] OTHER -> 0

LEMMA NextPhaseWinds ==
    ASSUME epoch \in Nat, NEW t \in RunningTurn,
           NEW h \in Seq(RoomMessage(epoch)), HasUserMessage(h)
    PROVE  LET n == NextPhase(t, h)
           IN  \/ n = Ended(t.epoch, "quiet", t.basis)
               \/ \E phase \in {"round", "relay", "closing"} :
                     /\ Begins(n, t.epoch, phase, t.total, h)
                     /\ t.posts > 0 \/ PhasesLeft(phase) < PhasesLeft(t.phase)
<1> DEFINE n == NextPhase(t, h)
<1>0. 0 \in 0 .. Sweeps - 1 /\ GROUP_MAX_ROUNDS \in Nat
  BY GroupAssumption DEF Sweeps
<1>1. CASE t.phase = "round"
  <2>1. CASE t.posts > 0 /\ t.round + 1 < GROUP_MAX_ROUNDS
    <3>1. n = Round(t.epoch, t.round + 1, t.total, h)
      BY <1>1, <2>1 DEF NextPhase
    <3>2. t.round + 1 \in 0 .. GROUP_MAX_ROUNDS - 1
      BY <1>0, <2>1, RunningTurnFields
    <3>3. Begins(n, t.epoch, "round", t.total, h)
      BY <3>1, <3>2, RunningTurnFields, RoundBegins
    <3> QED BY <2>1, <3>3
  <2>2. CASE ~(t.posts > 0 /\ t.round + 1 < GROUP_MAX_ROUNDS)
    <3>1. n = Relay(t, 0, h)
      BY <1>1, <2>2 DEF NextPhase
    <3>2. Winds(n, t, {"relay", "closing"}, h)
      BY <1>0, <3>1, RelayWinds
    <3> QED BY <1>1, <3>2 DEF Winds, PhasesLeft
  <2> QED BY <2>1, <2>2
<1>2. CASE t.phase = "relay"
  <2>1. t.sweep \in 0 .. Sweeps - 1
    BY RunningTurnFields
  <2>2. CASE t.posts > 0
    <3>1. n = Relay(t, t.sweep, h)
      BY <1>2, <2>2 DEF NextPhase
    <3>2. Winds(n, t, {"relay", "closing"}, h)
      BY <2>1, <3>1, RelayWinds
    <3> QED BY <2>2, <3>2 DEF Winds
  <2>3. CASE ~(t.posts > 0)
    <3>1. n = CloseWith(t, t.sweep, h)
      BY <1>2, <2>3 DEF NextPhase
    <3>2. Winds(n, t, {"closing"}, h)
      BY <2>1, <3>1, CloseWinds
    <3> QED BY <1>2, <3>2 DEF Winds, PhasesLeft
  <2> QED BY <2>2, <2>3
<1>3. CASE t.phase = "closing"
  <2>1. CASE t.posts > 0 /\ t.sweep + 1 < Sweeps
    <3>1. n = Relay(t, t.sweep + 1, h)
      BY <1>3, <2>1 DEF NextPhase
    <3>2. t.sweep + 1 \in 0 .. Sweeps - 1
      BY <2>1, RunningTurnFields DEF Sweeps
    <3>3. Winds(n, t, {"relay", "closing"}, h)
      BY <3>1, <3>2, RelayWinds
    <3> QED BY <2>1, <3>3 DEF Winds
  <2>2. CASE ~(t.posts > 0 /\ t.sweep + 1 < Sweeps)
    BY <1>3, <2>2 DEF NextPhase
  <2> QED BY <2>1, <2>2
<1> QED BY <1>1, <1>2, <1>3, RunningTurnFields

\* Who speaks after the first.
LEMMA OthersFollow ==
    ASSUME NEW s \in Seq(Member), s # <<>>
    PROVE  /\ Tail(s) \in Seq(Member) /\ (Len(s) > 1 => Tail(s) # <<>>)
           /\ ~(Len(s) > 1) => Tail(s) = <<>>
           /\ Head(s) \in Member
           /\ ToSet(s) = {Head(s)} \cup ToSet(Tail(s))
<1>1. /\ Tail(s) \in Seq(Member) /\ Len(Tail(s)) = Len(s) - 1 /\ Len(s) \in Nat \ {0}
      /\ Head(s) = s[1] /\ Head(s) \in Member
      /\ \A i \in 1 .. Len(s) - 1 : Tail(s)[i] = s[i + 1]
  OBVIOUS
<1>2. ~(Len(s) > 1) => Tail(s) = <<>>
  <2> SUFFICES ASSUME ~(Len(s) > 1) PROVE Tail(s) = <<>>
    OBVIOUS
  <2>1. Len(Tail(s)) = 0
    BY <1>1
  <2> QED BY <1>1, <2>1
<1>3. ToSet(s) = {Head(s)} \cup ToSet(Tail(s))
  <2>1. \A i \in DOMAIN s : s[i] = Head(s) \/ (\E k \in DOMAIN Tail(s) : Tail(s)[k] = s[i])
    <3> SUFFICES ASSUME NEW i \in DOMAIN s, i # 1
                 PROVE  \E k \in DOMAIN Tail(s) : Tail(s)[k] = s[i]
      BY <1>1
    <3>1. i - 1 \in DOMAIN Tail(s) /\ (i - 1) + 1 = i /\ i - 1 \in 1 .. Len(s) - 1
      BY <1>1
    <3> QED BY <1>1, <3>1
  <2>2. \A k \in DOMAIN Tail(s) : k + 1 \in DOMAIN s /\ Tail(s)[k] = s[k + 1]
    BY <1>1
  <2>3. 1 \in DOMAIN s
    BY <1>1
  <2> QED BY <1>1, <2>1, <2>2, <2>3 DEF ToSet
<1>4. Len(s) > 1 => Tail(s) # <<>>
  <2>1. Len(s) > 1 => Len(Tail(s)) # 0
    BY <1>1
  <2> QED BY <2>1
<1> QED BY <1>1, <1>2, <1>3, <1>4

\* The turn n goes on with the next speaker of t's phase.
GoesOn(n, t) ==
    /\ Len(t.speakers) > 1
    /\ n \in RunningTurn
    /\ n.epoch = t.epoch /\ n.phase = t.phase /\ n.total = t.total
    /\ n.posts = t.posts /\ n.basis = t.basis /\ n.speakers = Tail(t.speakers)

LEMMA NextSpeakerCases ==
    ASSUME epoch \in Nat, NEW t, t.total \in Nat,
           t.total < GROUP_MAX_MEMBER_TURNS => t \in RunningTurn, NEW h
    PROVE  LET n == NextSpeaker(t, h)
           IN  \/ \E how \in {"limit", "superseded"} : n = Ended(t.epoch, how, t.basis)
               \/ GoesOn(n, t)
               \/ t \in RunningTurn /\ ~(Len(t.speakers) > 1) /\ n = NextPhase(t, h)
<1> DEFINE n == NextSpeaker(t, h)
<1>0. GROUP_MAX_MEMBER_TURNS \in Nat
  BY GroupAssumption
<1>1. CASE t.total >= GROUP_MAX_MEMBER_TURNS
  BY <1>1 DEF NextSpeaker
<1>2. CASE ~(t.total >= GROUP_MAX_MEMBER_TURNS) /\ t.epoch # epoch
  BY <1>2 DEF NextSpeaker
<1>3. CASE ~(t.total >= GROUP_MAX_MEMBER_TURNS) /\ t.epoch = epoch
  <2>1. t \in RunningTurn
    BY <1>0, <1>3
  <2>2. CASE Len(t.speakers) > 1
    <3>1. n = [t EXCEPT !.speakers = Tail(@), !.attempt = 1]
      BY <1>3, <2>2 DEF NextSpeaker
    <3>2. Tail(t.speakers) \in Seq(Member) \ {<<>>}
      <4>1. t.speakers \in Seq(Member)
        BY <2>1, RunningTurnFields
      <4> QED BY <2>2, <4>1, OthersFollow
    <3>3. 1 \in 1 .. Attempts
      BY DEF Attempts
    <3>4. n \in RunningTurn
      BY <2>1, <3>1, <3>2, <3>3 DEF RunningTurn
    <3>5. /\ n.epoch = t.epoch /\ n.phase = t.phase /\ n.total = t.total
          /\ n.posts = t.posts /\ n.basis = t.basis /\ n.speakers = Tail(t.speakers)
      BY <2>1, <3>1 DEF RunningTurn
    <3> QED BY <2>2, <3>4, <3>5 DEF GoesOn
  <2>3. CASE ~(Len(t.speakers) > 1)
    BY <1>3, <2>1, <2>3 DEF NextSpeaker
  <2> QED BY <2>2, <2>3
<1> QED BY <1>1, <1>2, <1>3

LEMMA NextSpeakerIs ==
    ASSUME epoch \in Nat, NEW t, t.total \in Nat,
           t.total < GROUP_MAX_MEMBER_TURNS => t \in RunningTurn,
           NEW h \in Seq(RoomMessage(epoch)), HasUserMessage(h)
    PROVE  LET n == NextSpeaker(t, h)
           IN  \/ \E how \in {"quiet", "limit", "superseded"} : n = Ended(t.epoch, how, t.basis)
               \/ GoesOn(n, t)
               \/ \E phase \in {"round", "relay", "closing"} :
                     /\ Begins(n, t.epoch, phase, t.total, h)
                     /\ t.posts > 0 \/ PhasesLeft(phase) < PhasesLeft(t.phase)
<1> DEFINE n == NextSpeaker(t, h)
<1>1. \/ \E how \in {"limit", "superseded"} : n = Ended(t.epoch, how, t.basis)
      \/ GoesOn(n, t)
      \/ t \in RunningTurn /\ n = NextPhase(t, h)
  BY NextSpeakerCases
<1>2. CASE t \in RunningTurn /\ n = NextPhase(t, h)
  <2>1. \/ n = Ended(t.epoch, "quiet", t.basis)
        \/ \E phase \in {"round", "relay", "closing"} :
              /\ Begins(n, t.epoch, phase, t.total, h)
              /\ t.posts > 0 \/ PhasesLeft(phase) < PhasesLeft(t.phase)
    BY <1>2, NextPhaseWinds
  <2> QED BY <2>1
<1> QED BY <1>1, <1>2

-----------------------------------------------------------------------------
(* The end of a member's run.                                              *)

AfterRun(out) ==
    [turn EXCEPT !.posts = @ + Len(Posts(turn, out)), !.total = @ + Len(Posts(turn, out))]

LEMMA AfterRunIs ==
    ASSUME epoch \in Nat, turn \in RunningTurn, NEW out \in Output
    PROVE  LET n == Len(Posts(turn, out)) t == AfterRun(out)
           IN  /\ Posts(turn, out) \in Seq(RoomMessage(epoch))
               /\ n \in Nat
               /\ t.total = turn.total + n /\ t.posts = turn.posts + n
               /\ t.total \in 0 .. GROUP_MAX_MEMBER_TURNS
               /\ t.epoch = turn.epoch /\ t.phase = turn.phase /\ t.basis = turn.basis
               /\ t.speakers = turn.speakers
               /\ t.total < GROUP_MAX_MEMBER_TURNS => t \in RunningTurn
<1> DEFINE p == Posts(turn, out)
           n == Len(p)
           t == AfterRun(out)
<1>0. GROUP_MAX_MEMBER_TURNS \in Nat
  BY GroupAssumption
<1>1. turn.total \in 0 .. GROUP_MAX_MEMBER_TURNS - 1 /\ turn.posts \in Nat
  BY RunningTurnFields
<1>2. p \in Seq(RoomMessage(epoch)) /\ n \in 0 .. GROUP_MAX_MEMBER_TURNS - turn.total
  <2>1. /\ turn.epoch \in 0 .. epoch /\ turn.speakers \in Seq(Member) \ {<<>>}
        /\ turn.total \in 0 .. GROUP_MAX_MEMBER_TURNS
    BY <1>0, RunningTurnFields
  <2> QED BY <2>1, PostsAre
<1>3. t = [turn EXCEPT !.posts = @ + n, !.total = @ + n]
  BY DEF AfterRun
<1> HIDE DEF p, n, t
<1>4. n \in Nat /\ turn.total + n \in 0 .. GROUP_MAX_MEMBER_TURNS /\ turn.posts + n \in Nat
  BY <1>0, <1>1, <1>2
<1>5. /\ t.total = turn.total + n /\ t.posts = turn.posts + n
      /\ t.epoch = turn.epoch /\ t.phase = turn.phase /\ t.basis = turn.basis
      /\ t.speakers = turn.speakers
  BY <1>3 DEF RunningTurn
<1>6. ASSUME t.total < GROUP_MAX_MEMBER_TURNS PROVE t \in RunningTurn
  <2>1. turn.total + n \in 0 .. GROUP_MAX_MEMBER_TURNS - 1
    BY <1>0, <1>1, <1>4, <1>5, <1>6
  <2> QED BY <1>3, <1>4, <2>1 DEF RunningTurn
<1> QED BY <1>2, <1>4, <1>5, <1>6 DEF p, n, t

\* Nothing of the history goes, and what comes is what the member said.
LEMMA HistoryGrows ==
    ASSUME NEW e \in Nat, NEW h \in Seq(RoomMessage(e)), NEW p \in Seq(RoomMessage(e))
    PROVE  /\ h \o p \in Seq(RoomMessage(e))
           /\ Len(h \o p) = Len(h) + Len(p)
           /\ HasUserMessage(h) => HasUserMessage(h \o p)
           /\ DOMAIN h \subseteq DOMAIN (h \o p)
           /\ \A i \in DOMAIN h : (h \o p)[i] = h[i]
           /\ \A n \in 0 .. Len(h) : SubSeq(h \o p, 1, n) = SubSeq(h, 1, n)
<1>1. /\ h \o p \in Seq(RoomMessage(e)) /\ Len(h \o p) = Len(h) + Len(p)
      /\ \A i \in DOMAIN h : (h \o p)[i] = h[i]
  OBVIOUS
<1>2. DOMAIN h \subseteq DOMAIN (h \o p)
  BY <1>1
<1>3. HasUserMessage(h) => HasUserMessage(h \o p)
  BY <1>1, <1>2 DEF HasUserMessage
<1>4. ASSUME NEW n \in 0 .. Len(h) PROVE SubSeq(h \o p, 1, n) = SubSeq(h, 1, n)
  <2> DEFINE g == h \o p
  <2>1. g \in Seq(RoomMessage(e)) /\ n <= Len(g) /\ n <= Len(h)
    BY <1>1
  <2>2. \A i \in 1 .. n : g[i] = h[i]
    BY <1>1
  <2> HIDE DEF g
  <2>3. SubSeq(g, 1, n) = [i \in 1 .. n |-> g[i]]
    BY <2>1
  <2>4. SubSeq(h, 1, n) = [i \in 1 .. n |-> h[i]]
    BY <2>1
  <2>5. SubSeq(g, 1, n) = SubSeq(h, 1, n)
    BY <2>2, <2>3, <2>4
  <2> QED BY <2>5 DEF g
<1> QED BY <1>1, <1>2, <1>3, <1>4

\* The messages of h that the room turn of epoch e has posted.
CountOf(h, e) == Cardinality({i \in DOMAIN h : h[i].epoch = e})

LEMMA CountOfNone ==
    ASSUME NEW e \in Nat, NEW h \in Seq(RoomMessage(e)), NEW x,
           \A i \in DOMAIN h : h[i].epoch # x
    PROVE  CountOf(h, x) = 0
<1>1. {i \in DOMAIN h : h[i].epoch = x} = {}
  OBVIOUS
<1> QED BY <1>1, FS_EmptySet DEF CountOf

LEMMA CountOfType ==
    ASSUME NEW e \in Nat, NEW h \in Seq(RoomMessage(e)), NEW x
    PROVE  IsFiniteSet({i \in DOMAIN h : h[i].epoch = x}) /\ CountOf(h, x) \in Nat
<1> DEFINE S == {i \in DOMAIN h : h[i].epoch = x}
<1>1. Len(h) \in Nat /\ S \in SUBSET (1 .. Len(h))
  OBVIOUS
<1>2. IsFiniteSet(1 .. Len(h))
  BY <1>1, FS_Interval
<1> HIDE DEF S
<1>3. IsFiniteSet(S) /\ Cardinality(S) \in Nat
  BY <1>1, <1>2, FS_Subset, FS_CardinalityType
<1> QED BY <1>3 DEF S, CountOf

\* Posts of one room turn count for it, and for no other.
LEMMA CountOfConcat ==
    ASSUME NEW e \in Nat, NEW h \in Seq(RoomMessage(e)), NEW p \in Seq(RoomMessage(e)),
           NEW x \in Nat, \A i \in 1 .. Len(p) : p[i].epoch = x
    PROVE  /\ CountOf(h \o p, x) <= CountOf(h, x) + Len(p)
           /\ \A y \in Nat : y # x => CountOf(h \o p, y) = CountOf(h, y)
<1> DEFINE g == h \o p
           G(y) == {i \in DOMAIN g : g[i].epoch = y}
           H(y) == {i \in DOMAIN h : h[i].epoch = y}
           I == Len(h) + 1 .. Len(h) + Len(p)
<1>1. /\ g \in Seq(RoomMessage(e)) /\ Len(g) = Len(h) + Len(p) /\ DOMAIN g = 1 .. Len(g)
      /\ Len(h) \in Nat /\ Len(p) \in Nat /\ DOMAIN h = 1 .. Len(h)
      /\ \A i \in DOMAIN h : i \in DOMAIN g /\ g[i] = h[i]
      /\ \A i \in 1 .. Len(p) : g[Len(h) + i] = p[i]
  OBVIOUS
<1> HIDE DEF g
<1>2. \A i \in I : g[i].epoch = x
  <2> SUFFICES ASSUME NEW i \in I PROVE g[i].epoch = x
    OBVIOUS
  <2>1. i - Len(h) \in 1 .. Len(p) /\ Len(h) + (i - Len(h)) = i
    BY <1>1
  <2> QED BY <1>1, <2>1
<1>3. \A i \in DOMAIN g : i \in DOMAIN h \/ i \in I
  BY <1>1
<1>4. ASSUME NEW y \in Nat, y # x PROVE G(y) = H(y)
  BY <1>1, <1>2, <1>3, <1>4
<1>5. G(x) \subseteq H(x) \cup I
  BY <1>1, <1>3
<1>6. IsFiniteSet(H(x)) /\ Cardinality(H(x)) \in Nat
  BY CountOfType DEF CountOf
<1>7. IsFiniteSet(I) /\ Cardinality(I) = Len(p)
  <2> DEFINE a == Len(h) + 1
             b == Len(h) + Len(p)
  <2>1. a \in Int /\ b \in Int
    BY <1>1
  <2>2. Len(p) = IF a > b THEN 0 ELSE b - a + 1
    BY <1>1
  <2> HIDE DEF a, b
  <2>3. IsFiniteSet(a .. b) /\ Cardinality(a .. b) = Len(p)
    BY <2>1, <2>2, FS_Interval
  <2> QED BY <2>3 DEF a, b
<1>8. Cardinality(G(x)) <= Cardinality(H(x)) + Len(p)
  <2> HIDE DEF G, H, I
  <2>1. /\ IsFiniteSet(H(x) \cup I)
        /\ Cardinality(H(x) \cup I) = Cardinality(H(x)) + Cardinality(I) - Cardinality(H(x) \cap I)
    BY <1>6, <1>7, FS_Union
  <2>2. Cardinality(H(x) \cap I) \in Nat
    BY <1>6, FS_Intersection, FS_CardinalityType
  <2>3. IsFiniteSet(G(x)) /\ Cardinality(G(x)) <= Cardinality(H(x) \cup I)
    BY <1>5, <2>1, FS_Subset
  <2>4. Cardinality(G(x)) \in Nat
    BY <2>3, FS_CardinalityType
  <2> QED BY <1>1, <1>6, <1>7, <2>1, <2>2, <2>3, <2>4
<1> QED BY <1>4, <1>8 DEF CountOf, g

-----------------------------------------------------------------------------
(***************************************************************************)
(* The invariant.                                                          *)
(***************************************************************************)
\* Whoever plans a phase finds a message of the user to plan it from.
UserHasWritten == epoch + undispatched > 0 => HasUserMessage(history)

\* Room turns run in the order of their epochs, each one once.
EpochsAdvance ==
    /\ \A i \in DOMAIN queue : queue[i] > turn.epoch
    /\ \A i, j \in DOMAIN queue : i < j => queue[i] < queue[j]
    /\ \A t \in abandoned : t.epoch <= turn.epoch /\ (Running => t.epoch # turn.epoch)
    /\ \A s, t \in abandoned : s.epoch = t.epoch => s = t

\* A turn that has a member running knows of all that it has posted.
PostsCounted ==
    /\ Running => CountOf(history, turn.epoch) <= turn.total
    /\ \A t \in abandoned : CountOf(history, t.epoch) <= t.total
    /\ \A i \in DOMAIN history : history[i].epoch <= turn.epoch

PlannedBefore == turn.basis <= Len(history)

RoomInv ==
    /\ TypeOK /\ UserHasWritten /\ EpochsAdvance /\ PostsCounted /\ PostsBounded
    /\ PlannedBefore /\ NoBystanderWoken

LEMMA TurnTypes ==
    ASSUME TypeOK
    PROVE  /\ epoch \in Nat /\ undispatched \in Nat
           /\ history \in Seq(RoomMessage(epoch)) /\ Len(history) \in Nat
           /\ DOMAIN history = 1 .. Len(history)
           /\ turn.epoch \in 0 .. epoch /\ turn.basis \in Nat
           /\ Running <=> turn \in RunningTurn
           /\ ~Running <=> turn \in EndedTurn
BY DEF TypeOK, RoomMessage, Running, RunningTurn, EndedTurn

LEMMA EndedIs ==
    ASSUME epoch \in Nat, NEW e \in 0 .. epoch, NEW b \in Nat,
           NEW how \in {"never", "quiet", "limit", "superseded"}
    PROVE  /\ Ended(e, how, b) \in EndedTurn
           /\ Ended(e, how, b).epoch = e /\ Ended(e, how, b).phase = "idle"
           /\ Ended(e, how, b).basis = b /\ Ended(e, how, b).how = how
BY DEF Ended, EndedTurn

\* A whole sequence is its own beginning.
LEMMA WholeIs ==
    ASSUME NEW T, NEW h \in Seq(T)
    PROVE  SubSeq(h, 1, Len(h)) = h
OBVIOUS

\* What the end of a member's run makes of the turn, but a retry.
LEMMA TurnMovesOn ==
    ASSUME TypeOK, UserHasWritten, PlannedBefore, NoBystanderWoken, Running,
           NEW out \in Output
    PROVE  LET h == history \o Posts(turn, out)
               n == NextSpeaker(AfterRun(out), h)
           IN  /\ h \in Seq(RoomMessage(epoch)) /\ HasUserMessage(h)
               /\ n \in RunningTurn \/ n \in EndedTurn
               /\ n.epoch = turn.epoch /\ n.basis <= Len(h)
               /\ n.phase # "idle" =>
                     /\ n \in RunningTurn
                     /\ n.total = turn.total + Len(Posts(turn, out))
                     /\ \A i \in DOMAIN n.speakers :
                           Known(SubSeq(h, 1, n.basis), n.speakers[i])
                     /\ Closer(Remaining(n), Remaining(turn))
<1> DEFINE p == Posts(turn, out)
           h == history \o p
           t == AfterRun(out)
           n == NextSpeaker(t, h)
<1>1. /\ epoch \in Nat /\ undispatched \in Nat /\ turn \in RunningTurn
      /\ history \in Seq(RoomMessage(epoch)) /\ Len(history) \in Nat
  BY TurnTypes
<1>2. /\ p \in Seq(RoomMessage(epoch)) /\ Len(p) \in Nat
      /\ t.total = turn.total + Len(p) /\ t.posts = turn.posts + Len(p)
      /\ t.total \in 0 .. GROUP_MAX_MEMBER_TURNS
      /\ t.epoch = turn.epoch /\ t.phase = turn.phase /\ t.basis = turn.basis
      /\ t.speakers = turn.speakers
      /\ t.total < GROUP_MAX_MEMBER_TURNS => t \in RunningTurn
  BY <1>1, AfterRunIs
<1>3. /\ turn.epoch \in 1 .. epoch /\ turn.total \in 0 .. GROUP_MAX_MEMBER_TURNS - 1
      /\ turn.posts \in Nat /\ turn.basis \in Nat
      /\ turn.speakers \in Seq(Member) /\ turn.speakers # <<>>
      /\ turn.attempt \in 1 .. Attempts /\ turn.phase \in {"round", "relay", "closing"}
  BY <1>1, RunningTurnFields
<1>4. HasUserMessage(history)
  BY <1>1, <1>3 DEF UserHasWritten
<1> HIDE DEF p, t
<1>5. /\ h \in Seq(RoomMessage(epoch)) /\ Len(h) = Len(history) + Len(p)
      /\ HasUserMessage(h)
      /\ \A b \in 0 .. Len(history) : SubSeq(h, 1, b) = SubSeq(history, 1, b)
  BY <1>1, <1>2, <1>4, HistoryGrows
<1>6. turn.basis <= Len(history) /\ turn.basis <= Len(h)
  BY <1>1, <1>2, <1>3, <1>5 DEF PlannedBefore
<1> HIDE DEF h
<1>7. t.total \in Nat
  BY <1>2
<1>8. \/ \E how \in {"quiet", "limit", "superseded"} : n = Ended(t.epoch, how, t.basis)
      \/ GoesOn(n, t)
      \/ \E phase \in {"round", "relay", "closing"} :
            /\ Begins(n, t.epoch, phase, t.total, h)
            /\ t.posts > 0 \/ PhasesLeft(phase) < PhasesLeft(t.phase)
  BY <1>1, <1>2, <1>5, <1>7, NextSpeakerIs
<1> HIDE DEF n
<1> DEFINE Good == /\ n \in RunningTurn \/ n \in EndedTurn
                   /\ n.epoch = turn.epoch /\ n.basis <= Len(h)
                   /\ n.phase # "idle" =>
                         /\ n \in RunningTurn
                         /\ n.total = turn.total + Len(p)
                         /\ \A i \in DOMAIN n.speakers :
                               Known(SubSeq(h, 1, n.basis), n.speakers[i])
                         /\ Closer(Remaining(n), Remaining(turn))
<1>9. ASSUME NEW how \in {"quiet", "limit", "superseded"}, n = Ended(t.epoch, how, t.basis)
      PROVE  Good
  <2>1. turn.epoch \in 0 .. epoch
    BY <1>1, <1>3
  <2>2. n \in EndedTurn /\ n.epoch = turn.epoch /\ n.phase = "idle" /\ n.basis = turn.basis
    BY <1>1, <1>2, <1>3, <1>9, <2>1, EndedIs
  <2> QED BY <1>6, <2>2
<1>10. ASSUME GoesOn(n, t) PROVE Good
  <2>1. /\ Len(turn.speakers) > 1 /\ n \in RunningTurn
        /\ n.epoch = turn.epoch /\ n.phase = turn.phase /\ n.total = turn.total + Len(p)
        /\ n.posts = turn.posts + Len(p) /\ n.basis = turn.basis
        /\ n.speakers = Tail(turn.speakers)
    BY <1>2, <1>10 DEF GoesOn
  <2>2. \A i \in DOMAIN n.speakers : Known(SubSeq(h, 1, n.basis), n.speakers[i])
    <3>1. SubSeq(h, 1, n.basis) = SubSeq(history, 1, turn.basis)
      BY <1>1, <1>3, <1>5, <1>6, <2>1
    <3>2. \A i \in DOMAIN n.speakers :
             i + 1 \in DOMAIN turn.speakers /\ n.speakers[i] = turn.speakers[i + 1]
      BY <1>3, <2>1
    <3> QED BY <3>1, <3>2 DEF NoBystanderWoken
  <2>3. Len(n.speakers) = Len(turn.speakers) - 1 /\ Len(turn.speakers) \in Nat
    BY <1>3, <2>1
  <2>4. Closer(Remaining(n), Remaining(turn))
    <3>0. GROUP_MAX_MEMBER_TURNS \in Nat
      BY GroupAssumption
    <3>1. CASE Len(p) > 0
      <4>1. Remaining(n)[1] < Remaining(turn)[1]
        BY <1>2, <1>3, <2>1, <3>0, <3>1 DEF Remaining
      <4> QED BY <4>1 DEF Closer
    <3>2. CASE Len(p) = 0
      <4>1. n.total = turn.total /\ n.posts = turn.posts
        BY <1>3, <2>1, <3>2
      <4>2. \A j \in 1 .. 3 : Remaining(n)[j] = Remaining(turn)[j]
        BY <2>1, <4>1 DEF Remaining
      <4>3. Remaining(n)[4] < Remaining(turn)[4]
        BY <2>3 DEF Remaining
      <4> QED BY <4>2, <4>3 DEF Closer
    <3> QED BY <1>2, <3>1, <3>2
  <2> QED BY <1>6, <2>1, <2>2, <2>4
<1>11. ASSUME NEW phase \in {"round", "relay", "closing"},
              Begins(n, t.epoch, phase, t.total, h),
              t.posts > 0 \/ PhasesLeft(phase) < PhasesLeft(t.phase)
       PROVE  Good
  <2>1. /\ n \in RunningTurn /\ n.epoch = turn.epoch /\ n.phase = phase
        /\ n.total = turn.total + Len(p) /\ n.posts = 0 /\ n.basis = Len(h)
        /\ \A i \in DOMAIN n.speakers : Known(h, n.speakers[i])
    BY <1>2, <1>11 DEF Begins
  <2>2. SubSeq(h, 1, n.basis) = h /\ Len(h) \in Nat
    BY <1>5, <2>1, WholeIs
  <2>3. Closer(Remaining(n), Remaining(turn))
    <3>0. GROUP_MAX_MEMBER_TURNS \in Nat
      BY GroupAssumption
    <3>1. CASE Len(p) > 0
      <4>1. Remaining(n)[1] < Remaining(turn)[1]
        BY <1>2, <1>3, <2>1, <3>0, <3>1 DEF Remaining
      <4> QED BY <4>1 DEF Closer
    <3>2. CASE Len(p) = 0 /\ turn.posts > 0
      <4>1. n.total = turn.total
        BY <1>3, <2>1, <3>2
      <4>2. Remaining(n)[1] = Remaining(turn)[1]
        BY <4>1 DEF Remaining
      <4>3. Remaining(n)[2] = 0 /\ Remaining(turn)[2] = 1
        BY <2>1, <3>2 DEF Remaining
      <4> QED BY <4>2, <4>3 DEF Closer
    <3>3. CASE Len(p) = 0 /\ ~(turn.posts > 0)
      <4>1. n.total = turn.total /\ ~(t.posts > 0)
        BY <1>2, <1>3, <2>1, <3>3
      <4>2. Remaining(n)[1] = Remaining(turn)[1] /\ Remaining(n)[2] = Remaining(turn)[2]
        BY <2>1, <3>3, <4>1 DEF Remaining
      <4>3. PhasesLeft(n.phase) < PhasesLeft(turn.phase)
        BY <1>2, <1>11, <2>1, <4>1
      <4>4. Remaining(n)[3] < Remaining(turn)[3]
        BY <4>3 DEF Remaining, PhasesLeft
      <4> QED BY <4>2, <4>4 DEF Closer
    <3> QED BY <1>2, <3>1, <3>2, <3>3
  <2>4. \A i \in DOMAIN n.speakers : Known(SubSeq(h, 1, n.basis), n.speakers[i])
    BY <2>1, <2>2
  <2>5. n.basis <= Len(h)
    BY <2>1, <2>2
  <2> QED BY <2>1, <2>3, <2>4, <2>5
<1>12. Good
  BY <1>8, <1>9, <1>10, <1>11
<1> QED BY <1>5, <1>12 DEF p, h, t, n

-----------------------------------------------------------------------------
(* The invariant holds at first, and every action keeps it.                *)

LEMMA InitRoom == Init => RoomInv
<1> SUFFICES ASSUME Init PROVE RoomInv
  OBVIOUS
<1>1. TypeOK
  <2>1. turn \in EndedTurn
    BY DEF Init, Ended, EndedTurn
  <2>2. epoch = 0 /\ history = <<>> /\ queue = <<>> /\ undispatched = 0 /\ abandoned = {}
    BY DEF Init
  <2>3. /\ history \in Seq([by : Member \cup {User}, to : Seq(Member),
                            everyone : BOOLEAN, epoch : 0 .. epoch])
        /\ queue \in Seq(1 .. epoch)
    BY <2>2
  <2>4. /\ shown \in [Member -> SUBSET DOMAIN history]
        /\ during \in [Member -> SUBSET DOMAIN history]
    BY DEF Init
  <2>5. dmPreempted \in BOOLEAN
    BY DEF Init
  <2> QED BY <2>1, <2>2, <2>3, <2>4, <2>5 DEF TypeOK
<1>2. turn.epoch = 0 /\ turn.phase = "idle" /\ turn.basis = 0
  BY DEF Init, Ended
<1>3. UserHasWritten /\ EpochsAdvance /\ PostsCounted /\ PlannedBefore /\ NoBystanderWoken
  BY <1>2 DEF Init, UserHasWritten, EpochsAdvance, PostsCounted, PlannedBefore,
              NoBystanderWoken, Running
<1>4. PostsBounded
  BY DEF Init, PostsBounded
<1> QED BY <1>1, <1>3, <1>4 DEF RoomInv

LEMMA PromptKeepsTypes ==
    ASSUME NEW h, NEW t, shown \in [Member -> SUBSET DOMAIN history],
           DOMAIN history \subseteq DOMAIN h,
           t.phase # "idle" => t.speakers \in Seq(Member) /\ t.speakers # <<>>,
           Prompt(t, h)
    PROVE  shown' \in [Member -> SUBSET DOMAIN h] /\ dmPreempted' \in BOOLEAN
<1>1. dmPreempted' \in BOOLEAN
  BY DEF Prompt
<1>2. CASE t.phase = "idle"
  BY <1>1, <1>2 DEF Prompt
<1>3. CASE t.phase # "idle"
  <2>1. Head(t.speakers) \in Member
    BY <1>3
  <2>2. NewMessages(h, Head(t.speakers)) \subseteq DOMAIN h
    BY DEF NewMessages
  <2>3. shown' = [shown EXCEPT ![Head(t.speakers)] =
                                  @ \cup NewMessages(h, Head(t.speakers))]
    BY <1>3 DEF Prompt
  <2> QED BY <1>1, <2>1, <2>2, <2>3
<1> QED BY <1>2, <1>3

LEMMA WiderSeq ==
    ASSUME NEW S, NEW T, S \subseteq T, NEW s \in Seq(S)
    PROVE  s \in Seq(T)
OBVIOUS

\* A message of the user counts for no room turn.
LEMMA EchoKeeps ==
    ASSUME RoomInv, NEW c \in UserContent, EchoSend(c)
    PROVE  RoomInv'
<1> DEFINE msg == Message(User, c, 0)
           p == <<msg>>
<1>1. /\ epoch \in Nat /\ undispatched \in Nat
      /\ history \in Seq(RoomMessage(epoch)) /\ Len(history) \in Nat
      /\ DOMAIN history = 1 .. Len(history)
      /\ turn.epoch \in 0 .. epoch /\ turn.basis \in Nat
  BY TurnTypes DEF RoomInv
<1>2. msg \in RoomMessage(epoch) /\ msg.epoch = 0 /\ msg.by = User
  <2>1. c \in Content
    BY GroupAssumption
  <2> QED BY <1>1, <2>1 DEF Message, RoomMessage, Content
<1> HIDE DEF msg
<1>3. /\ p \in Seq(RoomMessage(epoch)) /\ Len(p) = 1
      /\ \A i \in 1 .. Len(p) : p[i].epoch = 0
  BY <1>2
<1>4. history' = history \o p
  BY <1>1, <1>2 DEF EchoSend, msg
<1>5. history' = Append(history, msg)
  BY DEF EchoSend, msg
<1> HIDE DEF p
<1>6. /\ history' \in Seq(RoomMessage(epoch)) /\ Len(history') = Len(history) + 1
      /\ DOMAIN history \subseteq DOMAIN history'
      /\ \A i \in DOMAIN history : history'[i] = history[i]
      /\ \A n \in 0 .. Len(history) : SubSeq(history', 1, n) = SubSeq(history, 1, n)
  BY <1>1, <1>3, <1>4, HistoryGrows
<1>7. Len(history') \in DOMAIN history' /\ history'[Len(history')] = msg
  BY <1>1, <1>2, <1>5
<1>8. \A y \in Nat : y # 0 => CountOf(history', y) = CountOf(history, y)
  <2>1. /\ epoch \in Nat /\ history \in Seq(RoomMessage(epoch))
        /\ p \in Seq(RoomMessage(epoch)) /\ \A i \in 1 .. Len(p) : p[i].epoch = 0
    BY <1>1, <1>3
  <2>2. \A e \in Nat : \A h, q \in Seq(RoomMessage(e)) :
           (\A i \in 1 .. Len(q) : q[i].epoch = 0) =>
               \A y \in Nat : y # 0 => CountOf(h \o q, y) = CountOf(h, y)
    BY CountOfConcat
  <2>3. \A y \in Nat : y # 0 => CountOf(history \o p, y) = CountOf(history, y)
    BY <2>1, <2>2
  <2> QED BY <1>4, <2>3
<1>9. /\ epoch' = epoch /\ undispatched' = undispatched + 1 /\ queue' = queue /\ turn' = turn
      /\ abandoned' = abandoned /\ dmPreempted' = dmPreempted /\ shown' = shown
      /\ during' = [m \in Member |-> IF m \in RunningMembers
                                     THEN during[m] \cup {Len(history')} ELSE during[m]]
  BY DEF EchoSend
<1>10. TypeOK'
  <2>1. shown' \in [Member -> SUBSET DOMAIN history']
    BY <1>6, <1>9 DEF RoomInv, TypeOK
  <2>2. during' \in [Member -> SUBSET DOMAIN history']
    BY <1>6, <1>7, <1>9 DEF RoomInv, TypeOK
  <2>3. (turn \in RunningTurn \/ turn \in EndedTurn)'
    BY <1>9 DEF RoomInv, TypeOK, RunningTurn, EndedTurn
  <2>4. (\A t \in abandoned : t \in RunningTurn)'
    BY <1>9 DEF RoomInv, TypeOK, RunningTurn
  <2>5. (undispatched \in Nat /\ epoch \in Nat /\ queue \in Seq(1 .. epoch) /\ dmPreempted \in BOOLEAN)'
    BY <1>1, <1>9 DEF RoomInv, TypeOK
  <2> QED BY <1>6, <1>9, <2>1, <2>2, <2>3, <2>4, <2>5 DEF TypeOK, RoomMessage
<1>11. UserHasWritten'
  BY <1>2, <1>7 DEF UserHasWritten, HasUserMessage
<1>12. EpochsAdvance'
  BY <1>9 DEF RoomInv, EpochsAdvance, Running
<1>13. PostsCounted'
  <2>1. Running => turn.epoch \in Nat /\ turn.epoch # 0
    BY TurnTypes, RunningTurnFields DEF RoomInv
  <2>2. \A t \in abandoned : t.epoch \in Nat /\ t.epoch # 0
    BY RunningTurnFields DEF RoomInv, TypeOK
  <2>3. \A i \in DOMAIN history' : history'[i].epoch <= turn.epoch
    <3>1. \A i \in DOMAIN history' : i \in DOMAIN history \/ i = Len(history')
      BY <1>1, <1>6
    <3> QED BY <1>1, <1>2, <1>6, <1>7, <3>1 DEF RoomInv, PostsCounted
  <2> QED BY <1>8, <1>9, <2>1, <2>2, <2>3 DEF RoomInv, PostsCounted, Running
<1>14. PostsBounded'
  <2>1. \A e \in 1 .. epoch : e # 0 /\ CountOf(history, e) <= GROUP_MAX_MEMBER_TURNS
    BY <1>1 DEF RoomInv, PostsBounded, CountOf
  <2>2. \A e \in 1 .. epoch' : CountOf(history', e) <= GROUP_MAX_MEMBER_TURNS
    BY <1>8, <1>9, <2>1
  <2> QED BY <2>2 DEF PostsBounded, CountOf
<1>15. PlannedBefore'
  BY <1>1, <1>6, <1>9 DEF RoomInv, PlannedBefore
<1>16. NoBystanderWoken'
  <2>1. SubSeq(history', 1, turn.basis) = SubSeq(history, 1, turn.basis)
    BY <1>1, <1>6 DEF RoomInv, PlannedBefore
  <2> QED BY <1>9, <2>1 DEF RoomInv, NoBystanderWoken, Running
<1> QED BY <1>10, <1>11, <1>12, <1>13, <1>14, <1>15, <1>16 DEF RoomInv

LEMMA DispatchKeeps ==
    ASSUME RoomInv, DispatchSend
    PROVE  RoomInv'
<1>1. /\ epoch \in Nat /\ undispatched \in Nat /\ undispatched > 0
      /\ history \in Seq(RoomMessage(epoch)) /\ Len(history) \in Nat
      /\ DOMAIN history = 1 .. Len(history)
      /\ turn.epoch \in 0 .. epoch /\ turn.basis \in Nat
  BY TurnTypes DEF RoomInv, DispatchSend
<1>2. /\ epoch' = epoch + 1 /\ undispatched' = undispatched - 1
      /\ queue' = Append(queue, epoch + 1)
      /\ history' = history /\ turn' = turn /\ abandoned' = abandoned
      /\ dmPreempted' = dmPreempted /\ shown' = shown /\ during' = during
  BY DEF DispatchSend
<1>3. queue \in Seq(1 .. epoch) /\ \A i \in DOMAIN queue : queue[i] \in 1 .. epoch
  BY DEF RoomInv, TypeOK
<1>4. 1 .. epoch \subseteq 1 .. epoch' /\ 0 .. epoch \subseteq 0 .. epoch' /\ epoch' \in Nat
  BY <1>1, <1>2
<1>5. /\ queue' \in Seq(1 .. epoch') /\ DOMAIN queue' = 1 .. Len(queue) + 1
      /\ \A i \in DOMAIN queue : queue'[i] = queue[i]
      /\ queue'[Len(queue) + 1] = epoch + 1
      /\ Len(queue) \in Nat /\ DOMAIN queue = 1 .. Len(queue)
  <2>1. queue \in Seq(1 .. epoch')
    BY <1>3, <1>4, WiderSeq
  <2>2. epoch + 1 \in 1 .. epoch'
    BY <1>1, <1>2
  <2> QED BY <1>2, <2>1, <2>2
<1>6. TypeOK'
  <2>1. history \in Seq(RoomMessage(epoch'))
    <3>1. RoomMessage(epoch) \subseteq RoomMessage(epoch')
      BY <1>4 DEF RoomMessage
    <3> QED BY <1>1, <3>1, WiderSeq
  <2>2. (turn \in RunningTurn \/ turn \in EndedTurn)'
    BY <1>2, <1>4 DEF RoomInv, TypeOK, RunningTurn, EndedTurn
  <2>3. (\A t \in abandoned : t \in RunningTurn)'
    BY <1>2, <1>4 DEF RoomInv, TypeOK, RunningTurn
  <2>4. undispatched' \in Nat
    BY <1>1, <1>2
  <2> QED BY <1>2, <1>4, <1>5, <2>1, <2>2, <2>3, <2>4 DEF RoomInv, TypeOK, RoomMessage
<1>7. UserHasWritten'
  BY <1>1, <1>2 DEF RoomInv, UserHasWritten
<1>8. EpochsAdvance'
  <2>1. \A i \in DOMAIN queue' : i \in DOMAIN queue \/ i = Len(queue) + 1
    BY <1>5
  <2>2. ASSUME NEW i \in DOMAIN queue' PROVE queue'[i] > turn'.epoch
    BY <1>1, <1>2, <1>5, <2>1 DEF RoomInv, EpochsAdvance
  <2>3. ASSUME NEW i \in DOMAIN queue', NEW j \in DOMAIN queue', i < j
        PROVE  queue'[i] < queue'[j]
    <3>1. i \in DOMAIN queue
      BY <1>5, <2>1, <2>3
    <3>2. CASE j \in DOMAIN queue
      BY <1>5, <2>3, <3>1, <3>2 DEF RoomInv, EpochsAdvance
    <3>3. CASE j = Len(queue) + 1
      BY <1>1, <1>3, <1>5, <3>1, <3>3
    <3> QED BY <2>1, <3>2, <3>3
  <2> QED BY <1>2, <2>2, <2>3 DEF RoomInv, EpochsAdvance, Running
<1>9. PostsCounted' /\ PlannedBefore' /\ NoBystanderWoken'
  BY <1>2 DEF RoomInv, PostsCounted, PlannedBefore, NoBystanderWoken, Running
<1>10. PostsBounded'
  <2>1. ASSUME NEW e \in 1 .. epoch' PROVE CountOf(history', e) <= GROUP_MAX_MEMBER_TURNS
    <3>1. CASE e \in 1 .. epoch
      BY <1>2, <3>1 DEF RoomInv, PostsBounded, CountOf
    <3>2. CASE e = epoch + 1
      <4>1. \A i \in DOMAIN history : history[i].epoch # e
        BY <1>1, <3>2 DEF RoomInv, PostsCounted
      <4>2. CountOf(history, e) = 0
        BY <1>1, <4>1, CountOfNone
      <4> QED BY <1>2, <4>2, GroupAssumption
    <3> QED BY <1>1, <1>2, <3>1, <3>2
  <2> QED BY <2>1 DEF PostsBounded, CountOf
<1> QED BY <1>6, <1>7, <1>8, <1>9, <1>10 DEF RoomInv

LEMMA StartKeeps ==
    ASSUME RoomInv, StartRoomTurn
    PROVE  RoomInv'
<1>1. /\ epoch \in Nat /\ undispatched \in Nat
      /\ history \in Seq(RoomMessage(epoch)) /\ Len(history) \in Nat
      /\ DOMAIN history = 1 .. Len(history)
      /\ turn.epoch \in 0 .. epoch
  BY TurnTypes DEF RoomInv
<1>2. /\ epoch' = epoch /\ history' = history /\ undispatched' = undispatched
      /\ abandoned' = abandoned /\ during' = during /\ queue' = Tail(queue)
      /\ ~Running /\ queue # <<>> /\ Prompt(turn', history)
  BY DEF StartRoomTurn
<1> DEFINE e == Head(queue)
<1>3. /\ queue \in Seq(1 .. epoch) /\ e \in 1 .. epoch /\ e = queue[1] /\ 1 \in DOMAIN queue
      /\ queue' \in Seq(1 .. epoch)
      /\ \A i \in DOMAIN queue' : i + 1 \in DOMAIN queue /\ queue'[i] = queue[i + 1] /\ i \in Nat
      /\ \A i \in DOMAIN queue' : 1 < i + 1
  BY <1>2 DEF RoomInv, TypeOK
<1>4. HasUserMessage(history)
  BY <1>1, <1>3 DEF RoomInv, UserHasWritten
<1>5. /\ turn' \in RunningTurn \/ turn' \in EndedTurn
      /\ turn'.epoch = e /\ turn'.basis = Len(history)
      /\ turn'.phase # "idle" =>
            /\ turn' \in RunningTurn /\ turn'.total = 0
            /\ \A i \in DOMAIN turn'.speakers : Known(history, turn'.speakers[i])
  <2>1. CASE e # epoch
    <3>1. turn' = Ended(e, "superseded", Len(history))
      BY <2>1 DEF StartRoomTurn
    <3>2. /\ turn' \in EndedTurn /\ turn'.epoch = e /\ turn'.phase = "idle"
          /\ turn'.basis = Len(history)
      BY <1>1, <1>3, <3>1, EndedIs
    <3> QED BY <3>2
  <2>2. CASE e = epoch
    <3>1. turn' = Round(epoch, 0, 0, history)
      BY <2>2 DEF StartRoomTurn
    <3>2. epoch \in 1 .. epoch /\ 0 \in 0 .. GROUP_MAX_ROUNDS - 1 /\ 0 \in 0 .. GROUP_MAX_MEMBER_TURNS - 1
      BY <1>1, <1>3, <2>2, GroupAssumption
    <3>3. Begins(turn', epoch, "round", 0, history)
      BY <1>1, <1>4, <3>1, <3>2, RoundBegins
    <3> QED BY <2>2, <3>3 DEF Begins
  <2> QED BY <2>1, <2>2
<1> HIDE DEF e
<1>6. turn.epoch < e /\ turn.epoch \in Int /\ e \in Int /\ \A i \in DOMAIN queue' : queue'[i] > e
  <2>1. turn.epoch < e
    BY <1>1, <1>3 DEF RoomInv, EpochsAdvance
  <2>2. ASSUME NEW i \in DOMAIN queue' PROVE queue'[i] > e
    <3>1. i + 1 \in DOMAIN queue /\ 1 \in DOMAIN queue /\ 1 < i + 1
      BY <1>3
    <3>2. queue[1] < queue[i + 1]
      BY <3>1 DEF RoomInv, EpochsAdvance
    <3>3. \A j \in DOMAIN queue : queue[j] \in 1 .. epoch
      BY DEF RoomInv, TypeOK
    <3> QED BY <1>1, <1>3, <3>1, <3>2, <3>3
  <2> QED BY <1>1, <1>3, <2>1, <2>2
<1>7. TypeOK'
  <2>1. (turn \in RunningTurn \/ turn \in EndedTurn)'
    BY <1>2, <1>5 DEF RunningTurn, EndedTurn
  <2>2. (\A t \in abandoned : t \in RunningTurn)'
    BY <1>2 DEF RoomInv, TypeOK, RunningTurn
  <2>3. turn'.phase # "idle" => turn'.speakers \in Seq(Member) /\ turn'.speakers # <<>>
    BY <1>5, RunningTurnFields
  <2>4. shown' \in [Member -> SUBSET DOMAIN history] /\ dmPreempted' \in BOOLEAN
    BY <1>2, <2>3, PromptKeepsTypes DEF RoomInv, TypeOK
  <2> QED BY <1>1, <1>2, <1>3, <2>1, <2>2, <2>4 DEF RoomInv, TypeOK
<1>8. UserHasWritten'
  BY <1>2, <1>4 DEF UserHasWritten
<1>9. EpochsAdvance'
  <2>1. (\A i \in DOMAIN queue : queue[i] > turn.epoch)'
    BY <1>5, <1>6
  <2>2. ASSUME NEW i \in DOMAIN queue', NEW j \in DOMAIN queue', i < j
        PROVE  queue'[i] < queue'[j]
    <3>1. i + 1 \in DOMAIN queue /\ j + 1 \in DOMAIN queue /\ i + 1 < j + 1
      BY <1>3, <2>2
    <3> QED BY <1>3, <3>1 DEF RoomInv, EpochsAdvance
  <2>3. \A t \in abandoned : t.epoch <= e /\ t.epoch # e
    <3>1. \A t \in abandoned : t.epoch \in Int /\ t.epoch <= turn.epoch
      BY <1>1, RunningTurnFields DEF RoomInv, EpochsAdvance, TypeOK
    <3> QED BY <1>6, <3>1
  <2> QED BY <1>2, <1>5, <2>1, <2>2, <2>3 DEF RoomInv, EpochsAdvance
<1>10. PostsCounted'
  <2>1. \A i \in DOMAIN history : history[i].epoch \in Int /\ history[i].epoch <= turn.epoch
    <3>1. \A i \in DOMAIN history : history[i] \in RoomMessage(epoch)
      BY <1>1
    <3>2. \A i \in DOMAIN history : history[i].epoch \in 0 .. epoch
      BY <3>1 DEF RoomMessage
    <3> QED BY <1>1, <3>2 DEF RoomInv, PostsCounted
  <2>2. \A i \in DOMAIN history : history[i].epoch # e /\ history[i].epoch <= e
    BY <1>6, <2>1
  <2>3. CountOf(history, e) = 0
    BY <1>1, <2>2, CountOfNone
  <2>4. (Running => CountOf(history, turn.epoch) <= turn.total)'
    BY <1>2, <1>5, <2>3 DEF Running
  <2> QED BY <1>2, <1>5, <2>2, <2>4 DEF RoomInv, PostsCounted
<1>11. PostsBounded'
  BY <1>2 DEF RoomInv, PostsBounded
<1>12. PlannedBefore'
  BY <1>1, <1>2, <1>5 DEF PlannedBefore
<1>13. NoBystanderWoken'
  <2>1. SubSeq(history, 1, Len(history)) = history
    BY <1>1, WholeIs
  <2> QED BY <1>2, <1>5, <2>1 DEF NoBystanderWoken, Running
<1> QED BY <1>7, <1>8, <1>9, <1>10, <1>11, <1>12, <1>13 DEF RoomInv

\* A member of the running turn finishes, and the turn goes on or ends.
LEMMA RunEndsKeeps ==
    ASSUME RoomInv, NEW out \in Output, NEW reacted \in BOOLEAN, MemberRunEnds(out, reacted)
    PROVE  RoomInv'
<1> DEFINE p == Posts(turn, out)
           h == history \o p
           n == NextSpeaker(AfterRun(out), h)
<1>1. /\ epoch \in Nat /\ undispatched \in Nat /\ turn \in RunningTurn /\ Running
      /\ history \in Seq(RoomMessage(epoch)) /\ Len(history) \in Nat
      /\ turn.epoch \in 1 .. epoch
  BY TurnTypes, RunningTurnFields DEF RoomInv, MemberRunEnds
<1>2. /\ epoch' = epoch /\ undispatched' = undispatched /\ queue' = queue
      /\ abandoned' = abandoned /\ during' = during
  BY DEF MemberRunEnds
<1>3. CASE Retries(turn, out, reacted)
  <2>1. /\ turn' = [turn EXCEPT !.attempt = @ + 1] /\ dmPreempted' = FALSE
        /\ history' = history /\ shown' = shown
    BY <1>3 DEF MemberRunEnds
  <2>2. turn.attempt + 1 \in 1 .. Attempts
    BY <1>1, <1>3, RunningTurnFields DEF Retries, Attempts
  <2>3. /\ turn' \in RunningTurn /\ turn'.epoch = turn.epoch /\ turn'.total = turn.total
        /\ turn'.basis = turn.basis /\ turn'.speakers = turn.speakers
        /\ turn'.phase = turn.phase
    BY <1>1, <2>1, <2>2 DEF RunningTurn
  <2>4. TypeOK'
    BY <1>2, <2>1, <2>3 DEF RoomInv, TypeOK, RunningTurn
  <2>5. UserHasWritten' /\ EpochsAdvance' /\ PostsCounted' /\ PostsBounded'
    BY <1>2, <2>1, <2>3 DEF RoomInv, UserHasWritten, EpochsAdvance, PostsCounted,
                            PostsBounded, Running
  <2>6. PlannedBefore' /\ NoBystanderWoken'
    BY <1>2, <2>1, <2>3 DEF RoomInv, PlannedBefore, NoBystanderWoken, Running
  <2> QED BY <2>4, <2>5, <2>6 DEF RoomInv
<1>4. CASE ~Retries(turn, out, reacted)
  <2>1. history' = h /\ turn' = n /\ Prompt(n, h)
    BY <1>4 DEF MemberRunEnds, AfterRun
  <2>2. /\ h \in Seq(RoomMessage(epoch)) /\ HasUserMessage(h)
        /\ n \in RunningTurn \/ n \in EndedTurn
        /\ n.epoch = turn.epoch /\ n.basis <= Len(h)
        /\ n.phase # "idle" =>
              /\ n \in RunningTurn
              /\ n.total = turn.total + Len(p)
              /\ \A i \in DOMAIN n.speakers : Known(SubSeq(h, 1, n.basis), n.speakers[i])
    BY <1>1, TurnMovesOn DEF RoomInv
  <2>3. /\ p \in Seq(RoomMessage(epoch)) /\ Len(p) \in 0 .. GROUP_MAX_MEMBER_TURNS - turn.total
        /\ \A i \in 1 .. Len(p) : p[i].epoch = turn.epoch
    <3>1. /\ turn.epoch \in 0 .. epoch /\ turn.speakers \in Seq(Member) \ {<<>>}
          /\ turn.total \in 0 .. GROUP_MAX_MEMBER_TURNS
      BY <1>1, RunningTurnFields, GroupAssumption
    <3> QED BY <1>1, <3>1, PostsAre
  <2> HIDE DEF p, n
  <2>4. DOMAIN history \subseteq DOMAIN h /\ \A i \in DOMAIN history : h[i] = history[i]
    BY <1>1, <2>3, HistoryGrows
  <2>5. /\ CountOf(h, turn.epoch) <= CountOf(history, turn.epoch) + Len(p)
        /\ \A y \in Nat : y # turn.epoch => CountOf(h, y) = CountOf(history, y)
    <3>1. turn.epoch \in Nat
      BY <1>1
    <3> QED BY <1>1, <2>3, <3>1, CountOfConcat
  <2>6. CountOf(h, turn.epoch) \in Nat /\ CountOf(history, turn.epoch) \in Nat
    BY <1>1, <2>2, CountOfType
  <2>7. \A i \in DOMAIN h : i \in DOMAIN history \/ h[i].epoch = turn.epoch
    <3> SUFFICES ASSUME NEW i \in DOMAIN h, i \notin DOMAIN history PROVE h[i].epoch = turn.epoch
      OBVIOUS
    <3>1. i - Len(history) \in 1 .. Len(p) /\ h[i] = p[i - Len(history)]
      BY <1>1, <2>3
    <3> QED BY <2>3, <3>1
  <2> HIDE DEF h
  <2>8. turn.total \in 0 .. GROUP_MAX_MEMBER_TURNS - 1 /\ GROUP_MAX_MEMBER_TURNS \in Nat
    BY <1>1, RunningTurnFields, GroupAssumption
  <2>9. /\ CountOf(h, turn.epoch) <= turn.total + Len(p)
        /\ CountOf(h, turn.epoch) <= GROUP_MAX_MEMBER_TURNS
    <3>1. CountOf(history, turn.epoch) <= turn.total
      BY <1>1 DEF RoomInv, PostsCounted
    <3> QED BY <2>3, <2>5, <2>6, <2>8, <3>1
  <2>10. TypeOK'
    <3>1. (turn \in RunningTurn \/ turn \in EndedTurn)'
      BY <1>2, <2>1, <2>2 DEF RunningTurn, EndedTurn
    <3>2. (\A t \in abandoned : t \in RunningTurn)'
      BY <1>2 DEF RoomInv, TypeOK, RunningTurn
    <3>3. n.phase # "idle" => n.speakers \in Seq(Member) /\ n.speakers # <<>>
      BY <2>2, RunningTurnFields
    <3>4. shown' \in [Member -> SUBSET DOMAIN h] /\ dmPreempted' \in BOOLEAN
      BY <2>1, <2>4, <3>3, PromptKeepsTypes DEF RoomInv, TypeOK
    <3>5. during' \in [Member -> SUBSET DOMAIN history']
      BY <1>2, <2>1, <2>4 DEF RoomInv, TypeOK
    <3> QED BY <1>1, <1>2, <2>1, <2>2, <3>1, <3>2, <3>4, <3>5 DEF RoomInv, TypeOK, RoomMessage
  <2>11. UserHasWritten'
    BY <2>1, <2>2 DEF UserHasWritten
  <2>12. EpochsAdvance'
    BY <1>1, <1>2, <2>1, <2>2 DEF RoomInv, EpochsAdvance
  <2>13. PostsCounted'
    <3>1. (Running => CountOf(history, turn.epoch) <= turn.total)'
      BY <2>1, <2>2, <2>9 DEF Running
    <3>2. \A t \in abandoned : t.epoch \in Nat /\ t.epoch # turn.epoch
      BY <1>1, RunningTurnFields DEF RoomInv, EpochsAdvance, TypeOK
    <3>3. (\A t \in abandoned : CountOf(history, t.epoch) <= t.total)'
      BY <1>2, <2>1, <2>5, <3>2 DEF RoomInv, PostsCounted
    <3>4. (\A i \in DOMAIN history : history[i].epoch <= turn.epoch)'
      BY <1>1, <2>1, <2>2, <2>4, <2>7 DEF RoomInv, PostsCounted
    <3> QED BY <3>1, <3>3, <3>4 DEF PostsCounted
  <2>14. PostsBounded'
    <3>1. \A e \in 1 .. epoch : e \in Nat /\ CountOf(history, e) <= GROUP_MAX_MEMBER_TURNS
      BY <1>1 DEF RoomInv, PostsBounded, CountOf
    <3>2. \A e \in 1 .. epoch : CountOf(h, e) <= GROUP_MAX_MEMBER_TURNS
      BY <2>5, <2>9, <3>1
    <3> QED BY <1>2, <2>1, <3>2 DEF PostsBounded, CountOf
  <2>15. PlannedBefore' /\ NoBystanderWoken'
    BY <2>1, <2>2 DEF PlannedBefore, NoBystanderWoken, Running
  <2> QED BY <2>10, <2>11, <2>12, <2>13, <2>14, <2>15 DEF RoomInv
<1> QED BY <1>3, <1>4

LEMMA GiveUpKeeps ==
    ASSUME RoomInv, GiveUpRoomTurn
    PROVE  RoomInv'
<1>1. /\ epoch \in Nat /\ turn \in RunningTurn /\ Running
      /\ Len(history) \in Nat /\ turn.epoch \in 1 .. epoch /\ turn.basis \in Nat
  BY TurnTypes, RunningTurnFields DEF RoomInv, GiveUpRoomTurn
<1>2. /\ epoch' = epoch /\ undispatched' = undispatched /\ queue' = queue
      /\ history' = history /\ shown' = shown /\ during' = during
      /\ dmPreempted' = FALSE /\ abandoned' = abandoned \cup {turn}
      /\ turn' = Ended(turn.epoch, "superseded", turn.basis)
  BY DEF GiveUpRoomTurn
<1>3. /\ turn' \in EndedTurn /\ turn'.epoch = turn.epoch /\ turn'.basis = turn.basis
      /\ ~Running'
  <2>1. turn.epoch \in 0 .. epoch
    BY <1>1
  <2> QED BY <1>1, <1>2, <2>1, EndedIs DEF Running
<1>4. TypeOK'
  <2>1. (turn \in RunningTurn \/ turn \in EndedTurn)'
    BY <1>2, <1>3 DEF EndedTurn
  <2>2. (\A t \in abandoned : t \in RunningTurn)'
    BY <1>1, <1>2 DEF RoomInv, TypeOK, RunningTurn
  <2> QED BY <1>2, <2>1, <2>2 DEF RoomInv, TypeOK
<1>5. EpochsAdvance'
  <2>1. (\A t \in abandoned : t.epoch <= turn.epoch)'
    BY <1>1, <1>2, <1>3 DEF RoomInv, EpochsAdvance
  <2>2. (\A s, t \in abandoned : s.epoch = t.epoch => s = t)'
    BY <1>1, <1>2 DEF RoomInv, EpochsAdvance
  <2> QED BY <1>2, <1>3, <2>1, <2>2 DEF RoomInv, EpochsAdvance
<1>6. PostsCounted'
  BY <1>1, <1>2, <1>3 DEF RoomInv, PostsCounted
<1>7. UserHasWritten' /\ PostsBounded' /\ PlannedBefore' /\ NoBystanderWoken'
  BY <1>2, <1>3 DEF RoomInv, UserHasWritten, PostsBounded, PlannedBefore, NoBystanderWoken
<1> QED BY <1>4, <1>5, <1>6, <1>7 DEF RoomInv

\* A member of an abandoned turn finishes, and what it said is posted late.
LEMMA AbandonedEndsKeeps ==
    ASSUME RoomInv, NEW t, NEW out \in Output, AbandonedRunEnds(t, out)
    PROVE  RoomInv'
<1> DEFINE p == Posts(t, out)
           h == history \o p
<1>1. /\ epoch \in Nat /\ undispatched \in Nat
      /\ history \in Seq(RoomMessage(epoch)) /\ Len(history) \in Nat
      /\ turn.epoch \in 0 .. epoch /\ turn.basis \in Nat
  BY TurnTypes DEF RoomInv
<1>2. /\ epoch' = epoch /\ undispatched' = undispatched /\ queue' = queue
      /\ turn' = turn /\ dmPreempted' = dmPreempted /\ shown' = shown /\ during' = during
      /\ abandoned' = abandoned \ {t} /\ t \in abandoned /\ history' = h
  BY DEF AbandonedRunEnds
<1>3. /\ t \in RunningTurn /\ t.epoch \in 1 .. epoch
      /\ t.total \in 0 .. GROUP_MAX_MEMBER_TURNS - 1 /\ GROUP_MAX_MEMBER_TURNS \in Nat
  BY <1>2, RunningTurnFields, GroupAssumption DEF RoomInv, TypeOK
<1>4. /\ p \in Seq(RoomMessage(epoch)) /\ Len(p) \in 0 .. GROUP_MAX_MEMBER_TURNS - t.total
      /\ \A i \in 1 .. Len(p) : p[i].epoch = t.epoch
  <2>1. /\ t.epoch \in 0 .. epoch /\ t.speakers \in Seq(Member) \ {<<>>}
        /\ t.total \in 0 .. GROUP_MAX_MEMBER_TURNS
    BY <1>1, <1>3, RunningTurnFields
  <2> QED BY <1>1, <2>1, PostsAre
<1> HIDE DEF p
<1>5. /\ h \in Seq(RoomMessage(epoch)) /\ Len(h) = Len(history) + Len(p)
      /\ HasUserMessage(history) => HasUserMessage(h)
      /\ DOMAIN history \subseteq DOMAIN h
      /\ \A i \in DOMAIN history : h[i] = history[i]
      /\ \A b \in 0 .. Len(history) : SubSeq(h, 1, b) = SubSeq(history, 1, b)
  BY <1>1, <1>4, HistoryGrows
<1>6. /\ CountOf(h, t.epoch) <= CountOf(history, t.epoch) + Len(p)
      /\ \A y \in Nat : y # t.epoch => CountOf(h, y) = CountOf(history, y)
  <2>1. t.epoch \in Nat
    BY <1>3
  <2> QED BY <1>1, <1>4, <2>1, CountOfConcat
<1>7. CountOf(h, t.epoch) \in Nat /\ CountOf(history, t.epoch) \in Nat
  BY <1>1, <1>5, CountOfType
<1>8. \A i \in DOMAIN h : i \in DOMAIN history \/ h[i].epoch = t.epoch
  <2> SUFFICES ASSUME NEW i \in DOMAIN h, i \notin DOMAIN history PROVE h[i].epoch = t.epoch
    OBVIOUS
  <2>1. i - Len(history) \in 1 .. Len(p) /\ h[i] = p[i - Len(history)]
    BY <1>1, <1>4
  <2> QED BY <1>4, <2>1
<1> HIDE DEF h
<1>9. CountOf(h, t.epoch) <= GROUP_MAX_MEMBER_TURNS
  <2>1. CountOf(history, t.epoch) <= t.total
    BY <1>2 DEF RoomInv, PostsCounted
  <2> QED BY <1>3, <1>4, <1>6, <1>7, <2>1
<1>10. TypeOK'
  <2>1. (turn \in RunningTurn \/ turn \in EndedTurn)'
    BY <1>2 DEF RoomInv, TypeOK, RunningTurn, EndedTurn
  <2>2. (\A s \in abandoned : s \in RunningTurn)'
    BY <1>2 DEF RoomInv, TypeOK, RunningTurn
  <2>3. /\ shown' \in [Member -> SUBSET DOMAIN history']
        /\ during' \in [Member -> SUBSET DOMAIN history']
    BY <1>2, <1>5 DEF RoomInv, TypeOK
  <2> QED BY <1>1, <1>2, <1>5, <2>1, <2>2, <2>3 DEF RoomInv, TypeOK, RoomMessage
<1>11. UserHasWritten'
  BY <1>2, <1>5 DEF RoomInv, UserHasWritten
<1>12. EpochsAdvance'
  BY <1>2 DEF RoomInv, EpochsAdvance, Running
<1>13. PostsCounted'
  <2>1. Running => turn.epoch \in Nat /\ turn.epoch # t.epoch
    BY <1>1, <1>2 DEF RoomInv, EpochsAdvance
  <2>2. (Running => CountOf(history, turn.epoch) <= turn.total)'
    BY <1>2, <1>6, <2>1 DEF RoomInv, PostsCounted, Running
  <2>3. \A s \in abandoned \ {t} : s.epoch \in Nat /\ s.epoch # t.epoch
    BY <1>2, RunningTurnFields DEF RoomInv, EpochsAdvance, TypeOK
  <2>4. (\A s \in abandoned : CountOf(history, s.epoch) <= s.total)'
    BY <1>2, <1>6, <2>3 DEF RoomInv, PostsCounted
  <2>5. t.epoch <= turn.epoch
    BY <1>2 DEF RoomInv, EpochsAdvance
  <2>6. (\A i \in DOMAIN history : history[i].epoch <= turn.epoch)'
    BY <1>2, <1>5, <1>8, <2>5 DEF RoomInv, PostsCounted
  <2> QED BY <2>2, <2>4, <2>6 DEF PostsCounted
<1>14. PostsBounded'
  <2>1. \A e \in 1 .. epoch : e \in Nat /\ CountOf(history, e) <= GROUP_MAX_MEMBER_TURNS
    BY <1>1 DEF RoomInv, PostsBounded, CountOf
  <2>2. \A e \in 1 .. epoch : CountOf(h, e) <= GROUP_MAX_MEMBER_TURNS
    BY <1>6, <1>9, <2>1
  <2> QED BY <1>2, <2>2 DEF PostsBounded, CountOf
<1>15. PlannedBefore'
  BY <1>1, <1>2, <1>4, <1>5 DEF RoomInv, PlannedBefore
<1>16. NoBystanderWoken'
  <2>1. SubSeq(h, 1, turn.basis) = SubSeq(history, 1, turn.basis)
    BY <1>1, <1>5 DEF RoomInv, PlannedBefore
  <2> QED BY <1>2, <2>1 DEF RoomInv, NoBystanderWoken, Running
<1> QED BY <1>10, <1>11, <1>12, <1>13, <1>14, <1>15, <1>16 DEF RoomInv

LEMMA StepKeepsRoom == RoomInv /\ [Next]_vars => RoomInv'
<1> SUFFICES ASSUME RoomInv, [Next]_vars PROVE RoomInv'
  OBVIOUS
<1>1. ASSUME NEW c \in UserContent, EchoSend(c) PROVE RoomInv'
  BY <1>1, EchoKeeps
<1>2. CASE DispatchSend
  BY <1>2, DispatchKeeps
<1>3. CASE StartRoomTurn
  BY <1>3, StartKeeps
<1>4. CASE DirectMessage
  <2>1. dmPreempted' \in BOOLEAN
    BY <1>4 DEF DirectMessage
  <2> QED BY <1>4, <2>1 DEF DirectMessage, RoomInv, TypeOK, RunningTurn, EndedTurn,
              UserHasWritten, EpochsAdvance, PostsCounted, PostsBounded, PlannedBefore,
              NoBystanderWoken, Running
<1>5. CASE GiveUpRoomTurn
  BY <1>5, GiveUpKeeps
<1>6. ASSUME NEW out \in Output, NEW reacted \in BOOLEAN, MemberRunEnds(out, reacted)
      PROVE  RoomInv'
  BY <1>6, RunEndsKeeps
<1>7. ASSUME NEW out \in Output, NEW t \in abandoned, AbandonedRunEnds(t, out)
      PROVE  RoomInv'
  BY <1>7, AbandonedEndsKeeps
<1>8. CASE UNCHANGED vars
  BY <1>8 DEF vars, RoomInv, TypeOK, RunningTurn, EndedTurn, UserHasWritten, EpochsAdvance,
              PostsCounted, PostsBounded, PlannedBefore, NoBystanderWoken, Running
<1> QED BY <1>1, <1>2, <1>3, <1>4, <1>5, <1>6, <1>7, <1>8 DEF Next

LEMMA RoomHolds == Spec => []RoomInv
BY InitRoom, StepKeepsRoom, PTL DEF Spec

(***************************************************************************)
(* One room turn posts at most GROUP_MAX_MEMBER_TURNS messages, whatever   *)
(* its members send, although a turn that the watchdog gave up posts late  *)
(* and next to its successors; rounds, sweeps and attempts stay in range.  *)
(***************************************************************************)
THEOREM TurnAlwaysBounded == Spec => []TurnIsBounded
<1>1. RoomInv => TurnIsBounded
  BY DEF RoomInv, TurnIsBounded
<1> QED BY <1>1, RoomHolds, PTL

(***************************************************************************)
(* A member that runs was named, or has spoken, or the user called all, in *)
(* the history its phase was planned from.                                 *)
(***************************************************************************)
THEOREM NoBystanderEverWoken == Spec => []NoBystanderWoken
<1>1. RoomInv => NoBystanderWoken
  BY DEF RoomInv
<1> QED BY <1>1, RoomHolds, PTL

(***************************************************************************)
(* Each run of a member brings its room turn strictly closer to its end,   *)
(* in an order that has no infinite descent.                               *)
(***************************************************************************)
THEOREM RoomTurnAlwaysEnds == Spec => RoomTurnEnds
<1>1. ASSUME RoomInv, NEW out \in Output, NEW reacted \in BOOLEAN,
             MemberRunEnds(out, reacted), Running'
      PROVE  Closer(Remaining(turn'), Remaining(turn))
  <2>1. turn \in RunningTurn /\ Running
    BY <1>1, TurnTypes DEF RoomInv, MemberRunEnds
  <2>2. CASE Retries(turn, out, reacted)
    <3>1. turn' = [turn EXCEPT !.attempt = @ + 1]
      BY <1>1, <2>2 DEF MemberRunEnds
    <3>2. /\ turn'.total = turn.total /\ turn'.posts = turn.posts /\ turn'.phase = turn.phase
          /\ turn'.speakers = turn.speakers /\ turn'.attempt = turn.attempt + 1
          /\ turn.attempt \in Int
      BY <2>1, <3>1 DEF RunningTurn
    <3>3. \A j \in 1 .. 4 : Remaining(turn')[j] = Remaining(turn)[j]
      BY <3>2 DEF Remaining
    <3>4. Remaining(turn')[5] < Remaining(turn)[5]
      BY <3>2 DEF Remaining, Attempts
    <3> QED BY <3>3, <3>4 DEF Closer
  <2>3. CASE ~Retries(turn, out, reacted)
    <3>1. turn' = NextSpeaker(AfterRun(out), history \o Posts(turn, out))
      BY <1>1, <2>3 DEF MemberRunEnds, AfterRun
    <3> QED BY <1>1, <2>1, <3>1, TurnMovesOn DEF RoomInv, Running
  <2> QED BY <2>2, <2>3
<1>2. RoomInv /\ [Next]_vars =>
         [\A out \in Output, reacted \in BOOLEAN :
              MemberRunEnds(out, reacted) /\ Running' =>
                  Closer(Remaining(turn'), Remaining(turn))]_vars
  BY <1>1
<1> QED BY <1>2, RoomHolds, PTL DEF Spec, RoomTurnEnds

-----------------------------------------------------------------------------
(***************************************************************************)
(* What reaches a member.  The second invariant, on top of the first.      *)
(***************************************************************************)
\* A member that runs, or has spoken later, or was shown something later,
\* has been told what the user wrote.
RunnersTold == \A m \in RunningMembers : \A i \in UserMessages : Told(m, i)
SpeakersTold ==
    \A m \in Member : \A i \in UserMessages : i <= LastBy(history, m) => Told(m, i)
ShownTold ==
    \A m \in Member : \A i \in UserMessages : \A j \in shown[m] : i < j => Told(m, i)

\* The last send is queued, or it is the turn's.
LastIsQueued ==
    IF queue = <<>> THEN turn.epoch = epoch ELSE queue[Len(queue)] = epoch

\* Whom the user's last message calls is told, or its turn will come.
Quiet == turn.phase = "idle" /\ turn.how = "quiet"
CalledAreTold ==
    undispatched = 0 /\ queue = <<>> /\ (Running \/ Quiet) =>
        \A m \in Member :
            Called(m) => \/ Told(m, LastBy(history, User))
                         \/ Running /\ m \in ToSet(Tail(turn.speakers))

\* Messages of the user belong to no room turn, and a phase without posts
\* has added none to its own.
UserIsNoTurn == \A i \in UserMessages : history[i].epoch = 0
SilentSoFar ==
    Running /\ turn.posts = 0 =>
        \A i \in turn.basis + 1 .. Len(history) : history[i].epoch # turn.epoch

\* In the wind-down, whom a message of the turn names hears it, or its turn
\* in the relay will come.
HandoffsHeard ==
    turn.phase \in {"relay", "closing"} \/ Quiet =>
        \A i \in Exchange(history) \cap 1 .. turn.basis :
            history[i].epoch = turn.epoch =>
                \A m \in ToSet(history[i].to) \ {history[i].by} :
                    \/ Heard(m, i)
                    \/ turn.phase = "relay" /\ m \in ToSet(Tail(turn.speakers))

HearInv ==
    /\ RunnersTold /\ SpeakersTold /\ ShownTold /\ LastIsQueued /\ CalledAreTold
    /\ UserIsNoTurn /\ SilentSoFar /\ HandoffsHeard

LEMMA LastByGrows ==
    ASSUME NEW T, NEW h \in Seq(T), NEW g \in Seq(T), NEW who,
           DOMAIN h \subseteq DOMAIN g, \A i \in DOMAIN h : g[i] = h[i]
    PROVE  /\ LastBy(h, who) <= LastBy(g, who)
           /\ (\A i \in DOMAIN g \ DOMAIN h : g[i].by # who) => LastBy(g, who) = LastBy(h, who)
           /\ LastBy(g, who) \in DOMAIN h => LastBy(g, who) = LastBy(h, who)
<1> DEFINE a == LastBy(h, who)
           b == LastBy(g, who)
<1>1. /\ a \in 0 .. Len(h) /\ (a > 0 => h[a].by = who)
      /\ \A i \in DOMAIN h : h[i].by = who => i <= a
  BY LastByIs
<1>2. /\ b \in 0 .. Len(g) /\ (b > 0 => g[b].by = who)
      /\ \A i \in DOMAIN g : g[i].by = who => i <= b
  BY LastByIs
<1>3. /\ Len(h) \in Nat /\ Len(g) \in Nat /\ DOMAIN h = 1 .. Len(h) /\ DOMAIN g = 1 .. Len(g)
  OBVIOUS
<1> HIDE DEF a, b
<1>4. a <= b
  <2>1. CASE a = 0
    BY <1>2, <1>3, <2>1
  <2>2. CASE a # 0
    <3>1. a \in DOMAIN h /\ h[a].by = who
      BY <1>1, <1>3, <2>2
    <3> QED BY <1>2, <3>1
  <2> QED BY <2>1, <2>2
<1>5. b \in DOMAIN h => b = a
  <2> SUFFICES ASSUME b \in DOMAIN h PROVE b = a
    OBVIOUS
  <2>1. h[b].by = who
    BY <1>2, <1>3
  <2>2. b <= a
    BY <1>1, <2>1
  <2> QED BY <1>1, <1>2, <1>3, <1>4, <2>2
<1>6. (\A i \in DOMAIN g \ DOMAIN h : g[i].by # who) => b = a
  <2> SUFFICES ASSUME \A i \in DOMAIN g \ DOMAIN h : g[i].by # who PROVE b = a
    OBVIOUS
  <2>1. CASE b = 0
    BY <1>1, <1>3, <1>4, <2>1
  <2>2. CASE b # 0
    <3>1. b \in DOMAIN g /\ g[b].by = who
      BY <1>2, <1>3, <2>2
    <3> QED BY <1>5, <3>1
  <2> QED BY <2>1, <2>2
<1> QED BY <1>4, <1>5, <1>6 DEF a, b

\* Nothing is forgotten.
Grows ==
    /\ DOMAIN history \subseteq DOMAIN history'
    /\ \A i \in DOMAIN history : history'[i] = history[i]
    /\ \A m \in Member : shown[m] \subseteq shown'[m] /\ during[m] \subseteq during'[m]

LEMMA ToldStays ==
    ASSUME TypeOK, TypeOK', Grows, NEW m \in Member, NEW i \in Int
    PROVE  /\ Len(history) <= Len(history')
           /\ Told(m, i) => Told(m, i)'
           /\ Heard(m, i) => Heard(m, i)'
           /\ LastBy(history, m) <= LastBy(history', m)
<1>1. /\ history \in Seq([by : Member \cup {User}, to : Seq(Member),
                          everyone : BOOLEAN, epoch : 0 .. epoch])
      /\ history' \in Seq([by : Member \cup {User}, to : Seq(Member),
                          everyone : BOOLEAN, epoch : 0 .. epoch'])
  BY DEF TypeOK
<1>2. /\ Len(history) \in Nat /\ DOMAIN history = 1 .. Len(history)
      /\ Len(history') \in Nat /\ DOMAIN history' = 1 .. Len(history')
      /\ history \in Seq(ToSet(history) \cup ToSet(history'))
      /\ history' \in Seq(ToSet(history) \cup ToSet(history'))
  BY <1>1 DEF ToSet
<1>3. Len(history) <= Len(history')
  BY <1>2 DEF Grows
<1>4. LastBy(history, m) <= LastBy(history', m)
  BY <1>2, LastByGrows DEF Grows
<1>5. LastBy(history, m) \in Nat /\ LastBy(history', m) \in Nat
  BY <1>2, LastByIs
<1>6. GROUP_PROMPT_HISTORY_LIMIT \in Nat
  BY GroupAssumption
<1>7. BeyondPrompts(i) => BeyondPrompts(i)'
  BY <1>2, <1>3, <1>6 DEF BeyondPrompts
<1> QED BY <1>3, <1>4, <1>5, <1>7 DEF Told, Heard, Grows

\* A step of the room's own: members that run may post, and a member that
\* is woken, or shown something, is shown all that is new to it.
Wakes(m) ==
    /\ Running' /\ m = Head(turn'.speakers)
    /\ NewMessages(history', m) \subseteq shown'[m]
MembersStep ==
    /\ Grows /\ during' = during
    /\ \A i \in DOMAIN history' \ DOMAIN history : history'[i].by \in RunningMembers
    /\ \A m \in RunningMembers' : m \in RunningMembers \/ Wakes(m)
    /\ \A m \in Member : shown'[m] = shown[m] \/ Wakes(m)

LEMMA RunningMembersAre ==
    TypeOK => RunningMembers \subseteq Member /\ User \notin RunningMembers
<1> SUFFICES ASSUME TypeOK PROVE RunningMembers \subseteq Member /\ User \notin RunningMembers
  OBVIOUS
<1>1. \A t \in RunningTurn : Head(t.speakers) \in Member
  BY RunningTurnFields, OthersFollow
<1>2. \A t \in abandoned : Head(t.speakers) \in Member
  BY <1>1 DEF TypeOK
<1>3. Running => Speaker \in Member
  BY <1>1, TurnTypes DEF Speaker
<1>4. User \notin Member
  BY GroupAssumption
<1> QED BY <1>2, <1>3, <1>4 DEF RunningMembers

LEMMA NextRunningMembersAre == TypeOK' => RunningMembers' \subseteq Member
<1>1. (TypeOK => RunningMembers \subseteq Member /\ User \notin RunningMembers)'
  BY RunningMembersAre, PTL
<1> QED BY <1>1

\* A sequence is one of any set that holds its elements.
LEMMA OwnElements ==
    ASSUME NEW T, NEW s \in Seq(T), NEW U, ToSet(s) \subseteq U
    PROVE  s \in Seq(U)
BY DEF ToSet

LEMMA MembersKeepTold ==
    ASSUME TypeOK, TypeOK', MembersStep, RunnersTold, SpeakersTold, ShownTold
    PROVE  UserMessages' = UserMessages /\ RunnersTold' /\ SpeakersTold' /\ ShownTold'
<1>1. /\ Len(history) \in Nat /\ DOMAIN history = 1 .. Len(history)
      /\ Len(history') \in Nat /\ DOMAIN history' = 1 .. Len(history')
      /\ Grows
      /\ RunningMembers \subseteq Member /\ User \notin RunningMembers
      /\ RunningMembers' \subseteq Member
  BY RunningMembersAre, NextRunningMembersAre DEF TypeOK, MembersStep
<1>2. UserMessages' = UserMessages /\ UserMessages \subseteq DOMAIN history
  BY <1>1 DEF UserMessages, MembersStep, Grows
<1>3. \A i \in UserMessages : i \in Int
  BY <1>1, <1>2
<1>4. \A m \in Member : \A i \in UserMessages : Told(m, i) => Told(m, i)'
  BY <1>1, <1>3, ToldStays
<1>5. SpeakersTold'
  <2> SUFFICES ASSUME NEW m \in Member, NEW i \in UserMessages, i <= LastBy(history', m)
               PROVE  Told(m, i)'
    BY <1>2 DEF SpeakersTold
  <2>0. history \in Seq(ToSet(history) \cup ToSet(history')) /\ history' \in Seq(ToSet(history) \cup ToSet(history'))
    BY OwnElements DEF TypeOK
  <2>1. CASE m \in RunningMembers
    BY <1>4, <2>1 DEF RunnersTold
  <2>2. CASE m \notin RunningMembers
    <3>1. \A j \in DOMAIN history' \ DOMAIN history : history'[j].by # m
      BY <2>2 DEF MembersStep
    <3>2. LastBy(history', m) = LastBy(history, m)
      BY <1>1, <2>0, <3>1, LastByGrows DEF Grows
    <3> QED BY <1>4, <3>2 DEF SpeakersTold
  <2> QED BY <2>1, <2>2
<1>6. ASSUME NEW m \in Member, NEW i \in UserMessages, Wakes(m)
      PROVE  Told(m, i)'
  <2>1. i \in DOMAIN history' /\ i \in Int
    BY <1>1, <1>2, <1>3 DEF Grows
  <2>2. CASE i <= LastBy(history', m)
    BY <1>2, <1>5, <2>2 DEF SpeakersTold
  <2>3. CASE i <= Len(history') - GROUP_PROMPT_HISTORY_LIMIT
    BY <2>3 DEF Told, BeyondPrompts
  <2>4. CASE ~(i <= LastBy(history', m)) /\ ~(i <= Len(history') - GROUP_PROMPT_HISTORY_LIMIT)
    <3>1. LastBy(history', m) \in Int /\ GROUP_PROMPT_HISTORY_LIMIT \in Int
      <4>1. history' \in Seq(ToSet(history'))
        BY OwnElements DEF TypeOK
      <4> QED BY <1>1, <4>1, LastByIs, GroupAssumption
    <3>2. i \in NewMessages(history', m)
      BY <1>1, <2>1, <2>4, <3>1 DEF NewMessages
    <3> QED BY <1>6, <3>2 DEF Wakes, Told
  <2> QED BY <2>2, <2>3, <2>4
<1>7. RunnersTold'
  <2> SUFFICES ASSUME NEW m \in RunningMembers', NEW i \in UserMessages PROVE Told(m, i)'
    BY <1>2 DEF RunnersTold
  <2>1. m \in Member
    BY <1>1
  <2>2. CASE m \in RunningMembers
    BY <1>4, <2>1, <2>2 DEF RunnersTold
  <2>3. CASE Wakes(m)
    BY <1>6, <2>1, <2>3
  <2> QED BY <2>2, <2>3 DEF MembersStep
<1>8. ShownTold'
  <2> SUFFICES ASSUME NEW m \in Member, NEW i \in UserMessages, NEW j \in shown'[m], i < j
               PROVE  Told(m, i)'
    BY <1>2 DEF ShownTold
  <2>1. CASE shown'[m] = shown[m]
    BY <1>4, <2>1 DEF ShownTold
  <2>2. CASE Wakes(m)
    BY <1>6, <2>2
  <2> QED BY <2>1, <2>2 DEF MembersStep
<1> QED BY <1>2, <1>5, <1>7, <1>8

LEMMA EchoKeepsTold ==
    ASSUME TypeOK, TypeOK', NEW c \in UserContent, EchoSend(c),
           RunnersTold, SpeakersTold, ShownTold
    PROVE  /\ UserMessages' = UserMessages \cup {Len(history')}
           /\ LastBy(history', User) = Len(history')
           /\ Grows /\ RunnersTold' /\ SpeakersTold' /\ ShownTold'
<1>1. /\ Len(history) \in Nat /\ DOMAIN history = 1 .. Len(history)
      /\ history' = Append(history, Message(User, c, 0))
      /\ turn' = turn /\ abandoned' = abandoned /\ shown' = shown
      /\ during' = [m \in Member |-> IF m \in RunningMembers
                                     THEN during[m] \cup {Len(history')} ELSE during[m]]
      /\ RunningMembers \subseteq Member /\ User \notin Member
  BY RunningMembersAre, GroupAssumption DEF TypeOK, EchoSend
<1>2. /\ Len(history') = Len(history) + 1 /\ DOMAIN history' = 1 .. Len(history) + 1
      /\ \A i \in DOMAIN history : i \in DOMAIN history' /\ history'[i] = history[i]
      /\ history'[Len(history')] = Message(User, c, 0)
      /\ \A i \in DOMAIN history' \ DOMAIN history : i = Len(history')
  BY <1>1 DEF TypeOK
<1>3. history'[Len(history')].by = User
  BY <1>2 DEF Message
<1>4. Grows
  BY <1>1, <1>2 DEF Grows, TypeOK
<1>5. UserMessages' = UserMessages \cup {Len(history')} /\ UserMessages \subseteq DOMAIN history
  BY <1>1, <1>2, <1>3 DEF UserMessages
<1>6. \A i \in UserMessages' : i \in Int
  BY <1>1, <1>2, <1>5
<1>7. \A m \in Member : \A i \in UserMessages : Told(m, i) => Told(m, i)'
  BY <1>4, <1>5, <1>6, ToldStays
<1>8. history' \in Seq(ToSet(history')) /\ history \in Seq(ToSet(history'))
  <2>1. ToSet(history) \subseteq ToSet(history')
    BY <1>2 DEF ToSet
  <2> QED BY <2>1, OwnElements DEF TypeOK
<1>9. LastBy(history', User) = Len(history')
  <2>0. Len(history') \in DOMAIN history' /\ history'[Len(history')].by = User
    BY <1>1, <1>2, <1>3
  <2>1. Len(history') <= LastBy(history', User) /\ LastBy(history', User) \in 0 .. Len(history')
    BY <1>8, <2>0, LastByIs
  <2> QED BY <1>1, <1>2, <2>1
<1>10. RunnersTold'
  <2>1. RunningMembers' = RunningMembers
    BY <1>1 DEF RunningMembers, Running, Speaker
  <2>2. \A m \in RunningMembers : Told(m, Len(history))'
    BY <1>1 DEF Told
  <2> QED BY <1>1, <1>5, <1>7, <2>1, <2>2 DEF RunnersTold
<1>11. SpeakersTold'
  <2> SUFFICES ASSUME NEW m \in Member, NEW i \in UserMessages', i <= LastBy(history', m)
               PROVE  Told(m, i)'
    BY DEF SpeakersTold
  <2>1. \A j \in DOMAIN history' \ DOMAIN history : history'[j].by # m
    BY <1>1, <1>2, <1>3
  <2>2. LastBy(history', m) = LastBy(history, m)
    BY <1>2, <1>4, <1>8, <2>1, LastByGrows DEF Grows
  <2>3. LastBy(history, m) \in 0 .. Len(history)
    BY <1>8, LastByIs
  <2>4. i \in UserMessages
    BY <1>1, <1>2, <1>5, <1>6, <2>2, <2>3
  <2> QED BY <1>7, <2>2, <2>4 DEF SpeakersTold
<1>12. ShownTold'
  <2> SUFFICES ASSUME NEW m \in Member, NEW i \in UserMessages', NEW j \in shown[m], i < j
               PROVE  Told(m, i)'
    BY <1>1 DEF ShownTold
  <2>1. j \in DOMAIN history
    BY DEF TypeOK
  <2>2. i \in UserMessages
    BY <1>1, <1>2, <1>5, <1>6, <2>1
  <2> QED BY <1>7, <2>2 DEF ShownTold
<1> QED BY <1>4, <1>5, <1>9, <1>10, <1>11, <1>12

LEMMA StillStep ==
    ASSUME TypeOK, history' = history, shown' = shown, during' = during,
           RunningMembers' \subseteq RunningMembers
    PROVE  MembersStep
BY DEF MembersStep, Grows

LEMMA PromptWakes ==
    ASSUME TypeOK, Prompt(turn', history'), Running' => turn'.speakers \in Seq(Member) \ {<<>>}
    PROVE  /\ \A m \in Member : shown[m] \subseteq shown'[m]
           /\ \A m \in Member : shown'[m] = shown[m] \/ Wakes(m)
           /\ Running' => Wakes(Head(turn'.speakers))
<1>1. CASE turn'.phase = "idle"
  BY <1>1 DEF Prompt, Running
<1>2. CASE turn'.phase # "idle"
  <2> DEFINE x == Head(turn'.speakers)
  <2>1. Running' /\ x \in Member
    BY <1>2 DEF Running
  <2>2. shown' = [shown EXCEPT ![x] = @ \cup NewMessages(history', x)]
    BY <1>2 DEF Prompt
  <2>3. shown \in [Member -> SUBSET DOMAIN history]
    BY DEF TypeOK
  <2> HIDE DEF x
  <2>4. /\ shown'[x] = shown[x] \cup NewMessages(history', x)
        /\ \A m \in Member \ {x} : shown'[m] = shown[m]
    BY <2>1, <2>2, <2>3
  <2> QED BY <2>1, <2>4 DEF Wakes, x
<1> QED BY <1>1, <1>2

LEMMA PostsByHead ==
    ASSUME TypeOK, NEW t \in RunningTurn, NEW out \in Output,
           history' = history \o Posts(t, out)
    PROVE  /\ DOMAIN history \subseteq DOMAIN history'
           /\ \A i \in DOMAIN history : history'[i] = history[i]
           /\ \A i \in DOMAIN history' \ DOMAIN history :
                 history'[i].by = Head(t.speakers) /\ history'[i].epoch = t.epoch
<1> DEFINE p == Posts(t, out)
<1>1. /\ epoch \in Nat /\ history \in Seq(RoomMessage(epoch)) /\ Len(history) \in Nat
      /\ DOMAIN history = 1 .. Len(history)
  BY TurnTypes
<1>2. /\ t.epoch \in 0 .. epoch /\ t.speakers \in Seq(Member) \ {<<>>}
      /\ t.total \in 0 .. GROUP_MAX_MEMBER_TURNS
  BY <1>1, RunningTurnFields, GroupAssumption
<1>3. /\ p \in Seq(RoomMessage(epoch))
      /\ \A i \in 1 .. Len(p) : p[i].by = Head(t.speakers) /\ p[i].epoch = t.epoch
  BY <1>1, <1>2, PostsAre
<1> HIDE DEF p
<1>4. history' = history \o p
  BY DEF p
<1>5. DOMAIN history \subseteq DOMAIN history' /\ \A i \in DOMAIN history : history'[i] = history[i]
  BY <1>1, <1>3, <1>4, HistoryGrows
<1>6. ASSUME NEW i \in DOMAIN history' \ DOMAIN history
      PROVE  history'[i].by = Head(t.speakers) /\ history'[i].epoch = t.epoch
  <2>1. i - Len(history) \in 1 .. Len(p) /\ history'[i] = p[i - Len(history)]
    BY <1>1, <1>3, <1>4
  <2> QED BY <1>3, <2>1
<1> QED BY <1>5, <1>6

LEMMA StartIsMembersStep ==
    ASSUME RoomInv, RoomInv', StartRoomTurn
    PROVE  MembersStep
<1>1. /\ history' = history /\ abandoned' = abandoned /\ during' = during /\ ~Running
      /\ Prompt(turn', history')
  BY DEF StartRoomTurn
<1>2. Running' => turn'.speakers \in Seq(Member) \ {<<>>}
  BY DEF RoomInv, TypeOK, Running, RunningTurn, EndedTurn
<1>3. /\ \A m \in Member : shown[m] \subseteq shown'[m]
      /\ \A m \in Member : shown'[m] = shown[m] \/ Wakes(m)
      /\ Running' => Wakes(Head(turn'.speakers))
  BY <1>1, <1>2, PromptWakes DEF RoomInv
<1>4. \A m \in RunningMembers' : m \in RunningMembers \/ (Running' /\ m = Head(turn'.speakers))
  BY <1>1 DEF RunningMembers, Speaker
<1> QED BY <1>1, <1>3, <1>4 DEF MembersStep, Grows

LEMMA RunEndIsMembersStep ==
    ASSUME RoomInv, RoomInv', NEW out \in Output, NEW reacted \in BOOLEAN,
           MemberRunEnds(out, reacted)
    PROVE  MembersStep
<1>1. /\ abandoned' = abandoned /\ during' = during /\ Running /\ turn \in RunningTurn
  BY TurnTypes DEF RoomInv, MemberRunEnds
<1>2. CASE Retries(turn, out, reacted)
  <2>1. /\ turn' = [turn EXCEPT !.attempt = @ + 1] /\ history' = history /\ shown' = shown
    BY <1>2 DEF MemberRunEnds
  <2>2. turn'.speakers = turn.speakers
    BY <1>1, <2>1 DEF RunningTurn
  <2>3. RunningMembers' \subseteq RunningMembers
    BY <1>1, <2>2 DEF RunningMembers, Speaker
  <2> QED BY <1>1, <2>1, <2>3, StillStep DEF RoomInv
<1>3. CASE ~Retries(turn, out, reacted)
  <2>1. history' = history \o Posts(turn, out) /\ Prompt(turn', history')
    BY <1>3 DEF MemberRunEnds
  <2>2. Running' => turn'.speakers \in Seq(Member) \ {<<>>}
    BY DEF RoomInv, TypeOK, Running, RunningTurn, EndedTurn
  <2>3. /\ \A m \in Member : shown[m] \subseteq shown'[m]
        /\ \A m \in Member : shown'[m] = shown[m] \/ Wakes(m)
        /\ Running' => Wakes(Head(turn'.speakers))
    BY <2>1, <2>2, PromptWakes DEF RoomInv
  <2>4. \A m \in RunningMembers' : m \in RunningMembers \/ (Running' /\ m = Head(turn'.speakers))
    BY <1>1 DEF RunningMembers, Speaker
  <2>5. /\ DOMAIN history \subseteq DOMAIN history'
        /\ \A i \in DOMAIN history : history'[i] = history[i]
        /\ \A i \in DOMAIN history' \ DOMAIN history : history'[i].by = Head(turn.speakers)
    BY <1>1, <2>1, PostsByHead DEF RoomInv
  <2>6. Head(turn.speakers) \in RunningMembers
    BY <1>1 DEF RunningMembers, Speaker
  <2> QED BY <1>1, <2>3, <2>4, <2>5, <2>6 DEF MembersStep, Grows
<1> QED BY <1>2, <1>3

LEMMA AbandonedIsMembersStep ==
    ASSUME RoomInv, NEW t, NEW out \in Output, AbandonedRunEnds(t, out)
    PROVE  MembersStep
<1>1. /\ history' = history \o Posts(t, out) /\ turn' = turn /\ during' = during /\ shown' = shown
      /\ abandoned' = abandoned \ {t} /\ t \in abandoned /\ t \in RunningTurn
  BY DEF AbandonedRunEnds, RoomInv, TypeOK
<1>2. RunningMembers' \subseteq RunningMembers /\ Head(t.speakers) \in RunningMembers
  BY <1>1 DEF RunningMembers, Running, Speaker
<1>3. /\ DOMAIN history \subseteq DOMAIN history'
      /\ \A i \in DOMAIN history : history'[i] = history[i]
      /\ \A i \in DOMAIN history' \ DOMAIN history : history'[i].by = Head(t.speakers)
  BY <1>1, PostsByHead DEF RoomInv
<1> QED BY <1>1, <1>2, <1>3 DEF MembersStep, Grows

LEMMA StepIsEchoOrMembers ==
    ASSUME RoomInv, RoomInv', [Next]_vars
    PROVE  (\E c \in UserContent : EchoSend(c)) \/ MembersStep
<1>1. CASE DispatchSend \/ DirectMessage \/ UNCHANGED vars
  <2>1. history' = history /\ shown' = shown /\ during' = during /\ turn' = turn /\ abandoned' = abandoned
    BY <1>1 DEF DispatchSend, DirectMessage, vars
  <2>2. RunningMembers' \subseteq RunningMembers
    BY <2>1 DEF RunningMembers, Running, Speaker
  <2> QED BY <2>1, <2>2, StillStep DEF RoomInv
<1>2. CASE GiveUpRoomTurn
  <2>1. /\ history' = history /\ shown' = shown /\ during' = during /\ Running
        /\ abandoned' = abandoned \cup {turn} /\ turn' = Ended(turn.epoch, "superseded", turn.basis)
    BY <1>2 DEF GiveUpRoomTurn
  <2>2. ~Running'
    BY <2>1 DEF Running, Ended
  <2>3. RunningMembers' \subseteq RunningMembers
    BY <2>1, <2>2 DEF RunningMembers, Speaker
  <2> QED BY <2>1, <2>3, StillStep DEF RoomInv
<1>3. CASE StartRoomTurn
  BY <1>3, StartIsMembersStep
<1>4. ASSUME NEW out \in Output, NEW reacted \in BOOLEAN, MemberRunEnds(out, reacted)
      PROVE  MembersStep
  BY <1>4, RunEndIsMembersStep
<1>5. ASSUME NEW out \in Output, NEW t \in abandoned, AbandonedRunEnds(t, out)
      PROVE  MembersStep
  BY <1>5, AbandonedIsMembersStep
<1> QED BY <1>1, <1>2, <1>3, <1>4, <1>5 DEF Next

\* Members do not change who is called.
LEMMA CalledStays ==
    ASSUME TypeOK, TypeOK', MembersStep
    PROVE  /\ LastBy(history', User) = LastBy(history, User)
           /\ HasUserMessage(history) =>
                 /\ LastBy(history, User) \in DOMAIN history
                 /\ LastBy(history, User) \in UserMessages
                 /\ \A m \in Member : Called(m)' <=> Called(m)
<1>1. /\ DOMAIN history \subseteq DOMAIN history'
      /\ \A i \in DOMAIN history : history'[i] = history[i]
  BY DEF MembersStep, Grows
<1>2. \A i \in DOMAIN history' \ DOMAIN history : history'[i].by # User
  BY RunningMembersAre DEF MembersStep
<1>3. /\ history \in Seq(ToSet(history) \cup ToSet(history'))
      /\ history' \in Seq(ToSet(history) \cup ToSet(history'))
  BY OwnElements DEF TypeOK
<1>4. LastBy(history', User) = LastBy(history, User)
  BY <1>1, <1>2, <1>3, LastByGrows
<1>5. ASSUME HasUserMessage(history)
      PROVE  /\ LastBy(history, User) \in DOMAIN history
             /\ LastBy(history, User) \in UserMessages
             /\ \A m \in Member : Called(m)' <=> Called(m)
  <2>1. /\ epoch \in Nat /\ history \in Seq(RoomMessage(epoch))
        /\ DOMAIN history = 1 .. Len(history)
    BY TurnTypes
  <2>2. LastBy(history, User) \in DOMAIN history /\ history[LastBy(history, User)].by = User
    BY <1>5, <2>1, ExchangeFacts
  <2>3. history'[LastBy(history, User)] = history[LastBy(history, User)]
    BY <1>1, <2>2
  <2>4. \A m \in Member : Called(m)' <=> Called(m)
    BY <1>4, <2>3 DEF Called, CallsEveryone, Addressed
  <2> QED BY <2>2, <2>4 DEF UserMessages
<1> QED BY <1>4, <1>5

\* A member that is woken hears all that others have said.
LEMMA WokenHears ==
    ASSUME TypeOK', NEW m \in Member, Wakes(m), NEW i \in DOMAIN history', history'[i].by # m
    PROVE  Heard(m, i)'
<1>1. /\ history' \in Seq(ToSet(history')) /\ Len(history') \in Nat
      /\ DOMAIN history' = 1 .. Len(history')
  BY OwnElements DEF TypeOK
<1>2. /\ LastBy(history', m) \in 0 .. Len(history')
      /\ LastBy(history', m) > 0 => history'[LastBy(history', m)].by = m
  BY <1>1, LastByIs
<1>3. LastBy(history', m) # i
  BY <1>1, <1>2
<1>4. GROUP_PROMPT_HISTORY_LIMIT \in Nat
  BY GroupAssumption
<1>5. CASE LastBy(history', m) > i \/ i <= Len(history') - GROUP_PROMPT_HISTORY_LIMIT
  BY <1>5 DEF Heard, BeyondPrompts
<1>6. CASE ~(LastBy(history', m) > i \/ i <= Len(history') - GROUP_PROMPT_HISTORY_LIMIT)
  <2>1. i \in NewMessages(history', m)
    BY <1>1, <1>2, <1>3, <1>4, <1>6 DEF NewMessages
  <2> QED BY <2>1 DEF Heard, Wakes
<1> QED BY <1>5, <1>6

LEMMA UserStaysNoTurn ==
    ASSUME TypeOK, TypeOK', MembersStep, UserIsNoTurn, UserMessages' = UserMessages
    PROVE  UserIsNoTurn'
<1>1. \A i \in UserMessages : history'[i] = history[i]
  BY DEF UserMessages, MembersStep, Grows
<1> QED BY <1>1 DEF UserIsNoTurn

LEMMA NamedAreMembers ==
    ASSUME TypeOK, NEW i \in DOMAIN history
    PROVE  ToSet(history[i].to) \subseteq Member /\ history[i].by \in Member \cup {User}
<1>1. history[i] \in RoomMessage(epoch)
  BY TurnTypes
<1>2. history[i].to \in Seq(Member) /\ history[i].by \in Member \cup {User}
  BY <1>1 DEF RoomMessage
<1> QED BY <1>2 DEF ToSet

\* What the parts of HearInv beyond the first three need of an action.
PlanKept ==
    LastIsQueued' /\ CalledAreTold' /\ UserIsNoTurn' /\ SilentSoFar' /\ HandoffsHeard'

LEMMA EchoKeepsPlan ==
    ASSUME RoomInv, RoomInv', HearInv, NEW c \in UserContent, EchoSend(c)
    PROVE  PlanKept
<1>1. /\ UserMessages' = UserMessages \cup {Len(history')} /\ Grows
      /\ LastBy(history', User) = Len(history')
  BY EchoKeepsTold DEF RoomInv, HearInv
<1>2. /\ turn' = turn /\ queue' = queue /\ epoch' = epoch /\ undispatched' = undispatched + 1
      /\ history' = Append(history, Message(User, c, 0))
      /\ epoch \in Nat /\ undispatched \in Nat /\ Len(history) \in Nat
      /\ DOMAIN history = 1 .. Len(history)
  BY DEF EchoSend, RoomInv, TypeOK
<1>3. /\ Len(history') = Len(history) + 1
      /\ history'[Len(history')] = Message(User, c, 0)
      /\ \A i \in DOMAIN history : history'[i] = history[i]
  BY <1>2 DEF RoomInv, TypeOK
<1>4. history'[Len(history')].epoch = 0
  BY <1>3 DEF Message
<1>5. LastIsQueued' /\ CalledAreTold'
  BY <1>2 DEF HearInv, LastIsQueued, CalledAreTold
<1>6. UserIsNoTurn'
  BY <1>1, <1>3, <1>4 DEF HearInv, UserIsNoTurn, UserMessages
<1>7. SilentSoFar'
  <2> SUFFICES ASSUME Running, turn.posts = 0, NEW i \in turn.basis + 1 .. Len(history')
               PROVE  history'[i].epoch # turn.epoch
    BY <1>2 DEF SilentSoFar, Running
  <2>1. turn.epoch # 0 /\ turn.basis \in Nat
    BY TurnTypes, RunningTurnFields DEF RoomInv
  <2>2. CASE i = Len(history')
    BY <1>4, <2>1, <2>2
  <2>3. CASE i # Len(history')
    <3>1. i \in turn.basis + 1 .. Len(history) /\ i \in DOMAIN history
      BY <1>2, <1>3, <2>1, <2>3
    <3> QED BY <1>3, <3>1 DEF HearInv, SilentSoFar
  <2> QED BY <2>2, <2>3
<1>8. HandoffsHeard'
  <2>1. turn.basis \in Nat /\ turn.basis <= Len(history)
    BY TurnTypes DEF RoomInv, PlannedBefore
  <2>2. Exchange(history') \cap 1 .. turn.basis = {}
    BY <1>1, <1>2, <1>3, <2>1 DEF Exchange
  <2> QED BY <1>2, <2>2 DEF HandoffsHeard
<1> QED BY <1>5, <1>6, <1>7, <1>8 DEF PlanKept

LEMMA DispatchKeepsPlan ==
    ASSUME RoomInv, RoomInv', HearInv, DispatchSend, UserIsNoTurn'
    PROVE  PlanKept
<1>1. /\ turn' = turn /\ history' = history /\ shown' = shown
      /\ epoch' = epoch + 1 /\ queue' = Append(queue, epoch + 1)
  BY DEF DispatchSend
<1>2. queue' # <<>> /\ queue'[Len(queue')] = epoch'
  <2>1. queue \in Seq(1 .. epoch) /\ epoch \in Nat
    BY DEF RoomInv, TypeOK
  <2>2. queue \in Seq(Nat) /\ epoch + 1 \in Nat
    BY <2>1
  <2>3. Len(queue') = Len(queue) + 1 /\ Len(queue) \in Nat /\ queue'[Len(queue) + 1] = epoch + 1
    BY <1>1, <2>2
  <2>4. queue' # <<>>
    BY <2>3
  <2> QED BY <1>1, <2>3, <2>4
<1>3. LastIsQueued' /\ CalledAreTold'
  BY <1>2 DEF LastIsQueued, CalledAreTold
<1>4. SilentSoFar' /\ HandoffsHeard'
  BY <1>1 DEF HearInv, SilentSoFar, HandoffsHeard, Quiet, Running, Heard, BeyondPrompts
<1> QED BY <1>3, <1>4 DEF PlanKept

LEMMA StillKeepsPlan ==
    ASSUME HearInv, UserIsNoTurn', turn' = turn, history' = history, shown' = shown,
           during' = during, epoch' = epoch, queue' = queue, undispatched' = undispatched
    PROVE  PlanKept
<1>1. LastIsQueued' /\ CalledAreTold'
  BY DEF HearInv, LastIsQueued, CalledAreTold, Quiet, Running, Told, BeyondPrompts, Called
<1>2. SilentSoFar' /\ HandoffsHeard'
  BY DEF HearInv, SilentSoFar, HandoffsHeard, Quiet, Running, Heard, BeyondPrompts
<1> QED BY <1>1, <1>2 DEF PlanKept

LEMMA GiveUpKeepsPlan ==
    ASSUME RoomInv, HearInv, GiveUpRoomTurn, UserIsNoTurn'
    PROVE  PlanKept
<1>1. /\ queue' = queue /\ queue # <<>> /\ epoch' = epoch
      /\ turn'.phase = "idle" /\ turn'.how = "superseded"
  BY DEF GiveUpRoomTurn, Ended
<1>2. LastIsQueued' /\ CalledAreTold' /\ SilentSoFar' /\ HandoffsHeard'
  BY <1>1 DEF HearInv, LastIsQueued, CalledAreTold, SilentSoFar, HandoffsHeard, Quiet, Running
<1> QED BY <1>2 DEF PlanKept

\* The room goes on in the same turn (but for its attempt), perhaps with posts
\* of other turns.
LEMMA AbandonedKeepsPlan ==
    ASSUME RoomInv, RoomInv', HearInv, NEW t, NEW out \in Output, AbandonedRunEnds(t, out),
           MembersStep, UserIsNoTurn'
    PROVE  PlanKept
<1>1. /\ history' = history \o Posts(t, out) /\ turn' = turn /\ epoch' = epoch /\ queue' = queue
      /\ undispatched' = undispatched /\ t \in abandoned /\ t \in RunningTurn
  BY DEF AbandonedRunEnds, RoomInv, TypeOK
<1>2. /\ epoch \in Nat /\ undispatched \in Nat /\ history \in Seq(RoomMessage(epoch))
      /\ Len(history) \in Nat /\ DOMAIN history = 1 .. Len(history)
      /\ Len(history') \in Nat /\ DOMAIN history' = 1 .. Len(history')
      /\ turn.basis \in Nat /\ turn.basis <= Len(history)
  BY TurnTypes DEF RoomInv, TypeOK, PlannedBefore
<1>3. HasUserMessage(history)
  BY <1>1, <1>2, RunningTurnFields DEF RoomInv, UserHasWritten
<1>4. /\ \A i \in DOMAIN history : history'[i] = history[i]
      /\ \A i \in DOMAIN history' \ DOMAIN history : history'[i].epoch = t.epoch
      /\ Grows
  BY <1>1, PostsByHead DEF RoomInv, MembersStep
<1>5. /\ LastBy(history', User) = LastBy(history, User)
      /\ LastBy(history, User) \in DOMAIN history
      /\ \A m \in Member : Called(m)' <=> Called(m)
  BY <1>3, CalledStays DEF RoomInv
<1>6. LastIsQueued'
  BY <1>1 DEF HearInv, LastIsQueued
<1>7. CalledAreTold'
  <2> SUFFICES ASSUME undispatched = 0, queue = <<>>, Running \/ Quiet,
                      NEW m \in Member, Called(m)
               PROVE  \/ Told(m, LastBy(history, User))'
                      \/ Running /\ m \in ToSet(Tail(turn.speakers))
    BY <1>1, <1>5 DEF CalledAreTold, Running, Quiet
  <2>1. LastBy(history, User) \in Int
    BY <1>2, <1>5
  <2>2. ASSUME NEW i \in Int, i = LastBy(history, User), Told(m, i)
        PROVE  Told(m, LastBy(history, User))'
    <3>1. Told(m, i)'
      BY <1>4, <2>2, ToldStays DEF RoomInv
    <3>2. i = LastBy(history, User)'
      BY <1>5, <2>2
    <3> QED BY <3>1, <3>2 DEF Told, BeyondPrompts
  <2> QED BY <2>1, <2>2 DEF HearInv, CalledAreTold
<1>8. SilentSoFar'
  <2> SUFFICES ASSUME Running, turn.posts = 0, NEW i \in turn.basis + 1 .. Len(history')
               PROVE  history'[i].epoch # turn.epoch
    BY <1>1 DEF SilentSoFar, Running
  <2>1. t.epoch # turn.epoch
    BY <1>1 DEF RoomInv, EpochsAdvance
  <2>2. CASE i \in DOMAIN history
    <3>1. i \in turn.basis + 1 .. Len(history)
      BY <1>2, <2>2
    <3> QED BY <1>4, <2>2, <3>1 DEF HearInv, SilentSoFar
  <2>3. CASE i \notin DOMAIN history
    <3>1. i \in DOMAIN history' \ DOMAIN history
      BY <1>2, <2>3
    <3> QED BY <1>4, <2>1, <3>1
  <2> QED BY <2>2, <2>3
<1>9. HandoffsHeard'
  <2> SUFFICES ASSUME turn.phase \in {"relay", "closing"} \/ Quiet,
                      NEW i \in Exchange(history') \cap 1 .. turn.basis,
                      history'[i].epoch = turn.epoch,
                      NEW m \in ToSet(history'[i].to) \ {history'[i].by}
               PROVE  Heard(m, i)' \/ (turn.phase = "relay" /\ m \in ToSet(Tail(turn.speakers)))
    BY <1>1 DEF HandoffsHeard, Quiet
  <2>1. i \in Exchange(history) /\ i \in DOMAIN history /\ i \in Int /\ history'[i] = history[i]
    BY <1>2, <1>4, <1>5 DEF Exchange
  <2>2. m \in Member
    BY <2>1, NamedAreMembers DEF RoomInv
  <2>3. Heard(m, i) => Heard(m, i)'
    BY <1>4, <2>1, <2>2, ToldStays DEF RoomInv
  <2> QED BY <2>1, <2>3 DEF HearInv, HandoffsHeard
<1> QED BY <1>6, <1>7, <1>8, <1>9 DEF PlanKept

LEMMA StartKeepsPlan ==
    ASSUME RoomInv, RoomInv', HearInv, StartRoomTurn, MembersStep, UserIsNoTurn',
           UserMessages' = UserMessages, RunnersTold'
    PROVE  PlanKept
<1>1. /\ epoch' = epoch /\ history' = history /\ queue' = Tail(queue) /\ queue # <<>>
      /\ epoch \in Nat /\ undispatched \in Nat
      /\ history \in Seq(RoomMessage(epoch)) /\ Len(history) \in Nat
  BY TurnTypes DEF StartRoomTurn, RoomInv
<1>2. /\ turn'.epoch = Head(queue) /\ turn'.basis = Len(history)
      /\ turn'.phase = "round" \/ (turn'.phase = "idle" /\ turn'.how = "superseded")
  BY DEF StartRoomTurn, Ended, Round, WakeAll
<1>3. /\ queue \in Seq(1 .. epoch) /\ Len(queue) \in Nat \ {0} /\ Head(queue) = queue[1]
      /\ Head(queue) \in 1 .. epoch
      /\ Len(Tail(queue)) = Len(queue) - 1
      /\ \A i \in 1 .. Len(queue) - 1 : Tail(queue)[i] = queue[i + 1]
  <2>1. queue \in Seq(1 .. epoch)
    BY DEF RoomInv, TypeOK
  <2> QED BY <1>1, <2>1
<1>4. queue[Len(queue)] = epoch
  BY <1>1 DEF HearInv, LastIsQueued
<1>5. queue' = <<>> => Head(queue) = epoch
  <2> SUFFICES ASSUME queue' = <<>> PROVE Head(queue) = epoch
    OBVIOUS
  <2>0. Len(Tail(queue)) = 0
    <3> DEFINE q == Tail(queue)
    <3>1. q = <<>>
      BY <1>1
    <3> HIDE DEF q
    <3>2. Len(q) = 0
      BY <3>1
    <3> QED BY <3>2 DEF q
  <2>1. Len(queue) = 1
    <3> DEFINE l == Len(queue)
    <3>1. l \in Nat \ {0} /\ l - 1 = 0
      BY <1>3, <2>0
    <3> HIDE DEF l
    <3>2. l = 1
      BY <3>1
    <3> QED BY <3>2 DEF l
  <2> QED BY <1>3, <1>4, <2>1
<1>6. LastIsQueued'
  <2>1. CASE queue' = <<>>
    BY <1>1, <1>2, <1>5, <2>1 DEF LastIsQueued
  <2>2. CASE queue' # <<>>
    <3>1. Tail(queue) \in Seq(1 .. epoch)
      BY <1>1, <1>3
    <3>2. Len(Tail(queue)) # 0
      BY <1>1, <2>2, <3>1
    <3>3. Len(queue) - 1 \in 1 .. Len(queue) - 1 /\ (Len(queue) - 1) + 1 = Len(queue)
      BY <1>3, <3>2
    <3>4. queue'[Len(queue')] = queue[Len(queue)]
      BY <1>1, <1>3, <3>3
    <3> QED BY <1>1, <1>4, <2>2, <3>4 DEF LastIsQueued
  <2> QED BY <2>1, <2>2
<1>7. CalledAreTold'
  <2> SUFFICES ASSUME queue' = <<>>, NEW m \in Member, Called(m)'
               PROVE  (Told(m, LastBy(history, User)) \/ (Running /\ m \in ToSet(Tail(turn.speakers))))'
    BY DEF CalledAreTold
  <2>1. turn' = Round(epoch, 0, 0, history)
    BY <1>5 DEF StartRoomTurn
  <2>2. HasUserMessage(history)
    BY <1>1, <1>3 DEF RoomInv, UserHasWritten
  <2>3. /\ ResolveResponders(history) \in Seq(Member) /\ ResolveResponders(history) # <<>>
        /\ ToSet(ResolveResponders(history)) =
              {x \in Member : Elects(history, CallsEveryone(history), x)}
    BY <1>1, <2>2, RespondersAre
  <2>4. turn'.speakers = OrderRoundSpeakers(ResolveResponders(history), 0) /\ Running'
    BY <2>1 DEF Round, WakeAll, Running
  <2>5. /\ turn'.speakers \in Seq(Member) /\ turn'.speakers # <<>>
        /\ ToSet(turn'.speakers) = ToSet(ResolveResponders(history))
    <3>1. 0 \in Nat
      OBVIOUS
    <3> QED BY <2>3, <2>4, <3>1, RotationKeeps
  <2>6. Called(m) /\ LastBy(history, User) \in UserMessages
    BY <2>2, CalledStays DEF RoomInv
  <2>7. Elects(history, CallsEveryone(history), m)
    <3>1. Addressed(history) = {} \/ m \in Addressed(history) \/ CallsEveryone(history)
      BY <2>6 DEF Called
    <3>2. Addressed(history) = {} => Delegated(history) = {}
      BY DEF Delegated
    <3> QED BY <3>1, <3>2 DEF Elects
  <2>8. m \in {Head(turn'.speakers)} \cup ToSet(Tail(turn'.speakers))
    BY <2>3, <2>5, <2>7, OthersFollow
  <2>9. CASE m = Head(turn'.speakers)
    <3>1. m \in RunningMembers'
      BY <2>4, <2>9 DEF RunningMembers, Speaker
    <3>2. Told(m, LastBy(history, User))'
      BY <1>1, <2>6, <3>1 DEF RunnersTold
    <3> QED BY <3>2
  <2> QED BY <2>4, <2>8, <2>9
<1>8. SilentSoFar' /\ HandoffsHeard'
  BY <1>1, <1>2 DEF SilentSoFar, HandoffsHeard, Quiet
<1> QED BY <1>6, <1>7, <1>8 DEF PlanKept

\* What a new phase, or the end in quiet, has to do with handoffs.
LEMMA NextPhaseHandsOff ==
    ASSUME NEW t, t.phase \in {"round", "relay", "closing"}, NEW h
    PROVE  LET n == NextPhase(t, h)
           IN  \/ n.phase = "round" /\ n.basis = Len(h)
               \/ /\ n.phase = "relay" /\ n.basis = Len(h)
                  /\ n.speakers = PendingMentionTargets(h)
                  /\ PendingMentionTargets(h) # <<>>
               \/ /\ n.phase = "closing" /\ n.basis = Len(h)
                  /\ PendingMentionTargets(h) = <<>> \/ (t.phase = "relay" /\ ~(t.posts > 0))
               \/ /\ n.phase = "idle" /\ n.basis = t.basis
                  /\ t.phase = "closing" \/ ClosingAuthors(h) = <<>>
BY DEF NextPhase, Round, Relay, CloseWith, WakeAll, Ended

LEMMA RunEndKeepsPlan ==
    ASSUME RoomInv, RoomInv', HearInv, NEW out \in Output, NEW reacted \in BOOLEAN,
           MemberRunEnds(out, reacted), MembersStep, UserIsNoTurn',
           UserMessages' = UserMessages, RunnersTold'
    PROVE  PlanKept
<1> DEFINE t == AfterRun(out)
           p == Posts(turn, out)
<1>1. /\ epoch' = epoch /\ undispatched' = undispatched /\ queue' = queue /\ Running
      /\ epoch \in Nat /\ undispatched \in Nat /\ turn \in RunningTurn
      /\ history \in Seq(RoomMessage(epoch)) /\ Len(history) \in Nat
      /\ DOMAIN history = 1 .. Len(history)
      /\ turn.basis \in Nat /\ turn.basis <= Len(history) /\ Grows
  BY TurnTypes DEF RoomInv, MemberRunEnds, PlannedBefore, MembersStep
<1>2. HasUserMessage(history)
  BY <1>1, RunningTurnFields DEF RoomInv, UserHasWritten
<1>3. /\ LastBy(history', User) = LastBy(history, User)
      /\ LastBy(history, User) \in DOMAIN history
      /\ LastBy(history, User) \in UserMessages
      /\ \A m \in Member : Called(m)' <=> Called(m)
  BY <1>2, CalledStays DEF RoomInv
<1>4. \A m \in Member : Told(m, LastBy(history, User)) => Told(m, LastBy(history, User))'
  <2> SUFFICES ASSUME NEW m \in Member, NEW i \in Int, i = LastBy(history, User), Told(m, i)
               PROVE  Told(m, LastBy(history, User))'
    BY <1>1, <1>3
  <2>1. Told(m, i)'
    BY <1>1, ToldStays DEF RoomInv
  <2>2. i = LastBy(history, User)'
    BY <1>3
  <2> QED BY <2>1, <2>2 DEF Told, BeyondPrompts
<1>5. \A i \in DOMAIN history : i \in Int /\ i \in DOMAIN history' /\ history'[i] = history[i]
  BY <1>1 DEF Grows
<1>6. CASE Retries(turn, out, reacted)
  <2>1. /\ turn' = [turn EXCEPT !.attempt = @ + 1] /\ history' = history /\ shown' = shown
    BY <1>6 DEF MemberRunEnds
  <2>2. /\ turn'.epoch = turn.epoch /\ turn'.phase = turn.phase /\ turn'.basis = turn.basis
        /\ turn'.speakers = turn.speakers /\ turn'.posts = turn.posts
    BY <1>1, <2>1 DEF RunningTurn
  <2>3. LastIsQueued'
    BY <1>1, <2>2 DEF HearInv, LastIsQueued
  <2>4. CalledAreTold'
    BY <1>1, <1>3, <1>4, <2>2 DEF HearInv, CalledAreTold, Running
  <2>5. SilentSoFar'
    BY <1>1, <2>1, <2>2 DEF HearInv, SilentSoFar
  <2>6. HandoffsHeard'
    BY <1>1, <2>1, <2>2 DEF HearInv, HandoffsHeard, Quiet, Running, Heard, BeyondPrompts
  <2> QED BY <2>3, <2>4, <2>5, <2>6 DEF PlanKept
<1>7. CASE ~Retries(turn, out, reacted)
  <2>1. history' = history \o p /\ turn' = NextSpeaker(t, history')
    BY <1>7 DEF MemberRunEnds, AfterRun
  <2>2. /\ p \in Seq(RoomMessage(epoch)) /\ Len(p) \in Nat
        /\ t.total \in 0 .. GROUP_MAX_MEMBER_TURNS
        /\ t.posts = turn.posts + Len(p)
        /\ t.epoch = turn.epoch /\ t.phase = turn.phase /\ t.basis = turn.basis
        /\ t.speakers = turn.speakers
        /\ t.total < GROUP_MAX_MEMBER_TURNS => t \in RunningTurn
    BY <1>1, AfterRunIs
  <2>3. /\ turn.posts \in Nat /\ turn.speakers \in Seq(Member) /\ turn.speakers # <<>>
        /\ turn.phase \in {"round", "relay", "closing"} /\ turn.epoch \in 1 .. epoch
    BY <1>1, RunningTurnFields
  <2> HIDE DEF t, p
  <2>4. \/ \E how \in {"limit", "superseded"} : turn' = Ended(t.epoch, how, t.basis)
        \/ GoesOn(turn', t)
        \/ t \in RunningTurn /\ ~(Len(t.speakers) > 1) /\ turn' = NextPhase(t, history')
    BY <1>1, <2>1, <2>2, NextSpeakerCases
  <2>5. turn'.epoch = turn.epoch
    BY <1>1, <1>2, <2>1, TurnMovesOn DEF RoomInv, t, p
  <2>6. LastIsQueued'
    BY <1>1, <2>5 DEF HearInv, LastIsQueued
  <2>7. ASSUME NEW how \in {"limit", "superseded"}, turn' = Ended(t.epoch, how, t.basis)
        PROVE  PlanKept
    <3>1. turn'.phase = "idle" /\ turn'.how # "quiet"
      BY <2>7 DEF Ended
    <3>2. CalledAreTold' /\ SilentSoFar' /\ HandoffsHeard'
      BY <3>1 DEF CalledAreTold, SilentSoFar, HandoffsHeard, Quiet, Running
    <3> QED BY <2>6, <3>2 DEF PlanKept
  <2>8. CASE GoesOn(turn', t)
    <3>1. /\ turn'.phase = turn.phase /\ turn'.posts = turn.posts + Len(p)
          /\ turn'.basis = turn.basis /\ turn'.speakers = Tail(turn.speakers)
          /\ Len(turn.speakers) > 1 /\ Running'
      BY <2>2, <2>3, <2>8 DEF GoesOn, Running
    <3>2. /\ Tail(turn.speakers) \in Seq(Member) /\ Tail(turn.speakers) # <<>>
      BY <2>3, <3>1, OthersFollow
    <3>3. /\ ToSet(Tail(turn.speakers)) = {Head(turn'.speakers)} \cup ToSet(Tail(turn'.speakers))
          /\ Head(turn'.speakers) \in Member
      BY <3>1, <3>2, OthersFollow
    <3>4. Head(turn'.speakers) \in RunningMembers'
      BY <3>1 DEF RunningMembers, Speaker
    <3>5. Wakes(Head(turn'.speakers))
      <4>1. Prompt(turn', history')
        BY <1>7 DEF MemberRunEnds
      <4> QED BY <3>1, <3>2, <4>1, PromptWakes DEF RoomInv
    <3>6. CalledAreTold'
      <4> SUFFICES ASSUME undispatched = 0, queue = <<>>, NEW m \in Member, Called(m)
                   PROVE  \/ Told(m, LastBy(history, User))'
                          \/ m \in ToSet(Tail(turn'.speakers))
        BY <1>1, <1>3, <3>1 DEF CalledAreTold
      <4>1. CASE Told(m, LastBy(history, User))
        BY <1>4, <4>1
      <4>2. CASE m = Head(turn'.speakers)
        BY <1>3, <3>4, <4>2 DEF RunnersTold
      <4> QED BY <1>1, <3>3, <4>1, <4>2 DEF HearInv, CalledAreTold
    <3>7. SilentSoFar'
      <4> SUFFICES ASSUME turn'.posts = 0, NEW i \in turn.basis + 1 .. Len(history')
                   PROVE  history'[i].epoch # turn.epoch
        BY <2>5, <3>1 DEF SilentSoFar
      <4>1. turn.posts = 0 /\ Len(p) = 0
        BY <2>2, <2>3, <3>1
      <4>2. history' = history
        BY <1>1, <2>1, <2>2, <4>1
      <4> QED BY <1>1, <4>1, <4>2 DEF HearInv, SilentSoFar
    <3>8. HandoffsHeard'
      <4> SUFFICES ASSUME turn.phase \in {"relay", "closing"},
                          NEW i \in Exchange(history') \cap 1 .. turn.basis,
                          history'[i].epoch = turn.epoch,
                          NEW m \in ToSet(history'[i].to) \ {history'[i].by}
                   PROVE  Heard(m, i)' \/ (turn.phase = "relay" /\ m \in ToSet(Tail(turn'.speakers)))
        BY <2>5, <3>1 DEF HandoffsHeard, Quiet, Running
      <4>1. i \in Exchange(history) /\ i \in DOMAIN history /\ i \in Int /\ history'[i] = history[i]
        BY <1>1, <1>3, <1>5 DEF Exchange
      <4>2. m \in Member /\ i \in DOMAIN history' /\ history'[i].by # m
        BY <1>5, <4>1, NamedAreMembers DEF RoomInv
      <4>3. Heard(m, i) => Heard(m, i)'
        BY <1>1, <4>1, <4>2, ToldStays DEF RoomInv
      <4>4. m = Head(turn'.speakers) => Heard(m, i)'
        BY <3>5, <4>2, WokenHears DEF RoomInv
      <4> QED BY <3>3, <4>1, <4>3, <4>4 DEF HearInv, HandoffsHeard
    <3> QED BY <2>6, <3>6, <3>7, <3>8 DEF PlanKept
  <2>9. CASE t \in RunningTurn /\ ~(Len(t.speakers) > 1) /\ turn' = NextPhase(t, history')
    <3>1. Tail(turn.speakers) = <<>> /\ ToSet(Tail(turn.speakers)) = {}
      BY <2>2, <2>3, <2>9, OthersFollow, ToSetEmpty
    <3>2. CalledAreTold'
      BY <1>1, <1>3, <1>4, <3>1 DEF HearInv, CalledAreTold
    <3>3. \/ turn'.phase = "round" /\ turn'.basis = Len(history')
          \/ /\ turn'.phase = "relay" /\ turn'.basis = Len(history')
             /\ turn'.speakers = PendingMentionTargets(history')
             /\ PendingMentionTargets(history') # <<>>
          \/ /\ turn'.phase = "closing" /\ turn'.basis = Len(history')
             /\ PendingMentionTargets(history') = <<>> \/ (turn.phase = "relay" /\ ~(t.posts > 0))
          \/ /\ turn'.phase = "idle" /\ turn'.basis = turn.basis
             /\ turn.phase = "closing" \/ ClosingAuthors(history') = <<>>
      BY <2>2, <2>3, <2>9, NextPhaseHandsOff
    <3>4. /\ Len(history') \in Nat /\ DOMAIN history' = 1 .. Len(history')
          /\ history' \in Seq(RoomMessage(epoch)) /\ HasUserMessage(history')
      BY <1>1, <1>2, <2>1, TurnMovesOn DEF RoomInv, p
    <3>5. SilentSoFar'
      BY <3>3, <3>4 DEF SilentSoFar, Running
    <3>6. HandoffsHeard'
      <4> DEFINE u == LastBy(history', User)
      <4> SUFFICES ASSUME turn'.phase \in {"relay", "closing", "idle"},
                          NEW i \in Exchange(history') \cap 1 .. turn'.basis,
                          history'[i].epoch = turn.epoch,
                          NEW m \in ToSet(history'[i].to) \ {history'[i].by}
                   PROVE  Heard(m, i)' \/ (turn'.phase = "relay" /\ m \in ToSet(Tail(turn'.speakers)))
        BY <2>5 DEF HandoffsHeard, Quiet
      <4>1. u \in 1 .. Len(history') /\ u \in UserMessages' /\ i \in u .. Len(history') /\ i \in 1 .. turn'.basis
        BY <1>1, <1>3, <3>4, ExchangeFacts DEF Exchange
      <4> HIDE DEF u
      <4>2. i # u
        BY <2>3, <4>1 DEF UserIsNoTurn
      <4>3. i \in u + 1 .. Len(history') /\ i \in DOMAIN history' /\ i \in Int
        BY <3>4, <4>1, <4>2
      <4>4. m \in Member /\ m \in ToSet(history'[i].to) /\ history'[i].by # m
        <5>1. history'[i] \in RoomMessage(epoch)
          BY <3>4, <4>3
        <5>2. history'[i].to \in Seq(Member)
          BY <5>1 DEF RoomMessage
        <5> QED BY <5>2 DEF ToSet
      <4>5. LastBy(history', m) \in Nat
        BY <3>4, LastByIs
      <4>6. LastBy(history', m) <= i => m \in ToSet(PendingMentionTargets(history'))
        BY <1>1, <3>4, <4>3, <4>4, PendingAre DEF u
      <4>7. ~(LastBy(history', m) <= i) => Heard(m, i)'
        BY <4>3, <4>5 DEF Heard
      <4>8. Heard(m, i) => Heard(m, i)'
        BY <1>1, <4>3, <4>4, ToldStays DEF RoomInv
      <4>9. i \in DOMAIN history => i \in Exchange(history) /\ history'[i] = history[i]
        BY <1>1, <1>3, <1>5, <4>3 DEF Exchange, u
      <4>10. ASSUME i \in 1 .. turn.basis, turn.phase \in {"relay", "closing"}
             PROVE  Heard(m, i)'
        <5>1. i \in DOMAIN history
          BY <1>1, <4>10
        <5>2. Heard(m, i) \/ m \in ToSet(Tail(turn.speakers))
          BY <4>9, <4>10, <5>1 DEF HearInv, HandoffsHeard
        <5> QED BY <3>1, <4>8, <5>2
      <4>11. CASE turn'.phase = "relay"
        <5>1. /\ turn'.speakers = PendingMentionTargets(history') /\ turn'.speakers # <<>>
          BY <3>3, <4>11
        <5>2. turn'.speakers \in Seq(Member) /\ Running'
          BY <1>1, <3>4, <4>11, <5>1, PendingAre DEF Running
        <5>3. ToSet(turn'.speakers) = {Head(turn'.speakers)} \cup ToSet(Tail(turn'.speakers))
          BY <5>1, <5>2, OthersFollow
        <5>4. Wakes(Head(turn'.speakers))
          <6>1. Prompt(turn', history')
            BY <1>7 DEF MemberRunEnds
          <6> QED BY <5>1, <5>2, <6>1, PromptWakes DEF RoomInv
        <5>5. m = Head(turn'.speakers) => Heard(m, i)'
          BY <4>3, <4>4, <5>4, WokenHears DEF RoomInv
        <5> QED BY <4>6, <4>7, <4>11, <5>1, <5>3, <5>5
      <4>12. CASE turn'.phase = "closing" /\ PendingMentionTargets(history') = <<>>
        BY <4>6, <4>7, <4>12, ToSetEmpty
      <4>13. CASE /\ turn'.phase = "closing" /\ turn'.basis = Len(history')
                  /\ turn.phase = "relay" /\ ~(t.posts > 0)
        <5>1. turn.posts = 0 /\ Len(p) = 0
          BY <2>2, <2>3, <4>13
        <5>2. history' = history
          BY <1>1, <2>1, <2>2, <5>1
        <5>3. i \in 1 .. turn.basis
          <6>1. i \notin turn.basis + 1 .. Len(history)
            BY <1>1, <5>1, <5>2 DEF HearInv, SilentSoFar
          <6> QED BY <1>1, <3>4, <4>3, <5>2, <6>1
        <5> QED BY <4>10, <4>13, <5>3
      <4>14. CASE turn'.phase = "idle" /\ turn'.basis = turn.basis /\ turn.phase = "closing"
        BY <4>1, <4>10, <4>14
      <4>15. CASE ClosingAuthors(history') = <<>>
        <5>1. history'[i].by \in ToSet(ClosingAuthors(history'))
          BY <1>1, <3>4, <4>3, ClosingAre DEF u
        <5> QED BY <4>15, <5>1, ToSetEmpty
      <4> QED BY <3>3, <4>11, <4>12, <4>13, <4>14, <4>15
    <3> QED BY <2>6, <3>2, <3>5, <3>6 DEF PlanKept
  <2> QED BY <2>4, <2>7, <2>8, <2>9
<1> QED BY <1>6, <1>7

LEMMA InitHear == Init => HearInv
<1> SUFFICES ASSUME Init PROVE HearInv
  OBVIOUS
<1>1. /\ history = <<>> /\ queue = <<>> /\ epoch = 0 /\ abandoned = {}
      /\ turn.phase = "idle" /\ turn.how = "never" /\ turn.epoch = 0
  BY DEF Init, Ended
<1>2. UserMessages = {} /\ RunningMembers = {}
  BY <1>1 DEF UserMessages, RunningMembers, Running
<1> QED BY <1>1, <1>2 DEF HearInv, RunnersTold, SpeakersTold, ShownTold, LastIsQueued,
        CalledAreTold, UserIsNoTurn, SilentSoFar, HandoffsHeard, Quiet, Running

LEMMA StepKeepsHear == RoomInv /\ RoomInv' /\ HearInv /\ [Next]_vars => HearInv'
<1> SUFFICES ASSUME RoomInv, RoomInv', HearInv, [Next]_vars PROVE HearInv'
  OBVIOUS
<1>1. ASSUME NEW c \in UserContent, EchoSend(c) PROVE HearInv'
  <2>1. RunnersTold' /\ SpeakersTold' /\ ShownTold'
    BY <1>1, EchoKeepsTold DEF RoomInv, HearInv
  <2>2. PlanKept
    BY <1>1, EchoKeepsPlan
  <2> QED BY <2>1, <2>2 DEF HearInv, PlanKept
<1>2. CASE MembersStep
  <2>1. UserMessages' = UserMessages /\ RunnersTold' /\ SpeakersTold' /\ ShownTold'
    BY <1>2, MembersKeepTold DEF RoomInv, HearInv
  <2>2. UserIsNoTurn'
    BY <1>2, <2>1, UserStaysNoTurn DEF RoomInv, HearInv
  <2>3. PlanKept
    <3>1. ASSUME NEW c \in UserContent, EchoSend(c) PROVE PlanKept
      BY <3>1, EchoKeepsPlan
    <3>2. CASE DispatchSend
      BY <2>2, <3>2, DispatchKeepsPlan
    <3>3. CASE DirectMessage \/ UNCHANGED vars
      BY <2>2, <3>3, StillKeepsPlan DEF DirectMessage, vars
    <3>4. CASE GiveUpRoomTurn
      BY <2>2, <3>4, GiveUpKeepsPlan
    <3>5. CASE StartRoomTurn
      BY <1>2, <2>1, <2>2, <3>5, StartKeepsPlan
    <3>6. ASSUME NEW out \in Output, NEW reacted \in BOOLEAN, MemberRunEnds(out, reacted)
          PROVE  PlanKept
      BY <1>2, <2>1, <2>2, <3>6, RunEndKeepsPlan
    <3>7. ASSUME NEW out \in Output, NEW t \in abandoned, AbandonedRunEnds(t, out)
          PROVE  PlanKept
      BY <1>2, <2>2, <3>7, AbandonedKeepsPlan
    <3> QED BY <3>1, <3>2, <3>3, <3>4, <3>5, <3>6, <3>7 DEF Next
  <2> QED BY <2>1, <2>3 DEF HearInv, PlanKept
<1> QED BY <1>1, <1>2, StepIsEchoOrMembers

LEMMA HearHolds == Spec => []HearInv
<1>1. RoomInv /\ RoomInv' /\ HearInv /\ [Next]_vars => HearInv'
  BY StepKeepsHear
<1> QED BY <1>1, InitHear, RoomHolds, PTL DEF Spec

(***************************************************************************)
(* What is said to a member reaches it, for every limit of the prompts and *)
(* through preemptions, supersessions and the watchdog: no user message is *)
(* passed over between what a member was shown, all whom the user's last   *)
(* message calls are told it before the room is at rest, and the relay     *)
(* sweeps leave no handoff of the turn unheard.                            *)
(***************************************************************************)
THEOREM AlwaysHeardByThoseCalled == Spec => []HeardByThoseCalled
<1>1. ASSUME RoomInv, HearInv PROVE NothingMissed
  <2> SUFFICES ASSUME NEW m \in Member, NEW i \in UserMessages, shown[m] # {}, i < Max(shown[m])
               PROVE  Told(m, i)
    BY DEF NothingMissed, Missed
  <2>1. /\ shown[m] \subseteq Nat /\ Len(history) \in Nat
        /\ \A j \in shown[m] : j <= Len(history)
    BY <1>1 DEF RoomInv, TypeOK
  <2>2. \E x \in shown[m] : \A y \in shown[m] : y <= x
    BY <2>1, GreatestNatural
  <2>3. \E x \in shown[m] : \A y \in shown[m] : x >= y
    BY <2>1, <2>2
  <2>4. Max(shown[m]) \in shown[m]
    BY <2>3 DEF Max
  <2> QED BY <1>1, <2>4 DEF HearInv, ShownTold
<1>2. ASSUME HearInv PROVE CalledAreShown
  BY <1>2 DEF HearInv, CalledAreTold, CalledAreShown, AtRest, Quiet, Running
<1>3. ASSUME HearInv PROVE HandoffHeard
  BY <1>3 DEF HearInv, HandoffsHeard, HandoffHeard, Quiet
<1>4. RoomInv /\ HearInv => HeardByThoseCalled
  BY <1>1, <1>2, <1>3 DEF HeardByThoseCalled
<1> QED BY <1>4, RoomHolds, HearHolds, PTL
=============================================================================
