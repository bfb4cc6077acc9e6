----------------------------- MODULE WakeProofs -----------------------------
(***************************************************************************)
(* Proofs about what wakes an agent: the messages of other agents and of   *)
(* connectors (AgentInbox), the local cron scheduler (LocalCronScheduler)  *)
(* and the completions of background work (PendingWakes).  The three parts *)
(* are independent of one another: no step of one mentions a variable of   *)
(* another.                                                                *)
(***************************************************************************)
EXTENDS AgentInbox, LocalCronScheduler, PendingWakes, SequenceLemmas

-----------------------------------------------------------------------------
(* Messages of agents and connectors, for any number of them.              *)

\* No message twice, and those outside U in the order they were sent.
SoundIn(s, U) ==
    /\ IsInjective(s)
    /\ \A i, j \in DOMAIN s : i < j /\ s[i] \notin U /\ s[j] \notin U => s[i] < s[j]

\* A line as the invariant sees it.
Line(s, U) == s \in Seq(Message) /\ SoundIn(s, U)

Precede(A, B, U) == \A a \in A \ U : \A b \in B \ U : a < b

(***************************************************************************)
(* Lines of messages.  Nothing but their elements and SoundIn is needed of *)
(* the sequences that the revivers take apart and put together.            *)
(***************************************************************************)

\* Two sound lines make one, if the first holds the older messages.
LEMMA ConcatSound ==
    ASSUME NEW U, NEW s \in Seq(Message), NEW t \in Seq(Message),
           SoundIn(s, U), SoundIn(t, U),
           Items(s) \cap Items(t) = {}, Precede(Items(s), Items(t), U)
    PROVE  /\ s \o t \in Seq(Message) /\ SoundIn(s \o t, U)
           /\ Items(s \o t) = Items(s) \cup Items(t)
<1> DEFINE r == s \o t
<1>1. /\ Len(s) \in Nat /\ Len(t) \in Nat
      /\ DOMAIN s = 1 .. Len(s) /\ DOMAIN t = 1 .. Len(t)
      /\ DOMAIN r = 1 .. (Len(s) + Len(t))
      /\ \A i \in 1 .. Len(s) : r[i] = s[i]
      /\ \A i \in 1 .. Len(t) : r[Len(s) + i] = t[i]
      /\ r \in Seq(Message)
  OBVIOUS
<1>2. Items(r) = Items(s) \cup Items(t)
  <2>1. ToSet(r) = ToSet(s) \cup ToSet(t)
    BY ToSetConcat
  <2>2. Items(r) = ToSet(r) /\ Items(s) = ToSet(s) /\ Items(t) = ToSet(t)
    BY DEF Items, ToSet
  <2> QED BY <2>1, <2>2
<1> HIDE DEF r
<1>3. ASSUME NEW i \in DOMAIN r
      PROVE  \/ i \in DOMAIN s /\ r[i] = s[i] /\ s[i] \in Items(s)
             \/ /\ i > Len(s) /\ i - Len(s) \in DOMAIN t
                /\ r[i] = t[i - Len(s)] /\ t[i - Len(s)] \in Items(t)
  <2>1. CASE i <= Len(s)
    BY <1>1, <1>3, <2>1 DEF Items
  <2>2. CASE i > Len(s)
    <3>1. i - Len(s) \in 1 .. Len(t) /\ i = Len(s) + (i - Len(s))
      BY <1>1, <1>3, <2>2
    <3> QED BY <1>1, <2>2, <3>1 DEF Items
  <2> QED BY <1>1, <1>3, <2>1, <2>2
<1>4. ASSUME NEW i \in DOMAIN r, NEW j \in DOMAIN r, r[i] = r[j]
      PROVE  i = j
  <2>1. i \in Nat /\ j \in Nat
    BY <1>1
  <2>2. CASE i \in DOMAIN s /\ r[i] = s[i] /\ s[i] \in Items(s)
    <3>1. j \in DOMAIN s /\ r[j] = s[j]
      BY <1>3, <1>4, <2>2
    <3> QED BY <1>4, <2>2, <3>1 DEF SoundIn, IsInjective
  <2>3. CASE /\ i > Len(s) /\ i - Len(s) \in DOMAIN t
             /\ r[i] = t[i - Len(s)] /\ t[i - Len(s)] \in Items(t)
    <3>1. /\ j > Len(s) /\ j - Len(s) \in DOMAIN t /\ r[j] = t[j - Len(s)]
      BY <1>3, <1>4, <2>3
    <3>2. i - Len(s) = j - Len(s)
      BY <1>4, <2>3, <3>1 DEF SoundIn, IsInjective
    <3> QED BY <1>1, <2>1, <3>2
  <2> QED BY <1>3, <2>2, <2>3
<1>5. ASSUME NEW i \in DOMAIN r, NEW j \in DOMAIN r,
             i < j, r[i] \notin U, r[j] \notin U
      PROVE  r[i] < r[j]
  <2>1. i \in Nat /\ j \in Nat
    BY <1>1
  <2>2. CASE j \in DOMAIN s /\ r[j] = s[j] /\ s[j] \in Items(s)
    <3>1. i \in DOMAIN s /\ r[i] = s[i]
      BY <1>1, <1>3, <1>5, <2>1, <2>2
    <3> QED BY <1>5, <2>2, <3>1 DEF SoundIn
  <2>3. CASE /\ j > Len(s) /\ j - Len(s) \in DOMAIN t
             /\ r[j] = t[j - Len(s)] /\ t[j - Len(s)] \in Items(t)
    <3>1. CASE i \in DOMAIN s /\ r[i] = s[i] /\ s[i] \in Items(s)
      BY <1>5, <2>3, <3>1 DEF Precede
    <3>2. CASE i > Len(s) /\ i - Len(s) \in DOMAIN t /\ r[i] = t[i - Len(s)]
      <4>1. i - Len(s) < j - Len(s)
        BY <1>1, <1>5, <2>1
      <4> QED BY <1>5, <2>3, <3>2, <4>1 DEF SoundIn
    <3> QED BY <1>3, <3>1, <3>2
  <2> QED BY <1>3, <2>2, <2>3
<1>6. SoundIn(r, U)
  BY <1>4, <1>5 DEF SoundIn, IsInjective
<1> QED BY <1>1, <1>2, <1>6 DEF r

\* A part of a sound line is sound.
LEMMA PartSound ==
    ASSUME NEW U, NEW s \in Seq(Message), NEW P \in SUBSET DOMAIN s, SoundIn(s, U)
    PROVE  /\ Subsequence(s, P) \in Seq(Message) /\ SoundIn(Subsequence(s, P), U)
           /\ Items(Subsequence(s, P)) = {s[i] : i \in P}
<1> DEFINE r == Subsequence(s, P)
           n == Cardinality(P)
<1>1. /\ n \in Nat /\ r \in Seq(Message) /\ Len(r) = n
      /\ \A k \in 1 .. n : Nth(P, k) \in P /\ r[k] = s[Nth(P, k)]
      /\ \A k, l \in 1 .. n : k < l => Nth(P, k) < Nth(P, l)
  BY SubsequenceKeeps
<1>2. Items(r) = {s[i] : i \in P}
  BY SubsequenceElements DEF ToSet, Items
<1>3. DOMAIN r = 1 .. n /\ DOMAIN s = 1 .. Len(s) /\ Len(s) \in Nat
  BY <1>1
<1> HIDE DEF r, n
<1>4. ASSUME NEW k \in 1 .. n, NEW l \in 1 .. n, r[k] = r[l] PROVE k = l
  <2>1. Nth(P, k) = Nth(P, l) /\ Nth(P, k) \in Nat
    BY <1>1, <1>3, <1>4 DEF SoundIn, IsInjective
  <2>2. ~(k < l) /\ ~(l < k)
    BY <1>1, <2>1
  <2> QED BY <1>1, <2>2
<1>5. ASSUME NEW k \in 1 .. n, NEW l \in 1 .. n,
             k < l, r[k] \notin U, r[l] \notin U
      PROVE  r[k] < r[l]
  BY <1>1, <1>5 DEF SoundIn
<1>6. SoundIn(r, U)
  BY <1>3, <1>4, <1>5 DEF SoundIn, IsInjective
<1> QED BY <1>1, <1>2, <1>6 DEF r

LEMMA TailSound ==
    ASSUME NEW U, NEW s \in Seq(Message), s # <<>>, SoundIn(s, U)
    PROVE  /\ Tail(s) \in Seq(Message) /\ SoundIn(Tail(s), U)
           /\ Items(Tail(s)) = Items(s) \ {Head(s)}
           /\ Head(s) \in Items(s) /\ Head(s) \in Message
<1> DEFINE r == Tail(s)
<1>1. /\ Len(s) \in Nat /\ DOMAIN s = 1 .. Len(s) /\ Len(s) # 0
      /\ DOMAIN r = 1 .. (Len(s) - 1) /\ r \in Seq(Message)
      /\ \A j \in 1 .. (Len(s) - 1) : r[j] = s[j + 1]
      /\ Head(s) \in Message
  OBVIOUS
<1>2. /\ IsInjective(r) /\ Items(r) = Items(s) \ {Head(s)}
      /\ Head(s) \in Items(s)
  BY TailDistinct DEF SoundIn, ToSet, Items
<1> HIDE DEF r
<1>3. ASSUME NEW i \in DOMAIN r, NEW j \in DOMAIN r,
             i < j, r[i] \notin U, r[j] \notin U
      PROVE  r[i] < r[j]
  <2>1. /\ i + 1 \in DOMAIN s /\ j + 1 \in DOMAIN s /\ i + 1 < j + 1
        /\ r[i] = s[i + 1] /\ r[j] = s[j + 1]
    BY <1>1, <1>3
  <2> QED BY <1>3, <2>1 DEF SoundIn
<1> QED BY <1>1, <1>2, <1>3 DEF SoundIn, r

LEMMA OneSound ==
    ASSUME NEW U, NEW m \in Message
    PROVE  /\ <<m>> \in Seq(Message) /\ SoundIn(<<m>>, U) /\ Items(<<m>>) = {m}
           /\ <<>> \in Seq(Message) /\ SoundIn(<<>>, U) /\ Items(<<>>) = {}
BY DEF SoundIn, IsInjective, Items

LEMMA NoneSound ==
    ASSUME NEW U
    PROVE  <<>> \in Seq(Message) /\ SoundIn(<<>>, U) /\ Items(<<>>) = {}
BY DEF SoundIn, IsInjective, Items

\* More priority asks for less order.
LEMMA SoundForMore ==
    ASSUME NEW U, NEW V, U \subseteq V, NEW s, SoundIn(s, U)
    PROVE  SoundIn(s, V)
BY DEF SoundIn

LEMMA PrecedeForMore ==
    ASSUME NEW U, NEW V, U \subseteq V, NEW A, NEW B, Precede(A, B, U)
    PROVE  Precede(A, B, V)
BY DEF Precede

LEMMA ItemsNonEmpty ==
    ASSUME NEW s \in Seq(Message)
    PROVE  /\ s = <<>> <=> Items(s) = {}
           /\ Items(s) \subseteq Message
<1>1. Len(s) \in Nat /\ DOMAIN s = 1 .. Len(s)
  OBVIOUS
<1>2. CASE Len(s) = 0
  <2>1. s = <<>>
    BY <1>2
  <2> QED BY <1>1, <1>2, <2>1 DEF Items
<1>3. CASE Len(s) # 0
  <2>1. s # <<>> /\ 1 \in DOMAIN s
    BY <1>1, <1>3
  <2>2. \A i \in DOMAIN s : s[i] \in Message
    OBVIOUS
  <2>3. s[1] \in Items(s) /\ Items(s) \subseteq Message
    BY <2>1, <2>2 DEF Items
  <2> QED BY <2>1, <2>3
<1> QED BY <1>2, <1>3

LEMMA ConcatLine ==
    ASSUME NEW U, NEW s, NEW t, Line(s, U), Line(t, U),
           Items(s) \cap Items(t) = {}, Precede(Items(s), Items(t), U)
    PROVE  Line(s \o t, U) /\ Items(s \o t) = Items(s) \cup Items(t)
<1>1. s \in Seq(Message) /\ t \in Seq(Message) /\ SoundIn(s, U) /\ SoundIn(t, U)
  BY DEF Line
<1>2. /\ s \o t \in Seq(Message) /\ SoundIn(s \o t, U)
      /\ Items(s \o t) = Items(s) \cup Items(t)
  BY <1>1, ConcatSound
<1> QED BY <1>2 DEF Line

LEMMA PartsSound ==
    ASSUME NEW U, NEW s, Line(s, U)
    PROVE  /\ Line(Urgent(s), U) /\ Items(Urgent(s)) = Items(s) \cap priority
           /\ Line(Plain(s), U) /\ Items(Plain(s)) = Items(s) \ priority
           /\ Line(Redrivable(s), U) /\ Items(Redrivable(s)) = Items(s) \ isRedriven
<1> DEFINE P == {i \in DOMAIN s : s[i] \in priority}
           Q == {i \in DOMAIN s : s[i] \notin priority}
           R == {i \in DOMAIN s : s[i] \notin isRedriven}
<1>1. /\ P \in SUBSET DOMAIN s /\ Q \in SUBSET DOMAIN s /\ R \in SUBSET DOMAIN s
      /\ s \in Seq(Message) /\ SoundIn(s, U)
  BY DEF Line
<1>2. /\ {s[i] : i \in P} = Items(s) \cap priority
      /\ {s[i] : i \in Q} = Items(s) \ priority
      /\ {s[i] : i \in R} = Items(s) \ isRedriven
  BY DEF Items
<1>3. Urgent(s) = Subsequence(s, P) /\ Plain(s) = Subsequence(s, Q)
      /\ Redrivable(s) = Subsequence(s, R)
  BY DEF Urgent, Plain, Redrivable
<1> HIDE DEF P, Q, R
<1>4. Line(Subsequence(s, P), U) /\ Items(Subsequence(s, P)) = {s[i] : i \in P}
  BY <1>1, PartSound DEF Line
<1>5. Line(Subsequence(s, Q), U) /\ Items(Subsequence(s, Q)) = {s[i] : i \in Q}
  BY <1>1, PartSound DEF Line
<1>6. Line(Subsequence(s, R), U) /\ Items(Subsequence(s, R)) = {s[i] : i \in R}
  BY <1>1, PartSound DEF Line
<1> QED BY <1>2, <1>3, <1>4, <1>5, <1>6

\* Taking the queue keeps its messages and their order.
LEMMA TakenSound ==
    ASSUME NEW U, priority \subseteq U, NEW l \in Lane, NEW q, Line(q, U)
    PROVE  Line(Taken(l, q), U) /\ Items(Taken(l, q)) = Items(q)
<1>1. /\ Line(Urgent(q), U) /\ Items(Urgent(q)) = Items(q) \cap priority
      /\ Line(Plain(q), U) /\ Items(Plain(q)) = Items(q) \ priority
  BY PartsSound
<1>2. /\ Items(Urgent(q)) \cap Items(Plain(q)) = {}
      /\ Precede(Items(Urgent(q)), Items(Plain(q)), U)
      /\ Items(Urgent(q)) \cup Items(Plain(q)) = Items(q)
  BY <1>1 DEF Precede
<1>3. /\ Line(Urgent(q) \o Plain(q), U)
      /\ Items(Urgent(q) \o Plain(q)) = Items(q)
  BY <1>1, <1>2, ConcatLine
<1> QED BY <1>3 DEF Taken, prioritizeAgentInbound

\* Urgent messages first, then what is put back, then what has come in since.
Mergeable(uq, ud, pd, pq, U) ==
    /\ Line(uq, U) /\ Line(ud, U) /\ Line(pd, U) /\ Line(pq, U)
    /\ Items(uq) \subseteq U /\ Items(ud) \subseteq U
    /\ Items(uq) \cap Items(ud) = {} /\ (Items(uq) \cup Items(ud)) \cap Items(pd) = {}
    /\ (Items(uq) \cup Items(ud) \cup Items(pd)) \cap Items(pq) = {}
    /\ Precede(Items(pd), Items(pq), U)

LEMMA MergeLine ==
    ASSUME NEW U, NEW uq, NEW ud, NEW pd, NEW pq, Mergeable(uq, ud, pd, pq, U)
    PROVE  /\ Line(uq \o ud \o pd \o pq, U)
           /\ Items(uq \o ud \o pd \o pq)
                = Items(uq) \cup Items(ud) \cup Items(pd) \cup Items(pq)
<1>1. Line(uq \o ud, U) /\ Items(uq \o ud) = Items(uq) \cup Items(ud)
  <2>1. /\ Line(uq, U) /\ Line(ud, U)
        /\ Items(uq) \cap Items(ud) = {} /\ Precede(Items(uq), Items(ud), U)
    BY DEF Precede, Mergeable
  <2> QED BY <2>1, ConcatLine
<1>2. /\ Line(uq \o ud \o pd, U)
      /\ Items(uq \o ud \o pd) = Items(uq \o ud) \cup Items(pd)
  <2>1. /\ Line(pd, U) /\ Items(uq \o ud) \cap Items(pd) = {}
        /\ Precede(Items(uq \o ud), Items(pd), U)
    BY <1>1 DEF Precede, Mergeable
  <2> QED BY <1>1, <2>1, ConcatLine
<1>3. /\ Line(uq \o ud \o pd \o pq, U)
      /\ Items(uq \o ud \o pd \o pq) = Items(uq \o ud \o pd) \cup Items(pq)
  <2>1. /\ Line(pq, U) /\ Items(uq \o ud \o pd) \cap Items(pq) = {}
        /\ Precede(Items(uq \o ud \o pd), Items(pq), U)
    BY <1>1, <1>2 DEF Precede, Mergeable
  <2> QED BY <1>2, <2>1, ConcatLine
<1> QED BY <1>1, <1>2, <1>3

\* Putting a batch back before what has come in since keeps them all, in order.
Rejoins(d, q, U) ==
    /\ priority \subseteq U /\ Line(d, U) /\ Line(q, U)
    /\ Items(d) \cap Items(q) = {} /\ Precede(Items(d), Items(q), U)

LEMMA PutBackSound ==
    ASSUME NEW U, NEW l \in Lane, NEW q, NEW d, Rejoins(d, q, U)
    PROVE  /\ Line(PutBack(l, q, d), U)
           /\ Items(PutBack(l, q, d)) = Items(d) \cup Items(q)
<1>1. /\ Line(Urgent(q), U) /\ Items(Urgent(q)) = Items(q) \cap priority
      /\ Line(Plain(q), U) /\ Items(Plain(q)) = Items(q) \ priority
  BY PartsSound DEF Rejoins
<1>2. /\ Line(Urgent(d), U) /\ Items(Urgent(d)) = Items(d) \cap priority
      /\ Line(Plain(d), U) /\ Items(Plain(d)) = Items(d) \ priority
  BY PartsSound DEF Rejoins
<1>3. CASE l = "agent"
  <2>1. /\ Line(mergeAgentInboundQueue(q, d), U)
        /\ Items(mergeAgentInboundQueue(q, d)) = Items(d) \cup Items(q)
    <3>1. /\ Mergeable(Urgent(q), Urgent(d), Plain(d), Plain(q), U)
          /\ Items(Urgent(q)) \cup Items(Urgent(d)) \cup Items(Plain(d)) \cup Items(Plain(q))
                = Items(d) \cup Items(q)
      BY <1>1, <1>2 DEF Precede, Mergeable, Rejoins
    <3>2. /\ Line(Urgent(q) \o Urgent(d) \o Plain(d) \o Plain(q), U)
          /\ Items(Urgent(q) \o Urgent(d) \o Plain(d) \o Plain(q))
                = Items(Urgent(q)) \cup Items(Urgent(d)) \cup Items(Plain(d))
                    \cup Items(Plain(q))
      BY <3>1, MergeLine
    <3> QED BY <3>1, <3>2 DEF mergeAgentInboundQueue
  <2> QED BY <1>3, <2>1 DEF PutBack
<1>4. CASE l # "agent"
  <2>1. Line(d \o q, U) /\ Items(d \o q) = Items(d) \cup Items(q)
    BY ConcatLine DEF Rejoins
  <2> QED BY <1>4, <2>1 DEF PutBack
<1> QED BY <1>3, <1>4

(***************************************************************************)
(* The lanes, and the tasks that were given up.                            *)
(***************************************************************************)

\* Messages that keep no order: what has priority, and what a given-up run
\* returned to its queue.
Exempt == priority \cup returned

Held(l) == Items(batch[l]) \cup Items(queue[l])
LateHeld == UNION {Items(r.batch) : r \in late}
Pending == {m \in 1..sent : fate[m] = "none"}

\* A reviver that is idle has left nothing behind, one that is not has a batch.
LaneSound(l) ==
    /\ Line(batch[l], Exempt) /\ Line(queue[l], Exempt)
    /\ Items(batch[l]) \cap Items(queue[l]) = {}
    /\ Precede(Items(batch[l]), Items(queue[l]), Exempt)
    /\ IF phase[l] = "idle" THEN batch[l] = <<>> /\ Items(queue[l]) \subseteq returned
                            ELSE batch[l] # <<>>

\* No message is twice in the batches of the given-up tasks.
LateSound ==
    /\ \A r \in late : Line(r.batch, Message) /\ r.batch # <<>>
    /\ \A r, s \in late : r # s => Items(r.batch) \cap Items(s.batch) = {}

LanesSound == \A l \in Lane : LaneSound(l)
LanesApart ==
    /\ \A k, l \in Lane : k # l => Held(k) \cap Held(l) = {}
    /\ \A l \in Lane : Held(l) \cap LateHeld = {}
HeldIsPending == (UNION {Held(l) : l \in Lane}) \cup LateHeld = Pending
FateOpen == \A m \in Message : m > sent => fate[m] = "none"

PlacesSound == LanesSound /\ LateSound /\ LanesApart /\ HeldIsPending /\ FateOpen

\* What waits for the slot was asked for.
TurnsAsked == \A t \in Turn : turns[t] <= asked

LineInv == TypeOK /\ TurnsAsked /\ PlacesSound

\* A lane that a step leaves alone.
LEMMA LaneKept ==
    ASSUME NEW l \in Lane, LaneSound(l), priority' = priority, returned \subseteq returned',
           batch'[l] = batch[l], queue'[l] = queue[l],
           phase'[l] = "idle" <=> phase[l] = "idle"
    PROVE  LaneSound(l)' /\ Held(l)' = Held(l)
<1> DEFINE V == Exempt'
<1>1. Exempt \subseteq V
  BY DEF Exempt
<1> HIDE DEF V
<1>2. Line(batch[l], V) /\ Line(queue[l], V)
  BY <1>1, SoundForMore DEF LaneSound, Line
<1>3. Precede(Items(batch[l]), Items(queue[l]), V)
  BY <1>1, PrecedeForMore DEF LaneSound
<1>4. Items(batch[l])' = Items(batch[l]) /\ Items(queue[l])' = Items(queue[l])
  BY DEF Items
<1>5. Line(batch[l], Exempt)' /\ Line(queue[l], Exempt)'
  BY <1>2 DEF Line, SoundIn, IsInjective, V
<1>6. Precede(Items(batch[l]), Items(queue[l]), Exempt)'
  BY <1>3, <1>4 DEF Precede, V
<1> QED BY <1>4, <1>5, <1>6 DEF LaneSound, Held

\* A lane whose reviver starts its loop.
LEMMA LaneLoops ==
    ASSUME TypeOK, NEW l \in Lane, NEW q, Line(q, Exempt),
           UNCHANGED <<priority, returned>>, LoopWith(l, q)
    PROVE  /\ LaneSound(l)' /\ Held(l)' = Items(q)
           /\ batch' \in [Lane -> Seq(Message)]
           /\ queue' \in [Lane -> Seq(Message)]
           /\ phase' \in [Lane -> Phase]
           /\ phase'[l] \in {"idle", "resolving", "refused"}
           /\ Items(batch'[l]) = Items(q) /\ Items(queue'[l]) = {}
           /\ \A k \in Lane \ {l} : /\ batch'[k] = batch[k] /\ queue'[k] = queue[k]
                                    /\ phase'[k] = phase[k]
<1> DEFINE p == IF q = <<>> THEN "idle" ELSE IF gone THEN "refused" ELSE "resolving"
<1>1. /\ queue' = [queue EXCEPT ![l] = <<>>]
      /\ batch' = [batch EXCEPT ![l] = Taken(l, q)]
      /\ phase' = [phase EXCEPT ![l] = p]
  BY DEF LoopWith
<1>2. /\ queue \in [Lane -> Seq(Message)] /\ batch \in [Lane -> Seq(Message)]
      /\ phase \in [Lane -> Phase]
  BY DEF TypeOK
<1>3. /\ p \in {"idle", "resolving", "refused"} /\ (p = "idle" <=> q = <<>>)
      /\ p \in Phase
  BY DEF Phase
<1> HIDE DEF p
<1>4. Line(Taken(l, q), Exempt) /\ Items(Taken(l, q)) = Items(q)
  BY TakenSound DEF Exempt
<1>5. Taken(l, q) \in Seq(Message) /\ q \in Seq(Message) /\ Exempt' = Exempt
  BY <1>4 DEF Line, Exempt
<1>6. /\ batch'[l] = Taken(l, q) /\ queue'[l] = <<>> /\ phase'[l] = p
      /\ \A k \in Lane \ {l} : /\ batch'[k] = batch[k] /\ queue'[k] = queue[k]
                               /\ phase'[k] = phase[k]
  BY <1>1, <1>2
<1>7. /\ batch' \in [Lane -> Seq(Message)] /\ queue' \in [Lane -> Seq(Message)]
      /\ phase' \in [Lane -> Phase]
  BY <1>1, <1>2, <1>3, <1>5
<1>8. Items(batch'[l]) = Items(q) /\ Items(queue'[l]) = {}
  BY <1>4, <1>6, NoneSound
<1>9. Line(batch'[l], Exempt') /\ Line(queue'[l], Exempt')
  BY <1>4, <1>5, <1>6, NoneSound DEF Line
<1>10. Line(batch[l], Exempt)' /\ Line(queue[l], Exempt)'
  BY <1>9 DEF Line, SoundIn, IsInjective
<1>11. Items(batch[l])' = Items(q) /\ Items(queue[l])' = {}
  BY <1>8 DEF Items
<1>12. Precede(Items(batch[l]), Items(queue[l]), Exempt)'
  BY <1>11 DEF Precede
<1>13. q = <<>> <=> batch'[l] = <<>>
  <2>1. q = <<>> <=> Items(q) = {}
    BY <1>5, ItemsNonEmpty
  <2>2. batch'[l] = <<>> <=> Items(batch'[l]) = {}
    BY <1>7, ItemsNonEmpty
  <2> QED BY <2>1, <2>2, <1>8
<1>14. LaneSound(l)'
  <2>1. IF phase'[l] = "idle" THEN batch'[l] = <<>> ELSE batch'[l] # <<>>
    BY <1>3, <1>6, <1>13
  <2> QED BY <1>10, <1>11, <1>12, <2>1 DEF LaneSound
<1>15. Held(l)' = Items(q)
  BY <1>11 DEF Held
<1> QED BY <1>3, <1>6, <1>7, <1>8, <1>14, <1>15

\* A step that takes W from a lane, of which X goes on in a given-up task and
\* the rest has ended, and that leaves the rest to the reviver's loop.
LEMMA LoopPlaces ==
    ASSUME LineInv, NEW l \in Lane, NEW q, Line(q, Exempt),
           LoopWith(l, q), UNCHANGED <<priority, returned>>,
           NEW W, W \subseteq Held(l), Items(q) = Held(l) \ W,
           NEW X, X \subseteq W, LateSound', LateHeld' = LateHeld \cup X,
           Pending' = Pending \ (W \ X), FateOpen'
    PROVE  PlacesSound'
<1>1. TypeOK /\ LanesSound /\ LanesApart /\ HeldIsPending
  BY DEF LineInv, PlacesSound
<1>2. /\ LaneSound(l)' /\ Held(l)' = Items(q)
      /\ \A k \in Lane \ {l} : /\ batch'[k] = batch[k] /\ queue'[k] = queue[k]
                               /\ phase'[k] = phase[k]
  BY <1>1, LaneLoops
<1>3. ASSUME NEW k \in Lane, k # l PROVE LaneSound(k)' /\ Held(k)' = Held(k)
  BY <1>1, <1>2, <1>3, LaneKept DEF LanesSound
<1>4. LanesSound'
  BY <1>2, <1>3 DEF LanesSound
<1>5. LanesApart'
  <2>1. ASSUME NEW j \in Lane, NEW k \in Lane, j # k PROVE (Held(j) \cap Held(k) = {})'
    BY <1>1, <1>2, <1>3, <2>1 DEF LanesApart
  <2>2. ASSUME NEW k \in Lane PROVE (Held(k) \cap LateHeld = {})'
    BY <1>1, <1>2, <1>3 DEF LanesApart
  <2> QED BY <2>1, <2>2 DEF LanesApart
<1>6. HeldIsPending'
  <2>1. ASSUME NEW m PROVE m \in Pending' <=> m \in LateHeld' \/ \E k \in Lane : m \in Held(k)'
    <3>1. m \in Pending <=> m \in LateHeld \/ \E k \in Lane : m \in Held(k)
      BY <1>1 DEF HeldIsPending
    <3>2. m \in W => m \notin LateHeld /\ \A k \in Lane \ {l} : m \notin Held(k)
      BY <1>1 DEF LanesApart
    <3> QED BY <1>2, <1>3, <3>1, <3>2
  <2> QED BY <2>1 DEF HeldIsPending
<1> QED BY <1>4, <1>5, <1>6 DEF PlacesSound

\* A step that moves no message.
LEMMA SamePlaces ==
    ASSUME LineInv, UNCHANGED <<queue, batch, priority, returned, late, sent, fate>>,
           \A l \in Lane : phase'[l] = "idle" <=> phase[l] = "idle"
    PROVE  PlacesSound'
<1>1. LanesSound /\ LateSound /\ LanesApart /\ HeldIsPending /\ FateOpen
  BY DEF LineInv, PlacesSound
<1>2. ASSUME NEW k \in Lane PROVE LaneSound(k)' /\ Held(k)' = Held(k)
  BY <1>1, LaneKept DEF LanesSound
<1>3. Pending' = Pending /\ LateHeld' = LateHeld
  BY DEF Pending, LateHeld, Items
<1>4. LanesSound' /\ LanesApart' /\ HeldIsPending'
  BY <1>1, <1>2, <1>3 DEF LanesSound, LanesApart, HeldIsPending
<1>5. LateSound'
  BY <1>1 DEF LateSound, Line, SoundIn, IsInjective, Items
<1>6. FateOpen'
  BY <1>1 DEF FateOpen
<1> QED BY <1>4, <1>5, <1>6 DEF PlacesSound

\* Some of the pending messages are run or dropped.
LEMMA EndedPending ==
    ASSUME LineInv, NEW W, W \subseteq Pending, sent' = sent,
           NEW what \in {"run", "dropped"}, Ended(W, what)
    PROVE  /\ Pending' = Pending \ W /\ FateOpen'
           /\ fate' \in [Message -> {"none", "run", "dropped"}]
<1>1. /\ fate \in [Message -> {"none", "run", "dropped"}]
      /\ sent \in Nat /\ sent <= MaxMessages
  BY InboxAssumption DEF LineInv, TypeOK
<1>2. /\ Message \subseteq Nat /\ 1..sent \subseteq Message
      /\ \A m \in 1..sent : m <= sent
  BY <1>1, InboxAssumption DEF Message
<1>3. fate' = [m \in Message |-> IF m \in W THEN what ELSE fate[m]]
  BY DEF Ended
<1>4. Pending' = Pending \ W
  BY <1>1, <1>2, <1>3 DEF Pending
<1>5. FateOpen'
  BY <1>1, <1>2, <1>3 DEF FateOpen, Pending, LineInv, PlacesSound
<1> QED BY <1>1, <1>3, <1>4, <1>5

\* Where the pending messages are, and what their numbers are.
LEMMA PendingAreSent ==
    ASSUME LineInv
    PROVE  /\ Message \subseteq Nat /\ sent \in Nat /\ LateHeld \subseteq Pending
           /\ \A l \in Lane : Held(l) \subseteq Pending
           /\ \A m \in Pending : m \in Message /\ m <= sent /\ fate[m] = "none"
           /\ \A l \in Lane : \A m \in Held(l) :
                 m \in Message /\ m <= sent /\ fate[m] = "none"
<1>1. sent \in 0..MaxMessages /\ MaxMessages \in Nat
  BY InboxAssumption DEF LineInv, TypeOK
<1>2. LateHeld \subseteq Pending /\ \A l \in Lane : Held(l) \subseteq Pending
  BY DEF LineInv, PlacesSound, HeldIsPending
<1> QED BY <1>1, <1>2 DEF Pending, Message

LEMMA PendingAreOlder ==
    ASSUME LineInv, NEW l \in Lane
    PROVE  /\ \A a \in Items(batch[l]) : a < sent + 1
           /\ \A a \in Items(queue[l]) : a < sent + 1
<1>1. Message \subseteq Nat /\ sent \in Nat
  BY PendingAreSent
<1>2. ASSUME NEW a \in Held(l) PROVE a < sent + 1
  <2>1. a \in Nat /\ a <= sent
    BY <1>1, PendingAreSent
  <2> QED BY <1>1, <2>1
<1> QED BY <1>2 DEF Held

LEMMA ArrivePlaces ==
    ASSUME LineInv, NEW l \in Lane, NEW q, Line(q, Exempt),
           sent < MaxMessages, sent' = sent + 1,
           UNCHANGED <<fate, priority, returned, late>>,
           Items(q) = Items(queue[l]) \cup {sent + 1},
           Precede(Items(batch[l]), Items(q), Exempt),
           Arrive(l, q)
    PROVE  /\ PlacesSound'
           /\ queue' \in [Lane -> Seq(Message)] /\ batch' \in [Lane -> Seq(Message)]
           /\ phase' \in [Lane -> Phase]
<1> DEFINE Typed == /\ queue' \in [Lane -> Seq(Message)]
                    /\ batch' \in [Lane -> Seq(Message)]
                    /\ phase' \in [Lane -> Phase]
           Same(k) == /\ batch'[k] = batch[k] /\ queue'[k] = queue[k]
                      /\ phase'[k] = phase[k]
<1>1. TypeOK /\ LanesSound /\ LateSound /\ LanesApart /\ HeldIsPending /\ FateOpen
  BY DEF LineInv, PlacesSound
<1>2. /\ Message \subseteq Nat /\ sent \in Nat /\ sent + 1 \in Message
      /\ LateHeld \subseteq Pending /\ \A m \in Pending : m <= sent
      /\ \A k \in Lane : \A m \in Held(k) : m \in Message /\ m <= sent
  BY PendingAreSent, InboxAssumption DEF Message
<1>3. sent + 1 \notin LateHeld /\ \A k \in Lane : sent + 1 \notin Held(k)
  BY <1>2
<1>4. /\ LaneSound(l)' /\ Held(l)' = Held(l) \cup {sent + 1} /\ Typed
      /\ \A k \in Lane \ {l} : Same(k)
  <2>1. ASSUME phase[l] = "idle" 
        PROVE  /\ LaneSound(l)' /\ Held(l)' = Held(l) \cup {sent + 1} /\ Typed
               /\ \A k \in Lane \ {l} : Same(k)
    <3>1. LoopWith(l, q)
      BY <2>1 DEF Arrive
    <3>2. /\ LaneSound(l)' /\ Held(l)' = Items(q) /\ Typed
          /\ \A k \in Lane \ {l} : Same(k)
      BY <1>1, <3>1, LaneLoops
    <3>3. batch[l] = <<>>
      BY <1>1, <2>1 DEF LanesSound, LaneSound
    <3>4. Items(batch[l]) = {}
      BY <3>3, NoneSound
    <3> QED BY <3>2, <3>4 DEF Held
  <2>2. ASSUME phase[l] # "idle"
        PROVE  /\ LaneSound(l)' /\ Held(l)' = Held(l) \cup {sent + 1} /\ Typed
               /\ \A k \in Lane \ {l} : Same(k)
    <3>1. /\ queue' = [queue EXCEPT ![l] = q] /\ UNCHANGED <<batch, phase>>
      BY <2>2 DEF Arrive
    <3>2. /\ queue \in [Lane -> Seq(Message)] /\ batch \in [Lane -> Seq(Message)]
          /\ phase \in [Lane -> Phase] /\ q \in Seq(Message)
      BY <1>1 DEF TypeOK, Line
    <3>3. /\ queue'[l] = q /\ batch'[l] = batch[l] /\ Typed
          /\ \A k \in Lane \ {l} : Same(k)
      BY <3>1, <3>2
    <3>4. LaneSound(l) /\ Exempt' = Exempt
      BY <1>1 DEF LanesSound, Exempt
    <3>5. Line(batch[l], Exempt)' /\ Line(queue[l], Exempt)'
      BY <3>3, <3>4 DEF LaneSound, Line, SoundIn, IsInjective
    <3>6. Items(batch[l])' = Items(batch[l]) /\ Items(queue[l])' = Items(q)
      BY <3>3 DEF Items
    <3>7. Items(batch[l]) \cap Items(q) = {}
      BY <1>3, <3>4 DEF LaneSound, Held
    <3>8. LaneSound(l)'
      <4>1. Precede(Items(batch[l]), Items(queue[l]), Exempt)'
        BY <3>4, <3>6 DEF Precede
      <4>2. batch'[l] # <<>> /\ phase'[l] # "idle"
        BY <2>2, <3>1, <3>4 DEF LaneSound
      <4> QED BY <3>5, <3>6, <3>7, <4>1, <4>2 DEF LaneSound
    <3>9. Held(l)' = Held(l) \cup {sent + 1}
      BY <3>6 DEF Held
    <3> QED BY <3>3, <3>8, <3>9
  <2> QED BY <2>1, <2>2
<1>5. ASSUME NEW k \in Lane, k # l PROVE LaneSound(k)' /\ Held(k)' = Held(k)
  BY <1>1, <1>4, <1>5, LaneKept DEF LanesSound
<1> HIDE DEF Typed, Same
<1>6. LateHeld' = LateHeld /\ LateSound'
  BY <1>1 DEF LateHeld, LateSound, Line, SoundIn, IsInjective, Items
<1>7. LanesSound' /\ LanesApart'
  BY <1>1, <1>3, <1>4, <1>5, <1>6 DEF LanesSound, LanesApart
<1>8. Pending' = Pending \cup {sent + 1}
  BY <1>1, <1>2 DEF Pending, FateOpen
<1>9. HeldIsPending'
  <2>1. (UNION {Held(k) : k \in Lane})' = (UNION {Held(k) : k \in Lane}) \cup {sent + 1}
    BY <1>4, <1>5
  <2> QED BY <1>1, <1>6, <1>8, <2>1 DEF HeldIsPending
<1>10. FateOpen'
  <2>1. /\ fate' = fate /\ sent' = sent + 1 /\ sent \in Nat /\ Message \subseteq Nat
        /\ \A m \in Message : m > sent => fate[m] = "none"
    BY <1>1, <1>2 DEF FateOpen
  <2>2. \A m \in Message : m > sent' => fate'[m] = "none"
    BY <2>1
  <2> QED BY <2>2 DEF FateOpen
<1>11. PlacesSound'
  BY <1>6, <1>7, <1>9, <1>10 DEF PlacesSound
<1> QED BY <1>4, <1>11 DEF Typed

LEMMA LineInit == Init => LineInv
<1> SUFFICES ASSUME Init PROVE LineInv
  OBVIOUS
<1>1. TypeOK
  <2>1. <<>> \in Seq(Message) /\ 0 \in 0..MaxMessages /\ 0 \in 0..MaxTurns /\ 0 \in 0..MaxStops
    BY InboxAssumption
  <2>2. /\ queue \in [Lane -> Seq(Message)] /\ batch \in [Lane -> Seq(Message)]
        /\ phase \in [Lane -> Phase] /\ turns \in [Turn -> 0..MaxTurns]
    BY <2>1 DEF Init, Phase
  <2>3. /\ shown \in [Message -> Nat] /\ attempts \in [Message -> Nat]
        /\ fate \in [Message -> {"none", "run", "dropped"}]
    BY DEF Init
  <2> QED BY <2>1, <2>2, <2>3 DEF Init, TypeOK, Turn, Cause
<1>2. \A l \in Lane : batch[l] = <<>> /\ queue[l] = <<>> /\ phase[l] = "idle"
  BY DEF Init
<1>3. \A l \in Lane : Items(batch[l]) = {} /\ Items(queue[l]) = {}
  BY <1>2, NoneSound
<1>4. LanesSound
  <2> SUFFICES ASSUME NEW l \in Lane PROVE LaneSound(l)
    BY DEF LanesSound
  <2>1. Line(batch[l], Exempt) /\ Line(queue[l], Exempt)
    BY <1>2, NoneSound DEF Line
  <2> QED BY <1>2, <1>3, <2>1 DEF LaneSound, Precede
<1>5. LateSound /\ LateHeld = {}
  BY DEF Init, LateSound, LateHeld
<1>6. LanesApart
  BY <1>3, <1>5 DEF LanesApart, Held
<1>7. HeldIsPending
  <2>1. UNION {Held(l) : l \in Lane} = {}
    BY <1>3 DEF Held
  <2>2. Pending = {}
    BY DEF Pending, Init
  <2> QED BY <1>5, <2>1, <2>2 DEF HeldIsPending
<1>8. FateOpen /\ TurnsAsked
  BY DEF FateOpen, TurnsAsked, Init
<1> QED BY <1>1, <1>4, <1>5, <1>6, <1>7, <1>8 DEF LineInv, PlacesSound

\* A new message at the end of a line, and an urgent one at its head.
LEMMA AppendLine ==
    ASSUME NEW U, NEW s, Line(s, U), NEW m \in Message, \A a \in Items(s) : a < m
    PROVE  Line(Append(s, m), U) /\ Items(Append(s, m)) = Items(s) \cup {m}
<1>1. s \in Seq(Message) /\ Message \subseteq Nat
  BY InboxAssumption DEF Line, Message
<1>2. Line(<<m>>, U) /\ Items(<<m>>) = {m}
  BY OneSound DEF Line
<1>3. Items(s) \subseteq Nat
  BY <1>1, ItemsNonEmpty
<1>4. Items(s) \cap {m} = {} /\ Precede(Items(s), {m}, U)
  BY <1>1, <1>3 DEF Precede
<1>5. Line(s \o <<m>>, U) /\ Items(s \o <<m>>) = Items(s) \cup {m}
  BY <1>2, <1>4, ConcatLine
<1>6. Append(s, m) = s \o <<m>>
  BY <1>1
<1> QED BY <1>5, <1>6

LEMMA PrependLine ==
    ASSUME NEW U, NEW s, Line(s, U), NEW m \in Message, m \notin Items(s),
           m \in U \/ s = <<>>
    PROVE  Line(<<m>> \o s, U) /\ Items(<<m>> \o s) = {m} \cup Items(s)
<1>1. Line(<<m>>, U) /\ Items(<<m>>) = {m}
  BY OneSound DEF Line
<1>2. Items(<<m>>) \cap Items(s) = {} /\ Precede(Items(<<m>>), Items(s), U)
  BY <1>1, NoneSound DEF Precede
<1>3. /\ Line(<<m>> \o s, U)
      /\ Items(<<m>> \o s) = Items(<<m>>) \cup Items(s)
  BY <1>1, <1>2, ConcatLine
<1> QED BY <1>1, <1>3

LEMMA LaterPrecedes ==
    ASSUME NEW U, NEW A, NEW B, NEW m, Precede(A, B, U),
           m \in U \/ \A a \in A : a < m
    PROVE  Precede(A, B \cup {m}, U)
BY DEF Precede

\* The causes of an interruption keep their type.
LEMMA CauseTyped ==
    ASSUME NEW cause \in Cause
    PROVE  Stopped(cause) \in Cause /\ Preempted(cause) \in Cause
BY DEF Cause, Stopped, Preempted

LEMMA PreemptTyped ==
    ASSUME TypeOK, Preempt \/ UNCHANGED <<flag, why>>
    PROVE  flag' \in BOOLEAN /\ why' \in Cause
<1>1. flag \in BOOLEAN /\ why \in Cause /\ Preempted(why) \in Cause
  BY CauseTyped DEF TypeOK
<1>2. flag' \in {flag, flag \/ active # "none"} /\ why' \in {why, Preempted(why)}
  BY DEF Preempt
<1> QED BY <1>1, <1>2

\* The queue that a message of another agent makes.
Joined ==
    IF sent + 1 \in priority THEN <<sent + 1>> \o queue["agent"]
                             ELSE Append(queue["agent"], sent + 1)

LEMMA SendQueue ==
    ASSUME LineInv, sendToAgent
    PROVE  /\ Line(Joined, Exempt)
           /\ Items(Joined) = Items(queue["agent"]) \cup {sent + 1}
           /\ Precede(Items(batch["agent"]), Items(Joined), Exempt)
           /\ Arrive("agent", Joined)
<1> DEFINE m == sent + 1
           l == "agent"
<1>1. LaneSound(l) /\ l \in Lane
  BY DEF LineInv, PlacesSound, LanesSound, Lane
<1>2. /\ Message \subseteq Nat /\ sent \in Nat /\ m \in Message
      /\ \A k \in Held(l) : k <= sent
  BY <1>1, PendingAreSent, InboxAssumption DEF Message, sendToAgent
<1>3. Arrive(l, Joined)
  BY DEF sendToAgent, Joined
<1>4. Line(queue[l], Exempt) /\ m \notin Items(queue[l])
  BY <1>1, <1>2 DEF LaneSound, Held
<1>5. Precede(Items(batch[l]), Items(queue[l]) \cup {m}, Exempt)
  <2>1. \A a \in Items(batch[l]) : a < m
    BY <1>1, PendingAreOlder
  <2>2. Precede(Items(batch[l]), Items(queue[l]), Exempt)
    BY <1>1 DEF LaneSound
  <2> QED BY <2>1, <2>2, LaterPrecedes
<1>6. Line(Joined, Exempt) /\ Items(Joined) = Items(queue[l]) \cup {m}
  <2>1. CASE m \in priority
    <3>1. m \in Exempt
      BY <2>1 DEF Exempt
    <3>2. /\ Line(<<m>> \o queue[l], Exempt)
          /\ Items(<<m>> \o queue[l]) = {m} \cup Items(queue[l])
      BY <1>2, <1>4, <3>1, PrependLine
    <3> QED BY <2>1, <3>2 DEF Joined
  <2>2. CASE m \notin priority
    <3>1. \A a \in Items(queue[l]) : a < m
      BY <1>1, PendingAreOlder
    <3>2. /\ Line(Append(queue[l], m), Exempt)
          /\ Items(Append(queue[l], m)) = Items(queue[l]) \cup {m}
      BY <1>2, <1>4, <3>1, AppendLine
    <3> QED BY <2>2, <3>2 DEF Joined
  <2> QED BY <2>1, <2>2
<1> QED BY <1>3, <1>5, <1>6

LEMMA SendLine ==
    ASSUME LineInv, sendToAgent
    PROVE  LineInv'
<1>1. TypeOK /\ "agent" \in Lane
  BY DEF LineInv, Lane
<1>2. /\ Line(Joined, Exempt) /\ Items(Joined) = Items(queue["agent"]) \cup {sent + 1}
      /\ Precede(Items(batch["agent"]), Items(Joined), Exempt)
      /\ Arrive("agent", Joined)
  BY SendQueue
<1>3. /\ sent < MaxMessages /\ sent' = sent + 1
      /\ UNCHANGED <<fate, priority, returned, late>>
  BY DEF sendToAgent, history, flags, others
<1>4. /\ PlacesSound'
      /\ queue' \in [Lane -> Seq(Message)] /\ batch' \in [Lane -> Seq(Message)]
      /\ phase' \in [Lane -> Phase]
  BY <1>1, <1>2, <1>3, ArrivePlaces
<1>5. flag' \in BOOLEAN /\ why' \in Cause
  BY <1>1, PreemptTyped DEF sendToAgent
<1>6. sent' \in 0..MaxMessages /\ unchecked' \in 0..MaxMessages
  <2>1. /\ sent \in Nat /\ unchecked \in Nat /\ unchecked <= MaxMessages
        /\ MaxMessages \in Nat
    BY <1>1, InboxAssumption DEF TypeOK
  <2>2. \/ unchecked' = unchecked
        \/ unchecked > 0 /\ unchecked' = unchecked - 1
    BY DEF sendToAgent
  <2> QED BY <1>3, <2>1, <2>2
<1>7. TurnsAsked'
  BY DEF LineInv, TurnsAsked, sendToAgent
<1>8. TypeOK'
  BY <1>1, <1>4, <1>5, <1>6 DEF TypeOK, sendToAgent, history, flags, others
<1> QED BY <1>4, <1>7, <1>8 DEF LineInv

LEMMA WakeQueue ==
    ASSUME LineInv, wakeForInbound
    PROVE  LET q == Append(queue["channel"], sent + 1)
           IN  /\ Line(q, Exempt)
               /\ Items(q) = Items(queue["channel"]) \cup {sent + 1}
               /\ Precede(Items(batch["channel"]), Items(q), Exempt)
               /\ Arrive("channel", q)
<1> DEFINE m == sent + 1
           l == "channel"
           q == Append(queue[l], m)
<1>1. LaneSound(l) /\ l \in Lane
  BY DEF LineInv, PlacesSound, LanesSound, Lane
<1>2. m \in Message /\ sent \in Nat
  BY PendingAreSent, InboxAssumption DEF Message, wakeForInbound
<1>3. /\ \A a \in Items(batch[l]) : a < m
      /\ \A a \in Items(queue[l]) : a < m
  BY <1>1, PendingAreOlder
<1>4. Line(queue[l], Exempt) /\ Precede(Items(batch[l]), Items(queue[l]), Exempt)
  BY <1>1 DEF LaneSound
<1>5. Precede(Items(batch[l]), Items(queue[l]) \cup {m}, Exempt)
  BY <1>3, <1>4, LaterPrecedes
<1>6. Line(q, Exempt) /\ Items(q) = Items(queue[l]) \cup {m}
  BY <1>2, <1>3, <1>4, AppendLine
<1>7. Arrive(l, q)
  BY DEF wakeForInbound
<1> HIDE DEF q
<1> QED BY <1>5, <1>6, <1>7 DEF q

LEMMA WakeLine ==
    ASSUME LineInv, wakeForInbound
    PROVE  LineInv'
<1> DEFINE l == "channel"
           q == Append(queue[l], sent + 1)
<1>1. TypeOK /\ l \in Lane
  BY DEF LineInv, Lane
<1>2. /\ Line(q, Exempt) /\ Items(q) = Items(queue[l]) \cup {sent + 1}
      /\ Precede(Items(batch[l]), Items(q), Exempt) /\ Arrive(l, q)
  BY WakeQueue
<1>3. /\ sent < MaxMessages /\ sent' = sent + 1
      /\ UNCHANGED <<fate, priority, returned, late>>
  BY DEF wakeForInbound, history, flags, others
<1> HIDE DEF q
<1>4. /\ PlacesSound'
      /\ queue' \in [Lane -> Seq(Message)] /\ batch' \in [Lane -> Seq(Message)]
      /\ phase' \in [Lane -> Phase]
  BY <1>1, <1>2, <1>3, ArrivePlaces
<1>5. sent' \in 0..MaxMessages
  BY <1>1, <1>3, InboxAssumption DEF TypeOK
<1>6. TurnsAsked'
  BY DEF LineInv, TurnsAsked, wakeForInbound
<1>7. TypeOK'
  BY <1>1, <1>4, <1>5 DEF TypeOK, wakeForInbound, history, flags, run, others
<1> QED BY <1>4, <1>6, <1>7 DEF LineInv

\* The steps of the users and of turns, which move no message.
LEMMA TurnTyped ==
    ASSUME TypeOK, TurnsAsked,
           \/ DirectMessage \/ OtherWake \/ StopRun \/ Trip
           \/ DeletionFails \/ LateTurnStarts \/ LateTurnEnds
           \/ \E t \in Turn : TakeTurn(t) \/ TurnStarts(t) \/ EndTurn(t) \/ GiveUpTurn(t)
    PROVE  TypeOK' /\ TurnsAsked'
<1>1. /\ asked \in Nat /\ asked <= MaxTurns /\ MaxTurns \in Nat
      /\ stops \in Nat /\ MaxStops \in Nat
      /\ turns \in [Turn -> 0..MaxTurns]
      /\ \A t \in Turn : turns[t] \in Nat /\ turns[t] <= asked
  BY InboxAssumption DEF TypeOK, TurnsAsked
<1>2. ASSUME NEW t \in Turn, turns' = Asked(t),
             asked < MaxTurns, asked' = asked + 1
      PROVE  /\ turns' \in [Turn -> 0..MaxTurns] /\ TurnsAsked'
             /\ asked' \in 0..MaxTurns
  <2>1. turns[t] + 1 \in 0..MaxTurns /\ turns' = [turns EXCEPT ![t] = turns[t] + 1]
    BY <1>1, <1>2 DEF Asked
  <2>2. \A k \in Turn : turns'[k] <= asked'
    BY <1>1, <1>2, <2>1
  <2> QED BY <1>1, <1>2, <2>1, <2>2 DEF TurnsAsked
<1>3. "user" \in Turn /\ "other" \in Turn /\ why \in Cause /\ Stopped(why) \in Cause
      /\ "none" \in Cause
  BY CauseTyped DEF TypeOK, Turn, Cause
<1>4. CASE DirectMessage
  <2>1. flag' \in BOOLEAN /\ why' \in Cause
    BY <1>4, PreemptTyped DEF DirectMessage
  <2>2. /\ turns' \in [Turn -> 0..MaxTurns] /\ TurnsAsked'
        /\ asked' \in 0..MaxTurns
    BY <1>2, <1>3, <1>4 DEF DirectMessage
  <2> QED BY <1>4, <2>1, <2>2 DEF DirectMessage, TypeOK, lanes, flags, history, others
<1>5. CASE OtherWake
  <2>1. /\ turns' \in [Turn -> 0..MaxTurns] /\ TurnsAsked'
        /\ asked' \in 0..MaxTurns
    BY <1>2, <1>3, <1>5 DEF OtherWake
  <2> QED BY <1>5, <2>1 DEF OtherWake, TypeOK, lanes, flags, history, run, others
<1>6. CASE StopRun
  <2>1. stops' \in 0..MaxStops /\ why' \in Cause
    BY <1>1, <1>3, <1>6 DEF StopRun
  <2> QED BY <1>6, <2>1 DEF StopRun, TypeOK, TurnsAsked, lanes, flags, history, others
<1>7. CASE Trip
  <2>1. tripped' \in BOOLEAN /\ why' \in Cause
    BY <1>3, <1>7 DEF Trip
  <2> QED BY <1>7, <2>1 DEF Trip, TypeOK, TurnsAsked, lanes, flags, history, others, bounds
<1>8. CASE DeletionFails
  <2>1. unchecked' \in 0..MaxMessages
    BY <1>8, InboxAssumption DEF DeletionFails
  <2>2. gone' = FALSE
    BY <1>8 DEF DeletionFails
  <2> QED BY <1>8, <2>1, <2>2
         DEF DeletionFails, TypeOK, TurnsAsked, lanes, flags, history, run, others, bounds
<1>9. CASE LateTurnStarts
  BY <1>9 DEF LateTurnStarts, Activates, TypeOK, TurnsAsked, lanes, flags, history,
              others, bounds
<1>10. CASE LateTurnEnds
  BY <1>10 DEF LateTurnEnds, LateEnds, TypeOK, TurnsAsked, lanes, flags, history, bounds
<1>11. ASSUME NEW t \in Turn, TakeTurn(t) PROVE TypeOK' /\ TurnsAsked'
  <2>1. turns[t] - 1 \in 0..MaxTurns /\ turns' = [turns EXCEPT ![t] = turns[t] - 1]
    BY <1>1, <1>11 DEF TakeTurn
  <2>2. \A k \in Turn : turns'[k] <= asked'
    BY <1>1, <1>11, <2>1 DEF TakeTurn, bounds
  <2>3. turns' \in [Turn -> 0..MaxTurns]
    BY <1>1, <2>1
  <2> QED BY <1>3, <1>11, <2>2, <2>3
         DEF TakeTurn, Takes, TypeOK, TurnsAsked, lanes, flags, bounds, history, others
<1>12. ASSUME NEW t \in Turn, TurnStarts(t) PROVE TypeOK' /\ TurnsAsked'
  BY <1>12 DEF TurnStarts, Activates, TypeOK, TurnsAsked, lanes, flags, bounds, history,
               others
<1>13. ASSUME NEW t \in Turn, EndTurn(t) PROVE TypeOK' /\ TurnsAsked'
  BY <1>3, <1>13 DEF EndTurn, Frees, TypeOK, TurnsAsked, lanes, flags, bounds, history,
                     others
<1>14. ASSUME NEW t \in Turn, GiveUpTurn(t) PROVE TypeOK' /\ TurnsAsked'
  BY <1>3, <1>14 DEF GiveUpTurn, GivesUp, TypeOK, TurnsAsked, lanes, flags, bounds,
                     history
<1> QED BY <1>4, <1>5, <1>6, <1>7, <1>8, <1>9, <1>10, <1>11, <1>12, <1>13, <1>14

LEMMA TurnLine ==
    ASSUME LineInv,
           \/ DirectMessage \/ OtherWake \/ StopRun \/ Trip
           \/ DeletionFails \/ LateTurnStarts \/ LateTurnEnds
           \/ \E t \in Turn : TakeTurn(t) \/ TurnStarts(t) \/ EndTurn(t) \/ GiveUpTurn(t)
    PROVE  LineInv'
<1>1. UNCHANGED <<queue, batch, phase, priority, returned, late, sent, fate>>
  BY DEF DirectMessage, OtherWake, StopRun, Trip, DeletionFails, LateTurnStarts,
         LateTurnEnds, LateEnds, TakeTurn, TurnStarts, EndTurn, GiveUpTurn,
         lanes, flags, history, bounds, others
<1>2. PlacesSound'
  BY <1>1, SamePlaces
<1>3. TypeOK' /\ TurnsAsked'
  BY TurnTyped DEF LineInv
<1> QED BY <1>2, <1>3 DEF LineInv

\* The steps of a reviver up to the run, which move none either.
LEMMA StartLine ==
    ASSUME LineInv, NEW l \in Lane, Resolved(l) \/ TaskStarts(l) \/ RunStarts(l)
    PROVE  LineInv'
<1>1. TypeOK /\ TurnsAsked /\ "none" \in Cause
  BY DEF LineInv, Cause
<1>2. /\ UNCHANGED <<queue, batch, priority, returned, late, sent, fate>>
      /\ phase[l] # "idle"
      /\ \E p \in {"waiting", "loading", "running"} : phase' = [phase EXCEPT ![l] = p]
  BY DEF Resolved, TaskStarts, RunStarts, flags, history, bounds, others
<1>3. /\ phase' \in [Lane -> Phase]
      /\ \A k \in Lane : phase'[k] = "idle" <=> phase[k] = "idle"
  BY <1>1, <1>2 DEF TypeOK, Phase
<1>4. PlacesSound'
  BY <1>2, <1>3, SamePlaces
<1>5. CASE Resolved(l)
  <2>1. shown' \in [Message -> Nat]
    BY <1>1, <1>5 DEF Resolved, TypeOK
  <2>2. TypeOK' /\ TurnsAsked'
    BY <1>1, <1>3, <1>5, <2>1 DEF Resolved, TypeOK, TurnsAsked, flags, bounds, run, others
  <2> QED BY <1>4, <2>2 DEF LineInv
<1>6. CASE TaskStarts(l)
  <2>1. TypeOK' /\ TurnsAsked'
    BY <1>1, <1>3, <1>6 DEF TaskStarts, Takes, FlagAtStart, TypeOK, TurnsAsked, flags,
                            bounds, history, others
  <2> QED BY <1>4, <2>1 DEF LineInv
<1>7. CASE RunStarts(l)
  <2>1. attempts' \in [Message -> Nat]
    BY <1>1, <1>7 DEF RunStarts, Attempted, TypeOK
  <2>2. TypeOK' /\ TurnsAsked'
    BY <1>1, <1>3, <1>7, <2>1 DEF RunStarts, Activates, TypeOK, TurnsAsked, flags, bounds,
                                  others
  <2> QED BY <1>4, <2>2 DEF LineInv
<1> QED BY <1>5, <1>6, <1>7

\* What a run leaves of a batch.
LEMMA LeftSound ==
    ASSUME NEW U, NEW l \in Lane, NEW b, Line(b, U), b # <<>>
    PROVE  /\ Line(Untaken(l, b), U) /\ InRun(l, b) \subseteq Items(b)
           /\ Items(Untaken(l, b)) = Items(b) \ InRun(l, b)
<1>1. b \in Seq(Message) /\ SoundIn(b, U)
  BY DEF Line
<1>2. CASE l = "agent"
  <2>1. /\ Tail(b) \in Seq(Message) /\ SoundIn(Tail(b), U)
        /\ Items(Tail(b)) = Items(b) \ {Head(b)}
        /\ Head(b) \in Items(b)
    BY <1>1, TailSound
  <2> QED BY <1>2, <2>1 DEF Untaken, InRun, Line
<1>3. CASE l # "agent"
  BY <1>3, NoneSound DEF Untaken, InRun, Line
<1> QED BY <1>2, <1>3

\* A reviver's loop begins again after the messages W have ended.
LEMMA LoopLine ==
    ASSUME LineInv, NEW l \in Lane, NEW q, Line(q, Exempt),
           NEW W, W \subseteq Held(l), Items(q) = Held(l) \ W,
           NEW what \in {"run", "dropped"}, Ended(W, what),
           LoopWith(l, q), UNCHANGED <<priority, returned, late, sent>>
    PROVE  /\ PlacesSound'
           /\ batch' \in [Lane -> Seq(Message)] /\ queue' \in [Lane -> Seq(Message)]
           /\ phase' \in [Lane -> Phase]
           /\ fate' \in [Message -> {"none", "run", "dropped"}]
<1>1. TypeOK /\ LateSound /\ W \subseteq Pending
  BY PendingAreSent DEF LineInv, PlacesSound
<1>2. /\ Pending' = Pending \ W /\ FateOpen'
      /\ fate' \in [Message -> {"none", "run", "dropped"}]
  BY <1>1, EndedPending
<1>3. LateSound' /\ LateHeld' = LateHeld
  BY <1>1 DEF LateHeld, LateSound, Line, SoundIn, IsInjective, Items
<1>4. LateHeld' = LateHeld \cup {} /\ Pending' = Pending \ (W \ {}) /\ {} \subseteq W
  BY <1>2, <1>3
<1>5. PlacesSound'
  <2>1. /\ Line(q, Exempt) /\ LoopWith(l, q) /\ UNCHANGED <<priority, returned>>
        /\ W \subseteq Held(l) /\ Items(q) = Held(l) \ W /\ {} \subseteq W
        /\ LateSound' /\ LateHeld' = LateHeld \cup {}
        /\ Pending' = Pending \ (W \ {}) /\ FateOpen'
    BY <1>2, <1>3, <1>4
  <2> QED BY <2>1, LoopPlaces
<1>6. /\ batch' \in [Lane -> Seq(Message)] /\ queue' \in [Lane -> Seq(Message)]
      /\ phase' \in [Lane -> Phase]
  BY <1>1, LaneLoops
<1> QED BY <1>2, <1>5, <1>6

\* The slot is freed.
LEMMA FreesTyped ==
    ASSUME TypeOK, Frees \/ GivesUp
    PROVE  /\ slot' \in Lane \cup Turn \cup {"none"} /\ why' \in Cause
           /\ exact' \in BOOLEAN /\ tripped' \in BOOLEAN
           /\ active' \in {"none", "slot", "late"}
BY DEF TypeOK, Frees, GivesUp, Cause

LEMMA UnresolvedLine ==
    ASSUME LineInv, NEW l \in Lane, Unresolved(l)
    PROVE  LineInv'
<1>1. TypeOK /\ TurnsAsked /\ LaneSound(l)
  BY DEF LineInv, PlacesSound, LanesSound
<1>2. /\ Line(queue[l], Exempt) /\ Items(batch[l]) \subseteq Held(l)
      /\ Items(queue[l]) = Held(l) \ Items(batch[l])
  BY <1>1 DEF LaneSound, Held
<1>3. /\ Ended(Items(batch[l]), "dropped") /\ LoopWith(l, queue[l])
      /\ UNCHANGED <<priority, returned, late, sent>>
  BY DEF Unresolved, flags, others
<1>4. /\ PlacesSound'
      /\ batch' \in [Lane -> Seq(Message)] /\ queue' \in [Lane -> Seq(Message)]
      /\ phase' \in [Lane -> Phase]
      /\ fate' \in [Message -> {"none", "run", "dropped"}]
  BY <1>2, <1>3, LoopLine
<1>5. stops' \in 0..MaxStops
  BY <1>1, InboxAssumption DEF Unresolved, TypeOK
<1>6. TypeOK' /\ TurnsAsked'
  BY <1>1, <1>4, <1>5 DEF Unresolved, TypeOK, TurnsAsked, flags, run, others
<1> QED BY <1>4, <1>6 DEF LineInv

LEMMA FailsLine ==
    ASSUME LineInv, NEW l \in Lane, RunFails(l)
    PROVE  LineInv'
<1>1. TypeOK /\ TurnsAsked /\ LaneSound(l)
  BY DEF LineInv, PlacesSound, LanesSound
<1>2. /\ Line(queue[l], Exempt) /\ Items(batch[l]) \subseteq Held(l)
      /\ Items(queue[l]) = Held(l) \ Items(batch[l])
  BY <1>1 DEF LaneSound, Held
<1>3. /\ Ended(Items(batch[l]), "dropped") /\ LoopWith(l, queue[l]) /\ Frees
      /\ UNCHANGED <<priority, returned, late, sent>>
  BY DEF RunFails, Finish, flags, others
<1>4. /\ PlacesSound'
      /\ batch' \in [Lane -> Seq(Message)] /\ queue' \in [Lane -> Seq(Message)]
      /\ phase' \in [Lane -> Phase]
      /\ fate' \in [Message -> {"none", "run", "dropped"}]
  BY <1>2, <1>3, LoopLine
<1>5. stops' \in 0..MaxStops
  BY <1>1, InboxAssumption DEF RunFails, TypeOK
<1>6. /\ slot' \in Lane \cup Turn \cup {"none"} /\ why' \in Cause
      /\ exact' \in BOOLEAN /\ tripped' \in BOOLEAN
      /\ active' \in {"none", "slot", "late"}
  BY <1>1, <1>3, FreesTyped
<1>7. TypeOK' /\ TurnsAsked'
  BY <1>1, <1>4, <1>5, <1>6 DEF RunFails, TypeOK, TurnsAsked, flags, others
<1> QED BY <1>4, <1>7 DEF LineInv

\* What an aborted run puts back.
LEMMA BackSound ==
    ASSUME NEW U, NEW b, Line(b, U)
    PROVE  Line(Back(b), U) /\ Items(Back(b)) \subseteq Items(b) \ isRedriven
<1>1. Line(Redrivable(b), U) /\ Items(Redrivable(b)) = Items(b) \ isRedriven
  BY PartsSound
<1>2. Line(<<>>, U) /\ Items(<<>>) = {}
  BY NoneSound DEF Line
<1>3. Back(b) = Redrivable(b) \/ Back(b) = <<>>
  BY DEF Back
<1> QED BY <1>1, <1>2, <1>3

LEMMA AbortedLine ==
    ASSUME LineInv, NEW l \in Lane, RunAborted(l)
    PROVE  LineInv'
<1> DEFINE back == Back(batch[l])
           q == PutBack(l, queue[l], back)
           W == Items(batch[l]) \ Items(back)
<1>1. TypeOK /\ TurnsAsked /\ LaneSound(l) /\ priority \subseteq Exempt
  BY DEF LineInv, PlacesSound, LanesSound, Exempt
<1>2. Line(batch[l], Exempt) /\ Line(queue[l], Exempt)
  BY <1>1 DEF LaneSound
<1>3. /\ Line(back, Exempt) /\ Items(back) \subseteq Items(batch[l])
  BY <1>2, BackSound
<1>4. /\ flag' = FALSE /\ isDisplayed' = isDisplayed \cup Items(back)
      /\ isRedriven' = isRedriven \cup Items(back) /\ Ended(W, "dropped")
      /\ Frees /\ LoopWith(l, q)
      /\ UNCHANGED <<priority, late, lateTurns, returned, turns, gone, unchecked,
                     sent, asked, stops, shown, attempts>>
  BY DEF RunAborted, Finish, bounds, others
<1> HIDE DEF back, q, W
<1>5. /\ Items(back) \cap Items(queue[l]) = {}
      /\ Precede(Items(back), Items(queue[l]), Exempt)
  BY <1>1, <1>3 DEF LaneSound, Precede
<1>6. Line(q, Exempt) /\ Items(q) = Items(back) \cup Items(queue[l])
  <2>1. Rejoins(back, queue[l], Exempt)
    BY <1>1, <1>2, <1>3, <1>5 DEF Rejoins
  <2> QED BY <2>1, PutBackSound DEF q
<1>7. W \subseteq Held(l) /\ Items(q) = Held(l) \ W
  BY <1>1, <1>3, <1>6 DEF Held, LaneSound, W
<1>8. /\ PlacesSound'
      /\ batch' \in [Lane -> Seq(Message)] /\ queue' \in [Lane -> Seq(Message)]
      /\ phase' \in [Lane -> Phase]
      /\ fate' \in [Message -> {"none", "run", "dropped"}]
  BY <1>4, <1>6, <1>7, LoopLine
<1>9. Items(back) \subseteq Message
  BY <1>3, ItemsNonEmpty DEF Line
<1>10. /\ slot' \in Lane \cup Turn \cup {"none"} /\ why' \in Cause
       /\ exact' \in BOOLEAN /\ tripped' \in BOOLEAN
       /\ active' \in {"none", "slot", "late"}
  BY <1>1, <1>4, FreesTyped
<1>11. TypeOK' /\ TurnsAsked'
  BY <1>1, <1>4, <1>8, <1>9, <1>10 DEF TypeOK, TurnsAsked
<1> QED BY <1>8, <1>11 DEF LineInv

\* A task is given up with its batch.
LEMMA GiveUpLine ==
    ASSUME LineInv, NEW l \in Lane, phase[l] \in {"loading", "running"}, GiveUp(l)
    PROVE  LineInv'
<1> DEFINE r == [lane |-> l, batch |-> batch[l], phase |-> phase[l]]
           W == Items(batch[l])
<1>1. TypeOK /\ TurnsAsked /\ LaneSound(l) /\ LateSound /\ LanesApart /\ FateOpen
  BY DEF LineInv, PlacesSound, LanesSound
<1>2. /\ Line(queue[l], Exempt) /\ W \subseteq Held(l)
      /\ Items(queue[l]) = Held(l) \ W
  BY <1>1 DEF LaneSound, Held
<1>3. /\ late' = late \cup {r} /\ LoopWith(l, queue[l]) /\ GivesUp
      /\ UNCHANGED <<priority, isDisplayed, isRedriven, flag, lateTurns, returned, turns,
                     gone, unchecked, sent, asked, stops, shown, attempts, fate>>
  BY DEF GiveUp, flags, bounds, history
<1>4. Line(batch[l], Message) /\ batch[l] # <<>> /\ batch[l] \in Seq(Message)
  <2>1. Exempt \subseteq Message
    BY <1>1 DEF TypeOK, Exempt
  <2>2. Line(batch[l], Exempt) /\ batch[l] # <<>>
    BY <1>1 DEF LaneSound
  <2> QED BY <2>1, <2>2, SoundForMore DEF Line
<1>5. r.batch = batch[l] /\ r \in LateTask
  BY <1>4 DEF LateTask
<1> HIDE DEF r
<1>6. LateHeld' = LateHeld \cup W
  BY <1>3, <1>5 DEF LateHeld
<1>7. LateSound'
  <2>1. \A s \in late : Items(s.batch) \cap W = {}
    BY <1>1, <1>2 DEF LanesApart, LateHeld
  <2>2. \A s \in late' : Line(s.batch, Message) /\ s.batch # <<>>
    BY <1>1, <1>3, <1>4, <1>5 DEF LateSound
  <2>3. \A s, t \in late' : s # t => Items(s.batch) \cap Items(t.batch) = {}
    BY <1>1, <1>3, <1>5, <2>1 DEF LateSound
  <2>4. Message' = Message
    BY DEF Message
  <2> QED BY <2>2, <2>3, <2>4 DEF LateSound, Line, SoundIn, IsInjective, Items
<1>8. Pending' = Pending \ (W \ W) /\ FateOpen' /\ W \subseteq W
  BY <1>1, <1>3 DEF Pending, FateOpen
<1> HIDE DEF W
<1>9. PlacesSound'
  BY <1>2, <1>3, <1>6, <1>7, <1>8, LoopPlaces
<1>10. /\ batch' \in [Lane -> Seq(Message)] /\ queue' \in [Lane -> Seq(Message)]
       /\ phase' \in [Lane -> Phase]
  BY <1>1, <1>2, <1>3, LaneLoops
<1>11. /\ slot' \in Lane \cup Turn \cup {"none"} /\ why' \in Cause
       /\ exact' \in BOOLEAN /\ tripped' \in BOOLEAN
       /\ active' \in {"none", "slot", "late"}
  BY <1>1, <1>3, FreesTyped
<1>12. late' \subseteq LateTask
  BY <1>1, <1>3, <1>5 DEF TypeOK
<1>13. TypeOK' /\ TurnsAsked'
  BY <1>1, <1>3, <1>10, <1>11, <1>12 DEF TypeOK, TurnsAsked
<1> QED BY <1>9, <1>13 DEF LineInv

LEMMA DeleteLine ==
    ASSUME LineInv, DeleteAgent
    PROVE  LineInv'
<1>1. /\ TypeOK /\ TurnsAsked /\ LanesSound /\ LateSound /\ LanesApart /\ HeldIsPending
      /\ FateOpen
  BY DEF LineInv, PlacesSound
<1>2. /\ queue' = [l \in Lane |-> <<>>]
      /\ UNCHANGED <<batch, phase, priority, returned, late, sent>>
      /\ fate' = [m \in Message |-> IF \E l \in Lane : m \in Items(queue[l])
                                    THEN "dropped" ELSE fate[m]]
  BY DEF DeleteAgent, flags, others
<1>3. /\ Message \subseteq Nat /\ sent \in Nat
      /\ \A l \in Lane : \A m \in Held(l) :
            m \in Message /\ m <= sent /\ fate[m] = "none"
  BY PendingAreSent
<1>4. <<>> \in Seq(Message) /\ Items(<<>>) = {} /\ Line(<<>>, Exempt)
  BY NoneSound DEF Line
<1>5. ASSUME NEW l \in Lane PROVE LaneSound(l)' /\ Held(l)' = Items(batch[l])
  <2>1. LaneSound(l)
    BY <1>1 DEF LanesSound
  <2>2. /\ queue'[l] = <<>> /\ batch'[l] = batch[l] /\ phase'[l] = phase[l]
        /\ Exempt' = Exempt
    BY <1>2 DEF Exempt
  <2>3. Items(queue[l])' = {} /\ Items(batch[l])' = Items(batch[l])
    BY <1>4, <2>2 DEF Items
  <2>4. Line(queue[l], Exempt)' /\ Line(batch[l], Exempt)'
    BY <1>4, <2>1, <2>2 DEF LaneSound, Line, SoundIn, IsInjective
  <2>5. Precede(Items(batch[l]), Items(queue[l]), Exempt)'
    BY <2>3 DEF Precede
  <2>6. LaneSound(l)'
    BY <2>1, <2>2, <2>3, <2>4, <2>5 DEF LaneSound
  <2> QED BY <2>3, <2>6 DEF Held
<1>6. LanesSound'
  BY <1>5 DEF LanesSound
<1>7. LateHeld' = LateHeld /\ LateSound'
  BY <1>1, <1>2 DEF LateHeld, LateSound, Line, SoundIn, IsInjective, Items
<1>8. LanesApart'
  BY <1>1, <1>5, <1>7 DEF LanesApart, Held
<1>9. HeldIsPending'
  <2>1. ASSUME NEW m PROVE m \in Pending' <=> m \in LateHeld' \/ \E l \in Lane : m \in Held(l)'
    <3>1. ASSUME NEW l \in Lane, m \in Items(batch[l])
          PROVE  \A k \in Lane : m \notin Items(queue[k])
      BY <1>1, <3>1 DEF LanesSound, LaneSound, LanesApart, Held
    <3>2. m \in LateHeld => \A k \in Lane : m \notin Items(queue[k])
      BY <1>1 DEF LanesApart, Held
    <3>3. m \in Pending <=> m \in LateHeld \/ \E l \in Lane : m \in Held(l)
      BY <1>1 DEF HeldIsPending
    <3>4. m \in 1..sent => m \in Message
      BY <1>1, <1>3, InboxAssumption DEF TypeOK, Message
    <3>5. m \in Pending' <=> m \in Pending /\ \A k \in Lane : m \notin Items(queue[k])
      BY <1>2, <3>4 DEF Pending
    <3> QED BY <1>5, <1>7, <3>1, <3>2, <3>3, <3>5 DEF Held
  <2> QED BY <2>1 DEF HeldIsPending
<1>10. FateOpen'
  <2>1. \A l \in Lane : \A m \in Items(queue[l]) : m \in Nat /\ m <= sent
    BY <1>3 DEF Held
  <2> QED BY <1>1, <1>2, <1>3, <2>1 DEF FateOpen
<1>11. PlacesSound'
  BY <1>6, <1>7, <1>8, <1>9, <1>10 DEF PlacesSound
<1>12. TypeOK' /\ TurnsAsked'
  <2>1. queue' \in [Lane -> Seq(Message)]
    BY <1>2, <1>4
  <2>2. fate' \in [Message -> {"none", "run", "dropped"}]
    BY <1>1, <1>2 DEF TypeOK
  <2>3. unchecked' \in 0..MaxMessages /\ stops' \in 0..MaxStops
    BY <1>1, InboxAssumption DEF TypeOK, DeleteAgent
  <2>4. why' \in Cause
    BY <1>1, CauseTyped DEF TypeOK, DeleteAgent
  <2>5. /\ gone' = TRUE /\ flag' = FALSE /\ exact' = FALSE
        /\ UNCHANGED <<batch, phase, isDisplayed, isRedriven, slot, tripped, active,
                       lateTurns, turns, asked, shown, attempts>>
    BY DEF DeleteAgent, flags, others
  <2> QED BY <1>1, <1>2, <2>1, <2>2, <2>3, <2>4, <2>5 DEF TypeOK, TurnsAsked
<1> QED BY <1>11, <1>12 DEF LineInv

LEMMA OkLine ==
    ASSUME LineInv, NEW l \in Lane, RunOk(l)
    PROVE  LineInv'
<1> DEFINE left == Untaken(l, batch[l])
           W == InRun(l, batch[l])
           Goes(q) == Frees /\ LoopWith(l, q)
           Stays == /\ batch' = [batch EXCEPT ![l] = left]
                    /\ phase' = [phase EXCEPT ![l] = "loading"]
                    /\ active' \in {active, "none"} /\ why' = "none"
                    /\ UNCHANGED <<queue, slot, tripped, exact, isDisplayed>>
<1>1. /\ TypeOK /\ TurnsAsked /\ LaneSound(l) /\ phase[l] = "running"
      /\ priority \subseteq Exempt
  BY DEF LineInv, PlacesSound, LanesSound, RunOk, Exempt
<1>2. /\ Line(batch[l], Exempt) /\ batch[l] # <<>> /\ Line(queue[l], Exempt)
      /\ Items(batch[l]) \cap Items(queue[l]) = {}
      /\ Precede(Items(batch[l]), Items(queue[l]), Exempt)
  BY <1>1 DEF LaneSound
<1>3. /\ Line(left, Exempt) /\ W \subseteq Items(batch[l])
      /\ Items(left) = Items(batch[l]) \ W
  BY <1>2, LeftSound
<1>4. /\ flag' = FALSE /\ Ended(W, "run")
      /\ UNCHANGED <<priority, isRedriven, late, lateTurns, returned, turns, gone,
                     unchecked, sent, asked, stops, shown, attempts>>
      /\ \/ left = <<>> /\ Goes(queue[l]) /\ UNCHANGED isDisplayed
         \/ /\ left # <<>> /\ isDisplayed' = isDisplayed \cup Items(left)
            /\ Goes(PutBack(l, queue[l], left))
         \/ left # <<>> /\ Stays
  BY DEF RunOk, Finish, bounds, others
<1> HIDE DEF left, W
<1>5. /\ Items(left) \cap Items(queue[l]) = {} /\ Items(left) \subseteq Message
      /\ Precede(Items(left), Items(queue[l]), Exempt)
      /\ left \in Seq(Message) /\ W \subseteq Held(l)
  BY <1>2, <1>3, ItemsNonEmpty DEF Line, Precede, Held
<1>6. ASSUME NEW q, Line(q, Exempt), Items(q) = Held(l) \ W, Goes(q),
             isDisplayed' \subseteq Message
      PROVE  LineInv'
  <2>1. /\ PlacesSound'
        /\ batch' \in [Lane -> Seq(Message)] /\ queue' \in [Lane -> Seq(Message)]
        /\ phase' \in [Lane -> Phase]
        /\ fate' \in [Message -> {"none", "run", "dropped"}]
    BY <1>4, <1>5, <1>6, LoopLine
  <2>2. /\ slot' \in Lane \cup Turn \cup {"none"} /\ why' \in Cause
        /\ exact' \in BOOLEAN /\ tripped' \in BOOLEAN
        /\ active' \in {"none", "slot", "late"}
    BY <1>1, <1>6, FreesTyped
  <2>3. TypeOK' /\ TurnsAsked'
    BY <1>1, <1>4, <1>6, <2>1, <2>2 DEF TypeOK, TurnsAsked
  <2> QED BY <2>1, <2>3 DEF LineInv
<1>7. CASE left = <<>> /\ Goes(queue[l]) /\ UNCHANGED isDisplayed
  <2>1. Items(left) = {}
    BY <1>7, NoneSound
  <2>2. Items(queue[l]) = Held(l) \ W
    BY <1>2, <1>3, <2>1 DEF Held
  <2>3. isDisplayed' \subseteq Message
    BY <1>1, <1>7 DEF TypeOK
  <2> QED BY <1>2, <1>6, <1>7, <2>2, <2>3
<1>8. CASE /\ left # <<>> /\ isDisplayed' = isDisplayed \cup Items(left)
           /\ Goes(PutBack(l, queue[l], left))
  <2> DEFINE q == PutBack(l, queue[l], left)
  <2>1. Line(q, Exempt) /\ Items(q) = Items(left) \cup Items(queue[l])
    <3>1. Rejoins(left, queue[l], Exempt)
      BY <1>1, <1>2, <1>3, <1>5 DEF Rejoins
    <3> QED BY <3>1, PutBackSound
  <2>2. Goes(q)
    BY <1>8
  <2> HIDE DEF q, Goes
  <2>3. Items(q) = Held(l) \ W
    BY <1>2, <1>3, <2>1 DEF Held
  <2>4. isDisplayed' \subseteq Message
    BY <1>1, <1>5, <1>8 DEF TypeOK
  <2> QED BY <1>6, <2>1, <2>2, <2>3, <2>4
<1>9. CASE left # <<>> /\ Stays
  <2>1. LanesSound /\ LateSound /\ LanesApart /\ HeldIsPending /\ W \subseteq Pending
    BY <1>5, PendingAreSent DEF LineInv, PlacesSound
  <2>2. /\ batch' \in [Lane -> Seq(Message)] /\ phase' \in [Lane -> Phase]
        /\ batch'[l] = left /\ phase'[l] = "loading" /\ queue'[l] = queue[l]
        /\ \A k \in Lane \ {l} : /\ batch'[k] = batch[k] /\ queue'[k] = queue[k]
                                 /\ phase'[k] = phase[k]
        /\ Exempt' = Exempt
    BY <1>1, <1>4, <1>5, <1>9 DEF TypeOK, Phase, Exempt
  <2>3. /\ Items(batch[l])' = Items(left) /\ Items(queue[l])' = Items(queue[l])
    BY <2>2 DEF Items
  <2>4. Line(batch[l], Exempt)' /\ Line(queue[l], Exempt)'
    BY <1>2, <1>3, <2>2 DEF Line, SoundIn, IsInjective
  <2>5. Precede(Items(batch[l]), Items(queue[l]), Exempt)'
    BY <1>5, <2>2, <2>3 DEF Precede
  <2>6. LaneSound(l)' /\ Held(l)' = Held(l) \ W
    <3>1. batch'[l] # <<>> /\ phase'[l] # "idle"
      BY <1>9, <2>2
    <3>2. LaneSound(l)'
      BY <1>5, <2>3, <2>4, <2>5, <3>1 DEF LaneSound
    <3> QED BY <1>2, <1>3, <2>3, <3>2 DEF Held
  <2>7. ASSUME NEW k \in Lane, k # l PROVE LaneSound(k)' /\ Held(k)' = Held(k)
    <3>1. LaneSound(k) /\ priority' = priority /\ returned \subseteq returned'
      BY <1>4, <2>1 DEF LanesSound
    <3> QED BY <2>2, <2>7, <3>1, LaneKept
  <2>8. /\ Pending' = Pending \ W /\ FateOpen'
        /\ fate' \in [Message -> {"none", "run", "dropped"}]
    BY <1>4, <2>1, EndedPending
  <2>9. LateHeld' = LateHeld /\ LateSound'
    BY <1>4, <2>1 DEF LateHeld, LateSound, Line, SoundIn, IsInjective, Items
  <2>10. LanesSound' /\ LanesApart'
    BY <2>1, <2>6, <2>7, <2>9 DEF LanesSound, LanesApart
  <2>11. HeldIsPending'
    <3>1. (UNION {Held(k) : k \in Lane})' = (UNION {Held(k) : k \in Lane}) \ W
      BY <1>5, <2>1, <2>6, <2>7 DEF LanesApart
    <3>2. LateHeld \ W = LateHeld
      BY <1>5, <2>1 DEF LanesApart
    <3> QED BY <2>1, <2>8, <2>9, <3>1, <3>2 DEF HeldIsPending
  <2>12. TypeOK' /\ TurnsAsked'
    BY <1>1, <1>4, <1>9, <2>2, <2>8 DEF TypeOK, TurnsAsked, Cause
  <2> QED BY <2>8, <2>9, <2>10, <2>11, <2>12 DEF LineInv, PlacesSound
<1> QED BY <1>4, <1>7, <1>8, <1>9

(***************************************************************************)
(* Tasks that were given up.                                               *)
(***************************************************************************)

\* One of them ends, or goes on with a part of its batch.
LEMMA LateRemoved ==
    ASSUME LateSound, NEW r \in late, late' = late \ {r}
    PROVE  LateSound' /\ LateHeld' = LateHeld \ Items(r.batch)
<1>1. LateHeld' = LateHeld \ Items(r.batch)
  <2>1. ASSUME NEW m PROVE m \in LateHeld' <=> m \in LateHeld /\ m \notin Items(r.batch)
    <3>1. m \in LateHeld' <=> \E s \in late' : m \in Items(s.batch)
      BY DEF LateHeld
    <3>2. m \in LateHeld <=> \E s \in late : m \in Items(s.batch)
      BY DEF LateHeld
    <3>3. \A s \in late' : s \in late /\ Items(r.batch) \cap Items(s.batch) = {}
      BY DEF LateSound
    <3> QED BY <3>1, <3>2, <3>3
  <2> QED BY <2>1
<1>2. \A s \in late' : Line(s.batch, Message) /\ s.batch # <<>>
  BY DEF LateSound
<1>3. \A s, t \in late' : s # t => Items(s.batch) \cap Items(t.batch) = {}
  BY DEF LateSound
<1>4. Message' = Message
  BY DEF Message
<1> QED BY <1>1, <1>2, <1>3, <1>4 DEF LateSound, Line, SoundIn, IsInjective, Items

LEMMA LateReplaced ==
    ASSUME LateSound, NEW r \in late, NEW n, late' = (late \ {r}) \cup {n},
           Line(n.batch, Message), n.batch # <<>>, Items(n.batch) \subseteq Items(r.batch)
    PROVE  LateSound' /\ LateHeld' = (LateHeld \ Items(r.batch)) \cup Items(n.batch)
<1>1. \A s \in late \ {r} : Items(r.batch) \cap Items(s.batch) = {}
  BY DEF LateSound
<1>2. LateHeld' = (LateHeld \ Items(r.batch)) \cup Items(n.batch)
  <2>1. ASSUME NEW m
        PROVE  m \in LateHeld' <=> \/ m \in LateHeld /\ m \notin Items(r.batch)
                                   \/ m \in Items(n.batch)
    <3>1. m \in LateHeld' <=> \E s \in late' : m \in Items(s.batch)
      BY DEF LateHeld
    <3>2. m \in LateHeld <=> \E s \in late : m \in Items(s.batch)
      BY DEF LateHeld
    <3>3. \A s : s \in late' <=> s = n \/ s \in late \ {r}
      OBVIOUS
    <3> QED BY <1>1, <3>1, <3>2, <3>3
  <2> QED BY <2>1
<1>3. \A s \in late' : Line(s.batch, Message) /\ s.batch # <<>>
  BY DEF LateSound
<1>4. \A s, t \in late' : s # t => Items(s.batch) \cap Items(t.batch) = {}
  <2>1. \A s \in late \ {r} : Items(n.batch) \cap Items(s.batch) = {}
    BY <1>1
  <2> QED BY <2>1 DEF LateSound
<1>5. Message' = Message
  BY DEF Message
<1> QED BY <1>2, <1>3, <1>4, <1>5 DEF LateSound, Line, SoundIn, IsInjective, Items

\* What comes back late joins the queue of its lane.
LEMMA ReturnsLane ==
    ASSUME LineInv, NEW l \in Lane, NEW back, Line(back, Message),
           Items(back) \cap Held(l) = {}, Returns(l, back), priority' = priority
    PROVE  /\ LaneSound(l)' /\ Held(l)' = Held(l) \cup Items(back)
           /\ queue' \in [Lane -> Seq(Message)] /\ returned' \subseteq Message
           /\ isDisplayed' \subseteq Message
           /\ \A k \in Lane \ {l} : queue'[k] = queue[k]
<1> DEFINE q == IF back = <<>> THEN queue[l] ELSE PutBack(l, queue[l], back)
           V == Exempt'
<1>1. TypeOK /\ LaneSound(l) /\ Exempt \subseteq Message
  BY DEF LineInv, PlacesSound, LanesSound, Exempt, TypeOK
<1>2. /\ queue' = [queue EXCEPT ![l] = q] /\ UNCHANGED <<batch, phase>>
      /\ isDisplayed' = isDisplayed \cup Items(back)
      /\ returned' = returned \cup Items(back)
  BY DEF Returns
<1>3. V = Exempt \cup Items(back) /\ Items(back) \subseteq Message /\ priority \subseteq V
  BY <1>2, ItemsNonEmpty DEF Exempt, Line
<1> HIDE DEF V
<1>4. Line(batch[l], V) /\ Line(queue[l], V)
  BY <1>1, <1>3, SoundForMore DEF LaneSound, Line
<1>5. Precede(Items(batch[l]), Items(queue[l]), V)
  BY <1>1, <1>3, PrecedeForMore DEF LaneSound
<1>6. Line(q, V) /\ Items(q) = Items(back) \cup Items(queue[l])
  <2>1. CASE back = <<>>
    BY <1>4, <2>1, NoneSound
  <2>2. CASE back # <<>>
    <3>1. Line(back, V)
      BY <1>3 DEF Line, SoundIn, Items
    <3>2. Rejoins(back, queue[l], V)
      BY <1>3, <1>4, <3>1 DEF Rejoins, Precede, Held
    <3>3. /\ Line(PutBack(l, queue[l], back), V)
          /\ Items(PutBack(l, queue[l], back)) = Items(back) \cup Items(queue[l])
      BY <3>2, PutBackSound
    <3> QED BY <2>2, <3>3
  <2> QED BY <2>1, <2>2
<1> HIDE DEF q
<1>7. /\ queue' \in [Lane -> Seq(Message)] /\ queue'[l] = q /\ batch'[l] = batch[l]
      /\ \A k \in Lane \ {l} : queue'[k] = queue[k]
  BY <1>1, <1>2, <1>6 DEF TypeOK, Line
<1>8. Line(batch[l], Exempt)' /\ Line(queue[l], Exempt)'
  BY <1>4, <1>6, <1>7 DEF Line, SoundIn, IsInjective, V
<1>9. Items(batch[l])' = Items(batch[l]) /\ Items(queue[l])' = Items(q)
  BY <1>7 DEF Items
<1>10. Items(batch[l]) \cap Items(q) = {} /\ Precede(Items(batch[l]), Items(q), V)
  BY <1>1, <1>3, <1>5, <1>6 DEF LaneSound, Held, Precede
<1>11. LaneSound(l)'
  <2>1. Precede(Items(batch[l]), Items(queue[l]), Exempt)'
    BY <1>9, <1>10 DEF Precede, V
  <2>2. IF phase'[l] = "idle" THEN batch'[l] = <<>> /\ Items(queue[l])' \subseteq returned'
                              ELSE batch'[l] # <<>>
    BY <1>1, <1>2, <1>6, <1>9 DEF LaneSound
  <2> QED BY <1>8, <1>9, <1>10, <2>1, <2>2 DEF LaneSound
<1>12. Held(l)' = Held(l) \cup Items(back)
  BY <1>6, <1>9 DEF Held
<1>13. returned' \subseteq Message /\ isDisplayed' \subseteq Message
  BY <1>1, <1>2, <1>3 DEF TypeOK
<1> QED BY <1>7, <1>11, <1>12, <1>13

\* A step of a given-up task: B of its batch stays with it, what comes back
\* returns to the queue, and the rest has ended.
LEMMA LatePlaces ==
    ASSUME LineInv, NEW r \in late, NEW back, NEW B, B \subseteq Items(r.batch),
           Line(back, Message), Items(back) \subseteq Items(r.batch) \ B,
           Returns(r.lane, back), LateSound',
           LateHeld' = (LateHeld \ Items(r.batch)) \cup B,
           NEW what \in {"run", "dropped"},
           Ended(Items(r.batch) \ (B \cup Items(back)), what),
           UNCHANGED <<priority, sent>>
    PROVE  /\ PlacesSound'
           /\ queue' \in [Lane -> Seq(Message)] /\ returned' \subseteq Message
           /\ isDisplayed' \subseteq Message
           /\ fate' \in [Message -> {"none", "run", "dropped"}]
<1> DEFINE l == r.lane
           W == Items(r.batch) \ (B \cup Items(back))
<1>1. TypeOK /\ LanesSound /\ LateSound /\ LanesApart /\ HeldIsPending
  BY DEF LineInv, PlacesSound
<1>2. l \in Lane /\ Items(r.batch) \subseteq LateHeld
  BY <1>1 DEF TypeOK, LateTask, LateHeld
<1>3. Items(r.batch) \subseteq Pending /\ \A k \in Lane : Items(r.batch) \cap Held(k) = {}
  BY <1>1, <1>2 DEF HeldIsPending, LanesApart
<1>4. UNCHANGED <<batch, phase>> /\ returned \subseteq returned'
  BY DEF Returns
<1>5. /\ LaneSound(l)' /\ Held(l)' = Held(l) \cup Items(back)
      /\ queue' \in [Lane -> Seq(Message)] /\ returned' \subseteq Message
      /\ isDisplayed' \subseteq Message
      /\ \A k \in Lane \ {l} : queue'[k] = queue[k]
  <2>1. Items(back) \cap Held(l) = {}
    BY <1>2, <1>3
  <2> HIDE DEF l
  <2>2. Returns(l, back)
    BY DEF l
  <2> QED BY <1>2, <2>1, <2>2, ReturnsLane
<1> HIDE DEF l
<1>6. ASSUME NEW k \in Lane, k # l PROVE LaneSound(k)' /\ Held(k)' = Held(k)
  <2>1. LaneSound(k) /\ queue'[k] = queue[k] /\ batch'[k] = batch[k] /\ phase'[k] = phase[k]
    BY <1>1, <1>4, <1>5, <1>6 DEF LanesSound
  <2> QED BY <1>4, <2>1, LaneKept
<1>7. LanesSound'
  BY <1>5, <1>6 DEF LanesSound
<1>8. LanesApart'
  <2>1. ASSUME NEW j \in Lane, NEW k \in Lane, j # k PROVE (Held(j) \cap Held(k) = {})'
    BY <1>1, <1>3, <1>5, <1>6, <2>1 DEF LanesApart
  <2>2. ASSUME NEW k \in Lane PROVE (Held(k) \cap LateHeld = {})'
    BY <1>1, <1>3, <1>5, <1>6 DEF LanesApart
  <2> QED BY <2>1, <2>2 DEF LanesApart
<1>9. /\ Pending' = Pending \ W /\ FateOpen'
      /\ fate' \in [Message -> {"none", "run", "dropped"}]
  <2>1. W \subseteq Pending /\ Ended(W, what)
    BY <1>3
  <2> QED BY <2>1, EndedPending
<1>10. HeldIsPending'
  <2>1. ASSUME NEW m PROVE m \in Pending' <=> m \in LateHeld' \/ \E k \in Lane : m \in Held(k)'
    <3>1. m \in Pending <=> m \in LateHeld \/ \E k \in Lane : m \in Held(k)
      BY <1>1 DEF HeldIsPending
    <3>2. \/ m \in Items(r.batch) /\ m \in LateHeld /\ \A k \in Lane : m \notin Held(k)
          \/ m \notin Items(r.batch) /\ m \notin B /\ m \notin Items(back)
      BY <1>2, <1>3
    <3>3. (\E k \in Lane : m \in Held(k)') <=> m \in Items(back) \/ \E k \in Lane : m \in Held(k)
      BY <1>2, <1>5, <1>6
    <3> QED BY <1>9, <3>1, <3>2, <3>3
  <2> QED BY <2>1 DEF HeldIsPending
<1> QED BY <1>5, <1>7, <1>8, <1>9, <1>10 DEF PlacesSound

\* What a given-up task has.
LEMMA LateBatch ==
    ASSUME LineInv, NEW r \in late
    PROVE  /\ r \in LateTask /\ r.lane \in Lane /\ r.batch \in Seq(Message)
           /\ Line(r.batch, Message) /\ r.batch # <<>>
           /\ InRun(r.lane, r.batch) \subseteq Items(r.batch)
           /\ Line(Untaken(r.lane, r.batch), Message)
           /\ Items(Untaken(r.lane, r.batch)) = Items(r.batch) \ InRun(r.lane, r.batch)
           /\ Line(Back(r.batch), Message)
           /\ Items(Back(r.batch)) \subseteq Items(r.batch) \ isRedriven
<1>1. r \in LateTask /\ Line(r.batch, Message) /\ r.batch # <<>>
  BY DEF LineInv, TypeOK, PlacesSound, LateSound
<1>2. r.lane \in Lane /\ r.batch \in Seq(Message)
  BY <1>1 DEF LateTask
<1>3. /\ InRun(r.lane, r.batch) \subseteq Items(r.batch)
      /\ Line(Untaken(r.lane, r.batch), Message)
      /\ Items(Untaken(r.lane, r.batch)) = Items(r.batch) \ InRun(r.lane, r.batch)
  BY <1>1, <1>2, LeftSound
<1>4. /\ Line(Back(r.batch), Message)
      /\ Items(Back(r.batch)) \subseteq Items(r.batch) \ isRedriven
  BY <1>1, BackSound
<1> QED BY <1>1, <1>2, <1>3, <1>4

\* A step that leaves the lanes alone.
LEMMA NoneReturns ==
    ASSUME TypeOK, NEW l \in Lane, UNCHANGED <<lanes, isDisplayed, returned>>
    PROVE  Returns(l, <<>>) /\ Line(<<>>, Message) /\ Items(<<>>) = {}
<1>1. Line(<<>>, Message) /\ Items(<<>>) = {}
  BY NoneSound DEF Line
<1>2. queue' = [queue EXCEPT ![l] = queue[l]]
  BY DEF TypeOK, lanes
<1> QED BY <1>1, <1>2 DEF Returns, lanes

LEMMA LateStartsLine ==
    ASSUME LineInv, NEW r \in late, LateRunStarts(r)
    PROVE  LineInv'
<1> DEFINE n == [r EXCEPT !.phase = "running"]
<1>1. /\ TypeOK /\ TurnsAsked /\ LateSound
      /\ r \in LateTask /\ Line(r.batch, Message) /\ r.batch # <<>>
  BY LateBatch DEF LineInv, PlacesSound
<1>2. n.batch = r.batch /\ n \in LateTask
  BY <1>1 DEF LateTask
<1>3. /\ late' = (late \ {r}) \cup {n} /\ active' = "late"
      /\ Attempted(InRun(r.lane, r.batch))
      /\ UNCHANGED <<slot, tripped, why, exact, queue, batch, phase, priority, isDisplayed,
                     isRedriven, flag, lateTurns, returned, turns, gone, unchecked, sent,
                     asked, stops, shown, fate>>
  BY DEF LateRunStarts, Activates, lanes, flags, bounds
<1> HIDE DEF n
<1>4. LateSound' /\ LateHeld' = (LateHeld \ Items(r.batch)) \cup Items(r.batch)
  BY <1>1, <1>2, <1>3, LateReplaced
<1>5. LateHeld' = LateHeld
  BY <1>4 DEF LateHeld
<1>6. PlacesSound'
  <2>1. LanesSound /\ LanesApart /\ HeldIsPending /\ FateOpen
    BY DEF LineInv, PlacesSound
  <2>2. ASSUME NEW k \in Lane PROVE LaneSound(k)' /\ Held(k)' = Held(k)
    <3>1. LaneSound(k) /\ returned \subseteq returned'
      BY <1>3, <2>1 DEF LanesSound
    <3> QED BY <1>3, <3>1, LaneKept
  <2>3. Pending' = Pending /\ FateOpen'
    BY <1>3, <2>1 DEF Pending, FateOpen
  <2>4. LanesSound' /\ LanesApart' /\ HeldIsPending'
    BY <1>5, <2>1, <2>2, <2>3 DEF LanesSound, LanesApart, HeldIsPending
  <2> QED BY <1>4, <2>3, <2>4 DEF PlacesSound
<1>7. attempts' \in [Message -> Nat] /\ late' \subseteq LateTask
  BY <1>1, <1>2, <1>3 DEF Attempted, TypeOK
<1>8. TypeOK' /\ TurnsAsked'
  BY <1>1, <1>3, <1>7 DEF TypeOK, TurnsAsked
<1> QED BY <1>6, <1>8 DEF LineInv

\* The types that the end of a given-up run leaves.
LEMMA LateEndsTyped ==
    ASSUME TypeOK, NEW L, L \subseteq LateTask, LateEnds(L, lateTurns)
    PROVE  /\ late' \subseteq LateTask /\ lateTurns' = lateTurns
           /\ active' \in {"none", "slot", "late"}
           /\ UNCHANGED <<slot, tripped, why, exact>>
BY DEF LateEnds, TypeOK

LEMMA LateOkLine ==
    ASSUME LineInv, NEW r \in late, LateRunOk(r)
    PROVE  LineInv'
<1> DEFINE l == r.lane
           W == InRun(l, r.batch)
           left == Untaken(l, r.batch)
           deferred == IF HasUrgent(queue[l]) THEN left ELSE <<>>
           n == [r EXCEPT !.batch = left, !.phase = "loading"]
           L == (late \ {r}) \cup (IF left = deferred THEN {} ELSE {n})
<1>1. TypeOK /\ TurnsAsked /\ LateSound
  BY DEF LineInv, PlacesSound
<1>2. /\ r \in LateTask /\ l \in Lane /\ W \subseteq Items(r.batch)
      /\ Line(left, Message) /\ Items(left) = Items(r.batch) \ W
  BY LateBatch
<1>3. /\ flag' = FALSE /\ Ended(W, "run") /\ Returns(l, deferred)
      /\ LateEnds(L, lateTurns) /\ late' = L
      /\ UNCHANGED <<priority, isRedriven, turns, gone, unchecked, sent, asked, stops,
                     shown, attempts>>
  BY DEF LateRunOk, LateEnds, bounds
<1>4. Line(<<>>, Message) /\ Items(<<>>) = {}
  BY NoneSound DEF Line
<1>5. left # deferred => n \in LateTask /\ n.batch = left /\ left # <<>> /\ deferred = <<>>
  BY <1>2 DEF LateTask, Line
<1> DEFINE Typed == /\ PlacesSound'
                    /\ queue' \in [Lane -> Seq(Message)] /\ returned' \subseteq Message
                    /\ isDisplayed' \subseteq Message
                    /\ fate' \in [Message -> {"none", "run", "dropped"}]
<1> HIDE DEF n, left, W, l
<1>6. ASSUME left = deferred PROVE Typed
  <2>1. LateSound' /\ LateHeld' = LateHeld \ Items(r.batch)
    <3>1. late' = late \ {r}
      BY <1>3, <1>6
    <3> QED BY <1>1, <3>1, LateRemoved
  <2>2. /\ LateHeld' = (LateHeld \ Items(r.batch)) \cup {} /\ {} \subseteq Items(r.batch)
        /\ Items(left) \subseteq Items(r.batch) \ {}
        /\ Ended(Items(r.batch) \ ({} \cup Items(left)), "run")
    <3>1. Items(r.batch) \ ({} \cup Items(left)) = W
      BY <1>2
    <3> QED BY <1>2, <1>3, <2>1, <3>1
  <2>3. Returns(r.lane, left) /\ UNCHANGED <<priority, sent>>
    BY <1>3, <1>6 DEF l
  <2> QED BY <1>2, <2>1, <2>2, <2>3, LatePlaces DEF Typed
<1>7. ASSUME left # deferred PROVE Typed
  <2>1. LateSound' /\ LateHeld' = (LateHeld \ Items(r.batch)) \cup Items(left)
    <3>1. late' = (late \ {r}) \cup {n}
      BY <1>3, <1>7
    <3>2. Line(n.batch, Message) /\ n.batch # <<>> /\ Items(n.batch) \subseteq Items(r.batch)
      BY <1>2, <1>5, <1>7
    <3> QED BY <1>1, <1>5, <1>7, <3>1, <3>2, LateReplaced
  <2>2. /\ Items(<<>>) \subseteq Items(r.batch) \ Items(left)
        /\ Items(left) \subseteq Items(r.batch)
        /\ Ended(Items(r.batch) \ (Items(left) \cup Items(<<>>)), "run")
    <3>1. Items(r.batch) \ (Items(left) \cup Items(<<>>)) = W
      BY <1>2, <1>4
    <3> QED BY <1>2, <1>3, <1>4, <3>1
  <2>3. Returns(r.lane, <<>>) /\ UNCHANGED <<priority, sent>>
    BY <1>3, <1>5, <1>7 DEF l
  <2> QED BY <1>4, <2>1, <2>2, <2>3, LatePlaces DEF Typed
<1>8. L \subseteq LateTask
  BY <1>1, <1>5 DEF TypeOK
<1> HIDE DEF L, deferred
<1>9. /\ late' \subseteq LateTask /\ lateTurns' = lateTurns
      /\ active' \in {"none", "slot", "late"}
      /\ UNCHANGED <<slot, tripped, why, exact>>
  BY <1>1, <1>3, <1>8, LateEndsTyped
<1>10. UNCHANGED <<batch, phase>>
  BY <1>3 DEF Returns
<1>11. TypeOK' /\ TurnsAsked'
  BY <1>1, <1>3, <1>6, <1>7, <1>9, <1>10 DEF TypeOK, TurnsAsked, Typed
<1> QED BY <1>6, <1>7, <1>11 DEF LineInv, Typed

LEMMA LateAbortedLine ==
    ASSUME LineInv, NEW r \in late, LateRunAborted(r)
    PROVE  LineInv'
<1> DEFINE back == Back(r.batch)
<1>1. TypeOK /\ TurnsAsked /\ LateSound
  BY DEF LineInv, PlacesSound
<1>2. /\ r.lane \in Lane /\ Line(back, Message)
      /\ Items(back) \subseteq Items(r.batch)
  BY LateBatch
<1>3. /\ flag' = FALSE /\ isRedriven' = isRedriven \cup Items(back)
      /\ Ended(Items(r.batch) \ Items(back), "dropped") /\ Returns(r.lane, back)
      /\ LateEnds(late \ {r}, lateTurns) /\ late' = late \ {r}
      /\ UNCHANGED <<priority, turns, gone, unchecked, sent, asked, stops, shown, attempts>>
  BY DEF LateRunAborted, LateEnds, bounds
<1> HIDE DEF back
<1>4. LateSound' /\ LateHeld' = LateHeld \ Items(r.batch)
  BY <1>1, <1>3, LateRemoved
<1>5. /\ PlacesSound'
      /\ queue' \in [Lane -> Seq(Message)] /\ returned' \subseteq Message
      /\ isDisplayed' \subseteq Message
      /\ fate' \in [Message -> {"none", "run", "dropped"}]
  <2>1. /\ LateHeld' = (LateHeld \ Items(r.batch)) \cup {} /\ {} \subseteq Items(r.batch)
        /\ Items(back) \subseteq Items(r.batch) \ {}
        /\ Ended(Items(r.batch) \ ({} \cup Items(back)), "dropped")
    <3>1. {} \cup Items(back) = Items(back)
      OBVIOUS
    <3> QED BY <1>2, <1>3, <1>4, <3>1
  <2> QED BY <1>2, <1>3, <1>4, <2>1, LatePlaces
<1>6. /\ late' \subseteq LateTask /\ lateTurns' = lateTurns
      /\ active' \in {"none", "slot", "late"}
      /\ UNCHANGED <<slot, tripped, why, exact>>
  <2>1. late \ {r} \subseteq LateTask
    BY <1>1 DEF TypeOK
  <2> QED BY <1>1, <1>3, <2>1, LateEndsTyped
<1>7. UNCHANGED <<batch, phase>> /\ isRedriven' \subseteq Message
  BY <1>1, <1>2, <1>3, ItemsNonEmpty DEF Returns, Line, TypeOK
<1>8. TypeOK' /\ TurnsAsked'
  BY <1>1, <1>3, <1>5, <1>6, <1>7 DEF TypeOK, TurnsAsked
<1> QED BY <1>5, <1>8 DEF LineInv

LEMMA LateFailsLine ==
    ASSUME LineInv, NEW r \in late, LateRunFails(r)
    PROVE  LineInv'
<1>1. TypeOK /\ TurnsAsked /\ LateSound /\ r.lane \in Lane
  BY LateBatch DEF LineInv, PlacesSound
<1>2. /\ Ended(Items(r.batch), "dropped") /\ late' = late \ {r}
      /\ LateEnds(late \ {r}, lateTurns)
      /\ UNCHANGED <<lanes, priority, isDisplayed, isRedriven, flag, returned, turns, gone,
                     unchecked, sent, asked, shown, attempts>>
  BY DEF LateRunFails, LateEnds, flags
<1>3. Returns(r.lane, <<>>) /\ Line(<<>>, Message) /\ Items(<<>>) = {}
  BY <1>1, <1>2, NoneReturns
<1>4. LateSound' /\ LateHeld' = LateHeld \ Items(r.batch)
  BY <1>1, <1>2, LateRemoved
<1>5. /\ PlacesSound'
      /\ queue' \in [Lane -> Seq(Message)] /\ returned' \subseteq Message
      /\ isDisplayed' \subseteq Message
      /\ fate' \in [Message -> {"none", "run", "dropped"}]
  <2>1. /\ LateHeld' = (LateHeld \ Items(r.batch)) \cup {} /\ {} \subseteq Items(r.batch)
        /\ Items(<<>>) \subseteq Items(r.batch) \ {}
        /\ Ended(Items(r.batch) \ ({} \cup Items(<<>>)), "dropped")
    <3>1. Items(r.batch) \ ({} \cup Items(<<>>)) = Items(r.batch)
      BY <1>3
    <3> QED BY <1>2, <1>3, <1>4, <3>1
  <2>2. UNCHANGED <<priority, sent>>
    BY <1>2
  <2> QED BY <1>3, <1>4, <2>1, <2>2, LatePlaces
<1>6. /\ late' \subseteq LateTask /\ lateTurns' = lateTurns
      /\ active' \in {"none", "slot", "late"}
      /\ UNCHANGED <<slot, tripped, why, exact>>
  <2>1. late \ {r} \subseteq LateTask
    BY <1>1 DEF TypeOK
  <2> QED BY <1>1, <1>2, <2>1, LateEndsTyped
<1>7. stops' \in 0..MaxStops
  BY <1>1, InboxAssumption DEF LateRunFails, TypeOK
<1>8. TypeOK' /\ TurnsAsked'
  BY <1>1, <1>2, <1>5, <1>6, <1>7 DEF TypeOK, TurnsAsked, lanes
<1> QED BY <1>5, <1>8 DEF LineInv


(***************************************************************************)
(* The slot.                                                               *)
(***************************************************************************)

\* The lane that has started its task and not ended it has the slot.
Active(l) == phase[l] \in {"loading", "running"}
SlotHeld == \A l \in Lane : slot = l <=> Active(l)

\* The loop of a reviver starts no task.
LEMMA LoopNotActive ==
    ASSUME TypeOK, NEW l \in Lane, NEW q, LoopWith(l, q)
    PROVE  /\ phase'[l] \in {"idle", "resolving", "refused"}
           /\ \A k \in Lane \ {l} : phase'[k] = phase[k]
BY DEF LoopWith, TypeOK

LEMMA ArriveNotActive ==
    ASSUME TypeOK, NEW l \in Lane, NEW q, Arrive(l, q)
    PROVE  \A k \in Lane : phase'[k] = phase[k] \/ (~Active(k) /\ ~Active(k)')
BY LoopNotActive DEF Arrive, Active

\* Steps that neither take nor free the slot.
LEMMA SlotKept ==
    ASSUME SlotHeld, UNCHANGED slot, \A l \in Lane : Active(l)' <=> Active(l)
    PROVE  SlotHeld'
BY DEF SlotHeld

\* A turn takes the slot or leaves it.
LEMMA SlotOfTurns ==
    ASSUME SlotHeld, slot \notin Lane, slot' \notin Lane, UNCHANGED phase
    PROVE  SlotHeld'
BY DEF SlotHeld, Active

\* The task of a lane leaves the slot, at its end or given up.
LEMMA SlotFreed ==
    ASSUME TypeOK, SlotHeld, NEW l \in Lane, slot = l, slot' = "none",
           NEW q, LoopWith(l, q)
    PROVE  SlotHeld' /\ \A k \in Lane : ~Active(k)'
<1>1. /\ phase'[l] \in {"idle", "resolving", "refused"}
      /\ \A k \in Lane \ {l} : phase'[k] = phase[k]
  BY LoopNotActive
<1>2. \A k \in Lane \ {l} : ~Active(k)
  BY DEF SlotHeld
<1>3. \A k \in Lane : ~Active(k)'
  BY <1>1, <1>2 DEF Active
<1> QED BY <1>3 DEF SlotHeld, Lane

LEMMA SlotNext ==
    ASSUME LineInv, SlotHeld, [Next]_vars
    PROVE  SlotHeld'
<1>1. TypeOK /\ phase \in [Lane -> Phase]
  BY DEF LineInv, TypeOK
<1>2. CASE UNCHANGED vars
  BY <1>2 DEF vars, lanes, run, SlotHeld, Active
<1>3. CASE Next
  <2>1. CASE sendToAgent \/ wakeForInbound
    <3>1. \A k \in Lane : phase'[k] = phase[k] \/ (~Active(k) /\ ~Active(k)')
      BY <1>1, <2>1, SendQueue, ArriveNotActive DEF wakeForInbound, Lane
    <3>2. slot' = slot
      BY <2>1 DEF sendToAgent, wakeForInbound, run
    <3> QED BY <3>1, <3>2, SlotKept DEF Active
  <2>2. CASE \/ DirectMessage \/ OtherWake \/ StopRun \/ Trip \/ DeleteAgent
             \/ DeletionFails \/ LateTurnStarts \/ LateTurnEnds
    <3>1. UNCHANGED <<slot, phase>>
      BY <2>2 DEF DirectMessage, OtherWake, StopRun, Trip, DeleteAgent, DeletionFails,
                  LateTurnStarts, LateTurnEnds, Activates, LateEnds, lanes, run
    <3> QED BY <3>1, SlotKept DEF Active
  <2>3. ASSUME NEW t \in Turn, TakeTurn(t) \/ TurnStarts(t) \/ EndTurn(t) \/ GiveUpTurn(t)
        PROVE  SlotHeld'
    <3>1. slot \notin Lane /\ slot' \notin Lane /\ UNCHANGED phase
      BY <2>3 DEF TakeTurn, TurnStarts, EndTurn, GiveUpTurn, Takes, Activates, Frees,
                  GivesUp, Lane, Turn, lanes
    <3> QED BY <3>1, SlotOfTurns
  <2>4. ASSUME NEW l \in Lane, Resolved(l) \/ Unresolved(l) PROVE SlotHeld'
    <3>1. /\ phase[l] \in {"resolving", "refused"} /\ slot' = slot
          /\ phase' = [phase EXCEPT ![l] = "waiting"] \/ LoopWith(l, queue[l])
      BY <2>4 DEF Resolved, Unresolved, run
    <3>2. /\ phase'[l] \in {"idle", "resolving", "refused", "waiting"}
          /\ \A k \in Lane \ {l} : phase'[k] = phase[k]
      BY <1>1, <3>1, LoopNotActive
    <3> QED BY <3>1, <3>2, SlotKept DEF Active
  <2>5. ASSUME NEW l \in Lane, TaskStarts(l) PROVE SlotHeld'
    <3>1. slot = "none" /\ slot' = l /\ phase' = [phase EXCEPT ![l] = "loading"]
      BY <2>5 DEF TaskStarts, Takes
    <3>2. \A k \in Lane : ~Active(k)
      BY <3>1 DEF SlotHeld, Lane
    <3>3. phase'[l] = "loading" /\ \A k \in Lane \ {l} : ~Active(k)'
      BY <1>1, <3>1, <3>2 DEF Active
    <3> QED BY <3>1, <3>3 DEF SlotHeld, Active
  <2>6. ASSUME NEW l \in Lane, RunStarts(l) PROVE SlotHeld'
    <3>1. /\ phase[l] = "loading" /\ phase' = [phase EXCEPT ![l] = "running"]
          /\ slot' = slot
      BY <2>6 DEF RunStarts, Activates
    <3>2. \A k \in Lane : Active(k)' <=> Active(k)
      BY <1>1, <3>1 DEF Active
    <3> QED BY <3>1, <3>2, SlotKept
  <2>7. ASSUME NEW l \in Lane, RunOk(l) PROVE SlotHeld'
    <3>1. phase[l] = "running" /\ slot = l
      BY <2>7 DEF RunOk, SlotHeld, Active
    <3>2. \/ \E q : Finish(l, q)
          \/ phase' = [phase EXCEPT ![l] = "loading"] /\ UNCHANGED slot
      BY <2>7 DEF RunOk
    <3>3. CASE phase' = [phase EXCEPT ![l] = "loading"] /\ UNCHANGED slot
      <4>1. \A k \in Lane : Active(k)' <=> Active(k)
        BY <1>1, <3>1, <3>3 DEF Active
      <4> QED BY <3>3, <4>1, SlotKept
    <3>4. ASSUME NEW q, Finish(l, q) PROVE SlotHeld'
      BY <1>1, <3>1, <3>4, SlotFreed DEF Finish, Frees
    <3> QED BY <3>2, <3>3, <3>4
  <2>8. ASSUME NEW l \in Lane, RunAborted(l) \/ RunFails(l) PROVE SlotHeld'
    <3>1. phase[l] = "running" /\ \E q : Finish(l, q)
      BY <2>8 DEF RunAborted, RunFails
    <3>2. slot = l
      BY <3>1 DEF SlotHeld, Active
    <3> QED BY <1>1, <3>1, <3>2, SlotFreed DEF Finish, Frees
  <2>9. ASSUME NEW l \in Lane, GiveUp(l) PROVE SlotHeld'
    <3>1. slot = l /\ slot' = "none" /\ LoopWith(l, queue[l])
      BY <2>9 DEF GiveUp, GivesUp
    <3> QED BY <1>1, <3>1, SlotFreed
  <2>10. ASSUME NEW r \in late, LateTaskSteps(r) PROVE SlotHeld'
    <3>1. UNCHANGED <<slot, phase>>
      BY <2>10 DEF LateTaskSteps, LateRunStarts, LateRunOk, LateRunAborted, LateRunFails,
                   Activates, LateEnds, Returns, lanes
    <3> QED BY <3>1, SlotKept DEF Active
  <2> QED BY <1>3, <2>1, <2>2, <2>3, <2>4, <2>5, <2>6, <2>7, <2>8, <2>9, <2>10 DEF Next
<1> QED BY <1>2, <1>3

LEMMA LineNext ==
    ASSUME LineInv, SlotHeld, [Next]_vars
    PROVE  LineInv'
<1>1. CASE UNCHANGED vars
  <2>1. UNCHANGED <<queue, batch, phase, priority, returned, late, sent, fate>>
    BY <1>1 DEF vars, lanes, flags, others, bounds, history
  <2>2. PlacesSound'
    BY <2>1, SamePlaces
  <2>3. TypeOK' /\ TurnsAsked'
    BY <1>1 DEF LineInv, TypeOK, TurnsAsked, vars, lanes, flags, run, others, bounds,
                history
  <2> QED BY <2>2, <2>3 DEF LineInv
<1>2. CASE Next
  <2>1. CASE sendToAgent
    BY <2>1, SendLine
  <2>2. CASE wakeForInbound
    BY <2>2, WakeLine
  <2>3. CASE \/ DirectMessage \/ OtherWake \/ StopRun \/ Trip
             \/ DeletionFails \/ LateTurnStarts \/ LateTurnEnds
             \/ \E t \in Turn : TakeTurn(t) \/ TurnStarts(t) \/ EndTurn(t) \/ GiveUpTurn(t)
    BY <2>3, TurnLine
  <2>4. CASE DeleteAgent
    BY <2>4, DeleteLine
  <2>5. ASSUME NEW l \in Lane, Resolved(l) \/ TaskStarts(l) \/ RunStarts(l)
        PROVE  LineInv'
    BY <2>5, StartLine
  <2>6. ASSUME NEW l \in Lane, Unresolved(l) PROVE LineInv'
    BY <2>6, UnresolvedLine
  <2>7. ASSUME NEW l \in Lane, RunOk(l) PROVE LineInv'
    BY <2>7, OkLine
  <2>8. ASSUME NEW l \in Lane, RunAborted(l) PROVE LineInv'
    BY <2>8, AbortedLine
  <2>9. ASSUME NEW l \in Lane, RunFails(l) PROVE LineInv'
    BY <2>9, FailsLine
  <2>10. ASSUME NEW l \in Lane, GiveUp(l) PROVE LineInv'
    <3>1. phase[l] \in {"loading", "running"}
      BY <2>10 DEF GiveUp, SlotHeld, Active
    <3> QED BY <2>10, <3>1, GiveUpLine
  <2>11. ASSUME NEW r \in late, LateTaskSteps(r) PROVE LineInv'
    BY <2>11, LateStartsLine, LateOkLine, LateAbortedLine, LateFailsLine DEF LateTaskSteps
  <2> QED BY <1>2, <2>1, <2>2, <2>3, <2>4, <2>5, <2>6, <2>7, <2>8, <2>9, <2>10, <2>11
          DEF Next
<1> QED BY <1>1, <1>2

LEMMA SlotInit == Init => SlotHeld
BY DEF Init, SlotHeld, Active, Lane

LEMMA LineAlways == Spec => [](LineInv /\ SlotHeld)
<1>1. LineInv /\ SlotHeld /\ [Next]_vars => (LineInv /\ SlotHeld)'
  BY LineNext, SlotNext
<1> QED BY <1>1, LineInit, SlotInit, PTL DEF Spec

LEMMA LinesKeepOrder ==
    ASSUME LineInv
    PROVE  KeepsOrder
<1> SUFFICES ASSUME NEW l \in Lane
             PROVE  LET line == batch[l] \o queue[l]
                    IN  \A i, j \in DOMAIN line :
                           i < j /\ {line[i], line[j]} \cap (priority \cup returned) = {}
                              => line[i] < line[j]
  BY DEF KeepsOrder
<1>1. LaneSound(l)
  BY DEF LineInv, PlacesSound, LanesSound
<1>2. Line(batch[l] \o queue[l], Exempt)
  BY <1>1, ConcatLine DEF LaneSound
<1> QED BY <1>2 DEF Line, SoundIn, Exempt

\* All that waits in the lanes, in one injective line.
LEMMA WaitingSound ==
    ASSUME LineInv
    PROVE  /\ Waiting \in Seq(Message) /\ IsInjective(Waiting)
           /\ Items(Waiting) \cap LateHeld = {}
           /\ Items(Waiting) \cup LateHeld = Pending
<1> DEFINE A == queue["agent"]
           B == batch["agent"]
           C == queue["channel"]
           D == batch["channel"]
<1>1. /\ LaneSound("agent") /\ LaneSound("channel")
      /\ Held("agent") \cap Held("channel") = {}
      /\ (Held("agent") \cup Held("channel")) \cap LateHeld = {}
      /\ Held("agent") \cup Held("channel") \cup LateHeld = Pending
      /\ Exempt \subseteq Message
  BY DEF LineInv, TypeOK, PlacesSound, LanesSound, LanesApart, HeldIsPending, Lane, Exempt
<1>2. ASSUME NEW s, NEW U, U \subseteq Message, Line(s, U) PROVE Line(s, Message)
  BY <1>2, SoundForMore DEF Line
<1>3. Line(A, Message) /\ Line(B, Message) /\ Line(C, Message) /\ Line(D, Message)
  BY <1>1, <1>2 DEF LaneSound
<1>4. ASSUME NEW s, NEW t, Line(s, Message), Line(t, Message), Items(s) \cap Items(t) = {}
      PROVE  Line(s \o t, Message) /\ Items(s \o t) = Items(s) \cup Items(t)
  <2>1. Items(s) \subseteq Message
    BY <1>4, ItemsNonEmpty DEF Line
  <2>2. Precede(Items(s), Items(t), Message)
    BY <2>1 DEF Precede
  <2> QED BY <1>4, <2>2, ConcatLine
<1>5. /\ Items(A) \cap Items(B) = {} /\ Items(C) \cap Items(D) = {}
      /\ (Items(A) \cup Items(B)) \cap Items(C) = {}
      /\ (Items(A) \cup Items(B) \cup Items(C)) \cap Items(D) = {}
      /\ Items(A) \cup Items(B) \cup Items(C) \cup Items(D)
            = Held("agent") \cup Held("channel")
  BY <1>1 DEF Held, LaneSound
<1>6. Line(A \o B, Message) /\ Items(A \o B) = Items(A) \cup Items(B)
  BY <1>3, <1>4, <1>5
<1>7. Line(A \o B \o C, Message) /\ Items(A \o B \o C) = Items(A) \cup Items(B) \cup Items(C)
  BY <1>3, <1>4, <1>5, <1>6
<1>8. /\ Line(A \o B \o C \o D, Message)
      /\ Items(A \o B \o C \o D) = Items(A) \cup Items(B) \cup Items(C) \cup Items(D)
  BY <1>3, <1>4, <1>5, <1>7
<1> QED BY <1>1, <1>5, <1>8 DEF Waiting, Line, SoundIn

LEMMA LinesOnePlace ==
    ASSUME LineInv
    PROVE  OnePlace
<1> SUFFICES ASSUME NEW m \in 1..sent
             PROVE  Cardinality(Places(m)) = IF fate[m] = "none" THEN 1 ELSE 0
  BY DEF OnePlace
<1> DEFINE inLanes == {i \in DOMAIN Waiting : Waiting[i] = m}
           inTask(r) == {<<r, i>> : i \in {j \in DOMAIN r.batch : r.batch[j] = m}}
<1>1. Places(m) = inLanes \cup UNION {inTask(r) : r \in late}
  BY DEF Places
<1>2. /\ IsInjective(Waiting) /\ Items(Waiting) \cap LateHeld = {}
      /\ (m \in Items(Waiting) \/ m \in LateHeld) <=> fate[m] = "none"
  BY WaitingSound DEF Pending
<1>3. \A r \in late : m \notin Items(r.batch) => inTask(r) = {}
  BY DEF Items
<1>4. m \notin Items(Waiting) => inLanes = {}
  BY DEF Items
<1>5. m \notin LateHeld => \A r \in late : m \notin Items(r.batch)
  BY DEF LateHeld
<1>6. CASE m \in Items(Waiting)
  <2>1. PICK i \in DOMAIN Waiting : Waiting[i] = m
    BY <1>6 DEF Items
  <2>2. inLanes = {i}
    BY <1>2, <2>1 DEF IsInjective
  <2>3. \A r \in late : inTask(r) = {}
    BY <1>2, <1>3, <1>5, <1>6
  <2> HIDE DEF inLanes, inTask
  <2>4. Places(m) = {i}
    BY <1>1, <2>2, <2>3
  <2> QED BY <1>2, <1>6, <2>4, FS_Singleton
<1>7. CASE m \in LateHeld
  <2>1. PICK r \in late : m \in Items(r.batch)
    BY <1>7 DEF LateHeld
  <2>2. PICK i \in DOMAIN r.batch : r.batch[i] = m
    BY <2>1 DEF Items
  <2>3. IsInjective(r.batch) /\ \A s \in late : s # r => m \notin Items(s.batch)
    BY <2>1 DEF LineInv, PlacesSound, LateSound, Line, SoundIn
  <2>4. inTask(r) = {<<r, i>>}
    BY <2>2, <2>3 DEF IsInjective
  <2>5. inLanes = {}
    BY <1>2, <1>4, <1>7
  <2>6. \A s \in late : s # r => inTask(s) = {}
    BY <1>3, <2>3
  <2> HIDE DEF inLanes, inTask
  <2>7. Places(m) = {<<r, i>>}
    BY <1>1, <2>1, <2>4, <2>5, <2>6
  <2> QED BY <1>2, <1>7, <2>7, FS_Singleton
<1>8. CASE m \notin Items(Waiting) /\ m \notin LateHeld
  <2>1. inLanes = {} /\ \A r \in late : inTask(r) = {}
    BY <1>3, <1>4, <1>5, <1>8
  <2> HIDE DEF inLanes, inTask
  <2>2. Places(m) = {}
    BY <1>1, <2>1
  <2> QED BY <1>2, <1>8, <2>2, FS_EmptySet
<1> QED BY <1>6, <1>7, <1>8

LEMMA LinesNoneLeft ==
    ASSUME LineInv
    PROVE  NoneLeft
BY DEF NoneLeft, LineInv, PlacesSound, LanesSound, LaneSound

(***************************************************************************)
(* Whatever interrupts the runs of an agent, and however late a run ends   *)
(* that was given up, its messages are neither lost nor duplicated until   *)
(* they are run or dropped; those without priority keep the order they     *)
(* were sent in and no reviver leaves one behind, except for what a        *)
(* given-up run returned.  For any number of messages.                     *)
(***************************************************************************)
THEOREM QueuesAlwaysSound == Spec => []QueuesAreSound
<1>1. LineInv => QueuesAreSound
  BY LinesKeepOrder, LinesOnePlace, LinesNoneLeft DEF LineInv, QueuesAreSound
<1> QED BY <1>1, LineAlways, PTL

(***************************************************************************)
(* The flag.                                                               *)
(***************************************************************************)

\* What can be interrupted is a run that has started, of the slot or late.
ActiveKnown ==
    /\ active = "slot" => slot # "none" /\ \A l \in Lane : phase[l] # "loading"
    /\ active = "late" => late # {} \/ lateTurns

\* A task that started alone is the only one alive.
ExactAlone == exact => late = {} /\ ~lateTurns /\ slot # "none"

\* Until its run starts nothing sets the flag of such a task.
FlagUnset == \A l \in Lane : phase[l] = "loading" /\ exact => ~flag /\ why = "none"

FlagInv == ActiveKnown /\ ExactAlone /\ FlagUnset /\ FlagIsExact

\* The messages and stops that may interrupt the active run.
Interrupts ==
    \/ Preempt
    \/ flag' = flag /\ why' = IF active = "slot" THEN Stopped(why) ELSE why
    \/ UNCHANGED <<flag, why>>

LEMMA CausesMark ==
    ASSUME NEW cause \in Cause
    PROVE  /\ Preempted(cause) \in {"preempted", "overtaken"}
           /\ Stopped(cause) \in {"preempted", "overtaken"}
                <=> cause \in {"preempted", "overtaken"}
BY DEF Cause, Preempted, Stopped

\* A step that at most interrupts the active run.
LEMMA InterruptFlag ==
    ASSUME TypeOK, FlagInv, Interrupts,
           UNCHANGED <<slot, active, late, lateTurns, exact>>,
           \A l \in Lane : phase'[l] = phase[l] \/ (~Active(l) /\ ~Active(l)')
    PROVE  FlagInv'
<1>1. \A l \in Lane : /\ phase'[l] = "loading" => phase[l] = "loading"
                      /\ phase'[l] = "running" => phase[l] = "running"
  BY DEF Active
<1>2. ActiveKnown' /\ ExactAlone'
  BY <1>1 DEF FlagInv, ActiveKnown, ExactAlone
<1>3. exact => active \in {"none", "slot"}
  BY DEF FlagInv, ActiveKnown, ExactAlone, TypeOK
<1>4. ASSUME NEW l \in Lane, phase'[l] = "loading", exact'
      PROVE  ~flag' /\ why' = "none"
  <2>1. phase[l] = "loading" /\ exact /\ active = "none" /\ ~flag /\ why = "none"
    BY <1>1, <1>3, <1>4 DEF FlagInv, FlagUnset, ActiveKnown
  <2>2. why' = why
    BY <2>1 DEF Interrupts, Preempt
  <2>3. flag' = flag \/ flag' = (flag \/ active # "none")
    BY DEF Interrupts, Preempt
  <2>4. (flag \/ active # "none") = FALSE /\ flag = FALSE
    BY <2>1 DEF TypeOK
  <2>5. flag' = FALSE
    BY <2>3, <2>4
  <2> QED BY <2>1, <2>2, <2>5
<1>5. ASSUME NEW l \in Lane, phase'[l] = "running", exact'
      PROVE  flag' <=> why' \in {"preempted", "overtaken"}
  <2>1. phase[l] = "running" /\ active \in {"none", "slot"} /\ why \in Cause
    BY <1>1, <1>3, <1>5 DEF TypeOK
  <2>2. flag <=> why \in {"preempted", "overtaken"}
    BY <1>5, <2>1 DEF FlagInv, FlagIsExact
  <2>3. /\ Preempted(why) \in {"preempted", "overtaken"}
        /\ Stopped(why) \in {"preempted", "overtaken"} <=> why \in {"preempted", "overtaken"}
    BY <2>1, CausesMark
  <2>4. CASE Preempt
    <3>1. active = "none" => flag' = flag /\ why' = why
      BY <2>4 DEF Preempt, TypeOK
    <3>2. active = "slot" => flag' /\ why' = Preempted(why)
      BY <2>4 DEF Preempt
    <3> QED BY <2>1, <2>2, <2>3, <3>1, <3>2
  <2>5. CASE flag' = flag /\ why' = IF active = "slot" THEN Stopped(why) ELSE why
    BY <2>2, <2>3, <2>5
  <2>6. CASE UNCHANGED <<flag, why>>
    BY <2>2, <2>6
  <2> QED BY <2>4, <2>5, <2>6 DEF Interrupts
<1> QED BY <1>2, <1>4, <1>5 DEF FlagInv, FlagUnset, FlagIsExact

\* Nothing is asked of a task that is not alone.
LEMMA InexactFlag ==
    ASSUME exact' = FALSE, ActiveKnown'
    PROVE  FlagInv'
BY DEF FlagInv, ExactAlone, FlagUnset, FlagIsExact

\* The slot is free after the step.
LEMMA FreedFlag ==
    ASSUME TypeOK, FlagInv, exact' = FALSE, UNCHANGED <<late, lateTurns>>,
           active' = IF active = "slot" THEN "none" ELSE active
    PROVE  FlagInv'
<1>1. ActiveKnown'
  BY DEF FlagInv, ActiveKnown, TypeOK
<1> QED BY <1>1, InexactFlag

\* A given-up task takes a step: the task of the slot, if any, is not alone.
LEMMA LateFlag ==
    ASSUME TypeOK, FlagInv, late # {} \/ lateTurns,
           UNCHANGED <<slot, phase, exact>>,
           \/ active' = "late" /\ (late' # {} \/ lateTurns')
           \/ LateEnds(late', lateTurns')
    PROVE  FlagInv'
<1>1. exact' = FALSE
  BY DEF FlagInv, ExactAlone, TypeOK
<1>2. ActiveKnown'
  <2>1. CASE active' = "late" /\ (late' # {} \/ lateTurns')
    BY <2>1 DEF ActiveKnown
  <2>2. CASE LateEnds(late', lateTurns')
    <3>1. \/ active' = "none"
          \/ active' = "late" /\ (late' # {} \/ lateTurns')
          \/ active' = active /\ active # "late"
      BY <2>2 DEF LateEnds
    <3> QED BY <3>1 DEF FlagInv, ActiveKnown
  <2> QED BY <2>1, <2>2
<1> QED BY <1>1, <1>2, InexactFlag

LEMMA FlagInit == Init => FlagInv
BY DEF Init, FlagInv, ActiveKnown, ExactAlone, FlagUnset, FlagIsExact

LEMMA FlagNext ==
    ASSUME LineInv, SlotHeld, SlotHeld', FlagInv, [Next]_vars
    PROVE  FlagInv'
<1>1. TypeOK /\ phase \in [Lane -> Phase]
  BY DEF LineInv, TypeOK
<1>2. CASE UNCHANGED vars
  BY <1>2 DEF vars, lanes, run, others, FlagInv, ActiveKnown, ExactAlone, FlagUnset,
              FlagIsExact
<1>3. CASE Next
  <2>1. CASE sendToAgent \/ wakeForInbound
    <3>1. \A k \in Lane : phase'[k] = phase[k] \/ (~Active(k) /\ ~Active(k)')
      BY <1>1, <2>1, SendQueue, ArriveNotActive DEF wakeForInbound, Lane
    <3>2. Interrupts /\ UNCHANGED <<slot, active, late, lateTurns, exact>>
      BY <2>1 DEF sendToAgent, wakeForInbound, Interrupts, run, others
    <3> QED BY <1>1, <3>1, <3>2, InterruptFlag
  <2>2. CASE DirectMessage \/ OtherWake \/ StopRun \/ Trip \/ DeletionFails
    <3>1. Interrupts /\ UNCHANGED <<phase, slot, active, late, lateTurns, exact>>
      BY <2>2 DEF DirectMessage, OtherWake, StopRun, Trip, DeletionFails, Interrupts,
                  lanes, run, others
    <3> QED BY <1>1, <3>1, InterruptFlag
  <2>3. CASE DeleteAgent
    <3>1. exact' = FALSE /\ UNCHANGED <<phase, slot, active, late, lateTurns>>
      BY <2>3 DEF DeleteAgent, others
    <3>2. ActiveKnown'
      BY <3>1 DEF FlagInv, ActiveKnown
    <3> QED BY <3>1, <3>2, InexactFlag
  <2>4. CASE LateTurnStarts \/ LateTurnEnds
    <3>1. lateTurns /\ UNCHANGED <<slot, phase, exact>>
      BY <2>4 DEF LateTurnStarts, LateTurnEnds, Activates, LateEnds, lanes
    <3>2. \/ active' = "late" /\ (late' # {} \/ lateTurns')
          \/ LateEnds(late', lateTurns')
      BY <2>4 DEF LateTurnStarts, LateTurnEnds, Activates, LateEnds, others
    <3> QED BY <1>1, <3>1, <3>2, LateFlag
  <2>5. ASSUME NEW t \in Turn, TakeTurn(t) PROVE FlagInv'
    <3>1. /\ slot = "none" /\ slot' = t /\ exact' = (late = {} /\ ~lateTurns)
          /\ UNCHANGED <<active, phase, late, lateTurns>>
      BY <2>5 DEF TakeTurn, Takes, lanes, others
    <3>2. \A l \in Lane : ~Active(l)'
      BY <3>1 DEF SlotHeld, Lane, Turn
    <3>3. active' # "slot" /\ slot' # "none"
      BY <3>1 DEF FlagInv, ActiveKnown, Turn
    <3> QED BY <3>1, <3>2, <3>3 DEF FlagInv, ActiveKnown, ExactAlone, FlagUnset,
                                    FlagIsExact, Active
  <2>6. ASSUME NEW t \in Turn, TurnStarts(t) PROVE FlagInv'
    <3>1. slot = t /\ active' = "slot" /\ UNCHANGED <<slot, exact, phase, late, lateTurns>>
      BY <2>6 DEF TurnStarts, Activates, lanes, others
    <3>2. slot' # "none" /\ \A l \in Lane : ~Active(l)'
      BY <3>1 DEF SlotHeld, Lane, Turn
    <3> QED BY <3>1, <3>2 DEF FlagInv, ActiveKnown, ExactAlone, FlagUnset, FlagIsExact,
                              Active
  <2>7. ASSUME NEW t \in Turn, EndTurn(t) PROVE FlagInv'
    BY <1>1, <2>7, FreedFlag DEF EndTurn, Frees, others
  <2>8. ASSUME NEW t \in Turn, GiveUpTurn(t) PROVE FlagInv'
    <3>1. /\ exact' = FALSE /\ lateTurns'
          /\ active' = IF active = "slot" THEN "late" ELSE active
      BY <2>8 DEF GiveUpTurn, GivesUp
    <3>2. ActiveKnown'
      BY <3>1 DEF ActiveKnown
    <3> QED BY <3>1, <3>2, InexactFlag
  <2>9. ASSUME NEW l \in Lane, Resolved(l) \/ Unresolved(l) PROVE FlagInv'
    <3>1. /\ phase[l] \in {"resolving", "refused"}
          /\ phase' = [phase EXCEPT ![l] = "waiting"] \/ LoopWith(l, queue[l])
          /\ UNCHANGED <<flag, why, slot, active, late, lateTurns, exact>>
      BY <2>9 DEF Resolved, Unresolved, run, others
    <3>2. /\ phase'[l] \in {"idle", "resolving", "refused", "waiting"}
          /\ \A k \in Lane \ {l} : phase'[k] = phase[k]
      BY <1>1, <3>1, LoopNotActive
    <3>3. Interrupts
      BY <3>1 DEF Interrupts
    <3>4. \A k \in Lane : phase'[k] = phase[k] \/ (~Active(k) /\ ~Active(k)')
      BY <3>1, <3>2 DEF Active
    <3> QED BY <1>1, <3>1, <3>3, <3>4, InterruptFlag
  <2>10. ASSUME NEW l \in Lane, TaskStarts(l) PROVE FlagInv'
    <3>1. /\ slot = "none" /\ slot' = l /\ why' = "none" /\ flag' = FALSE
          /\ exact' = (late = {} /\ ~lateTurns)
          /\ phase' = [phase EXCEPT ![l] = "loading"]
          /\ UNCHANGED <<active, late, lateTurns>>
      BY <2>10 DEF TaskStarts, Takes, FlagAtStart, others
    <3>2. active' # "slot" /\ slot' # "none" /\ phase'[l] = "loading"
      BY <1>1, <3>1 DEF FlagInv, ActiveKnown, Lane
    <3>3. \A k \in Lane : phase'[k] # "running"
      <4>1. \A k \in Lane \ {l} : ~Active(k)'
        BY <3>1 DEF SlotHeld
      <4> QED BY <3>2, <4>1 DEF Active
    <3> QED BY <3>1, <3>2, <3>3 DEF FlagInv, ActiveKnown, ExactAlone, FlagUnset,
                                    FlagIsExact
  <2>11. ASSUME NEW l \in Lane, RunStarts(l) PROVE FlagInv'
    <3>1. /\ phase[l] = "loading" /\ phase' = [phase EXCEPT ![l] = "running"]
          /\ active' = "slot"
          /\ UNCHANGED <<slot, exact, flag, why, late, lateTurns>>
      BY <2>11 DEF RunStarts, Activates, others
    <3>2. slot = l /\ slot # "none" /\ (exact => ~flag /\ why = "none")
      BY <3>1 DEF FlagInv, SlotHeld, FlagUnset, Active, Lane
    <3>3. \A k \in Lane : phase'[k] # "loading"
      <4>1. phase'[l] = "running" /\ \A k \in Lane \ {l} : ~Active(k)'
        BY <1>1, <3>1, <3>2 DEF SlotHeld
      <4> QED BY <4>1 DEF Active
    <3> QED BY <3>1, <3>2, <3>3 DEF FlagInv, ActiveKnown, ExactAlone, FlagUnset,
                                    FlagIsExact
  <2>12. ASSUME NEW l \in Lane, RunOk(l) PROVE FlagInv'
    <3>1. phase[l] = "running" /\ slot = l /\ slot # "none" /\ flag' = FALSE
      BY <2>12 DEF RunOk, SlotHeld, Active, Lane
    <3>2. /\ UNCHANGED <<late, lateTurns>>
          /\ active' = IF active = "slot" THEN "none" ELSE active
          /\ \/ exact' = FALSE
             \/ /\ phase' = [phase EXCEPT ![l] = "loading"]
                /\ why' = "none" /\ UNCHANGED <<slot, exact>>
      BY <2>12 DEF RunOk, Finish, Frees, others
    <3>3. CASE exact' = FALSE
      BY <1>1, <3>2, <3>3, FreedFlag
    <3>4. CASE /\ phase' = [phase EXCEPT ![l] = "loading"]
               /\ why' = "none" /\ UNCHANGED <<slot, exact>>
      <4>1. phase'[l] = "loading" /\ \A k \in Lane \ {l} : ~Active(k)'
        BY <1>1, <3>1, <3>4 DEF SlotHeld
      <4>2. \A k \in Lane : phase'[k] # "running"
        BY <4>1 DEF Active
      <4>3. active' # "slot"
        BY <3>2
      <4> QED BY <3>1, <3>2, <3>4, <4>2, <4>3 DEF FlagInv, ActiveKnown, ExactAlone,
                                                  FlagUnset, FlagIsExact
    <3> QED BY <3>2, <3>3, <3>4
  <2>13. ASSUME NEW l \in Lane, RunAborted(l) \/ RunFails(l) PROVE FlagInv'
    <3>1. /\ exact' = FALSE /\ UNCHANGED <<late, lateTurns>>
          /\ active' = IF active = "slot" THEN "none" ELSE active
      BY <2>13 DEF RunAborted, RunFails, Finish, Frees, others
    <3> QED BY <1>1, <3>1, FreedFlag
  <2>14. ASSUME NEW l \in Lane, GiveUp(l) PROVE FlagInv'
    <3>1. /\ exact' = FALSE /\ late' # {}
          /\ active' = IF active = "slot" THEN "late" ELSE active
      BY <2>14 DEF GiveUp, GivesUp
    <3>2. ActiveKnown'
      BY <3>1 DEF ActiveKnown
    <3> QED BY <3>1, <3>2, InexactFlag
  <2>15. ASSUME NEW r \in late, LateTaskSteps(r) PROVE FlagInv'
    <3>1. late # {} /\ UNCHANGED <<slot, phase, exact>>
      BY <2>15 DEF LateTaskSteps, LateRunStarts, LateRunOk, LateRunAborted, LateRunFails,
                   Activates, LateEnds, Returns, lanes
    <3>2. \/ active' = "late" /\ late' # {}
          \/ LateEnds(late', lateTurns')
      <4>1. CASE LateRunStarts(r)
        BY <4>1 DEF LateRunStarts, Activates
      <4>2. CASE LateRunOk(r) \/ LateRunAborted(r) \/ LateRunFails(r)
        <5>1. \E L : LateEnds(L, lateTurns)
          BY <4>2 DEF LateRunOk, LateRunAborted, LateRunFails
        <5> QED BY <5>1 DEF LateEnds
      <4> QED BY <2>15, <4>1, <4>2 DEF LateTaskSteps
    <3> QED BY <1>1, <3>1, <3>2, LateFlag
  <2> QED BY <1>3, <2>1, <2>2, <2>3, <2>4, <2>5, <2>6, <2>7, <2>8, <2>9, <2>10, <2>11,
             <2>12, <2>13, <2>14, <2>15 DEF Next
<1> QED BY <1>2, <1>3

(***************************************************************************)
(* The one flag that every run of the agent shares tells the run of a lane *)
(* exactly whether a direct or a priority message came for it: no user     *)
(* turn, revival or run of the other lane leaves it set for a run it is    *)
(* not about.  Only a run given up for a turn of the user and still alive  *)
(* when the task starts, and the deletion of the agent, spoil that.        *)
(***************************************************************************)
THEOREM FlagAlwaysExact == Spec => []FlagIsExact
<1>1. FlagInv => FlagIsExact
  BY DEF FlagInv
<1>2. LineInv /\ SlotHeld /\ FlagInv /\ [Next]_vars /\ SlotHeld' => FlagInv'
  BY FlagNext
<1> QED BY <1>1, <1>2, LineAlways, FlagInit, PTL DEF Spec

(***************************************************************************)
(* The transcript and the runs of a message.                               *)
(***************************************************************************)
Staged(l) == phase[l] \in {"waiting", "loading", "running"}
Redriven(m) == IF m \in isRedriven THEN 1 ELSE 0
Running(l, m) == IF phase[l] = "running" /\ m \in InRun(l, batch[l]) THEN 1 ELSE 0
LateRunning(r, m) == IF r.phase = "running" /\ m \in InRun(r.lane, r.batch) THEN 1 ELSE 0

\* What a lane holds is in the transcript once its session was resolved, and
\* only then unless it was put back; and it was run as often as it was put
\* back, not counting the run under way.
LaneShown(l) ==
    /\ Staged(l) => \A m \in Items(batch[l]) : shown[m] = 1
    /\ ~Staged(l) => \A m \in Items(batch[l]) \ isDisplayed : shown[m] = 0
    /\ \A m \in Items(queue[l]) \ isDisplayed : shown[m] = 0
    /\ \A m \in Held(l) : attempts[m] <= Redriven(m) + Running(l, m)

\* The same of a task that was given up, whose session was resolved.
TaskShown(r) ==
    \A m \in Items(r.batch) :
       shown[m] = 1 /\ attempts[m] <= Redriven(m) + LateRunning(r, m)

LateShown == \A r \in late : TaskShown(r)
DisplayedShown == \A m \in isDisplayed : shown[m] = 1
NewUnshown == \A m \in Message : m > sent => shown[m] = 0 /\ attempts[m] = 0

ShowInv ==
    /\ \A l \in Lane : LaneShown(l)
    /\ LateShown /\ DisplayedShown /\ NewUnshown /\ ShownOnceRunTwice

\* A lane that a step leaves alone.
LEMMA ShownKept ==
    ASSUME LineInv, NEW l \in Lane, LaneShown(l),
           batch'[l] = batch[l], queue'[l] = queue[l], phase'[l] = phase[l],
           \A m \in Held(l) : shown'[m] = shown[m] /\ attempts'[m] = attempts[m],
           isDisplayed \subseteq isDisplayed', isRedriven \subseteq isRedriven'
    PROVE  LaneShown(l)'
<1>1. /\ Items(batch[l])' = Items(batch[l]) /\ Items(queue[l])' = Items(queue[l])
      /\ Held(l)' = Held(l) /\ Staged(l)' = Staged(l)
      /\ \A m : Running(l, m)' = Running(l, m)
  BY DEF Items, Held, Staged, Running, InRun
<1>2. \A m \in Held(l) : attempts[m] \in Nat
  BY PendingAreSent DEF LineInv, TypeOK
<1>3. ASSUME NEW m \in Held(l)' PROVE attempts'[m] <= Redriven(m)' + Running(l, m)'
  <2>1. /\ m \in Held(l) /\ attempts[m] \in Nat /\ attempts'[m] = attempts[m]
        /\ attempts[m] <= Redriven(m) + Running(l, m)
    BY <1>1, <1>2, <1>3 DEF LaneShown
  <2>2. /\ Redriven(m) \in {0, 1} /\ Redriven(m)' \in {0, 1} /\ Running(l, m) \in {0, 1}
        /\ Redriven(m) <= Redriven(m)'
    BY DEF Redriven, Running
  <2> QED BY <1>1, <2>1, <2>2
<1>4. /\ Items(batch[l]) \subseteq Held(l) /\ Items(queue[l]) \subseteq Held(l)
  BY DEF Held
<1> QED BY <1>1, <1>3, <1>4 DEF LaneShown

\* A given-up task that a step leaves alone.
LEMMA TaskKept ==
    ASSUME LineInv, NEW r \in late, TaskShown(r),
           \A m \in Items(r.batch) : shown'[m] = shown[m] /\ attempts'[m] = attempts[m],
           isRedriven \subseteq isRedriven'
    PROVE  TaskShown(r)'
<1>1. \A m \in Items(r.batch) : attempts[m] \in Nat
  <2>1. Items(r.batch) \subseteq Pending
    BY PendingAreSent DEF LateHeld
  <2> QED BY <2>1, PendingAreSent DEF LineInv, TypeOK
<1>2. \A m : /\ Redriven(m) \in {0, 1} /\ Redriven(m)' \in {0, 1}
             /\ LateRunning(r, m) \in {0, 1} /\ LateRunning(r, m)' = LateRunning(r, m)
             /\ Redriven(m) <= Redriven(m)'
  BY DEF Redriven, LateRunning, InRun, Items
<1>3. ASSUME NEW m \in Items(r.batch)
      PROVE  shown'[m] = 1 /\ attempts'[m] <= Redriven(m)' + LateRunning(r, m)'
  <2>1. /\ shown[m] = 1 /\ attempts[m] <= Redriven(m) + LateRunning(r, m)
        /\ attempts[m] \in Nat
    BY <1>1 DEF TaskShown
  <2> QED BY <1>2, <2>1
<1> QED BY <1>3 DEF TaskShown, Items

\* A step that touches no message of a given-up task.
LEMMA LateKept ==
    ASSUME LineInv, LateShown, late' \subseteq late,
           \A m \in LateHeld : shown'[m] = shown[m] /\ attempts'[m] = attempts[m],
           isRedriven \subseteq isRedriven'
    PROVE  LateShown'
<1>1. ASSUME NEW r \in late' PROVE TaskShown(r)'
  <2>1. /\ r \in late /\ TaskShown(r)
        /\ \A m \in Items(r.batch) : shown'[m] = shown[m] /\ attempts'[m] = attempts[m]
    BY <1>1 DEF LateShown, LateHeld
  <2> QED BY <2>1, TaskKept
<1> QED BY <1>1 DEF LateShown

\* A lane whose reviver starts its loop.
LEMMA LoopShown ==
    ASSUME LineInv, NEW l \in Lane, NEW q, Line(q, Exempt),
           UNCHANGED <<priority, returned>>, LoopWith(l, q),
           \A m \in Items(q) \ isDisplayed' : shown'[m] = 0,
           \A m \in Items(q) : attempts'[m] <= Redriven(m)'
    PROVE  LaneShown(l)'
<1>1. /\ phase'[l] \in {"idle", "resolving", "refused"} /\ Held(l)' = Items(q)
      /\ Items(batch'[l]) = Items(q) /\ Items(queue'[l]) = {}
  BY LaneLoops DEF LineInv
<1>2. Items(batch[l])' = Items(q) /\ Items(queue[l])' = {} /\ ~Staged(l)'
  BY <1>1 DEF Items, Staged
<1>3. \A m : Running(l, m)' = 0
  BY <1>1 DEF Running
<1>4. \A m : Redriven(m)' + 0 = Redriven(m)'
  BY DEF Redriven
<1> QED BY <1>1, <1>2, <1>3, <1>4 DEF LaneShown

\* A step that at most forgets messages of the queues, and starts no run.
LEMMA QuietShown ==
    ASSUME LineInv, ShowInv,
           UNCHANGED <<batch, isDisplayed, isRedriven, shown, attempts, sent>>,
           late' \subseteq late,
           \A l \in Lane : /\ Items(queue[l])' \subseteq Items(queue[l])
                           /\ Staged(l)' <=> Staged(l)
                           /\ phase'[l] = "running" <=> phase[l] = "running"
    PROVE  ShowInv'
<1>1. ASSUME NEW l \in Lane PROVE LaneShown(l)'
  <2>1. LaneShown(l)
    BY DEF ShowInv
  <2>2. /\ Items(batch[l])' = Items(batch[l]) /\ Held(l)' \subseteq Held(l)
        /\ \A m : Running(l, m)' = Running(l, m) /\ Redriven(m)' = Redriven(m)
    BY DEF Items, Held, Running, InRun, Redriven
  <2> QED BY <2>1, <2>2 DEF LaneShown
<1>2. LateShown'
  BY LateKept DEF ShowInv
<1> QED BY <1>1, <1>2 DEF ShowInv, DisplayedShown, NewUnshown, ShownOnceRunTwice

\* A message joins a lane.
LEMMA ArriveShown ==
    ASSUME LineInv, ShowInv, NEW l \in Lane, NEW q, Arrive(l, q), Line(q, Exempt),
           Items(q) = Items(queue[l]) \cup {sent + 1},
           sent < MaxMessages, sent' = sent + 1,
           UNCHANGED <<priority, returned, late, isDisplayed, isRedriven, shown, attempts>>
    PROVE  ShowInv'
<1>1. /\ Message \subseteq Nat /\ sent \in Nat /\ sent + 1 \in Message
      /\ \A k \in Lane : \A m \in Held(k) : m \in Message
  BY PendingAreSent, InboxAssumption DEF Message
<1>2. /\ shown[sent + 1] = 0 /\ attempts[sent + 1] = 0
      /\ TypeOK /\ LaneShown(l) /\ attempts \in [Message -> Nat]
  <2>1. sent + 1 > sent /\ NewUnshown /\ TypeOK /\ LaneShown(l)
    BY <1>1 DEF ShowInv, LineInv
  <2> QED BY <1>1, <2>1 DEF NewUnshown, TypeOK
<1>3. /\ \A m \in Items(q) \ isDisplayed : shown[m] = 0
  BY <1>2 DEF LaneShown
<1>4. LaneShown(l)' /\ \A k \in Lane \ {l} : /\ batch'[k] = batch[k] /\ queue'[k] = queue[k]
                                             /\ phase'[k] = phase[k]
  <2>1. ASSUME phase[l] = "idle"
        PROVE  LaneShown(l)' /\ \A k \in Lane \ {l} : /\ batch'[k] = batch[k]
                                                      /\ queue'[k] = queue[k]
                                                      /\ phase'[k] = phase[k]
    <3>1. LoopWith(l, q)
      BY <2>1 DEF Arrive
    <3>2. ASSUME NEW m \in Items(q) PROVE attempts'[m] <= Redriven(m)'
      <4>1. CASE m = sent + 1
        BY <1>2, <4>1 DEF Redriven
      <4>2. CASE m \in Items(queue[l])
        <5>1. attempts[m] <= Redriven(m) + Running(l, m)
          BY <1>2, <4>2 DEF LaneShown, Held
        <5>2. Running(l, m) = 0 /\ Redriven(m)' = Redriven(m) /\ Redriven(m) \in {0, 1}
          BY <2>1 DEF Running, Redriven
        <5> QED BY <5>1, <5>2
      <4> QED BY <4>1, <4>2
    <3>3. LaneShown(l)'
      BY <1>3, <3>1, <3>2, LoopShown
    <3> QED BY <1>2, <3>1, <3>3, LaneLoops
  <2>2. ASSUME phase[l] # "idle"
        PROVE  LaneShown(l)' /\ \A k \in Lane \ {l} : /\ batch'[k] = batch[k]
                                                      /\ queue'[k] = queue[k]
                                                      /\ phase'[k] = phase[k]
    <3>1. queue' = [queue EXCEPT ![l] = q] /\ UNCHANGED <<batch, phase>>
      BY <2>2 DEF Arrive
    <3>2. queue'[l] = q /\ \A k \in Lane \ {l} : queue'[k] = queue[k]
      BY <1>2, <3>1 DEF TypeOK
    <3>3. /\ Items(queue[l])' = Items(q) /\ Items(batch[l])' = Items(batch[l])
          /\ Held(l)' = Held(l) \cup {sent + 1} /\ Staged(l)' = Staged(l)
          /\ \A m : Running(l, m)' = Running(l, m) /\ Redriven(m)' = Redriven(m)
      BY <3>1, <3>2 DEF Items, Held, Staged, Running, Redriven, InRun
    <3>4. \A m : 0 <= Redriven(m) + Running(l, m)
      BY DEF Redriven, Running
    <3>5. LaneShown(l)'
      BY <1>2, <1>3, <3>1, <3>3, <3>4 DEF LaneShown
    <3> QED BY <3>1, <3>2, <3>5
  <2> QED BY <2>1, <2>2
<1>5. ASSUME NEW k \in Lane, k # l PROVE LaneShown(k)'
  <2>1. LaneShown(k)
    BY DEF ShowInv
  <2> QED BY <1>4, <1>5, <2>1, ShownKept
<1>6. NewUnshown'
  <2>1. \A m \in Message : m > sent + 1 => m > sent
    BY <1>1
  <2> QED BY <2>1 DEF ShowInv, NewUnshown
<1>7. LateShown'
  BY LateKept DEF ShowInv
<1> QED BY <1>4, <1>5, <1>6, <1>7 DEF ShowInv, DisplayedShown, ShownOnceRunTwice

\* What waits in the queue of a lane is in no run.
LEMMA QueueAttempts ==
    ASSUME LineInv, NEW l \in Lane, LaneShown(l), NEW m \in Items(queue[l]),
           isRedriven \subseteq isRedriven'
    PROVE  attempts[m] <= Redriven(m) /\ attempts[m] <= Redriven(m)'
<1>1. TypeOK /\ LaneSound(l)
  BY DEF LineInv, PlacesSound, LanesSound
<1>2. m \notin Items(batch[l]) /\ m \in Held(l)
  BY <1>1 DEF LaneSound, Held
<1>3. attempts[m] <= Redriven(m) + Running(l, m) /\ attempts[m] \in Nat
  BY <1>1, <1>2, PendingAreSent DEF LaneShown, TypeOK
<1>4. Running(l, m) = 0
  <2>1. CASE phase[l] = "running"
    <3>1. Line(batch[l], Exempt) /\ batch[l] # <<>>
      BY <1>1, <2>1 DEF LaneSound
    <3>2. InRun(l, batch[l]) \subseteq Items(batch[l])
      BY <3>1, LeftSound
    <3> QED BY <1>2, <3>2 DEF Running
  <2>2. CASE phase[l] # "running"
    BY <2>2 DEF Running
  <2> QED BY <2>1, <2>2
<1>5. Redriven(m) \in {0, 1} /\ Redriven(m)' \in {0, 1} /\ Redriven(m) <= Redriven(m)'
  BY DEF Redriven
<1> QED BY <1>3, <1>4, <1>5

\* What the loop is given after a step that shows and runs nothing.
LEMMA ReloopShown ==
    ASSUME LineInv, ShowInv, NEW l \in Lane, NEW q, Line(q, Exempt), LoopWith(l, q),
           UNCHANGED <<priority, returned, sent, shown, attempts>>,
           isDisplayed \subseteq isDisplayed', isRedriven \subseteq isRedriven',
           \A m \in isDisplayed' : shown[m] = 1,
           \A m \in Items(q) \ Items(queue[l]) :
              m \in isDisplayed' /\ attempts[m] <= Redriven(m)',
           LateShown'
    PROVE  ShowInv'
<1>1. TypeOK /\ LaneShown(l)
  BY DEF ShowInv, LineInv
<1>2. \A m \in Items(queue[l]) : attempts[m] <= Redriven(m)'
  BY <1>1, QueueAttempts
<1>3. LaneShown(l)'
  <2>1. \A m \in Items(q) \ isDisplayed' : shown'[m] = 0
    BY <1>1 DEF LaneShown
  <2>2. \A m \in Items(q) : attempts'[m] <= Redriven(m)'
    BY <1>2
  <2> QED BY <2>1, <2>2, LoopShown
<1>4. ASSUME NEW k \in Lane, k # l PROVE LaneShown(k)'
  <2>1. LaneShown(k)
    BY DEF ShowInv
  <2>2. batch'[k] = batch[k] /\ queue'[k] = queue[k] /\ phase'[k] = phase[k]
    BY <1>1, <1>4, LaneLoops
  <2> QED BY <2>1, <2>2, ShownKept
<1> QED BY <1>3, <1>4 DEF ShowInv, DisplayedShown, NewUnshown, ShownOnceRunTwice

LEMMA ResolvedShown ==
    ASSUME LineInv, ShowInv, NEW l \in Lane, Resolved(l)
    PROVE  ShowInv'
<1> DEFINE fresh == Items(batch[l]) \ isDisplayed
<1>1. TypeOK /\ LaneShown(l) /\ LaneSound(l) /\ LanesApart
  BY DEF ShowInv, LineInv, PlacesSound, LanesSound
<1>2. /\ phase[l] = "resolving" /\ phase' = [phase EXCEPT ![l] = "waiting"]
      /\ shown' = [m \in Message |-> IF m \in fresh THEN shown[m] + 1 ELSE shown[m]]
      /\ UNCHANGED <<queue, batch, isDisplayed, isRedriven, sent, attempts, late>>
  BY DEF Resolved, flags, bounds, others
<1>3. /\ phase'[l] = "waiting" /\ \A k \in Lane \ {l} : phase'[k] = phase[k]
  BY <1>1, <1>2 DEF TypeOK
<1>4. /\ Message \subseteq Nat /\ sent \in Nat
      /\ \A k \in Lane : \A m \in Held(k) : m \in Message /\ m <= sent
      /\ LateHeld \subseteq Message
  BY PendingAreSent
<1>5. \A m \in fresh : shown[m] = 0 /\ m \in Held(l) /\ m \in Message
  BY <1>1, <1>2, <1>4 DEF LaneShown, Staged, Held
<1> HIDE DEF fresh
<1>6. /\ \A m \in fresh : shown'[m] = 1
      /\ \A m \in Message \ fresh : shown'[m] = shown[m]
  BY <1>2, <1>5
<1>7. \A m \in isDisplayed : m \in Message /\ m \notin fresh /\ shown[m] = 1
  BY <1>1 DEF ShowInv, DisplayedShown, TypeOK, fresh
<1>8. LaneShown(l)'
  <2>1. \A m \in Items(batch[l]) : shown'[m] = 1
    BY <1>6, <1>7 DEF fresh
  <2>2. \A m \in Items(queue[l]) \ isDisplayed : shown'[m] = 0
    BY <1>1, <1>4, <1>6 DEF LaneShown, LaneSound, Held, fresh
  <2>3. /\ Items(batch[l])' = Items(batch[l]) /\ Items(queue[l])' = Items(queue[l])
        /\ Held(l)' = Held(l) /\ Staged(l)'
        /\ \A m : Redriven(m)' = Redriven(m)
        /\ \A m : Running(l, m)' = Running(l, m)
    BY <1>2, <1>3 DEF Items, Held, Staged, Redriven, Running
  <2> QED BY <1>1, <1>2, <2>1, <2>2, <2>3 DEF LaneShown
<1>9. ASSUME NEW k \in Lane, k # l PROVE LaneShown(k)'
  <2>1. LaneShown(k) /\ Held(k) \cap Held(l) = {}
    BY <1>1, <1>9 DEF ShowInv, LanesApart
  <2>2. \A m \in Held(k) : shown'[m] = shown[m]
    BY <1>4, <1>5, <1>6, <2>1
  <2> QED BY <1>2, <1>3, <1>9, <2>1, <2>2, ShownKept
<1>10. DisplayedShown'
  BY <1>2, <1>6, <1>7 DEF DisplayedShown
<1>11. NewUnshown'
  <2>1. \A m \in Message : m > sent => m \notin fresh
    BY <1>4, <1>5
  <2> QED BY <1>2, <1>6, <2>1 DEF ShowInv, NewUnshown
<1>12. ShownOnceRunTwice'
  BY <1>2, <1>6 DEF ShowInv, ShownOnceRunTwice
<1>13. LateShown'
  <2>1. \A m \in LateHeld : m \notin fresh
    BY <1>1, <1>5 DEF LanesApart
  <2>2. \A m \in LateHeld : shown'[m] = shown[m] /\ attempts'[m] = attempts[m]
    BY <1>2, <1>4, <1>6, <2>1
  <2> QED BY <1>2, <2>2, LateKept DEF ShowInv
<1> QED BY <1>8, <1>9, <1>10, <1>11, <1>12, <1>13 DEF ShowInv

\* One more run of messages that were run as often as they were put back.
LEMMA AttemptedOnce ==
    ASSUME LineInv, ShowInv, NEW W, Attempted(W), UNCHANGED <<sent, shown>>,
           \A m \in W : /\ m \in Pending /\ shown[m] = 1
                        /\ attempts[m] <= Redriven(m)
    PROVE  /\ NewUnshown' /\ ShownOnceRunTwice'
           /\ \A m \in W : attempts'[m] = attempts[m] + 1
           /\ \A m \in Message \ W : attempts'[m] = attempts[m]
<1>1. /\ Message \subseteq Nat /\ sent \in Nat /\ attempts \in [Message -> Nat]
      /\ \A m \in Pending : m \in Message /\ m <= sent
  BY PendingAreSent DEF LineInv, TypeOK
<1>2. /\ \A m \in W : attempts'[m] = attempts[m] + 1
      /\ \A m \in Message \ W : attempts'[m] = attempts[m]
  BY <1>1 DEF Attempted
<1>3. NewUnshown'
  <2>1. ASSUME NEW m \in Message, m > sent PROVE m \notin W
    <3>1. m \in Nat /\ ~(m <= sent)
      BY <1>1, <2>1
    <3>2. m \notin Pending
      BY <1>1, <3>1
    <3> QED BY <3>2
  <2> QED BY <1>2, <2>1 DEF ShowInv, NewUnshown
<1>4. ShownOnceRunTwice'
  <2>1. \A m \in W : attempts'[m] <= 2
    <3>1. ASSUME NEW m \in W PROVE attempts[m] \in Nat /\ attempts[m] <= 1
      <4>1. m \in Pending /\ attempts[m] <= Redriven(m)
        OBVIOUS
      <4>2. attempts[m] \in Nat /\ Redriven(m) \in {0, 1}
        BY <1>1, <4>1 DEF Redriven
      <4> QED BY <4>1, <4>2
    <3> QED BY <1>2, <3>1
  <2> QED BY <1>2, <2>1 DEF ShowInv, ShownOnceRunTwice
<1> QED BY <1>2, <1>3, <1>4

LEMMA RunStartsShown ==
    ASSUME LineInv, ShowInv, NEW l \in Lane, RunStarts(l)
    PROVE  ShowInv'
<1> DEFINE W == InRun(l, batch[l])
<1>1. /\ TypeOK /\ LaneShown(l) /\ LaneSound(l) /\ LanesApart
      /\ attempts \in [Message -> Nat]
  BY DEF ShowInv, LineInv, TypeOK, PlacesSound, LanesSound
<1>2. /\ phase[l] = "loading" /\ phase' = [phase EXCEPT ![l] = "running"]
      /\ Attempted(W)
      /\ UNCHANGED <<queue, batch, isDisplayed, isRedriven, sent, shown, late>>
  BY DEF RunStarts, flags, bounds, others
<1>3. /\ phase'[l] = "running" /\ \A k \in Lane \ {l} : phase'[k] = phase[k]
  BY <1>1, <1>2 DEF TypeOK
<1>4. /\ Message \subseteq Nat /\ sent \in Nat /\ LateHeld \subseteq Message
      /\ \A k \in Lane : \A m \in Held(k) : m \in Message /\ m <= sent
      /\ Held(l) \subseteq Pending
  BY PendingAreSent
<1>5. W \subseteq Items(batch[l])
  <2>1. Line(batch[l], Exempt) /\ batch[l] # <<>>
    BY <1>1, <1>2 DEF LaneSound
  <2> QED BY <2>1, LeftSound
<1>6. ASSUME NEW m \in Held(l) PROVE attempts[m] <= Redriven(m)
  <2>1. attempts[m] <= Redriven(m) + Running(l, m)
    BY <1>1 DEF LaneShown
  <2>2. Running(l, m) = 0 /\ Redriven(m) + 0 = Redriven(m)
    BY <1>2 DEF Running, Redriven
  <2> QED BY <2>1, <2>2
<1>7. \A m \in W : m \in Held(l) /\ m \in Message /\ shown[m] = 1 /\ m \in Pending
  BY <1>1, <1>2, <1>4, <1>5 DEF LaneShown, Staged, Held
<1> HIDE DEF W
<1>8. /\ NewUnshown' /\ ShownOnceRunTwice'
      /\ \A m \in W : attempts'[m] = attempts[m] + 1
      /\ \A m \in Message \ W : attempts'[m] = attempts[m]
  BY <1>2, <1>6, <1>7, AttemptedOnce
<1>9. LaneShown(l)'
  <2>1. /\ Items(batch[l])' = Items(batch[l]) /\ Items(queue[l])' = Items(queue[l])
        /\ Held(l)' = Held(l) /\ Staged(l)' /\ Staged(l)
        /\ InRun(l, batch[l])' = W
    BY <1>2, <1>3 DEF Items, Held, Staged, InRun, W
  <2>2. ASSUME NEW m \in Held(l) PROVE attempts'[m] <= Redriven(m)' + Running(l, m)'
    <3>1. /\ attempts[m] \in Nat /\ attempts[m] <= Redriven(m) /\ Redriven(m) \in {0, 1}
          /\ Redriven(m)' = Redriven(m) /\ m \in Message
      BY <1>1, <1>2, <1>4, <1>6 DEF Redriven
    <3>2. CASE m \in W
      <4>1. Running(l, m)' = 1
        BY <1>3, <2>1, <3>2 DEF Running
      <4> QED BY <1>8, <3>1, <3>2, <4>1
    <3>3. CASE m \notin W
      <4>1. Running(l, m)' = 0
        BY <2>1, <3>3 DEF Running
      <4> QED BY <1>8, <3>1, <3>3, <4>1
    <3> QED BY <3>2, <3>3
  <2> QED BY <1>1, <1>2, <2>1, <2>2 DEF LaneShown
<1>10. ASSUME NEW k \in Lane, k # l PROVE LaneShown(k)'
  <2>1. LaneShown(k) /\ Held(k) \cap Held(l) = {}
    BY <1>1, <1>10 DEF ShowInv, LanesApart
  <2>2. \A m \in Held(k) : attempts'[m] = attempts[m]
    BY <1>4, <1>7, <1>8, <2>1
  <2> QED BY <1>2, <1>3, <1>10, <2>1, <2>2, ShownKept
<1>11. LateShown'
  <2>1. \A m \in LateHeld : m \in Message \ W
    BY <1>1, <1>4, <1>7 DEF LanesApart
  <2>2. \A m \in LateHeld : shown'[m] = shown[m] /\ attempts'[m] = attempts[m]
    BY <1>2, <1>8, <2>1
  <2> QED BY <1>2, <2>2, LateKept DEF ShowInv
<1> QED BY <1>2, <1>8, <1>9, <1>10, <1>11 DEF ShowInv, DisplayedShown

LEMMA OkShown ==
    ASSUME LineInv, ShowInv, NEW l \in Lane, RunOk(l)
    PROVE  ShowInv'
<1> DEFINE left == Untaken(l, batch[l])
           W == InRun(l, batch[l])
<1>1. /\ TypeOK /\ LaneShown(l) /\ LaneSound(l) /\ LanesApart /\ phase[l] = "running"
      /\ attempts \in [Message -> Nat] /\ priority \subseteq Exempt
  BY DEF ShowInv, LineInv, TypeOK, PlacesSound, LanesSound, RunOk, Exempt
<1>2. /\ Line(left, Exempt) /\ Items(left) = Items(batch[l]) \ W
      /\ W \subseteq Items(batch[l])
  <2>1. Line(batch[l], Exempt) /\ batch[l] # <<>>
    BY <1>1 DEF LaneSound
  <2> QED BY <2>1, LeftSound
<1>3. /\ UNCHANGED <<priority, isRedriven, sent, shown, attempts, late, returned>>
      /\ \/ left = <<>> /\ Finish(l, queue[l]) /\ UNCHANGED isDisplayed
         \/ /\ left # <<>> /\ isDisplayed' = isDisplayed \cup Items(left)
            /\ Finish(l, PutBack(l, queue[l], left))
         \/ /\ left # <<>>
            /\ batch' = [batch EXCEPT ![l] = left]
            /\ phase' = [phase EXCEPT ![l] = "loading"]
            /\ UNCHANGED <<queue, isDisplayed>>
  BY DEF RunOk, bounds, others
<1>4. Line(queue[l], Exempt)
  BY <1>1 DEF LaneSound
<1>5. \A m \in Items(batch[l]) : shown[m] = 1
  BY <1>1 DEF LaneShown, Staged
<1>6. \A m \in Items(left) : attempts[m] <= Redriven(m)
  <2>1. \A m \in Items(left) : attempts[m] <= Redriven(m) + Running(l, m)
    BY <1>1, <1>2 DEF LaneShown, Held
  <2>2. \A m \in Items(left) : Running(l, m) = 0 /\ Redriven(m) + 0 = Redriven(m)
    BY <1>2 DEF Running, Redriven
  <2> QED BY <2>1, <2>2
<1> HIDE DEF left, W
<1>7. \A m : Redriven(m)' = Redriven(m)
  BY <1>3 DEF Redriven
<1>8. \A m \in isDisplayed : shown[m] = 1
  BY DEF ShowInv, DisplayedShown
<1>9. LateShown'
  BY <1>3, LateKept DEF ShowInv
<1>10. CASE left = <<>> /\ Finish(l, queue[l]) /\ UNCHANGED isDisplayed
  <2>1. LoopWith(l, queue[l])
    BY <1>10 DEF Finish
  <2> QED BY <1>3, <1>4, <1>8, <1>9, <1>10, <2>1, ReloopShown
<1>11. CASE /\ left # <<>> /\ isDisplayed' = isDisplayed \cup Items(left)
            /\ Finish(l, PutBack(l, queue[l], left))
  <2> DEFINE q == PutBack(l, queue[l], left)
  <2>1. Rejoins(left, queue[l], Exempt)
    BY <1>1, <1>2, <1>4 DEF Rejoins, LaneSound, Precede
  <2>2. Line(q, Exempt) /\ Items(q) = Items(left) \cup Items(queue[l])
    BY <2>1, PutBackSound
  <2>3. LoopWith(l, q)
    BY <1>11 DEF Finish
  <2> HIDE DEF q
  <2>4. \A m \in Items(q) \ Items(queue[l]) :
           m \in isDisplayed' /\ attempts[m] <= Redriven(m)'
    BY <1>6, <1>7, <1>11, <2>2
  <2>5. \A m \in isDisplayed' : shown[m] = 1
    BY <1>2, <1>5, <1>8, <1>11
  <2> QED BY <1>3, <1>9, <1>11, <2>2, <2>3, <2>4, <2>5, ReloopShown
<1>12. CASE /\ left # <<>>
            /\ batch' = [batch EXCEPT ![l] = left]
            /\ phase' = [phase EXCEPT ![l] = "loading"]
            /\ UNCHANGED <<queue, isDisplayed>>
  <2>1. /\ batch'[l] = left /\ phase'[l] = "loading" /\ queue'[l] = queue[l]
        /\ \A k \in Lane \ {l} : /\ batch'[k] = batch[k] /\ queue'[k] = queue[k]
                                 /\ phase'[k] = phase[k]
    BY <1>1, <1>12 DEF TypeOK
  <2>2. /\ Items(batch[l])' = Items(left) /\ Items(queue[l])' = Items(queue[l])
        /\ Held(l)' = Items(left) \cup Items(queue[l]) /\ Staged(l)'
        /\ \A m : Running(l, m)' = 0
    BY <2>1 DEF Items, Held, Staged, Running
  <2>3. \A m \in Items(queue[l]) : attempts[m] <= Redriven(m)
    BY <1>1, <1>3, QueueAttempts
  <2>4. LaneShown(l)'
    <3>1. \A m \in Held(l)' : attempts'[m] <= Redriven(m)' + Running(l, m)'
      <4>1. \A m : Redriven(m)' + 0 = Redriven(m)
        BY <1>7 DEF Redriven
      <4> QED BY <1>3, <1>6, <2>2, <2>3, <4>1
    <3> QED BY <1>1, <1>2, <1>3, <1>5, <1>12, <2>2, <3>1 DEF LaneShown
  <2>5. ASSUME NEW k \in Lane, k # l PROVE LaneShown(k)'
    <3>1. LaneShown(k)
      BY DEF ShowInv
    <3> QED BY <1>3, <1>12, <2>1, <2>5, <3>1, ShownKept
  <2> QED BY <1>3, <1>9, <1>12, <2>4, <2>5
         DEF ShowInv, DisplayedShown, NewUnshown, ShownOnceRunTwice
<1> QED BY <1>3, <1>10, <1>11, <1>12

LEMMA AbortedShown ==
    ASSUME LineInv, ShowInv, NEW l \in Lane, RunAborted(l)
    PROVE  ShowInv'
<1> DEFINE back == Back(batch[l])
           q == PutBack(l, queue[l], back)
<1>1. /\ TypeOK /\ LaneShown(l) /\ LaneSound(l) /\ phase[l] = "running"
      /\ attempts \in [Message -> Nat] /\ priority \subseteq Exempt
  BY DEF ShowInv, LineInv, TypeOK, PlacesSound, LanesSound, RunAborted, Exempt
<1>2. Line(batch[l], Exempt) /\ Line(queue[l], Exempt)
  BY <1>1 DEF LaneSound
<1>3. Line(back, Exempt) /\ Items(back) \subseteq Items(batch[l]) \ isRedriven
  BY <1>2, BackSound
<1>4. /\ isDisplayed' = isDisplayed \cup Items(back)
      /\ isRedriven' = isRedriven \cup Items(back) /\ LoopWith(l, q)
      /\ UNCHANGED <<priority, returned, sent, shown, attempts, late>>
  BY DEF RunAborted, Finish, bounds, others
<1> HIDE DEF back
<1>5. Rejoins(back, queue[l], Exempt)
  BY <1>1, <1>2, <1>3 DEF LaneSound, Precede, Rejoins
<1>6. Line(q, Exempt) /\ Items(q) = Items(back) \cup Items(queue[l])
  BY <1>5, PutBackSound
<1> HIDE DEF q
<1>7. ASSUME NEW m \in Items(back) PROVE attempts[m] <= Redriven(m)'
  <2>1. m \in Held(l) /\ m \notin isRedriven /\ m \in isRedriven'
    BY <1>3, <1>4 DEF Held
  <2>2. attempts[m] <= Redriven(m) + Running(l, m) /\ attempts[m] \in Nat
    BY <1>1, <2>1, PendingAreSent DEF LaneShown
  <2>3. Redriven(m) = 0 /\ Redriven(m)' = 1 /\ Running(l, m) \in {0, 1}
    BY <2>1 DEF Redriven, Running
  <2> QED BY <2>2, <2>3
<1>8. \A m \in Items(q) \ Items(queue[l]) :
         m \in isDisplayed' /\ attempts[m] <= Redriven(m)'
  BY <1>4, <1>6, <1>7
<1>9. \A m \in isDisplayed' : shown[m] = 1
  BY <1>1, <1>3, <1>4 DEF ShowInv, DisplayedShown, LaneShown, Staged
<1>10. isDisplayed \subseteq isDisplayed' /\ isRedriven \subseteq isRedriven'
  BY <1>4
<1>11. LateShown'
  BY <1>4, <1>10, LateKept DEF ShowInv
<1> QED BY <1>4, <1>6, <1>8, <1>9, <1>10, <1>11, ReloopShown

\* A task is given up in the middle of its run.
LEMMA GiveUpShown ==
    ASSUME LineInv, SlotHeld, ShowInv, NEW l \in Lane, GiveUp(l)
    PROVE  ShowInv'
<1> DEFINE r == [lane |-> l, batch |-> batch[l], phase |-> phase[l]]
<1>1. /\ TypeOK /\ LaneShown(l) /\ LaneSound(l) /\ Staged(l)
  BY DEF ShowInv, LineInv, PlacesSound, LanesSound, GiveUp, SlotHeld, Active, Staged
<1>2. /\ late' = late \cup {r} /\ LoopWith(l, queue[l])
      /\ UNCHANGED <<priority, returned, isDisplayed, isRedriven, sent, shown, attempts>>
  BY DEF GiveUp, flags, bounds, history
<1>3. TaskShown(r)
  <2>1. \A m : LateRunning(r, m) = Running(l, m)
    BY DEF LateRunning, Running
  <2>2. \A m \in Items(batch[l]) : shown[m] = 1 /\ m \in Held(l)
    BY <1>1 DEF LaneShown, Held
  <2> QED BY <1>1, <2>1, <2>2 DEF TaskShown, LaneShown
<1> HIDE DEF r
<1>4. LateShown'
  <2>1. \A s \in late' : TaskShown(s)
    BY <1>2, <1>3 DEF ShowInv, LateShown
  <2>2. \A s : \A m : Redriven(m)' = Redriven(m)
    BY <1>2 DEF Redriven
  <2>3. \A s : TaskShown(s)' <=> TaskShown(s)
    BY <1>2, <2>2 DEF TaskShown, LateRunning, InRun, Items
  <2> QED BY <2>1, <2>3 DEF LateShown
<1>5. Line(queue[l], Exempt) /\ \A m \in isDisplayed' : shown[m] = 1
  BY <1>1, <1>2 DEF LaneSound, ShowInv, DisplayedShown
<1> QED BY <1>2, <1>4, <1>5, ReloopShown

\* A given-up task goes on without showing or running anything.
LEMMA ReturnsShown ==
    ASSUME LineInv, ShowInv, NEW r \in late, NEW back, Line(back, Message),
           Items(back) \subseteq Items(r.batch), Returns(r.lane, back),
           isRedriven \subseteq isRedriven', \A m \in Items(back) : attempts[m] <= Redriven(m)',
           UNCHANGED <<priority, sent, shown, attempts>>, LateShown'
    PROVE  ShowInv'
<1> DEFINE l == r.lane
<1>1. TypeOK /\ LanesApart /\ l \in Lane
  BY LateBatch DEF LineInv, PlacesSound
<1>2. \A m \in Items(back) : shown[m] = 1 /\ m \notin Held(l)
  BY <1>1 DEF ShowInv, LateShown, TaskShown, LateHeld, LanesApart
<1>3. /\ isDisplayed' = isDisplayed \cup Items(back) /\ UNCHANGED <<batch, phase>>
      /\ Held(l)' = Held(l) \cup Items(back)
      /\ \A k \in Lane \ {l} : queue'[k] = queue[k]
  <2>1. Items(back) \cap Held(l) = {}
    BY <1>2
  <2> QED BY <1>1, <2>1, ReturnsLane DEF Returns
<1>4. Items(queue[l])' \subseteq Items(queue[l]) \cup Items(back)
  <2>1. Items(queue[l])' \subseteq Held(l)' /\ Items(batch[l])' = Items(batch[l])
    BY <1>3 DEF Held, Items
  <2>2. LaneSound(l)'
    <3>1. Items(back) \cap Held(l) = {}
      BY <1>2
    <3> QED BY <1>1, <3>1, ReturnsLane
  <2>3. Items(queue[l])' \cap Items(batch[l]) = {}
    BY <2>1, <2>2 DEF LaneSound
  <2> QED BY <1>3, <2>1, <2>3 DEF Held
<1>5. \A m : Running(l, m)' = Running(l, m) /\ Running(l, m) \in {0, 1}
             /\ Redriven(m) \in {0, 1} /\ Redriven(m)' \in {0, 1} /\ Redriven(m) <= Redriven(m)'
  BY <1>3 DEF Running, InRun, Redriven
<1> HIDE DEF l
<1>6. LaneShown(l)'
  <2>1. LaneShown(l)
    BY <1>1 DEF ShowInv
  <2>2. (Staged(l)' <=> Staged(l)) /\ Items(batch[l])' = Items(batch[l])
    BY <1>3 DEF Staged, Items
  <2>3. ASSUME NEW m \in Held(l)' PROVE attempts'[m] <= Redriven(m)' + Running(l, m)'
    <3>1. CASE m \in Items(back)
      <4>1. attempts[m] <= Redriven(m)' /\ attempts[m] \in Nat
        <5>1. m \in Pending
          BY <3>1, PendingAreSent DEF LateHeld
        <5> QED BY <1>1, <3>1, <5>1, PendingAreSent DEF TypeOK
      <4> QED BY <1>5, <4>1
    <3>2. CASE m \in Held(l)
      <4>1. attempts[m] <= Redriven(m) + Running(l, m) /\ attempts[m] \in Nat
        BY <1>1, <2>1, <3>2, PendingAreSent DEF LaneShown, TypeOK
      <4> QED BY <1>5, <4>1
    <3> QED BY <1>3, <3>1, <3>2
  <2>4. \A m \in Items(queue[l])' \ isDisplayed' : shown'[m] = 0
    BY <1>3, <1>4, <2>1 DEF LaneShown
  <2> QED BY <1>3, <2>1, <2>2, <2>3, <2>4 DEF LaneShown
<1>7. ASSUME NEW k \in Lane, k # l PROVE LaneShown(k)'
  <2>1. LaneShown(k) /\ isDisplayed \subseteq isDisplayed'
    BY <1>3 DEF ShowInv
  <2> QED BY <1>3, <1>7, <2>1, ShownKept
<1>8. DisplayedShown'
  BY <1>2, <1>3 DEF ShowInv, DisplayedShown
<1> QED BY <1>6, <1>7, <1>8 DEF ShowInv, NewUnshown, ShownOnceRunTwice

LEMMA LateStartsShown ==
    ASSUME LineInv, ShowInv, NEW r \in late, LateRunStarts(r)
    PROVE  ShowInv'
<1> DEFINE n == [r EXCEPT !.phase = "running"]
           W == InRun(r.lane, r.batch)
<1>1. /\ TypeOK /\ LateSound /\ LanesApart /\ r \in LateTask /\ W \subseteq Items(r.batch)
      /\ TaskShown(r)
  BY LateBatch DEF LineInv, PlacesSound, ShowInv, LateShown
<1>2. /\ n.batch = r.batch /\ n.lane = r.lane /\ n.phase = "running"
  BY <1>1 DEF LateTask
<1>3. /\ r.phase = "loading" /\ late' = (late \ {r}) \cup {n} /\ Attempted(W)
      /\ UNCHANGED <<queue, batch, phase, isDisplayed, isRedriven, sent, shown>>
  BY DEF LateRunStarts, lanes, flags, bounds
<1> HIDE DEF n
<1>4. /\ Items(r.batch) \subseteq LateHeld /\ LateHeld \subseteq Pending
      /\ \A m \in Pending : m \in Message
      /\ \A k \in Lane : Held(k) \subseteq Message
  BY PendingAreSent DEF LateHeld
<1>5. \A m \in Items(r.batch) : shown[m] = 1 /\ attempts[m] <= Redriven(m)
  <2>1. \A m : LateRunning(r, m) = 0 /\ Redriven(m) + 0 = Redriven(m)
    BY <1>3 DEF LateRunning, Redriven
  <2> QED BY <1>1, <2>1 DEF TaskShown
<1>6. /\ NewUnshown' /\ ShownOnceRunTwice'
      /\ \A m \in W : attempts'[m] = attempts[m] + 1
      /\ \A m \in Message \ W : attempts'[m] = attempts[m]
  <2>1. \A m \in W : m \in Pending /\ shown[m] = 1 /\ attempts[m] <= Redriven(m)
    BY <1>1, <1>4, <1>5
  <2> HIDE DEF W
  <2> QED BY <1>3, <2>1, AttemptedOnce
<1>7. TaskShown(n)'
  <2>1. ASSUME NEW m \in Items(r.batch)
        PROVE  shown'[m] = 1 /\ attempts'[m] <= Redriven(m)' + LateRunning(n, m)'
    <3>1. /\ Redriven(m)' = Redriven(m) /\ Redriven(m) \in {0, 1} /\ attempts[m] \in Nat
          /\ shown'[m] = 1 /\ attempts[m] <= Redriven(m) /\ m \in Message
      BY <1>1, <1>3, <1>4, <1>5 DEF Redriven, TypeOK
    <3>2. LateRunning(n, m)' = IF m \in W THEN 1 ELSE 0
      BY <1>2 DEF LateRunning, InRun, Items
    <3> QED BY <1>6, <3>1, <3>2
  <2>2. Items(n.batch)' = Items(r.batch)
    BY <1>2 DEF Items
  <2> QED BY <2>1, <2>2 DEF TaskShown
<1>8. ASSUME NEW s \in late, s # r PROVE TaskShown(s)'
  <2>1. Items(s.batch) \cap Items(r.batch) = {} /\ TaskShown(s) /\ Items(s.batch) \subseteq Message
    BY <1>1, <1>4, <1>8 DEF LateSound, ShowInv, LateShown, LateHeld
  <2>2. \A m \in Items(s.batch) : shown'[m] = shown[m] /\ attempts'[m] = attempts[m]
    BY <1>1, <1>3, <1>6, <2>1
  <2> QED BY <1>3, <2>1, <2>2, TaskKept
<1>9. LateShown'
  BY <1>3, <1>7, <1>8 DEF LateShown
<1>10. ASSUME NEW k \in Lane PROVE LaneShown(k)'
  <2>1. LaneShown(k) /\ Held(k) \cap LateHeld = {}
    BY <1>1 DEF ShowInv, LanesApart
  <2>2. \A m \in Held(k) : attempts'[m] = attempts[m]
    BY <1>1, <1>4, <1>6, <2>1
  <2> QED BY <1>3, <2>1, <2>2, ShownKept
<1> QED BY <1>3, <1>6, <1>9, <1>10 DEF ShowInv, DisplayedShown

LEMMA LateOkShown ==
    ASSUME LineInv, ShowInv, NEW r \in late, LateRunOk(r)
    PROVE  ShowInv'
<1> DEFINE l == r.lane
           W == InRun(l, r.batch)
           left == Untaken(l, r.batch)
           deferred == IF HasUrgent(queue[l]) THEN left ELSE <<>>
           n == [r EXCEPT !.batch = left, !.phase = "loading"]
           L == (late \ {r}) \cup (IF left = deferred THEN {} ELSE {n})
<1>1. /\ TypeOK /\ TaskShown(r)
  BY DEF LineInv, ShowInv, LateShown
<1>2. /\ r \in LateTask /\ l \in Lane /\ W \subseteq Items(r.batch)
      /\ Line(left, Message) /\ Items(left) = Items(r.batch) \ W
  BY LateBatch
<1>3. /\ Returns(l, deferred) /\ late' = L
      /\ UNCHANGED <<priority, isRedriven, sent, shown, attempts>>
  BY DEF LateRunOk, LateEnds, bounds
<1>4. Line(<<>>, Message) /\ Items(<<>>) = {}
  BY NoneSound DEF Line
<1>5. n.batch = left /\ n.phase = "loading"
  BY <1>2 DEF LateTask
<1>6. \A m \in Items(left) : shown[m] = 1 /\ attempts[m] <= Redriven(m)
  <2>1. \A m \in Items(left) : LateRunning(r, m) = 0 /\ Redriven(m) + 0 = Redriven(m)
    BY <1>2 DEF LateRunning, Redriven
  <2>2. \A m \in Items(left) :
           shown[m] = 1 /\ attempts[m] <= Redriven(m) + LateRunning(r, m)
    BY <1>1, <1>2 DEF TaskShown
  <2> QED BY <2>1, <2>2
<1>7. \A m : Redriven(m)' = Redriven(m) /\ Redriven(m) + 0 = Redriven(m)
  BY <1>3 DEF Redriven
<1> HIDE DEF n, left
<1>8. ASSUME NEW s \in late PROVE TaskShown(s)'
  <2>1. TaskShown(s)
    BY DEF ShowInv, LateShown
  <2> QED BY <1>3, <2>1, TaskKept
<1>9. TaskShown(n)'
  <2>1. \A m : LateRunning(n, m)' = 0
    BY <1>5 DEF LateRunning
  <2>2. Items(n.batch)' = Items(left)
    BY <1>5 DEF Items
  <2>3. ASSUME NEW m \in Items(left)
        PROVE  shown'[m] = 1 /\ attempts'[m] <= Redriven(m)' + LateRunning(n, m)'
    BY <1>3, <1>6, <1>7, <2>1
  <2> QED BY <2>2, <2>3 DEF TaskShown
<1>10. LateShown'
  BY <1>3, <1>8, <1>9 DEF LateShown
<1>11. /\ Line(deferred, Message) /\ Items(deferred) \subseteq Items(r.batch)
       /\ \A m \in Items(deferred) : attempts[m] <= Redriven(m)'
  BY <1>2, <1>4, <1>6, <1>7
<1> HIDE DEF deferred
<1> QED BY <1>3, <1>10, <1>11, ReturnsShown

LEMMA LateAbortedShown ==
    ASSUME LineInv, ShowInv, NEW r \in late, LateRunAborted(r)
    PROVE  ShowInv'
<1> DEFINE back == Back(r.batch)
<1>1. TypeOK /\ TaskShown(r)
  BY DEF LineInv, ShowInv, LateShown
<1>2. /\ Line(back, Message) /\ Items(back) \subseteq Items(r.batch) \ isRedriven
  BY LateBatch
<1>3. /\ isRedriven' = isRedriven \cup Items(back) /\ Returns(r.lane, back)
      /\ late' = late \ {r} /\ UNCHANGED <<priority, sent, shown, attempts>>
  BY DEF LateRunAborted, LateEnds, bounds
<1> HIDE DEF back
<1>4. LateShown'
  <2>1. late' \subseteq late /\ isRedriven \subseteq isRedriven'
    BY <1>3
  <2> QED BY <1>3, <2>1, LateKept DEF ShowInv
<1>5. ASSUME NEW m \in Items(back) PROVE attempts[m] <= Redriven(m)'
  <2>1. m \in Items(r.batch) /\ m \notin isRedriven /\ m \in isRedriven'
    BY <1>2, <1>3
  <2>2. attempts[m] <= Redriven(m) + LateRunning(r, m) /\ attempts[m] \in Nat
    <3>1. m \in Pending
      BY <2>1, PendingAreSent DEF LateHeld
    <3> QED BY <1>1, <2>1, <3>1, PendingAreSent DEF TaskShown, TypeOK
  <2>3. Redriven(m) = 0 /\ Redriven(m)' = 1 /\ LateRunning(r, m) \in {0, 1}
    BY <2>1 DEF Redriven, LateRunning
  <2> QED BY <2>2, <2>3
<1>6. Items(back) \subseteq Items(r.batch) /\ isRedriven \subseteq isRedriven'
  BY <1>2, <1>3
<1> QED BY <1>2, <1>3, <1>4, <1>5, <1>6, ReturnsShown

LEMMA ShowInit == Init => ShowInv
<1> SUFFICES ASSUME Init PROVE ShowInv
  OBVIOUS
<1>1. \A l \in Lane : batch[l] = <<>> /\ queue[l] = <<>>
  BY DEF Init
<1>2. \A l \in Lane : Items(batch[l]) = {} /\ Items(queue[l]) = {} /\ Held(l) = {}
  BY <1>1, NoneSound DEF Held
<1>3. (\A l \in Lane : LaneShown(l)) /\ LateShown
  BY <1>2 DEF LaneShown, LateShown, Init
<1> QED BY <1>3 DEF Init, ShowInv, DisplayedShown, NewUnshown, ShownOnceRunTwice

LEMMA ShowNext ==
    ASSUME LineInv, SlotHeld, ShowInv, [Next]_vars
    PROVE  ShowInv'
<1>1. TypeOK /\ phase \in [Lane -> Phase] /\ LanesSound
  BY DEF LineInv, TypeOK, PlacesSound
<1>2. DisplayedShown
  BY DEF ShowInv
<1>3. ASSUME UNCHANGED <<queue, batch, phase, isDisplayed, isRedriven, shown, attempts, sent,
                         late>>
      PROVE  ShowInv'
  BY <1>3, QuietShown DEF Items, Staged
<1>4. CASE UNCHANGED vars
  BY <1>3, <1>4 DEF vars, lanes, flags, bounds, history, others
<1>5. CASE Next
  <2>1. CASE sendToAgent
    <3>1. /\ Arrive("agent", Joined) /\ Line(Joined, Exempt)
          /\ Items(Joined) = Items(queue["agent"]) \cup {sent + 1}
      BY <2>1, SendQueue
    <3>2. /\ sent < MaxMessages /\ sent' = sent + 1 /\ "agent" \in Lane
          /\ UNCHANGED <<priority, returned, late, isDisplayed, isRedriven, shown, attempts>>
      BY <2>1 DEF sendToAgent, history, flags, others, Lane
    <3> QED BY <3>1, <3>2, ArriveShown
  <2>2. CASE wakeForInbound
    <3> DEFINE q == Append(queue["channel"], sent + 1)
    <3>1. /\ Arrive("channel", q) /\ Line(q, Exempt)
          /\ Items(q) = Items(queue["channel"]) \cup {sent + 1}
      BY <2>2, WakeQueue
    <3> HIDE DEF q
    <3>2. /\ sent < MaxMessages /\ sent' = sent + 1 /\ "channel" \in Lane
          /\ UNCHANGED <<priority, returned, late, isDisplayed, isRedriven, shown, attempts>>
      BY <2>2 DEF wakeForInbound, history, flags, others, Lane
    <3> QED BY <3>1, <3>2, ArriveShown
  <2>3. CASE \/ DirectMessage \/ OtherWake \/ StopRun \/ Trip
             \/ DeletionFails \/ LateTurnStarts \/ LateTurnEnds
    <3>1. UNCHANGED <<queue, batch, phase, isDisplayed, isRedriven, shown, attempts, sent, late>>
      BY <2>3 DEF DirectMessage, OtherWake, StopRun, Trip, DeletionFails, LateTurnStarts,
                  LateTurnEnds, LateEnds, lanes, flags, others, bounds, history
    <3> QED BY <1>3, <3>1
  <2>4. ASSUME NEW t \in Turn, TakeTurn(t) \/ TurnStarts(t) \/ EndTurn(t) \/ GiveUpTurn(t)
        PROVE  ShowInv'
    BY <1>3, <2>4 DEF TakeTurn, TurnStarts, EndTurn, GiveUpTurn, lanes, flags, others, bounds,
                      history
  <2>5. CASE DeleteAgent
    <3>1. /\ UNCHANGED <<batch, phase, isDisplayed, isRedriven, shown, attempts, sent, late>>
          /\ \A l \in Lane : queue'[l] = <<>>
      BY <2>5 DEF DeleteAgent, flags, others
    <3>2. \A l \in Lane : Items(queue[l])' = {}
      BY <3>1, NoneSound DEF Items
    <3> QED BY <3>1, <3>2, QuietShown DEF Staged
  <2>6. ASSUME NEW l \in Lane, Resolved(l) PROVE ShowInv'
    BY <2>6, ResolvedShown
  <2>7. ASSUME NEW l \in Lane, Unresolved(l) \/ RunFails(l) PROVE ShowInv'
    <3>1. /\ LoopWith(l, queue[l])
          /\ UNCHANGED <<priority, returned, late, sent, shown, attempts, isDisplayed,
                         isRedriven>>
      BY <2>7 DEF Unresolved, RunFails, Finish, flags, others
    <3>2. Line(queue[l], Exempt) /\ \A m \in isDisplayed' : shown[m] = 1
      BY <1>1, <1>2, <3>1 DEF LanesSound, LaneSound, DisplayedShown
    <3>3. LateShown'
      BY <3>1, LateKept DEF ShowInv
    <3> QED BY <3>1, <3>2, <3>3, ReloopShown
  <2>8. ASSUME NEW l \in Lane, TaskStarts(l) PROVE ShowInv'
    <3>1. /\ phase[l] = "waiting" /\ phase' = [phase EXCEPT ![l] = "loading"]
          /\ UNCHANGED <<queue, batch, isDisplayed, isRedriven, shown, attempts, sent, late>>
      BY <2>8 DEF TaskStarts, flags, bounds, history, others
    <3>2. \A k \in Lane : /\ Items(queue[k])' = Items(queue[k])
                          /\ Staged(k)' <=> Staged(k)
                          /\ phase'[k] = "running" <=> phase[k] = "running"
      BY <1>1, <3>1 DEF Items, Staged
    <3> QED BY <3>1, <3>2, QuietShown
  <2>9. ASSUME NEW l \in Lane, RunStarts(l) PROVE ShowInv'
    BY <2>9, RunStartsShown
  <2>10. ASSUME NEW l \in Lane, RunOk(l) PROVE ShowInv'
    BY <2>10, OkShown
  <2>11. ASSUME NEW l \in Lane, RunAborted(l) PROVE ShowInv'
    BY <2>11, AbortedShown
  <2>12. ASSUME NEW l \in Lane, GiveUp(l) PROVE ShowInv'
    BY <2>12, GiveUpShown
  <2>13. ASSUME NEW r \in late, LateTaskSteps(r) PROVE ShowInv'
    <3>1. CASE LateRunFails(r)
      <4>1. /\ late' = late \ {r}
            /\ UNCHANGED <<queue, batch, phase, isDisplayed, isRedriven, shown, attempts, sent>>
        BY <3>1 DEF LateRunFails, LateEnds, lanes, flags
      <4> QED BY <4>1, QuietShown DEF Items, Staged
    <3> QED BY <2>13, <3>1, LateStartsShown, LateOkShown, LateAbortedShown DEF LateTaskSteps
  <2> QED BY <1>5, <2>1, <2>2, <2>3, <2>4, <2>5, <2>6, <2>7, <2>8, <2>9, <2>10, <2>11,
             <2>12, <2>13 DEF Next
<1> QED BY <1>4, <1>5

(***************************************************************************)
(* However often a message is deferred or put back, and however late the   *)
(* run ends that was given up with it, the agent sees it once in its       *)
(* transcript, before it is first run, and runs it at most twice.          *)
(***************************************************************************)
THEOREM AlwaysShownOnceRunTwice == Spec => []ShownOnceRunTwice
<1>1. ShowInv => ShownOnceRunTwice
  BY DEF ShowInv
<1>2. LineInv /\ SlotHeld /\ ShowInv /\ [Next]_vars => ShowInv'
  BY ShowNext
<1> QED BY <1>1, <1>2, LineAlways, ShowInit, PTL DEF Spec

-----------------------------------------------------------------------------
(***************************************************************************)
(* The local cron scheduler, for every set of automations, every order of  *)
(* them and every set of schedules, intervals and cron expressions that    *)
(* never come due again included.                                          *)
(***************************************************************************)

\* A cursor that a tick at t does not find due.
Later(cursor, t) == cursor # None => cursor > t

\* A host that is down runs no tick, and a tick has a list only after it has
\* been answered.
TickIsOrderly ==
    /\ ~up => ~timer /\ tickPhase = "idle"
    /\ tickPhase \in {"idle", "listing"} => listed = NoSchedules

\* Ticks take their time in order.
TicksMoveOn == \A a \in Automation : lastTick[a] # None => lastTick[a] <= at

(***************************************************************************)
(* What FileAgrees says of a started scheduler holds of a stopped one too, *)
(* as long as a tick from before the stop is under way: it goes on to fire *)
(* and to save.                                                            *)
(***************************************************************************)
AgreesUnderTick ==
    up /\ ~unsaved /\ ~reverted /\ (timer \/ tickPhase # "idle") =>
        \A a \in Automation : file[a] # None => next[a] = file[a]

(***************************************************************************)
(* Firing moves a cursor past the tick, in memory and, once it is saved,   *)
(* in the file, which is what a restart goes back to.                      *)
(***************************************************************************)
FiredIsPast ==
    ~reverted => \A a \in Automation : lastTick[a] # None =>
        /\ Later(next[a], lastTick[a])
        /\ ~unsaved => Later(file[a], lastTick[a])

\* A deleted agent has no schedules any more, so that no later list has them.
DeletedHasNone == \A a \in Automation : AgentOf[a] \in deleted => schedules[a] = <<>>

(***************************************************************************)
(* A tick that listed a forgotten agent's automation before finds no       *)
(* cursor of it that is due, nor does a start load one under it.           *)
(***************************************************************************)
ForgottenIsQuiet ==
    ~reverted => \A a \in Automation : AgentOf[a] \in forgotten /\ listed[a] # <<>> =>
        /\ Later(next[a], at)
        /\ ~unsaved => Later(file[a], at)

CronInv ==
    /\ CronTypeOK
    /\ TickIsOrderly /\ TicksMoveOn
    /\ AgreesUnderTick /\ FiredIsPast
    /\ DeletedHasNone /\ ForgottenIsQuiet

-----------------------------------------------------------------------------
(* Schedules and cursors.                                                  *)

(***************************************************************************)
(* computeNextRunAt gives a time strictly after the one it is asked for,   *)
(* or none.                                                                *)
(***************************************************************************)
LEMMA NextRunIsLater ==
    ASSUME NEW s \in Schedule, NEW t \in Nat
    PROVE  NextRun(s, t) \in Cursor /\ Later(NextRun(s, t), t)
<1>1. CASE s \in [every : Nat \ {0}]
  BY <1>1, CronAssumption DEF NextRun, Cursor, Later
<1>2. CASE s \in [cron : SUBSET Nat]
  <2> DEFINE later == {x \in s.cron : x > t}
  <2>1. "every" \notin DOMAIN s /\ later \subseteq Nat /\ \A x \in later : x > t
    BY <1>2
  <2>2. NextRun(s, t) = IF later = {} THEN None
                        ELSE CHOOSE x \in later : \A y \in later : x <= y
    BY <2>1 DEF NextRun
  <2> HIDE DEF later
  <2>3. CASE later = {}
    BY <2>2, <2>3 DEF Cursor, Later
  <2>4. CASE later # {}
    <3>1. \E x \in later : \A y \in later : x <= y
      BY <2>1, <2>4, LeastNatural
    <3>2. NextRun(s, t) \in later
      BY <2>2, <2>4, <3>1
    <3> QED BY <2>1, <3>2 DEF Cursor, Later
  <2> QED BY <2>3, <2>4
<1> QED BY <1>1, <1>2 DEF Schedule

\* So on first sight an automation is not due.
LEMMA FirstSightIsLater ==
    ASSUME CronTypeOK, NEW a \in Automation
    PROVE  FirstSight(a) \in Cursor /\ Later(FirstSight(a), at)
<1> DEFINE l == listed[a]
           runs == {i \in DOMAIN l : NextRun(l[i], at) # None}
<1>1. l \in Seq(Schedule) /\ at \in Nat
  BY DEF CronTypeOK
<1>2. /\ runs \subseteq Nat
      /\ \A i \in runs : l[i] \in Schedule
  BY <1>1
<1>3. FirstSight(a) = IF runs = {} THEN None
                      ELSE NextRun(l[CHOOSE i \in runs : \A j \in runs : i <= j], at)
  BY DEF FirstSight
<1> HIDE DEF l, runs
<1>4. CASE runs = {}
  BY <1>3, <1>4 DEF Cursor, Later
<1>5. CASE runs # {}
  <2>1. \E i \in runs : \A j \in runs : i <= j
    BY <1>2, <1>5, LeastNatural
  <2>2. PICK i \in runs : FirstSight(a) = NextRun(l[i], at)
    BY <1>3, <1>5, <2>1
  <2> QED BY <1>1, <1>2, <2>2, NextRunIsLater
<1> QED BY <1>4, <1>5

\* Looking at automations touches only those without a cursor.
LEMMA SightedIsLater ==
    ASSUME CronTypeOK, NEW A
    PROVE  /\ Sighted(A) \in [Automation -> Cursor]
           /\ \A a \in Automation :
                 \/ Sighted(A)[a] = next[a]
                 \/ next[a] = None /\ Later(Sighted(A)[a], at)
<1> SUFFICES ASSUME NEW a \in Automation
             PROVE  /\ Sighted(A)[a] \in Cursor
                    /\ \/ Sighted(A)[a] = next[a]
                       \/ next[a] = None /\ Later(Sighted(A)[a], at)
  BY DEF Sighted
<1>1. next[a] \in Cursor
  BY DEF CronTypeOK
<1> QED BY <1>1, FirstSightIsLater DEF Sighted

(***************************************************************************)
(* A fired automation is not due again at the time of the tick, not even   *)
(* when its schedule has no occurrence left.                               *)
(***************************************************************************)
LEMMA AdvancedIsLater ==
    ASSUME CronTypeOK, NEW a \in Automation, NEW s \in Schedule
    PROVE  /\ Advanced(a, s) \in [Automation -> Cursor]
           /\ Advanced(a, s)[a] # None /\ Later(Advanced(a, s)[a], at)
           /\ \A b \in Automation \ {a} :
                 \/ Advanced(a, s)[b] = next[b]
                 \/ next[b] = None /\ Later(Advanced(a, s)[b], at)
<1> DEFINE m == Sighted({b \in Automation : Rank[b] < Rank[a]})
           c == IF NextRun(s, at) = None THEN Never ELSE NextRun(s, at)
<1>1. /\ m \in [Automation -> Cursor]
      /\ \A b \in Automation : m[b] = next[b] \/ (next[b] = None /\ Later(m[b], at))
  BY SightedIsLater
<1>2. c \in Nat /\ c > at
  <2>1. at \in Nat /\ at <= MaxTime
    BY CronAssumption DEF CronTypeOK
  <2> QED BY <2>1, NextRunIsLater, CronAssumption DEF Never, Cursor, Later
<1>3. Advanced(a, s) = [m EXCEPT ![a] = c]
  BY DEF Advanced
<1> HIDE DEF m, c
<1> QED BY <1>1, <1>2, <1>3, CronAssumption DEF Cursor, Later

\* saveState writes the map, or leaves the file and is remembered.
LEMMA SaveOutcome ==
    ASSUME CronTypeOK, NEW m \in [Automation -> Cursor], saveState(m)
    PROVE  /\ \/ file' = m /\ unsaved' = FALSE
              \/ file' = file /\ unsaved' = TRUE
           /\ faults' \in 0..MaxFaults
BY CronAssumption DEF CronTypeOK, saveState

LEMMA SaveIfMutatedOutcome ==
    ASSUME CronTypeOK, NEW m \in [Automation -> Cursor], NEW before, saveIfMutated(before, m)
    PROVE  /\ \/ file' = m /\ unsaved' = FALSE
              \/ file' = file /\ unsaved' = TRUE
              \/ m = before /\ file' = file /\ unsaved' = unsaved
           /\ faults' \in 0..MaxFaults
BY SaveOutcome, CronAssumption DEF CronTypeOK, saveIfMutated

-----------------------------------------------------------------------------
(* The invariant.                                                          *)

LEMMA CronBegins == CronInit => CronInv
<1> SUFFICES ASSUME CronInit PROVE CronInv
  OBVIOUS
<1> USE CronAssumption DEF CronInit
<1>1. CronTypeOK
  <2>1. listed \in [Automation -> Seq(Schedule)]
    BY DEF NoSchedules
  <2>2. /\ now \in 0..MaxTime /\ at \in 0..now
        /\ edits \in 0..MaxEdits /\ faults \in 0..MaxFaults
    OBVIOUS
  <2>3. /\ ready \in BOOLEAN /\ timer \in BOOLEAN /\ up \in BOOLEAN
        /\ unsaved \in BOOLEAN /\ reverted \in BOOLEAN
    OBVIOUS
  <2>4. /\ next \in [Automation -> Cursor] /\ file \in [Automation -> Cursor]
        /\ lastTick \in [Automation -> Cursor]
    BY DEF Cursor, NoCursors
  <2> QED BY <2>1, <2>2, <2>3, <2>4 DEF CronTypeOK, TickPhase
<1>2. TickIsOrderly /\ TicksMoveOn /\ AgreesUnderTick /\ DeletedHasNone
  BY DEF TickIsOrderly, TicksMoveOn, AgreesUnderTick, DeletedHasNone, NoCursors
<1>3. FiredIsPast /\ ForgottenIsQuiet
  BY DEF FiredIsPast, ForgottenIsQuiet, NoCursors
<1> QED BY <1>1, <1>2, <1>3 DEF CronInv

\* The tick's now is the clock's, which never goes back.
LEMMA TickStep == CronInv /\ Tick => CronInv'
<1> SUFFICES ASSUME CronInv, Tick PROVE CronInv'
  OBVIOUS
<1> USE DEF Tick, MayTick, BeginTick, cursors, environment, cronHistory
<1>1. CronTypeOK'
  BY DEF CronInv, CronTypeOK, TickPhase
<1>2. TickIsOrderly' /\ AgreesUnderTick' /\ FiredIsPast' /\ DeletedHasNone'
  BY DEF CronInv, TickIsOrderly, AgreesUnderTick, FiredIsPast, DeletedHasNone
<1>3. TicksMoveOn'
  BY CronAssumption DEF CronInv, CronTypeOK, TicksMoveOn, Cursor
<1>4. ForgottenIsQuiet'
  BY DEF CronInv, TickIsOrderly, NoSchedules, ForgottenIsQuiet
<1> QED BY <1>1, <1>2, <1>3, <1>4 DEF CronInv

LEMMA ListStep == CronInv /\ List => CronInv'
<1> SUFFICES ASSUME CronInv, List PROVE CronInv'
  OBVIOUS
<1> USE DEF List, cursors, environment, cronHistory
<1>1. CronTypeOK'
  BY CronAssumption DEF CronInv, CronTypeOK, TickPhase
<1>2. TickIsOrderly' /\ AgreesUnderTick' /\ FiredIsPast' /\ DeletedHasNone' /\ TicksMoveOn'
  BY DEF CronInv, TickIsOrderly, AgreesUnderTick, FiredIsPast, DeletedHasNone, TicksMoveOn
<1>3. ForgottenIsQuiet'
  BY DEF CronInv, CronTypeOK, DeletedHasNone, ForgottenIsQuiet
<1> QED BY <1>1, <1>2, <1>3 DEF CronInv

LEMMA EndTickType ==
    ASSUME CronInv, EndTick
    PROVE  /\ tickPhase' \in TickPhase
           /\ listed' \in [Automation -> Seq(Schedule)]
           /\ seen' \subseteq Automation
           /\ \A a \in Automation : listed'[a] = <<>>
<1>1. <<>> \in Seq(Schedule)
  OBVIOUS
<1> QED BY <1>1 DEF EndTick, NoSchedules, TickPhase

LEMMA ListFailsStep == CronInv /\ ListFails => CronInv'
<1> SUFFICES ASSUME CronInv, ListFails PROVE CronInv'
  OBVIOUS
<1> USE DEF ListFails, cursors, environment, cronHistory
<1>1. CronTypeOK'
  BY EndTickType, CronAssumption DEF CronInv, CronTypeOK, EndTick
<1>2. TickIsOrderly' /\ AgreesUnderTick' /\ FiredIsPast' /\ DeletedHasNone' /\ TicksMoveOn'
  BY DEF CronInv, TickIsOrderly, AgreesUnderTick, FiredIsPast, DeletedHasNone, TicksMoveOn,
         EndTick
<1>3. ForgottenIsQuiet'
  BY EndTickType DEF ForgottenIsQuiet
<1> QED BY <1>1, <1>2, <1>3 DEF CronInv

LEMMA RunEndsStep == CronInv /\ RunEnds => CronInv'
<1> SUFFICES ASSUME CronInv, RunEnds PROVE CronInv'
  OBVIOUS
<1> USE DEF RunEnds, cursors, environment, cronHistory
<1>1. CronTypeOK'
  BY DEF CronInv, CronTypeOK, TickPhase
<1>2. TickIsOrderly' /\ AgreesUnderTick' /\ FiredIsPast' /\ DeletedHasNone' /\ TicksMoveOn'
  BY DEF CronInv, TickIsOrderly, AgreesUnderTick, FiredIsPast, DeletedHasNone, TicksMoveOn
<1>3. ForgottenIsQuiet'
  BY DEF CronInv, ForgottenIsQuiet
<1> QED BY <1>1, <1>2, <1>3 DEF CronInv

(***************************************************************************)
(* Fire moves the cursor of a past the tick, gives a cursor to others that *)
(* had none, and saves: the file then is the memory, or is not trusted.    *)
(***************************************************************************)
LEMMA FireStep == ASSUME CronInv, NEW a \in Automation, Fire(a) PROVE CronInv'
<1> DEFINE m == Advanced(a, Head(listed[a]))
<1>a. CronTypeOK
  BY DEF CronInv
<1>1. listed[a] \in Seq(Schedule) /\ listed[a] # <<>> /\ Due(next[a], at)
  BY <1>a DEF CronTypeOK, Fire, Fireable
<1>2. Head(listed[a]) \in Schedule /\ Tail(listed[a]) \in Seq(Schedule)
  BY <1>1
<1>3. /\ m \in [Automation -> Cursor]
      /\ m[a] # None /\ Later(m[a], at)
      /\ \A b \in Automation \ {a} :
            m[b] = next[b] \/ (next[b] = None /\ Later(m[b], at))
  BY <1>a, <1>2, AdvancedIsLater
<1>4. next' = m /\ saveState(m)
  BY DEF Fire
<1> HIDE DEF m
<1>5. /\ \/ file' = m /\ unsaved' = FALSE
         \/ file' = file /\ unsaved' = TRUE
      /\ faults' \in 0..MaxFaults
  BY <1>a, <1>3, <1>4, SaveOutcome
<1>6. listed' \in [Automation -> Seq(Schedule)]
  <2>1. <<>> \in Seq(Schedule)
    OBVIOUS
  <2> QED BY <1>a, <1>2, <2>1 DEF Fire, CronTypeOK
<1>7. at' = at /\ at \in Nat /\ lastTick' = [lastTick EXCEPT ![a] = at]
      /\ lastTick \in [Automation -> Cursor] /\ next \in [Automation -> Cursor]
  BY <1>a, CronAssumption DEF Fire, CronTypeOK
<1>8. CronTypeOK'
  <2>1. lastTick' \in [Automation -> Cursor]
    BY <1>7 DEF Cursor
  <2>2. file' \in [Automation -> Cursor] /\ next' \in [Automation -> Cursor] /\ unsaved' \in BOOLEAN
    BY <1>a, <1>3, <1>4, <1>5 DEF CronTypeOK
  <2> QED BY <1>a, <1>5, <1>6, <2>1, <2>2 DEF Fire, CronTypeOK, TickPhase, environment
<1>9. TickIsOrderly'
  BY DEF CronInv, TickIsOrderly, Fire
<1>10. TicksMoveOn'
  BY <1>7, CronAssumption DEF CronInv, TicksMoveOn, Cursor
<1>11. AgreesUnderTick'
  BY <1>4, <1>5 DEF AgreesUnderTick
<1>12. FiredIsPast'
  <2> SUFFICES ASSUME ~reverted, NEW b \in Automation, lastTick'[b] # None
               PROVE  Later(m[b], lastTick'[b])
    BY <1>4, <1>5 DEF FiredIsPast, Fire
  <2>1. CASE b = a
    BY <1>3, <1>7, <2>1
  <2>2. CASE b # a
    <3>1. lastTick'[b] = lastTick[b] /\ lastTick[b] \in Nat /\ lastTick[b] <= at
      BY <1>7, <2>2 DEF CronInv, TicksMoveOn, Cursor
    <3>2. Later(next[b], lastTick[b])
      BY <3>1, CronAssumption DEF CronInv, FiredIsPast
    <3> QED BY <1>3, <1>7, <2>2, <3>1, <3>2 DEF Later, Cursor
  <2> QED BY <2>1, <2>2
<1>13. DeletedHasNone'
  BY DEF CronInv, DeletedHasNone, Fire, environment
<1>14. ForgottenIsQuiet'
  <2> SUFFICES ASSUME ~reverted, NEW b \in Automation,
                      AgentOf[b] \in forgotten, listed'[b] # <<>>
               PROVE  Later(m[b], at)
    BY <1>4, <1>5, <1>7 DEF ForgottenIsQuiet, Fire
  <2>1. listed[b] # <<>>
    BY <1>1 DEF Fire
  <2>2. Later(next[b], at)
    BY <2>1 DEF CronInv, ForgottenIsQuiet
  <2> QED BY <1>3, <2>2
<1> QED BY <1>8, <1>9, <1>10, <1>11, <1>12, <1>13, <1>14 DEF CronInv

(***************************************************************************)
(* The end of a tick drops cursors and gives some to automations without;  *)
(* a cursor that it leaves out of the file was in no file before.          *)
(***************************************************************************)
LEMMA FinishStep == CronInv /\ FinishTick => CronInv'
<1> SUFFICES ASSUME CronInv, FinishTick PROVE CronInv'
  OBVIOUS
<1> DEFINE walked == Sighted(Automation)
           kept == [a \in Automation |-> IF a \in seen THEN walked[a] ELSE None]
<1>a. CronTypeOK
  BY DEF CronInv
<1>1. /\ walked \in [Automation -> Cursor]
      /\ \A b \in Automation :
            walked[b] = next[b] \/ (next[b] = None /\ Later(walked[b], at))
  BY <1>a, SightedIsLater
<1>2. /\ next' = kept /\ saveIfMutated(walked, kept) /\ EndTick
      /\ UNCHANGED <<environment, cronHistory, timer, up>>
      /\ tickPhase = "walking"
  BY DEF FinishTick
<1> HIDE DEF walked
<1>3. /\ kept \in [Automation -> Cursor]
      /\ \A b \in Automation :
            \/ kept[b] = next[b] \/ kept[b] = None
            \/ next[b] = None /\ Later(kept[b], at)
  BY <1>1 DEF Cursor
<1>4. kept = walked => \A b \in Automation : next[b] # None => kept[b] = next[b]
  BY <1>1
<1> HIDE DEF kept
<1>5. /\ \/ file' = kept /\ unsaved' = FALSE
         \/ file' = file /\ unsaved' = TRUE
         \/ kept = walked /\ file' = file /\ unsaved' = unsaved
      /\ faults' \in 0..MaxFaults
  BY <1>a, <1>2, <1>3, SaveIfMutatedOutcome
<1>6. CronTypeOK'
  BY <1>a, <1>2, <1>3, <1>5, EndTickType DEF CronTypeOK, EndTick, environment, cronHistory
<1>7. TickIsOrderly' /\ TicksMoveOn' /\ DeletedHasNone'
  BY <1>2 DEF CronInv, TickIsOrderly, TicksMoveOn, DeletedHasNone, EndTick, environment,
              cronHistory
<1>8. AgreesUnderTick'
  BY <1>2, <1>4, <1>5 DEF CronInv, AgreesUnderTick, cronHistory
<1>9. FiredIsPast'
  <2> SUFFICES ASSUME ~reverted, NEW b \in Automation, lastTick[b] # None
               PROVE  Later(kept[b], lastTick[b])
                      /\ (~unsaved => Later(file[b], lastTick[b]))
    BY <1>2, <1>5 DEF FiredIsPast, cronHistory
  <2>1. lastTick[b] \in Nat /\ lastTick[b] <= at /\ at \in Nat
    BY <1>a, CronAssumption DEF CronInv, CronTypeOK, TicksMoveOn, Cursor
  <2>2. Later(next[b], lastTick[b]) /\ (~unsaved => Later(file[b], lastTick[b]))
    BY DEF CronInv, FiredIsPast
  <2>3. kept[b] \in Cursor
    BY <1>3
  <2> QED BY <1>3, <2>1, <2>2, <2>3 DEF Later, Cursor
<1>10. ForgottenIsQuiet'
  BY <1>2, EndTickType DEF ForgottenIsQuiet
<1> QED BY <1>6, <1>7, <1>8, <1>9, <1>10 DEF CronInv

(***************************************************************************)
(* start() may load the file under a tick: unless a write was lost, the    *)
(* file knows what has been fired and forgotten.                           *)
(***************************************************************************)
LEMMA StartStep == CronInv /\ Start => CronInv'
<1> SUFFICES ASSUME CronInv, Start PROVE CronInv'
  OBVIOUS
<1> USE DEF Start, environment
<1>a. CronTypeOK
  BY DEF CronInv
<1>1. /\ next' \in [Automation -> Cursor]
      /\ \A a \in Automation :
            next'[a] = IF file[a] # None THEN file[a] ELSE next[a]
  BY <1>a DEF CronTypeOK, Loaded
<1>2. /\ tickPhase' \in TickPhase /\ at' \in 0..now /\ listed' = listed /\ seen' = seen
      /\ tickPhase' # tickPhase => tickPhase = "idle" /\ tickPhase' = "listing"
      /\ at' = at \/ (tickPhase = "idle" /\ at' = now)
  BY <1>a DEF CronTypeOK, BeginTick, tickVars, TickPhase
<1>3. CronTypeOK'
  BY <1>a, <1>1, <1>2 DEF CronTypeOK
<1>4. TickIsOrderly' /\ DeletedHasNone'
  BY <1>2 DEF CronInv, TickIsOrderly, DeletedHasNone
<1>5. TicksMoveOn'
  BY <1>a, <1>2, CronAssumption DEF CronInv, CronTypeOK, TicksMoveOn, Cursor
<1>6. AgreesUnderTick'
  BY <1>1 DEF AgreesUnderTick
<1>7. FiredIsPast'
  BY <1>1 DEF CronInv, FiredIsPast
<1>8. ForgottenIsQuiet'
  <2>1. CASE tickPhase = "idle"
    BY <1>2, <2>1 DEF CronInv, TickIsOrderly, NoSchedules, ForgottenIsQuiet
  <2>2. CASE tickPhase # "idle"
    BY <1>1, <1>2, <2>2 DEF CronInv, ForgottenIsQuiet
  <2> QED BY <2>1, <2>2
<1> QED BY <1>3, <1>4, <1>5, <1>6, <1>7, <1>8 DEF CronInv

LEMMA StopStep == CronInv /\ Stop => CronInv'
<1> SUFFICES ASSUME CronInv, Stop PROVE CronInv'
  OBVIOUS
<1> USE DEF Stop, tickVars, cursors, environment, cronHistory
<1>1. CronTypeOK'
  <2>1. faults' \in 0..MaxFaults
    BY CronAssumption DEF CronInv, CronTypeOK
  <2>2. timer' \in BOOLEAN
    OBVIOUS
  <2> QED BY <2>1, <2>2 DEF CronInv, CronTypeOK
<1>2. TickIsOrderly' /\ AgreesUnderTick' /\ FiredIsPast' /\ DeletedHasNone' /\ TicksMoveOn'
  BY DEF CronInv, TickIsOrderly, AgreesUnderTick, FiredIsPast, DeletedHasNone, TicksMoveOn
<1>3. ForgottenIsQuiet'
  BY DEF CronInv, ForgottenIsQuiet
<1> QED BY <1>1, <1>2, <1>3 DEF CronInv

LEMMA CronBootStep == CronInv /\ Boot => CronInv'
<1> SUFFICES ASSUME CronInv, Boot PROVE CronInv'
  OBVIOUS
<1> USE DEF Boot, tickVars, cursors, environment, cronHistory
<1>1. CronTypeOK'
  BY DEF CronInv, CronTypeOK
<1>2. TickIsOrderly' /\ AgreesUnderTick' /\ FiredIsPast' /\ DeletedHasNone' /\ TicksMoveOn'
  BY DEF CronInv, TickIsOrderly, AgreesUnderTick, FiredIsPast, DeletedHasNone, TicksMoveOn
<1>3. ForgottenIsQuiet'
  BY DEF CronInv, ForgottenIsQuiet
<1> QED BY <1>1, <1>2, <1>3 DEF CronInv

LEMMA CronCrashStep == CronInv /\ Crash => CronInv'
<1> SUFFICES ASSUME CronInv, Crash PROVE CronInv'
  OBVIOUS
<1> USE DEF Crash, cronHistory
<1>1. next' \in [Automation -> Cursor] /\ \A a \in Automation : next'[a] = None
  BY DEF NoCursors, Cursor
<1>2. CronTypeOK'
  <2>1. faults' \in 0..MaxFaults
    BY CronAssumption DEF CronInv, CronTypeOK
  <2>2. timer' \in BOOLEAN /\ up' \in BOOLEAN /\ ready' \in BOOLEAN
    OBVIOUS
  <2> QED BY <1>1, <2>1, <2>2, EndTickType DEF CronInv, CronTypeOK, EndTick
<1>3. TickIsOrderly' /\ AgreesUnderTick' /\ DeletedHasNone' /\ TicksMoveOn'
  BY DEF CronInv, TickIsOrderly, AgreesUnderTick, DeletedHasNone, TicksMoveOn, EndTick
<1>4. FiredIsPast'
  BY <1>1 DEF CronInv, FiredIsPast, Later
<1>5. ForgottenIsQuiet'
  BY EndTickType DEF ForgottenIsQuiet
<1> QED BY <1>2, <1>3, <1>4, <1>5 DEF CronInv

\* The clock, readiness and the user's edits leave the scheduler alone.
LEMMA ClockStep == CronInv /\ (BecomeReady \/ Advance) => CronInv'
<1> SUFFICES ASSUME CronInv, BecomeReady \/ Advance PROVE CronInv'
  OBVIOUS
<1> USE DEF BecomeReady, Advance, tickVars, cursors, cronHistory
<1>1. CronTypeOK'
  <2>1. ready' \in BOOLEAN
    BY Zenon DEF CronInv, CronTypeOK
  <2>2. now' = now \/ (now < MaxTime /\ now' = now + 1)
    OBVIOUS
  <2>3. now' \in 0..MaxTime /\ at' \in 0..now'
    BY <2>2, CronAssumption DEF CronInv, CronTypeOK
  <2> QED BY <2>1, <2>3 DEF CronInv, CronTypeOK
<1>2. TickIsOrderly' /\ AgreesUnderTick' /\ FiredIsPast' /\ DeletedHasNone' /\ TicksMoveOn'
  BY DEF CronInv, TickIsOrderly, AgreesUnderTick, FiredIsPast, DeletedHasNone, TicksMoveOn
<1>3. ForgottenIsQuiet'
  BY DEF CronInv, ForgottenIsQuiet
<1> QED BY <1>1, <1>2, <1>3 DEF CronInv

LEMMA EditStep ==
    ASSUME CronInv, NEW a \in Automation, NEW d \in Definition, Edit(a, d)
    PROVE  CronInv'
<1> USE DEF Edit, tickVars, cursors, cronHistory
<1>1. CronTypeOK'
  BY CronAssumption DEF CronInv, CronTypeOK
<1>2. TickIsOrderly' /\ AgreesUnderTick' /\ FiredIsPast' /\ TicksMoveOn'
  BY DEF CronInv, TickIsOrderly, AgreesUnderTick, FiredIsPast, TicksMoveOn
<1>3. ForgottenIsQuiet' /\ DeletedHasNone'
  BY DEF CronInv, CronTypeOK, ForgottenIsQuiet, DeletedHasNone
<1> QED BY <1>1, <1>2, <1>3 DEF CronInv

LEMMA CronDeleteStep ==
    ASSUME CronInv, NEW g \in Agent, CronDeleteAgent(g) PROVE CronInv'
<1> USE DEF CronDeleteAgent, tickVars, cursors, cronHistory
<1>1. CronTypeOK'
  BY CronAssumption DEF CronInv, CronTypeOK
<1>2. TickIsOrderly' /\ AgreesUnderTick' /\ FiredIsPast' /\ TicksMoveOn'
  BY DEF CronInv, TickIsOrderly, AgreesUnderTick, FiredIsPast, TicksMoveOn
<1>3. ForgottenIsQuiet' /\ DeletedHasNone'
  BY DEF CronInv, CronTypeOK, ForgottenIsQuiet, DeletedHasNone
<1> QED BY <1>1, <1>2, <1>3 DEF CronInv

(***************************************************************************)
(* forgetAgent drops the cursors in memory and in the file.  It writes     *)
(* nothing if memory had none, which under a tick means the file has none. *)
(***************************************************************************)
LEMMA ForgetAgentStep ==
    ASSUME CronInv, NEW g \in Agent, ForgetAgent(g) PROVE CronInv'
<1> USE DEF ForgetAgent, tickVars, environment
<1>a. CronTypeOK
  BY DEF CronInv
<1>1. /\ next' = Kept(g) /\ next' \in [Automation -> Cursor]
      /\ \A a \in Automation : next'[a] = IF AgentOf[a] = g THEN None ELSE next[a]
  BY <1>a DEF CronTypeOK, Kept, Cursor
<1>2. /\ \/ file' = next' /\ unsaved' = FALSE
         \/ file' = file /\ unsaved' = TRUE
         \/ next' = next /\ file' = file /\ unsaved' = unsaved
      /\ faults' \in 0..MaxFaults
  BY <1>a, <1>1, SaveIfMutatedOutcome
<1>3. CronTypeOK'
  BY <1>a, <1>1, <1>2 DEF CronTypeOK
<1>4. TickIsOrderly' /\ TicksMoveOn' /\ DeletedHasNone'
  BY DEF CronInv, TickIsOrderly, TicksMoveOn, DeletedHasNone
<1>5. AgreesUnderTick'
  BY <1>1, <1>2 DEF CronInv, AgreesUnderTick
<1>6. FiredIsPast'
  <2> SUFFICES ASSUME ~reverted, NEW a \in Automation, lastTick[a] # None
               PROVE  Later(next'[a], lastTick[a])
                      /\ (~unsaved' => Later(file'[a], lastTick[a]))
    BY DEF FiredIsPast
  <2>1. Later(next[a], lastTick[a]) /\ (~unsaved => Later(file[a], lastTick[a]))
    BY DEF CronInv, FiredIsPast
  <2>2. Later(next'[a], lastTick[a])
    BY <1>1, <2>1 DEF Later
  <2> QED BY <1>2, <2>1, <2>2
<1>7. ForgottenIsQuiet'
  <2> SUFFICES ASSUME ~reverted, NEW a \in Automation,
                      AgentOf[a] \in forgotten \cup {g}, listed[a] # <<>>
               PROVE  Later(next'[a], at) /\ (~unsaved' => Later(file'[a], at))
    BY DEF ForgottenIsQuiet
  <2>1. CASE AgentOf[a] = g
    <3>1. next'[a] = None /\ Later(next'[a], at)
      BY <1>1, <2>1 DEF Later
    <3>2. up /\ tickPhase # "idle"
      BY DEF CronInv, TickIsOrderly, NoSchedules
    <3>3. ASSUME next' = next, ~unsaved PROVE file[a] = None
      BY <3>1, <3>2, <3>3 DEF CronInv, AgreesUnderTick
    <3>4. file[a] = None => Later(file[a], at)
      BY DEF Later
    <3> QED BY <1>2, <3>1, <3>3, <3>4
  <2>2. CASE AgentOf[a] # g
    <3>1. Later(next[a], at) /\ (~unsaved => Later(file[a], at))
      BY <2>2 DEF CronInv, ForgottenIsQuiet
    <3> QED BY <1>1, <1>2, <2>2, <3>1
  <2> QED BY <2>1, <2>2
<1> QED BY <1>3, <1>4, <1>5, <1>6, <1>7 DEF CronInv

LEMMA CronStutter == CronInv /\ UNCHANGED cronVars => CronInv'
<1> SUFFICES ASSUME CronInv, UNCHANGED cronVars PROVE CronInv'
  OBVIOUS
<1> USE DEF cronVars, tickVars, cursors, environment, cronHistory
<1>1. CronTypeOK'
  BY DEF CronInv, CronTypeOK
<1>2. TickIsOrderly' /\ AgreesUnderTick' /\ FiredIsPast' /\ DeletedHasNone' /\ TicksMoveOn'
  BY DEF CronInv, TickIsOrderly, AgreesUnderTick, FiredIsPast, DeletedHasNone, TicksMoveOn
<1>3. ForgottenIsQuiet'
  BY DEF CronInv, ForgottenIsQuiet
<1> QED BY <1>1, <1>2, <1>3 DEF CronInv

(***************************************************************************)
(* The inductive invariant of the local cron scheduler.                    *)
(***************************************************************************)
THEOREM CronInvariant == CronSpec => []CronInv
<1>1. CronInit => CronInv
  BY CronBegins
<1>2. CronInv /\ [CronNext]_cronVars => CronInv'
  BY TickStep, ListStep, ListFailsStep, RunEndsStep, FinishStep, FireStep, StartStep,
     StopStep, CronBootStep, CronCrashStep, ClockStep, EditStep, CronDeleteStep, ForgetAgentStep,
     CronStutter DEF CronNext
<1> QED BY <1>1, <1>2, PTL DEF CronSpec

(***************************************************************************)
(* The cursors in memory and in the state file are well formed, and agree  *)
(* wherever a write was not lost, at every point of a tick, a stop, a      *)
(* start and a restart.                                                    *)
(***************************************************************************)
THEOREM CursorsAlwaysAgree == CronSpec => []CursorsAgree
<1>1. CronInv => CursorsAgree
  BY DEF CronInv, AgreesUnderTick, CursorsAgree, FileAgrees
<1> QED BY <1>1, CronInvariant, PTL

\* Only Fire fires, and only the automation whose cursor it advances.
LEMMA FiresOnlyByFire ==
    ASSUME CronInv, [CronNext]_cronVars, NEW a \in Automation, Fires(a)
    PROVE  Fire(a)
<1>1. \E b \in Automation : Fire(b)
  BY DEF Fires, cronVars, tickVars, CronNext, Tick, MayTick, BeginTick, List, ListFails, RunEnds,
         FinishTick, EndTick, Start, Stop, Boot, Crash, BecomeReady, Advance, Edit, CronDeleteAgent,
         ForgetAgent
<1>2. PICK b \in Automation : Fire(b)
  BY <1>1
<1>3. CronTypeOK /\ listed[b] \in Seq(Schedule) /\ listed[b] # <<>>
  BY <1>2 DEF CronInv, CronTypeOK, Fire, Fireable
<1>4. Head(listed[b]) \in Schedule
  BY <1>3
<1>5. a # b => next'[a] = next[a] \/ next[a] = None
  BY <1>2, <1>3, <1>4, AdvancedIsLater DEF Fire
<1> QED BY <1>2, <1>5 DEF Fires, Due

(***************************************************************************)
(* No occurrence is fired twice and missed ones are not replayed: what a   *)
(* tick fires came due after the tick that fired the automation last,      *)
(* across crashes, stops and edits, unless a state file that could not be  *)
(* written was read back.                                                  *)
(***************************************************************************)
THEOREM NeverReplays == CronSpec => NoReplay
<1>1. CronInv /\ [CronNext]_cronVars =>
        [\A a \in Automation :
            Fires(a) => reverted \/ lastTick[a] = None \/ next[a] > lastTick[a]]_cronVars
  <2> SUFFICES ASSUME CronInv, NEW a \in Automation, Fires(a)
               PROVE  reverted \/ lastTick[a] = None \/ next[a] > lastTick[a]
    OBVIOUS
  <2> QED BY DEF CronInv, FiredIsPast, Later, Fires, Due
<1> QED BY <1>1, CronInvariant, PTL DEF CronSpec, NoReplay

(***************************************************************************)
(* Once forgetAgent has returned, no automation of the agent is fired, not *)
(* even by a tick that listed it before.                                   *)
(***************************************************************************)
THEOREM ForgottenAlwaysStays == CronSpec => ForgottenStays
<1>1. CronInv /\ [CronNext]_cronVars =>
        [\A a \in Automation : Fires(a) => reverted \/ AgentOf[a] \notin forgotten]_cronVars
  <2> SUFFICES ASSUME CronInv, [CronNext]_cronVars, NEW a \in Automation, Fires(a),
                      ~reverted, AgentOf[a] \in forgotten
               PROVE  FALSE
    OBVIOUS
  <2>1. listed[a] # <<>> /\ Due(next[a], at)
    BY FiresOnlyByFire DEF Fire, Fireable
  <2>2. Later(next[a], at)
    BY <2>1 DEF CronInv, ForgottenIsQuiet
  <2>3. next[a] \in Nat /\ at \in Nat
    BY <2>1, CronAssumption DEF CronInv, CronTypeOK, Due, Cursor
  <2> QED BY <2>1, <2>2, <2>3 DEF Later, Due
<1> QED BY <1>1, CronInvariant, PTL DEF CronSpec, ForgottenStays

-----------------------------------------------------------------------------
(***************************************************************************)
(* The durable wakes and the revivals of completed work, for every set of  *)
(* background work and any number of faults.                               *)
(***************************************************************************)

\* Completions that wait in a queue, and those on their way to the agent.
Waits(w) == \E l \in RevivalLane : w \in Items(completions[l])
Reporting(w) == \E l \in RevivalLane : w \in Items(reviving[l])

\* The queues of a deleted agent are empty and stay so.
GoneIsEmpty == agentGone => \A l \in RevivalLane : completions[l] = <<>>

\* A lane holds the work of its kinds only, and a queue only behind a
\* revival.
LanesSeparate ==
    \A l \in RevivalLane :
        /\ \A w \in Items(completions[l]) \cup Items(reviving[l]) : LaneOf(w) = l
        /\ reviving[l] = <<>> => completions[l] = <<>>

(***************************************************************************)
(* What holds of each piece of work.                                       *)
(***************************************************************************)
\* A host that is down remembers nothing.
DownForgets(w) == ~hostUp => w \notin watched \cup rearming /\ ~Waits(w) /\ ~Reporting(w)

\* Nothing is known of work before it is dispatched.
NewIsUnknown(w) ==
    work[w] = "new" => /\ w \notin markers \cup rearming \cup watched
                       /\ ~Waits(w) /\ ~Reporting(w)
                       /\ report[w] = "none"

\* A queued completion does not wait for a restart, and a subagent whose
\* marker is being re-armed runs no more.
HeldOnce(w) ==
    /\ Waits(w) => w \notin unresolved
    /\ w \in rearming /\ KindOf[w] = "subagent" => w \notin watched

\* A revival takes its completions' markers away before it reports them.
ReportingIsCleared(w) ==
    Alive /\ Reporting(w) /\ ~Again(w) => w \notin markers \/ w \in leftover

\* What is asked for again while its last result is on its way to the agent
\* has a marker of its own.
FollowedIsMarked(w) ==
    Alive /\ Unreported(w) /\ Reporting(w) /\ Again(w) => w \in markers

\* What awaits its re-arming is known to this process in no other way, so
\* that the marker a re-arming puts back is not that of work the agent is
\* being told of.
RearmingIsAlone(w) ==
    Alive /\ w \in rearming /\ w \notin leftover =>
        w \notin watched /\ ~Waits(w) /\ ~Reporting(w) /\ report[w] = "none"

\* NeverForgotten and ReportedIsCleared, of one piece of work.
NotForgotten(w) ==
    Alive /\ Unreported(w) => w \in markers \/ (hostUp /\ (w \in rearming \/ Reporting(w)))
ToldIsCleared(w) == Alive /\ w \in markers => report[w] = "none" \/ w \in leftover

WorkInv(w) ==
    /\ DownForgets(w) /\ NewIsUnknown(w) /\ HeldOnce(w)
    /\ ReportingIsCleared(w) /\ FollowedIsMarked(w) /\ RearmingIsAlone(w)
    /\ NotForgotten(w) /\ ToldIsCleared(w)

\* Without faults and follow-ups nothing is re-armed, and what still runs
\* has no completion.
Spotless ==
    wakeFaults = 0 /\ followups = 0 =>
        hostUp /\ rearming = {} /\ \A w \in watched : ~Waits(w)

WakesInv ==
    /\ WakesTypeOK /\ GoneIsEmpty /\ LanesSeparate
    /\ \A w \in Work : WorkInv(w)
    /\ Spotless /\ ExcusesCost

-----------------------------------------------------------------------------
(* Queues and batches.                                                     *)

LEMMA WorkIsRight == (\A w \in Work : WorkInv(w)) /\ WakesTypeOK => NeverForgotten /\ ReportedIsCleared
BY DEF WorkInv, NotForgotten, ToldIsCleared, NeverForgotten, ReportedIsCleared, Reporting, WakesTypeOK

LEMMA ItemsOfEmpty == Items(<<>>) = {}
BY DEF Items

LEMMA ItemsOfAppend ==
    ASSUME NEW q \in Seq(Work), NEW w \in Work
    PROVE  Items(Append(q, w)) = Items(q) \cup {w}
BY ToSetAppend DEF Items, ToSet

LEMMA ItemsType ==
    ASSUME NEW q \in Seq(Work)
    PROVE  Items(q) \subseteq Work
BY DEF Items

\* The queue that a revival took whole is left empty.
LEMMA RestIsEmpty ==
    ASSUME NEW q \in Seq(Work)
    PROVE  SubSeq(q, Len(q) + 1, Len(q)) = <<>>
<1>1. Len(q) \in Nat
  OBVIOUS
<1>2. SubSeq(q, Len(q) + 1, Len(q)) \in Seq(Work)
      /\ Len(SubSeq(q, Len(q) + 1, Len(q))) = 0
  BY <1>1
<1> QED BY <1>2

LEMMA LaneOfType == ASSUME NEW w \in Work PROVE LaneOf(w) \in RevivalLane
BY DEF LaneOf, RevivalLane

\* What is asked for again, before and after a step.
LEMMA AgainForm ==
    ASSUME NEW w
    PROVE  /\ Again(w) <=> w \in watched \/ w \in unresolved \/ Waits(w)
           /\ Again(w)' <=> w \in watched' \/ w \in unresolved' \/ Waits(w)'
           /\ ~Unqueued(w) <=> Waits(w)
BY DEF Again, Unqueued, Waits

\* A step that leaves queues and batches alone leaves what they hold alone.
LEMMA LanesUnchanged ==
    ASSUME UNCHANGED <<completions, reviving>>
    PROVE  /\ \A w : (Waits(w)' <=> Waits(w)) /\ (Reporting(w)' <=> Reporting(w))
           /\ LanesSeparate => LanesSeparate'
BY DEF Waits, Reporting, LanesSeparate

(***************************************************************************)
(* A step that changes nothing the host or the disk knows of some work     *)
(* keeps what holds of it.                                                 *)
(***************************************************************************)
Same(w) ==
    /\ (w \in watched' <=> w \in watched) /\ (w \in markers' <=> w \in markers)
    /\ (w \in rearming' <=> w \in rearming) /\ (w \in unresolved' <=> w \in unresolved)
    /\ (w \in excused' <=> w \in excused) /\ (w \in leftover' <=> w \in leftover)
    /\ (Waits(w)' <=> Waits(w)) /\ (Reporting(w)' <=> Reporting(w))
    /\ work'[w] = work[w] /\ report'[w] = report[w]

LEMMA Untouched ==
    ASSUME NEW w \in Work, WorkInv(w), Same(w), hostUp' = hostUp, deletion' = deletion
    PROVE  WorkInv(w)'
<1>1. Again(w)' <=> Again(w)
  BY AgainForm DEF Same
<1>2. (Alive' <=> Alive) /\ (Unreported(w)' <=> Unreported(w))
  BY DEF Same, Alive, Unreported
<1> QED BY <1>1, <1>2 DEF WorkInv, Same, DownForgets, NewIsUnknown, HeldOnce, ReportingIsCleared,
           FollowedIsMarked, RearmingIsAlone, NotForgotten, ToldIsCleared

(***************************************************************************)
(* Where a completion goes: it is refused for a deleted agent; otherwise   *)
(* it joins the queue behind a revival, or starts one, which clears its    *)
(* marker or is known to have failed to.  Nothing else is touched.         *)
(***************************************************************************)
Elsewhere(w, M) ==
    \A v \in Work \ {w} :
        /\ (v \in markers' <=> v \in M) /\ (v \in unresolved' <=> v \in unresolved)
        /\ (v \in excused' <=> v \in excused) /\ (v \in leftover' <=> v \in leftover)
        /\ (Waits(v)' <=> Waits(v)) /\ (Reporting(v)' <=> Reporting(v))

Handed(w, M, persisted) ==
    /\ w \in excused => w \in excused'
    /\ w \in leftover => w \in leftover'
    /\ ~persisted => w \in excused'
    /\ Waits(w)' => w \notin unresolved'
    /\ Reporting(w) => Reporting(w)'
    /\ w \in markers' => w \in M
    /\ w \in M => w \in markers' \/ Reporting(w)'
    /\ Reporting(w)' => Waits(w)' \/ w \in unresolved' \/ w \notin markers' \/ w \in leftover'
    /\ Reporting(w)' /\ (Waits(w)' \/ w \in unresolved') => Reporting(w) /\ markers' = M

LEMMA CompleteOutcome ==
    ASSUME WakesTypeOK, LanesSeparate, GoneIsEmpty,
           NEW ok \in BOOLEAN, NEW persisted \in BOOLEAN, NEW w \in Work, NEW M \in SUBSET Work,
           HeldOnce(w), Complete(ok, w, M, persisted)
    PROVE  /\ completions' \in [RevivalLane -> Seq(Work)] /\ reviving' \in [RevivalLane -> Seq(Work)]
           /\ markers' \subseteq M /\ unresolved' \subseteq Work
           /\ excused' \subseteq Work /\ leftover' \subseteq Work
           /\ LanesSeparate'
           /\ agentGone => completions' = completions /\ reviving' = reviving
           /\ Elsewhere(w, M) /\ Handed(w, M, persisted)
           /\ ok /\ persisted /\ ~Waits(w) /\ ~agentGone =>
                excused' = excused /\ leftover' = leftover /\ unresolved' \subseteq unresolved
<1> DEFINE l == LaneOf(w)
           q == IF Enqueues(w) THEN Append(completions[l], w) ELSE completions[l]
<1>1. /\ l \in RevivalLane
      /\ completions \in [RevivalLane -> Seq(Work)] /\ reviving \in [RevivalLane -> Seq(Work)]
      /\ leftover \subseteq Work /\ excused \subseteq Work /\ unresolved \subseteq Work
  BY LaneOfType DEF WakesTypeOK
<1>2. /\ q \in Seq(Work)
      /\ Items(completions[l]) \subseteq Items(q) /\ Items(q) \subseteq Items(completions[l]) \cup {w}
      /\ w \in Items(q) \/ Waits(w)
  <2>1. completions[l] \in Seq(Work)
    BY <1>1
  <2>2. Append(completions[l], w) \in Seq(Work)
    BY <2>1
  <2>3. Enqueues(w) \/ Waits(w)
    BY AgainForm DEF Enqueues
  <2> HIDE DEF l
  <2> QED BY <2>1, <2>2, <2>3, ItemsOfAppend, ItemsType
<1>3. <<>> \in Seq(Work) /\ Items(<<>>) = {}
  BY ItemsOfEmpty
<1>4. excused' = IF persisted /\ Enqueues(w) THEN excused ELSE excused \cup {w}
  BY DEF Complete
<1>5. \/ /\ agentGone
         /\ markers' = M
         /\ unresolved' = unresolved \cup {w}
         /\ UNCHANGED <<completions, reviving, leftover>>
      \/ /\ ~agentGone /\ reviving[l] # <<>>
         /\ completions' = [completions EXCEPT ![l] = q]
         /\ markers' = M
         /\ unresolved' = unresolved \ {w}
         /\ UNCHANGED <<reviving, leftover>>
      \/ /\ ~agentGone /\ reviving[l] = <<>>
         /\ reviving' = [reviving EXCEPT ![l] = q]
         /\ completions' = [completions EXCEPT ![l] = <<>>]
         /\ markers' = Cleared(ok, M, Items(q)) /\ Left(ok, Items(q))
         /\ unresolved' = unresolved \ {w}
  BY DEF Complete, Accepts
<1>6. LaneOf(w) = l /\ (Enqueues(w) \/ Waits(w))
  BY AgainForm DEF Enqueues
<1> HIDE DEF l, q
<1>7. CASE /\ agentGone
           /\ markers' = M
           /\ unresolved' = unresolved \cup {w}
           /\ UNCHANGED <<completions, reviving, leftover>>
  <2>1. \A v : (Waits(v)' <=> Waits(v)) /\ (Reporting(v)' <=> Reporting(v))
    BY <1>7, LanesUnchanged
  <2>2. ~Waits(w)
    BY <1>7, <1>3 DEF GoneIsEmpty, Waits
  <2>3. LanesSeparate'
    BY <1>7, LanesUnchanged
  <2> QED BY <1>1, <1>4, <1>7, <2>1, <2>2, <2>3 DEF Elsewhere, Handed
<1>8. CASE /\ ~agentGone /\ reviving[l] # <<>>
           /\ completions' = [completions EXCEPT ![l] = q]
           /\ markers' = M
           /\ unresolved' = unresolved \ {w}
           /\ UNCHANGED <<reviving, leftover>>
  <2>1. \A v : Reporting(v)' <=> Reporting(v)
    BY <1>8 DEF Reporting
  <2>2. \A v \in Work \ {w} : Waits(v)' <=> Waits(v)
    BY <1>1, <1>2, <1>8 DEF Waits
  <2>3. Waits(w)'
    BY <1>1, <1>2, <1>8 DEF Waits
  <2>4. LanesSeparate'
    BY <1>1, <1>2, <1>6, <1>8 DEF LanesSeparate
  <2>5. completions' \in [RevivalLane -> Seq(Work)]
    BY <1>1, <1>2, <1>8
  <2>6. w \notin unresolved' /\ unresolved' \subseteq unresolved
    BY <1>8
  <2>7. \A v \in Work \ {w} : v \in excused' <=> v \in excused
    BY <1>4
  <2>8. excused \subseteq excused' /\ (~persisted => w \in excused') /\ excused' \subseteq Work
        /\ (persisted /\ ~Waits(w) => excused' = excused)
    BY <1>1, <1>4, <1>6
  <2>9. Elsewhere(w, M)
    BY <1>8, <2>1, <2>2, <2>7 DEF Elsewhere
  <2>10. Handed(w, M, persisted)
    BY <1>8, <2>1, <2>3, <2>6, <2>8 DEF Handed
  <2> QED BY <1>1, <1>8, <2>4, <2>5, <2>6, <2>8, <2>9, <2>10
<1>9. CASE /\ ~agentGone /\ reviving[l] = <<>>
           /\ reviving' = [reviving EXCEPT ![l] = q]
           /\ completions' = [completions EXCEPT ![l] = <<>>]
           /\ markers' = Cleared(ok, M, Items(q)) /\ Left(ok, Items(q))
           /\ unresolved' = unresolved \ {w}
  <2>1. completions[l] = <<>> /\ Items(completions[l]) = {} /\ Items(reviving[l]) = {}
    BY <1>1, <1>3, <1>9 DEF LanesSeparate
  <2>2. ~Waits(w)
    BY <1>6, <2>1 DEF Waits, LanesSeparate
  <2>3. Items(q) = {w}
    BY <1>2, <2>1, <2>2
  <2>4. \A v : Waits(v)' <=> Waits(v)
    BY <1>1, <1>3, <1>9, <2>1 DEF Waits
  <2>5. \A v \in Work : Reporting(v)' <=> Reporting(v) \/ v = w
    BY <1>1, <1>9, <2>1, <2>3 DEF Reporting
  <2>6. LanesSeparate'
    BY <1>1, <1>3, <1>6, <1>9, <2>3 DEF LanesSeparate
  <2>7. /\ completions' \in [RevivalLane -> Seq(Work)] /\ reviving' \in [RevivalLane -> Seq(Work)]
    BY <1>1, <1>2, <1>3, <1>9
  <2>8. /\ markers' = IF ok THEN M \ {w} ELSE M
        /\ leftover' = IF ok THEN leftover ELSE leftover \cup {w}
    BY <1>9, <2>3 DEF Cleared, Left
  <2>9. /\ \A v \in Work \ {w} : v \in excused' <=> v \in excused
        /\ excused \subseteq excused' /\ (~persisted => w \in excused') /\ excused' \subseteq Work
        /\ (persisted => excused' = excused)
    BY <1>1, <1>4, <1>6, <2>2
  <2>10. Elsewhere(w, M)
    BY <1>9, <2>4, <2>5, <2>8, <2>9 DEF Elsewhere
  <2>11. Handed(w, M, persisted)
    BY <1>9, <2>2, <2>4, <2>5, <2>8, <2>9 DEF Handed
  <2> QED BY <1>1, <1>9, <2>6, <2>7, <2>8, <2>9, <2>10, <2>11
<1> QED BY <1>5, <1>7, <1>8, <1>9

-----------------------------------------------------------------------------
(* The invariant.                                                          *)

\* What a step costs: nothing when nothing fails.
LEMMA FaultsBound ==
    ASSUME WakesTypeOK, NEW n \in Nat, Faults(n)
    PROVE  /\ wakeFaults' \in 0..MaxWakeFaults
           /\ wakeFaults' = 0 => wakeFaults = 0 /\ n = 0
BY WakesAssumption DEF WakesTypeOK, Faults

LEMMA CostType ==
    ASSUME NEW ok \in BOOLEAN
    PROVE  Cost(ok) \in Nat /\ 1 + Cost(ok) \in Nat /\ 1 + Cost(ok) # 0 /\ (Cost(ok) = 0 => ok)
BY DEF Cost

LEMMA CostOk ==
    ASSUME WakesTypeOK, NEW ok \in BOOLEAN, Faults(Cost(ok))
    PROVE  /\ wakeFaults' \in 0..MaxWakeFaults
           /\ wakeFaults' = 0 => wakeFaults = 0 /\ ok
BY FaultsBound, CostType

LEMMA WakesBegin == WakesInit => WakesInv
<1> SUFFICES ASSUME WakesInit PROVE WakesInv
  OBVIOUS
<1>0. <<>> \in Seq(Work)
  OBVIOUS
<1>1. WakesTypeOK
  <2>1. wakeFaults \in 0..MaxWakeFaults /\ followups \in 0..MaxFollowups
    BY WakesAssumption DEF WakesInit
  <2>2. hostUp \in BOOLEAN
    BY DEF WakesInit
  <2> QED BY <1>0, <2>1, <2>2 DEF WakesInit, WakesTypeOK
<1>2. \A w : ~Waits(w) /\ ~Reporting(w)
  BY ItemsOfEmpty DEF WakesInit, Waits, Reporting
<1>3. GoneIsEmpty /\ LanesSeparate /\ Spotless /\ ExcusesCost
  BY <1>2, ItemsOfEmpty DEF WakesInit, GoneIsEmpty, LanesSeparate, Spotless, ExcusesCost
<1>4. \A w \in Work : WorkInv(w)
  BY <1>2 DEF WakesInit, WorkInv, DownForgets, NewIsUnknown, HeldOnce, ReportingIsCleared,
              FollowedIsMarked, RearmingIsAlone, NotForgotten, ToldIsCleared, Unreported
<1> QED BY <1>1, <1>3, <1>4 DEF WakesInv

\* A step that leaves the host and the deletion alone keeps what holds of the
\* work it does not touch.
LEMMA Others ==
    ASSUME WakesInv, hostUp' = hostUp, deletion' = deletion, NEW w,
           \A v \in Work \ {w} : Same(v)
    PROVE  /\ \A v \in Work \ {w} : WorkInv(v)'
           /\ (Alive' <=> Alive) /\ (agentGone' <=> agentGone)
BY Untouched DEF WakesInv, Alive, agentGone

LEMMA DispatchStep == ASSUME WakesInv, NEW w \in Work, Dispatch(w) PROVE WakesInv'
<1>1. PICK ok \in BOOLEAN :
        Faults(Cost(ok)) /\ markers' = Persisted(ok, w) /\ Lost(ok /\ ~agentGone, {w})
  BY DEF Dispatch
<1>2. /\ hostUp /\ work[w] = "new" /\ work' = [work EXCEPT ![w] = "running"]
      /\ watched' = watched \cup {w} /\ hostUp' = hostUp /\ deletion' = deletion
      /\ rearming' = rearming /\ completions' = completions /\ reviving' = reviving
      /\ followups' = followups /\ report' = report /\ leftover' = leftover
      /\ unresolved' = unresolved
  BY DEF Dispatch
<1>a. WakesTypeOK /\ WorkInv(w) /\ GoneIsEmpty /\ LanesSeparate /\ Spotless /\ ExcusesCost
  BY DEF WakesInv
<1>3. /\ \A v : (Waits(v)' <=> Waits(v)) /\ (Reporting(v)' <=> Reporting(v))
      /\ LanesSeparate'
  BY <1>2, <1>a, LanesUnchanged
<1>4. w \notin rearming /\ ~Waits(w) /\ ~Reporting(w) /\ report[w] = "none"
  BY <1>2, <1>a DEF WorkInv, NewIsUnknown
<1>5. /\ markers' = IF ok /\ ~agentGone THEN markers \cup {w} ELSE markers
      /\ excused' = IF ok /\ ~agentGone THEN excused ELSE excused \cup {w}
  BY <1>1 DEF Persisted, Lost
<1>6. wakeFaults' \in 0..MaxWakeFaults /\ (wakeFaults' = 0 => wakeFaults = 0 /\ ok)
  BY <1>1, <1>a, CostOk
<1>7. WakesTypeOK'
  BY <1>2, <1>5, <1>6, <1>a DEF WakesTypeOK
<1>8. \A v \in Work \ {w} : Same(v)
  BY <1>2, <1>3, <1>5, <1>a DEF Same, WakesTypeOK
<1>9. (\A v \in Work \ {w} : WorkInv(v)') /\ (Alive' <=> Alive) /\ (agentGone' <=> agentGone)
  BY <1>2, <1>8, Others
<1>10. work'[w] = "running" /\ report'[w] = "none" /\ w \in watched'
  BY <1>2, <1>4, <1>a DEF WakesTypeOK
<1>11. WorkInv(w)'
  BY <1>2, <1>3, <1>4, <1>5, <1>9, <1>10 DEF WorkInv, DownForgets, NewIsUnknown, HeldOnce,
     ReportingIsCleared, FollowedIsMarked, RearmingIsAlone, NotForgotten, ToldIsCleared, Unreported
<1>12. GoneIsEmpty'
  BY <1>2, <1>9, <1>a DEF GoneIsEmpty
<1>13. Spotless'
  BY <1>2, <1>3, <1>4, <1>6, <1>a DEF Spotless
<1>14. ExcusesCost'
  BY <1>2, <1>5, <1>6, <1>a DEF ExcusesCost, agentGone
<1> QED BY <1>3, <1>7, <1>9, <1>11, <1>12, <1>13, <1>14 DEF WakesInv

LEMMA FollowupStep == ASSUME WakesInv, NEW w \in Work, Followup(w) PROVE WakesInv'
<1>1. PICK ok \in BOOLEAN :
        /\ Faults(Cost(ok)) /\ markers' = Persisted(ok, w)
        /\ excused' = IF ok /\ ~agentGone THEN excused \ {w} ELSE excused \cup {w}
  BY DEF Followup
<1>2. /\ hostUp /\ work[w] # "new" /\ work' = [work EXCEPT ![w] = "running"]
      /\ watched' = watched \cup {w} /\ hostUp' = hostUp /\ deletion' = deletion
      /\ rearming' = rearming /\ completions' = completions /\ reviving' = reviving
      /\ followups' = followups + 1 /\ followups < MaxFollowups
      /\ report' = [report EXCEPT ![w] = "none"]
      /\ leftover' = leftover \cup ({w} \cap rearming) /\ unresolved' = unresolved \ {w}
      /\ KindOf[w] = "cloud"
  BY DEF Followup
<1>a. WakesTypeOK /\ WorkInv(w) /\ GoneIsEmpty /\ LanesSeparate /\ Spotless /\ ExcusesCost
  BY DEF WakesInv
<1>3. /\ \A v : (Waits(v)' <=> Waits(v)) /\ (Reporting(v)' <=> Reporting(v))
      /\ LanesSeparate'
  BY <1>2, <1>a, LanesUnchanged
<1>5. markers' = IF ok /\ ~agentGone THEN markers \cup {w} ELSE markers
  BY <1>1 DEF Persisted
<1>6. wakeFaults' \in 0..MaxWakeFaults
  BY <1>1, <1>a, CostOk
<1>b. followups' \in 0..MaxFollowups /\ followups' # 0
  BY <1>2, <1>a, WakesAssumption DEF WakesTypeOK
<1>7. WakesTypeOK'
  BY <1>1, <1>2, <1>5, <1>6, <1>a, <1>b DEF WakesTypeOK
<1>8. \A v \in Work \ {w} : Same(v)
  BY <1>1, <1>2, <1>3, <1>5, <1>a DEF Same, WakesTypeOK
<1>9. (\A v \in Work \ {w} : WorkInv(v)') /\ (Alive' <=> Alive) /\ (agentGone' <=> agentGone)
  BY <1>2, <1>8, Others
<1>10. work'[w] = "running" /\ report'[w] = "none" /\ w \in watched' /\ Again(w)'
  BY <1>2, <1>a, AgainForm DEF WakesTypeOK
<1>11. WorkInv(w)'
  BY <1>1, <1>2, <1>3, <1>5, <1>9, <1>10, <1>a DEF WorkInv, DownForgets, NewIsUnknown, HeldOnce,
     ReportingIsCleared, FollowedIsMarked, RearmingIsAlone, NotForgotten, ToldIsCleared, Unreported
<1>12. GoneIsEmpty'
  BY <1>2, <1>9, <1>a DEF GoneIsEmpty
<1>13. Spotless' /\ ExcusesCost'
  BY <1>b DEF Spotless, ExcusesCost
<1> QED BY <1>3, <1>7, <1>9, <1>11, <1>12, <1>13 DEF WakesInv

(***************************************************************************)
(* The completion of w is refused, waits with its marker on disk, or       *)
(* starts a revival.                                                       *)
(***************************************************************************)
LEMMA SettleStep == ASSUME WakesInv, NEW w \in Work, Settle(w) PROVE WakesInv'
<1>1. PICK ok \in BOOLEAN : Faults(Cost(ok)) /\ Complete(ok, w, markers, TRUE)
  BY DEF Settle
<1>2. /\ hostUp /\ w \in watched /\ work' = [work EXCEPT ![w] = "settled"]
      /\ watched' = watched \ {w} /\ hostUp' = hostUp /\ deletion' = deletion
      /\ rearming' = rearming /\ followups' = followups /\ report' = report
  BY DEF Settle
<1>a. WakesTypeOK /\ WorkInv(w) /\ GoneIsEmpty /\ LanesSeparate /\ Spotless /\ ExcusesCost /\ HeldOnce(w)
  BY DEF WakesInv, WorkInv
<1>b. markers \in SUBSET Work /\ work[w] # "new"
  BY <1>2, <1>a DEF WorkInv, NewIsUnknown, WakesTypeOK
<1>3. /\ completions' \in [RevivalLane -> Seq(Work)] /\ reviving' \in [RevivalLane -> Seq(Work)]
      /\ markers' \subseteq markers /\ unresolved' \subseteq Work
      /\ excused' \subseteq Work /\ leftover' \subseteq Work
      /\ LanesSeparate'
      /\ agentGone => completions' = completions /\ reviving' = reviving
      /\ Elsewhere(w, markers) /\ Handed(w, markers, TRUE)
      /\ ok /\ ~Waits(w) /\ ~agentGone =>
           excused' = excused /\ leftover' = leftover /\ unresolved' \subseteq unresolved
  BY <1>1, <1>a, <1>b, CompleteOutcome
<1>6. wakeFaults' \in 0..MaxWakeFaults /\ (wakeFaults' = 0 => wakeFaults = 0 /\ ok)
  BY <1>1, <1>a, CostOk
<1>7. WakesTypeOK'
  BY <1>2, <1>3, <1>6, <1>a DEF WakesTypeOK
<1>8. \A v \in Work \ {w} : Same(v)
  BY <1>2, <1>3, <1>a DEF Same, Elsewhere, WakesTypeOK
<1>9. (\A v \in Work \ {w} : WorkInv(v)') /\ (Alive' <=> Alive) /\ (agentGone' <=> agentGone)
  BY <1>2, <1>8, Others
<1>10. /\ work'[w] = "settled" /\ w \notin watched'
       /\ Again(w) /\ (Again(w)' <=> Waits(w)' \/ w \in unresolved')
  BY <1>2, <1>a, AgainForm DEF WakesTypeOK
<1>11. WorkInv(w)'
  BY <1>2, <1>3, <1>9, <1>10, <1>a, <1>b DEF Handed, WorkInv, DownForgets, NewIsUnknown, HeldOnce,
     ReportingIsCleared, FollowedIsMarked, RearmingIsAlone, NotForgotten, ToldIsCleared, Unreported
<1>12. GoneIsEmpty'
  BY <1>3, <1>9, <1>a DEF GoneIsEmpty
<1>13. Spotless'
  BY <1>2, <1>6, <1>8, <1>a DEF Spotless, Same, WakesTypeOK
<1>14. ExcusesCost'
  BY <1>2, <1>3, <1>6, <1>a DEF ExcusesCost, Spotless, agentGone
<1> QED BY <1>3, <1>7, <1>9, <1>11, <1>12, <1>13, <1>14 DEF WakesInv

LEMMA AbortStep == ASSUME WakesInv, NEW w \in Work, Abort(w) PROVE WakesInv'
<1>1. PICK ok \in BOOLEAN :
        Faults(Cost(ok)) /\ markers' = Cleared(ok, markers, {w}) /\ Left(ok, {w})
  BY DEF Abort
<1>2. /\ hostUp /\ w \in watched /\ work' = [work EXCEPT ![w] = "settled"]
      /\ watched' = watched \ {w} /\ report' = [report EXCEPT ![w] = "aborted"]
      /\ hostUp' = hostUp /\ deletion' = deletion /\ rearming' = rearming
      /\ completions' = completions /\ reviving' = reviving
      /\ followups' = followups /\ excused' = excused /\ unresolved' = unresolved
  BY DEF Abort
<1>a. WakesTypeOK /\ WorkInv(w) /\ GoneIsEmpty /\ LanesSeparate /\ Spotless /\ ExcusesCost
  BY DEF WakesInv
<1>b. work[w] # "new"
  BY <1>2, <1>a DEF WorkInv, NewIsUnknown
<1>3. /\ \A v : (Waits(v)' <=> Waits(v)) /\ (Reporting(v)' <=> Reporting(v))
      /\ LanesSeparate'
  BY <1>2, <1>a, LanesUnchanged
<1>5. /\ markers' = IF ok THEN markers \ {w} ELSE markers
      /\ leftover' = IF ok THEN leftover ELSE leftover \cup {w}
  BY <1>1 DEF Cleared, Left
<1>6. wakeFaults' \in 0..MaxWakeFaults /\ (wakeFaults' = 0 => wakeFaults = 0 /\ ok)
  BY <1>1, <1>a, CostOk
<1>7. WakesTypeOK'
  BY <1>2, <1>5, <1>6, <1>a DEF WakesTypeOK
<1>8. \A v \in Work \ {w} : Same(v)
  BY <1>2, <1>3, <1>5, <1>a DEF Same, WakesTypeOK
<1>9. (\A v \in Work \ {w} : WorkInv(v)') /\ (Alive' <=> Alive) /\ (agentGone' <=> agentGone)
  BY <1>2, <1>8, Others
<1>10. work'[w] = "settled" /\ report'[w] = "aborted" /\ w \notin watched'
  BY <1>2, <1>a DEF WakesTypeOK
<1>11. WorkInv(w)'
  BY <1>2, <1>3, <1>5, <1>9, <1>10, <1>a DEF WorkInv, DownForgets, NewIsUnknown, HeldOnce,
     ReportingIsCleared, FollowedIsMarked, RearmingIsAlone, NotForgotten, ToldIsCleared, Unreported
<1>12. GoneIsEmpty'
  BY <1>2, <1>9, <1>a DEF GoneIsEmpty
<1>13. Spotless'
  BY <1>2, <1>3, <1>6, <1>a DEF Spotless
<1>14. ExcusesCost'
  BY <1>2, <1>5, <1>6, <1>a DEF ExcusesCost
<1> QED BY <1>3, <1>7, <1>9, <1>11, <1>12, <1>13, <1>14 DEF WakesInv

(***************************************************************************)
(* A revival ends and the next takes the whole queue: what it reported had *)
(* no marker any more, unless it was asked for again, and what the next    *)
(* takes loses its own.                                                    *)
(***************************************************************************)
LEMMA RevivalEndsStep == ASSUME WakesInv, NEW l \in RevivalLane, RevivalEnds(l) PROVE WakesInv'
<1> DEFINE told == Items(reviving[l])
           taken == Items(completions[l])
           ended == {w \in told : ~Again(w)}
<1>a. WakesTypeOK /\ GoneIsEmpty /\ LanesSeparate /\ Spotless /\ ExcusesCost
  BY DEF WakesInv
<1>b. /\ completions \in [RevivalLane -> Seq(Work)] /\ reviving \in [RevivalLane -> Seq(Work)]
      /\ told \subseteq Work /\ taken \subseteq Work
      /\ completions[l] \in Seq(Work)
  BY <1>a, ItemsType DEF WakesTypeOK
<1>1. PICK ok \in BOOLEAN, outcome \in Outcome :
        /\ Faults(Cost(ok) + Cost(outcome = "delivered"))
        /\ report' = [w \in Work |-> IF w \in ended /\ outcome = "delivered"
                                     THEN "delivered" ELSE report[w]]
        /\ reviving' = [reviving EXCEPT ![l] = completions[l]]
        /\ completions' = [completions EXCEPT ![l] = SubSeq(@, Len(completions[l]) + 1, Len(@))]
        /\ markers' = Cleared(ok, markers, taken)
        /\ Left(ok, taken)
        /\ excused' = excused \cup (taken \cap watched)
                      \cup (IF outcome = "lost" THEN ended ELSE {})
  BY DEF RevivalEnds, NextBatch
<1>2. /\ hostUp' = hostUp /\ deletion' = deletion /\ work' = work /\ watched' = watched
      /\ rearming' = rearming /\ followups' = followups /\ unresolved' = unresolved /\ hostUp
  BY DEF RevivalEnds
<1>3. completions' = [completions EXCEPT ![l] = <<>>]
  BY <1>b, <1>1, RestIsEmpty
<1>4. /\ markers' = IF ok THEN markers \ taken ELSE markers
      /\ leftover' = IF ok THEN leftover ELSE leftover \cup taken
  BY <1>1 DEF Cleared, Left
<1>5. /\ \A v : Waits(v)' => Waits(v)
      /\ \A v \in taken : ~Waits(v)' /\ Waits(v)
      /\ \A v : v \notin taken => (Waits(v)' <=> Waits(v))
  <2>1. /\ completions'[l] = <<>> /\ Items(completions'[l]) = {}
        /\ \A k \in RevivalLane \ {l} : completions'[k] = completions[k]
    BY <1>b, <1>3, ItemsOfEmpty
  <2>2. \A k \in RevivalLane : \A v \in Items(completions[k]) : LaneOf(v) = k
    BY <1>a DEF LanesSeparate
  <2>3. \A v : Waits(v)' <=> \E k \in RevivalLane \ {l} : v \in Items(completions[k])
    BY <2>1 DEF Waits
  <2>4. \A v : Waits(v) <=> v \in taken \/ \E k \in RevivalLane \ {l} : v \in Items(completions[k])
    BY DEF Waits
  <2> QED BY <2>2, <2>3, <2>4
<1>6. /\ \A v : Reporting(v)' => Reporting(v) \/ v \in taken
      /\ \A v : Reporting(v) /\ v \notin told => Reporting(v)'
      /\ \A v \in taken : Reporting(v)'
      /\ \A v \in told : Reporting(v)
  BY <1>b, <1>1 DEF Reporting
<1>7. /\ outcome \in {"delivered", "lost"}
      /\ wakeFaults' \in 0..MaxWakeFaults
      /\ wakeFaults' = 0 => wakeFaults = 0 /\ ok /\ outcome = "delivered"
  <2>1. Cost(ok) \in Nat /\ Cost(outcome = "delivered") \in Nat
        /\ (Cost(ok) = 0 => ok) /\ (Cost(outcome = "delivered") = 0 => outcome = "delivered")
    BY CostType
  <2>2. Cost(ok) + Cost(outcome = "delivered") \in Nat
        /\ (Cost(ok) + Cost(outcome = "delivered") = 0 => ok /\ outcome = "delivered")
    BY <2>1
  <2> QED BY <1>1, <1>a, <2>2, FaultsBound DEF Outcome
<1>8. LanesSeparate'
  <2>1. Items(reviving[l]) \subseteq told /\ Items(<<>>) = {}
    BY ItemsOfEmpty
  <2> QED BY <1>a, <1>b, <1>1, <1>3, <2>1 DEF LanesSeparate
<1> HIDE DEF told, taken
<1>c. ended \subseteq told /\ \A v \in told : v \in ended <=> ~Again(v)
  OBVIOUS
<1> HIDE DEF ended
<1>9. /\ \A v \in Work : report'[v] = IF v \in ended /\ outcome = "delivered" THEN "delivered" ELSE report[v]
      /\ report' \in [Work -> {"none", "delivered", "aborted"}]
  BY <1>a, <1>1 DEF WakesTypeOK
<1>10. WakesTypeOK'
  <2>1. completions' \in [RevivalLane -> Seq(Work)] /\ reviving' \in [RevivalLane -> Seq(Work)]
    <3>1. <<>> \in Seq(Work)
      OBVIOUS
    <3> QED BY <1>b, <1>1, <1>3, <3>1
  <2>2. markers' \subseteq Work /\ leftover' \subseteq Work /\ excused' \subseteq Work
    BY <1>a, <1>b, <1>c, <1>1, <1>4 DEF WakesTypeOK
  <2> QED BY <1>a, <1>2, <1>7, <1>9, <2>1, <2>2 DEF WakesTypeOK
<1>11. (Alive' <=> Alive) /\ (agentGone' <=> agentGone)
  BY <1>2 DEF Alive, agentGone
<1>12. ASSUME NEW v \in Work PROVE WorkInv(v)'
  <2>1. WorkInv(v)
    BY DEF WakesInv
  <2>2. /\ v \in ended => Reporting(v) /\ ~Again(v) /\ v \in told
        /\ v \in told /\ v \notin ended => Again(v)
    BY <1>6, <1>c
  <2>3. /\ Again(v) <=> v \in watched \/ v \in unresolved \/ Waits(v)
        /\ Again(v)' <=> v \in watched \/ v \in unresolved \/ Waits(v)'
    BY <1>2, AgainForm
  <2>4. /\ v \in excused => v \in excused'
        /\ v \in taken /\ v \in watched => v \in excused'
        /\ outcome = "lost" /\ v \in ended => v \in excused'
    BY <1>1
  <2>5. v \in taken => v \notin unresolved
    BY <1>5, <2>1 DEF WorkInv, HeldOnce
  <2>6. /\ v \in ended => v \notin taken
        /\ Unreported(v)' => Unreported(v) /\ v \notin ended
        /\ report'[v] = "none" => report[v] = "none"
        /\ v \notin ended => report'[v] = report[v]
    BY <1>2, <1>5, <1>7, <1>9, <2>2, <2>3, <2>4 DEF Unreported
  <2>7. DownForgets(v)' /\ NewIsUnknown(v)' /\ HeldOnce(v)'
    BY <1>2, <1>4, <1>5, <1>6, <2>1, <2>2, <2>6 DEF WorkInv, DownForgets, NewIsUnknown, HeldOnce
  <2>8. ReportingIsCleared(v)'
    BY <1>4, <1>5, <1>6, <1>11, <2>1, <2>3 DEF WorkInv, ReportingIsCleared
  <2>9. FollowedIsMarked(v)'
    <3>1. CASE v \in taken
      <4>1. Unreported(v)' => v \notin watched
        BY <2>4, <3>1 DEF Unreported
      <4> QED BY <1>5, <2>3, <2>5, <3>1, <4>1 DEF FollowedIsMarked
    <3>2. CASE v \notin taken
      BY <1>4, <1>5, <1>6, <1>11, <2>1, <2>3, <2>6, <3>2 DEF WorkInv, FollowedIsMarked
    <3> QED BY <3>1, <3>2
  <2>10. RearmingIsAlone(v)'
    BY <1>2, <1>4, <1>5, <1>6, <1>11, <2>1, <2>2, <2>6 DEF WorkInv, RearmingIsAlone
  <2>11. NotForgotten(v)'
    BY <1>2, <1>4, <1>6, <1>11, <2>1, <2>2, <2>6 DEF WorkInv, NotForgotten, FollowedIsMarked
  <2>12. ToldIsCleared(v)'
    BY <1>4, <1>11, <2>1, <2>2, <2>6 DEF WorkInv, ToldIsCleared, ReportingIsCleared
  <2> QED BY <2>7, <2>8, <2>9, <2>10, <2>11, <2>12 DEF WorkInv
<1>13. GoneIsEmpty'
  BY <1>a, <1>b, <1>3, <1>11 DEF GoneIsEmpty
<1>14. Spotless'
  BY <1>2, <1>5, <1>7, <1>a DEF Spotless
<1>15. ExcusesCost'
  <2> SUFFICES ASSUME wakeFaults' = 0, followups' = 0, deletion' = "none"
               PROVE  excused' = {} /\ leftover' = {} /\ unresolved' = {}
    BY DEF ExcusesCost
  <2>1. ok /\ outcome = "delivered" /\ wakeFaults = 0 /\ followups = 0 /\ deletion = "none"
    BY <1>2, <1>7
  <2>2. excused = {} /\ leftover = {} /\ unresolved = {} /\ \A v \in watched : ~Waits(v)
    BY <1>a, <2>1 DEF ExcusesCost, Spotless
  <2>3. taken \cap watched = {}
    BY <1>5, <2>2
  <2> QED BY <1>1, <1>2, <1>4, <2>1, <2>2, <2>3
<1> QED BY <1>8, <1>10, <1>12, <1>13, <1>14, <1>15 DEF WakesInv

(***************************************************************************)
(* A crash takes the memory; what only memory held is excused.             *)
(***************************************************************************)
LEMMA HostCrashStep == ASSUME WakesInv, HostCrash PROVE WakesInv'
<1>1. /\ hostUp' = FALSE /\ watched' = {} /\ rearming' = {} /\ unresolved' = {}
      /\ markers' = markers /\ followups' = followups
      /\ report' = report /\ leftover' = leftover /\ hostUp
      /\ deletion' = IF Alive THEN "none" ELSE "done"
      /\ completions' = [k \in RevivalLane |-> <<>>] /\ reviving' = [k \in RevivalLane |-> <<>>]
      /\ excused' = excused \cup
            ((rearming \cup UNION {Items(reviving[k]) : k \in RevivalLane}) \ markers)
  BY DEF HostCrash
<1>a. WakesTypeOK
  BY DEF WakesInv
<1>2. \A v : ~Waits(v)' /\ ~Reporting(v)'
  BY <1>1, ItemsOfEmpty DEF Waits, Reporting
<1>3. /\ work' \in [Work -> {"new", "running", "dead", "outlived", "settled"}]
      /\ \A v \in Work : work'[v] = "new" <=> work[v] = "new"
  BY <1>a DEF HostCrash, WakesTypeOK
<1>4. /\ excused \subseteq excused' /\ excused' \subseteq Work
      /\ \A v \in Work : v \in rearming \/ Reporting(v) => v \in excused' \/ v \in markers
  <2>1. \A k \in RevivalLane : Items(reviving[k]) \subseteq Work
    BY <1>a, ItemsType DEF WakesTypeOK
  <2> QED BY <1>1, <1>a, <2>1 DEF WakesTypeOK, Reporting
<1>5. wakeFaults' \in 0..MaxWakeFaults /\ wakeFaults' # 0
  BY <1>a, FaultsBound DEF HostCrash
<1>6. /\ deletion' \in {"none", "asked", "erased", "done"} /\ (Alive' <=> Alive)
  BY <1>1 DEF Alive
<1>7. WakesTypeOK'
  <2>1. completions' \in [RevivalLane -> Seq(Work)] /\ reviving' \in [RevivalLane -> Seq(Work)]
    <3>1. <<>> \in Seq(Work)
      OBVIOUS
    <3> QED BY <1>1, <3>1
  <2>2. hostUp' \in BOOLEAN
    BY <1>1
  <2> QED BY <1>1, <1>3, <1>4, <1>5, <1>6, <1>a, <2>1, <2>2 DEF WakesTypeOK
<1>8. ASSUME NEW v \in Work PROVE WorkInv(v)'
  <2>1. WorkInv(v)
    BY DEF WakesInv
  <2>2. Unreported(v)' => Unreported(v)
    BY <1>1, <1>3, <1>4 DEF Unreported
  <2>3. NotForgotten(v)'
    <3>1. Unreported(v)' => v \notin excused'
      BY DEF Unreported
    <3> QED BY <1>1, <1>4, <1>6, <2>1, <2>2, <3>1 DEF WorkInv, NotForgotten
  <2> QED BY <1>1, <1>2, <1>3, <1>6, <2>1, <2>3 DEF WorkInv, DownForgets, NewIsUnknown, HeldOnce,
             ReportingIsCleared, FollowedIsMarked, RearmingIsAlone, ToldIsCleared
<1>9. GoneIsEmpty' /\ LanesSeparate'
  BY <1>1, ItemsOfEmpty DEF GoneIsEmpty, LanesSeparate
<1>10. Spotless' /\ ExcusesCost'
  BY <1>5 DEF Spotless, ExcusesCost
<1> QED BY <1>7, <1>8, <1>9, <1>10 DEF WakesInv

(***************************************************************************)
(* A restart moves every marker to the re-armings, except those it prunes. *)
(***************************************************************************)
LEMMA BootAndRearmStep == ASSUME WakesInv, BootAndRearm PROVE WakesInv'
<1>1. PICK ok \in BOOLEAN, stale \in SUBSET markers :
        /\ Faults(Cost(ok) + Cost(stale = {}))
        /\ markers' = IF agentGone THEN markers \ stale ELSE Cleared(ok, markers, markers)
        /\ rearming' = IF agentGone THEN {} ELSE markers \ stale
        /\ excused' = excused \cup stale
        /\ Left(ok, markers)
  BY DEF BootAndRearm
<1>2. /\ ~hostUp /\ hostUp' = TRUE /\ deletion' = deletion /\ work' = work /\ watched' = watched
      /\ completions' = completions /\ reviving' = reviving /\ followups' = followups
      /\ report' = report /\ unresolved' = unresolved
  BY DEF BootAndRearm
<1>a. WakesTypeOK /\ GoneIsEmpty /\ LanesSeparate /\ Spotless
  BY DEF WakesInv
<1>3. /\ \A v : (Waits(v)' <=> Waits(v)) /\ (Reporting(v)' <=> Reporting(v))
      /\ LanesSeparate'
  BY <1>2, <1>a, LanesUnchanged
<1>4. /\ markers' \subseteq markers /\ rearming' \subseteq markers
      /\ leftover \subseteq leftover' /\ leftover' \subseteq leftover \cup markers
      /\ ~agentGone => rearming' = markers \ stale
      /\ agentGone => markers' = markers \ stale
  BY <1>1 DEF Cleared, Left
<1>5. wakeFaults' \in 0..MaxWakeFaults /\ (wakeFaults' = 0 => wakeFaults = 0)
  <2>1. Cost(ok) + Cost(stale = {}) \in Nat
    BY DEF Cost
  <2> QED BY <1>1, <1>a, <2>1, FaultsBound
<1>6. WakesTypeOK'
  <2>1. hostUp' \in BOOLEAN
    BY <1>2
  <2> QED BY <1>1, <1>2, <1>4, <1>5, <1>a, <2>1 DEF WakesTypeOK
<1>7. (Alive' <=> Alive) /\ (agentGone' <=> agentGone)
  BY <1>2 DEF Alive, agentGone
<1>8. ASSUME NEW v \in Work PROVE WorkInv(v)'
  <2>1. WorkInv(v)
    BY DEF WakesInv
  <2>2. v \notin watched /\ ~Waits(v) /\ ~Reporting(v)
    BY <1>2, <2>1 DEF WorkInv, DownForgets
  <2>3. NotForgotten(v)'
    <3>1. Unreported(v)' => Unreported(v) /\ v \notin stale
      BY <1>1, <1>2 DEF Unreported
    <3> QED BY <1>2, <1>4, <1>7, <2>1, <2>2, <3>1 DEF WorkInv, NotForgotten
  <2>4. ToldIsCleared(v)' /\ RearmingIsAlone(v)'
    BY <1>2, <1>3, <1>4, <1>7, <2>1, <2>2 DEF WorkInv, ToldIsCleared, RearmingIsAlone
  <2> QED BY <1>2, <1>3, <1>4, <2>1, <2>2, <2>3, <2>4 DEF WorkInv, DownForgets, NewIsUnknown, HeldOnce,
             ReportingIsCleared, FollowedIsMarked
<1>9. GoneIsEmpty'
  BY <1>2, <1>7, <1>a DEF GoneIsEmpty
<1>10. Spotless' /\ ExcusesCost'
  BY <1>2, <1>5, <1>a DEF Spotless, ExcusesCost
<1> QED BY <1>3, <1>6, <1>8, <1>9, <1>10 DEF WakesInv

\* report("rearm_failed") puts the marker back.
LEMMA RearmFailsStep == ASSUME WakesInv, NEW w \in Work, RearmFails(w) PROVE WakesInv'
<1>1. PICK ok \in BOOLEAN :
        Faults(1 + Cost(ok)) /\ markers' = Remarked(ok, w) /\ Lost(ok, {w})
  BY DEF RearmFails
<1>2. /\ hostUp /\ w \in rearming /\ rearming' = rearming \ {w}
      /\ hostUp' = hostUp /\ deletion' = deletion /\ work' = work /\ watched' = watched
      /\ completions' = completions /\ reviving' = reviving /\ followups' = followups
      /\ report' = report /\ leftover' = leftover
      /\ unresolved' = IF Again(w) THEN unresolved ELSE unresolved \cup {w}
  BY DEF RearmFails
<1>a. WakesTypeOK /\ WorkInv(w) /\ GoneIsEmpty /\ LanesSeparate
  BY DEF WakesInv
<1>b. work[w] # "new"
  BY <1>2, <1>a DEF WorkInv, NewIsUnknown
<1>3. /\ \A v : (Waits(v)' <=> Waits(v)) /\ (Reporting(v)' <=> Reporting(v))
      /\ LanesSeparate'
  BY <1>2, <1>a, LanesUnchanged
<1>5. /\ markers' = IF ok THEN markers \cup {w} ELSE markers
      /\ excused' = IF ok THEN excused ELSE excused \cup {w}
  BY <1>1 DEF Remarked, Lost
<1>6. wakeFaults' \in 0..MaxWakeFaults /\ wakeFaults' # 0
  BY <1>1, <1>a, CostType, FaultsBound
<1>7. WakesTypeOK'
  BY <1>2, <1>5, <1>6, <1>a DEF WakesTypeOK
<1>8. \A v \in Work \ {w} : Same(v)
  BY <1>2, <1>3, <1>5, <1>a DEF Same, WakesTypeOK
<1>9. (\A v \in Work \ {w} : WorkInv(v)') /\ (Alive' <=> Alive) /\ (agentGone' <=> agentGone)
  BY <1>2, <1>8, Others
<1>10. Again(w)' /\ (Waits(w) => w \notin unresolved') /\ w \notin rearming'
  BY <1>2, <1>3, <1>a, AgainForm DEF WorkInv, HeldOnce
<1>11. WorkInv(w)'
  BY <1>2, <1>3, <1>5, <1>9, <1>10, <1>a, <1>b DEF WorkInv, DownForgets, NewIsUnknown, HeldOnce,
     ReportingIsCleared, FollowedIsMarked, RearmingIsAlone, NotForgotten, ToldIsCleared, Unreported
<1>12. GoneIsEmpty'
  BY <1>2, <1>9, <1>a DEF GoneIsEmpty
<1>13. Spotless' /\ ExcusesCost'
  BY <1>6 DEF Spotless, ExcusesCost
<1> QED BY <1>3, <1>7, <1>9, <1>11, <1>12, <1>13 DEF WakesInv

LEMMA RearmWatchStep == ASSUME WakesInv, NEW w \in Work, RearmWatch(w) PROVE WakesInv'
<1>1. PICK ok \in BOOLEAN :
        Faults(Cost(ok)) /\ markers' = Persisted(ok, w) /\ Lost(ok /\ ~agentGone, {w})
  BY DEF RearmWatch
<1>2. /\ hostUp /\ w \in rearming /\ rearming' = rearming \ {w} /\ watched' = watched \cup {w}
      /\ hostUp' = hostUp /\ deletion' = deletion /\ work' = work
      /\ completions' = completions /\ reviving' = reviving /\ followups' = followups
      /\ report' = report /\ leftover' = leftover /\ unresolved' = unresolved
  BY DEF RearmWatch
<1>a. WakesTypeOK /\ WorkInv(w) /\ GoneIsEmpty /\ LanesSeparate /\ Spotless
  BY DEF WakesInv
<1>b. work[w] # "new"
  BY <1>2, <1>a DEF WorkInv, NewIsUnknown
<1>3. /\ \A v : (Waits(v)' <=> Waits(v)) /\ (Reporting(v)' <=> Reporting(v))
      /\ LanesSeparate'
  BY <1>2, <1>a, LanesUnchanged
<1>5. /\ markers' = IF ok /\ ~agentGone THEN markers \cup {w} ELSE markers
      /\ excused' = IF ok /\ ~agentGone THEN excused ELSE excused \cup {w}
  BY <1>1 DEF Persisted, Lost
<1>6. wakeFaults' \in 0..MaxWakeFaults /\ (wakeFaults' = 0 => wakeFaults = 0)
  BY <1>1, <1>a, CostOk
<1>7. WakesTypeOK'
  BY <1>2, <1>5, <1>6, <1>a DEF WakesTypeOK
<1>8. \A v \in Work \ {w} : Same(v)
  BY <1>2, <1>3, <1>5, <1>a DEF Same, WakesTypeOK
<1>9. (\A v \in Work \ {w} : WorkInv(v)') /\ (Alive' <=> Alive) /\ (agentGone' <=> agentGone)
  BY <1>2, <1>8, Others
<1>10. Again(w)' /\ w \notin rearming'
  BY <1>2, AgainForm
<1>11. WorkInv(w)'
  BY <1>2, <1>3, <1>5, <1>9, <1>10, <1>a, <1>b DEF WorkInv, DownForgets, NewIsUnknown, HeldOnce,
     ReportingIsCleared, FollowedIsMarked, RearmingIsAlone, NotForgotten, ToldIsCleared, Unreported
<1>12. GoneIsEmpty'
  BY <1>2, <1>9, <1>a DEF GoneIsEmpty
\* nothing is re-armed without a crash
<1>13. Spotless' /\ ExcusesCost'
  BY <1>2, <1>6, <1>a DEF Spotless, ExcusesCost
<1> QED BY <1>3, <1>7, <1>9, <1>11, <1>12, <1>13 DEF WakesInv

(***************************************************************************)
(* A subagent that died with the host: its marker is written again before  *)
(* its completion is handed over, or refused for a deleted agent.          *)
(***************************************************************************)
LEMMA RearmLostStep == ASSUME WakesInv, NEW w \in Work, RearmLost(w) PROVE WakesInv'
<1>1. PICK ok \in BOOLEAN :
        Faults(Cost(ok)) /\ Complete(ok, w, Persisted(ok, w), ok /\ ~agentGone)
  BY DEF RearmLost
<1> DEFINE M == Persisted(ok, w)
           persisted == ok /\ ~agentGone
<1>2. /\ hostUp /\ w \in rearming /\ KindOf[w] = "subagent" /\ rearming' = rearming \ {w}
      /\ hostUp' = hostUp /\ deletion' = deletion /\ work' = work /\ watched' = watched
      /\ followups' = followups /\ report' = report
  BY DEF RearmLost
<1>a. WakesTypeOK /\ WorkInv(w) /\ GoneIsEmpty /\ LanesSeparate /\ Spotless /\ HeldOnce(w)
  BY DEF WakesInv, WorkInv
<1>b. work[w] # "new" /\ w \notin watched
  BY <1>2, <1>a DEF WorkInv, NewIsUnknown, HeldOnce
<1>c. /\ M \in SUBSET Work /\ persisted \in BOOLEAN
      /\ M = IF persisted THEN markers \cup {w} ELSE markers
      /\ Complete(ok, w, M, persisted)
  BY <1>1, <1>a DEF Persisted, WakesTypeOK
<1> HIDE DEF M, persisted
<1>3. /\ completions' \in [RevivalLane -> Seq(Work)] /\ reviving' \in [RevivalLane -> Seq(Work)]
      /\ markers' \subseteq M /\ unresolved' \subseteq Work
      /\ excused' \subseteq Work /\ leftover' \subseteq Work
      /\ LanesSeparate'
      /\ agentGone => completions' = completions /\ reviving' = reviving
      /\ Elsewhere(w, M) /\ Handed(w, M, persisted)
  BY <1>a, <1>c, CompleteOutcome
<1>6. wakeFaults' \in 0..MaxWakeFaults /\ (wakeFaults' = 0 => wakeFaults = 0)
  BY <1>1, <1>a, CostOk
<1>7. WakesTypeOK'
  BY <1>2, <1>3, <1>6, <1>a, <1>c DEF WakesTypeOK
<1>8. \A v \in Work \ {w} : Same(v)
  BY <1>2, <1>3, <1>a, <1>c DEF Same, Elsewhere, WakesTypeOK
<1>9. (\A v \in Work \ {w} : WorkInv(v)') /\ (Alive' <=> Alive) /\ (agentGone' <=> agentGone)
  BY <1>2, <1>8, Others
<1>10. /\ w \notin watched' /\ w \notin rearming'
       /\ (Again(w)' <=> Waits(w)' \/ w \in unresolved')
  BY <1>2, <1>b, AgainForm
<1>d. /\ w \in M \/ w \in excused'
      /\ w \notin leftover => (~Reporting(w) /\ report[w] = "none") \/ ~Alive
  BY <1>2, <1>3, <1>a, <1>c DEF Handed, WorkInv, RearmingIsAlone
<1>e. ToldIsCleared(w)
  BY <1>a DEF WorkInv
<1>11. WorkInv(w)'
  BY <1>2, <1>3, <1>9, <1>10, <1>b, <1>c, <1>d, <1>e DEF Handed, WorkInv, DownForgets, NewIsUnknown,
     HeldOnce, ReportingIsCleared, FollowedIsMarked, RearmingIsAlone, NotForgotten, ToldIsCleared,
     Unreported
<1>12. GoneIsEmpty'
  BY <1>3, <1>9, <1>a DEF GoneIsEmpty
<1>13. Spotless' /\ ExcusesCost'
  BY <1>2, <1>6, <1>a DEF Spotless, ExcusesCost
<1> QED BY <1>3, <1>7, <1>9, <1>11, <1>12, <1>13 DEF WakesInv

\* What waited in the dropped queues, and the shells no longer watched, keep
\* their markers for the next restart.
LEMMA WakesDeleteStep == ASSUME WakesInv, WakesDeleteAgent PROVE WakesInv'
<1>1. /\ deletion = "none" /\ deletion' = "asked" /\ hostUp' = hostUp /\ hostUp /\ work' = work
      /\ rearming' = rearming /\ reviving' = reviving /\ markers' = markers /\ wakeFaults' = wakeFaults
      /\ followups' = followups /\ report' = report /\ excused' = excused /\ leftover' = leftover
      /\ completions' = [k \in RevivalLane |-> <<>>]
      /\ watched' \subseteq watched
      /\ unresolved' = unresolved \cup (watched \ watched')
                       \cup UNION {Items(completions[k]) : k \in RevivalLane}
  BY DEF WakesDeleteAgent
<1>a. WakesTypeOK /\ LanesSeparate /\ Spotless
  BY DEF WakesInv
<1>2. \A v : /\ ~Waits(v)' /\ (Reporting(v)' <=> Reporting(v))
             /\ v \in unresolved' <=> v \in unresolved \/ (v \in watched /\ v \notin watched') \/ Waits(v)
  BY <1>1, ItemsOfEmpty DEF Waits, Reporting
<1>3. WakesTypeOK'
  <2>1. completions' \in [RevivalLane -> Seq(Work)]
    <3>1. <<>> \in Seq(Work)
      OBVIOUS
    <3> QED BY <1>1, <3>1
  <2>2. unresolved' \subseteq Work
    <3>1. \A k \in RevivalLane : Items(completions[k]) \subseteq Work
      BY <1>a, ItemsType DEF WakesTypeOK
    <3> QED BY <1>1, <1>a, <3>1 DEF WakesTypeOK
  <2> QED BY <1>1, <1>a, <2>1, <2>2 DEF WakesTypeOK
<1>4. Alive /\ Alive' /\ agentGone'
  BY <1>1 DEF Alive, agentGone
<1>5. ASSUME NEW v \in Work PROVE WorkInv(v)'
  <2>1. WorkInv(v)
    BY DEF WakesInv
  <2>2. Again(v)' <=> Again(v)
    BY <1>1, <1>2, AgainForm
  <2>3. Unreported(v)' <=> Unreported(v)
    BY <1>1 DEF Unreported
  <2> QED BY <1>1, <1>2, <1>4, <2>1, <2>2, <2>3 DEF WorkInv, DownForgets, NewIsUnknown, HeldOnce,
             ReportingIsCleared, FollowedIsMarked, RearmingIsAlone, NotForgotten, ToldIsCleared
<1>6. GoneIsEmpty' /\ LanesSeparate'
  BY <1>1, <1>a, ItemsOfEmpty DEF GoneIsEmpty, LanesSeparate
<1>7. Spotless' /\ ExcusesCost'
  BY <1>1, <1>2, <1>a DEF Spotless, ExcusesCost
<1> QED BY <1>3, <1>5, <1>6, <1>7 DEF WakesInv

\* A step of the deletion that leaves the work alone: an agent that was alive
\* afterwards was alive before.
LEMMA DeletionStep ==
    ASSUME WakesInv, UNCHANGED <<hostUp, work, memory, followups, wakesHistory>>,
           deletion' \in {"none", "asked", "erased", "done"}, Alive' => Alive,
           wakeFaults' \in 0..MaxWakeFaults, wakeFaults' = 0 => wakeFaults = 0,
           markers' \subseteq markers, Alive' => markers' = markers,
           agentGone' => agentGone, deletion' = "none" /\ wakeFaults' = 0 => deletion = "none"
    PROVE  WakesInv'
<1>1. /\ hostUp' = hostUp /\ work' = work /\ watched' = watched /\ rearming' = rearming
      /\ completions' = completions /\ reviving' = reviving /\ followups' = followups
      /\ report' = report /\ excused' = excused /\ leftover' = leftover /\ unresolved' = unresolved
  BY DEF memory, wakesHistory
<1>a. WakesTypeOK /\ GoneIsEmpty /\ LanesSeparate /\ Spotless /\ ExcusesCost
  BY DEF WakesInv
<1>2. /\ \A v : (Waits(v)' <=> Waits(v)) /\ (Reporting(v)' <=> Reporting(v))
      /\ LanesSeparate'
  BY <1>1, <1>a, LanesUnchanged
<1>3. WakesTypeOK'
  BY <1>1, <1>a DEF WakesTypeOK
<1>4. ASSUME NEW v \in Work PROVE WorkInv(v)'
  <2>1. WorkInv(v)
    BY DEF WakesInv
  <2>2. Again(v)' <=> Again(v)
    BY <1>1, <1>2, AgainForm
  <2>3. Unreported(v)' <=> Unreported(v)
    BY <1>1 DEF Unreported
  <2> QED BY <1>1, <1>2, <2>1, <2>2, <2>3 DEF WorkInv, DownForgets, NewIsUnknown, HeldOnce,
             ReportingIsCleared, FollowedIsMarked, RearmingIsAlone, NotForgotten, ToldIsCleared
<1>5. GoneIsEmpty'
  BY <1>1, <1>a DEF GoneIsEmpty
<1>6. Spotless'
  BY <1>1, <1>2, <1>a DEF Spotless
<1>7. ExcusesCost'
  BY <1>1, <1>a DEF ExcusesCost
<1> QED BY <1>2, <1>3, <1>4, <1>5, <1>6, <1>7 DEF WakesInv

LEMMA WakesDeletionFailsStep == ASSUME WakesInv, WakesDeletionFails PROVE WakesInv'
<1>1. /\ UNCHANGED <<hostUp, work, memory, followups, wakesHistory>> /\ markers' = markers
      /\ deletion = "asked" /\ deletion' = "none" /\ Faults(1)
  BY DEF WakesDeletionFails
<1>2. wakeFaults' \in 0..MaxWakeFaults /\ wakeFaults' # 0
  BY <1>1, FaultsBound DEF WakesInv
<1>3. Alive /\ ~agentGone'
  BY <1>1 DEF Alive, agentGone
<1> QED BY <1>1, <1>2, <1>3, DeletionStep

LEMMA EraseAgentStep == ASSUME WakesInv, EraseAgent PROVE WakesInv'
<1>1. /\ UNCHANGED <<hostUp, work, memory, followups, wakesHistory>> /\ markers' = markers
      /\ deletion = "asked" /\ deletion' = "erased" /\ wakeFaults' = wakeFaults
  BY DEF EraseAgent
<1>2. wakeFaults' \in 0..MaxWakeFaults
  BY <1>1 DEF WakesInv, WakesTypeOK
<1>3. ~Alive' /\ agentGone
  BY <1>1 DEF Alive, agentGone
<1> QED BY <1>1, <1>2, <1>3, DeletionStep

LEMMA ClearAgentStep == ASSUME WakesInv, clearAgent PROVE WakesInv'
<1>1. PICK ok \in BOOLEAN : Faults(Cost(ok)) /\ markers' = Cleared(ok, markers, markers)
  BY DEF clearAgent
<1>2. /\ UNCHANGED <<hostUp, work, memory, followups, wakesHistory>> /\ markers' \subseteq markers
      /\ deletion = "erased" /\ deletion' = "done"
  BY <1>1 DEF clearAgent, Cleared
<1>3. wakeFaults' \in 0..MaxWakeFaults /\ (wakeFaults' = 0 => wakeFaults = 0)
  BY <1>1, CostOk DEF WakesInv
<1>4. ~Alive' /\ agentGone
  BY <1>2 DEF Alive, agentGone
<1> QED BY <1>2, <1>3, <1>4, DeletionStep

LEMMA WakesStutter == ASSUME WakesInv, UNCHANGED wakesVars PROVE WakesInv'
<1>1. /\ UNCHANGED <<hostUp, work, memory, followups, wakesHistory>> /\ markers' = markers
      /\ deletion' = deletion /\ wakeFaults' = wakeFaults
  BY DEF wakesVars
<1>2. wakeFaults' \in 0..MaxWakeFaults /\ deletion' \in {"none", "asked", "erased", "done"}
  BY <1>1 DEF WakesInv, WakesTypeOK
<1>3. (Alive' <=> Alive) /\ (agentGone' <=> agentGone)
  BY <1>1 DEF Alive, agentGone
<1> QED BY <1>1, <1>2, <1>3, DeletionStep

(***************************************************************************)
(* The inductive invariant of the pending wakes.                           *)
(***************************************************************************)
THEOREM WakesInvariant == WakesSpec => []WakesInv
<1>1. WakesInit => WakesInv
  BY WakesBegin
<1>2. WakesInv /\ [WakesNext]_wakesVars => WakesInv'
  BY DispatchStep, FollowupStep, SettleStep, AbortStep, RevivalEndsStep, HostCrashStep, BootAndRearmStep,
     RearmFailsStep, RearmWatchStep, RearmLostStep, WakesDeleteStep, WakesDeletionFailsStep,
     EraseAgentStep, ClearAgentStep, WakesStutter DEF WakesNext
<1> QED BY <1>1, <1>2, PTL DEF WakesSpec

(***************************************************************************)
(* The markers on disk are right for a crash at any point and for a        *)
(* deletion that fails: what the agent has not heard of has one unless a   *)
(* known fault cost it, what it was told of has none unless a known fault  *)
(* left it, and without faults nothing is excused.                         *)
(***************************************************************************)
THEOREM MarkersAlwaysRight == WakesSpec => []MarkersAreRight
<1>1. WakesInv => MarkersAreRight
  BY WorkIsRight DEF WakesInv, MarkersAreRight
<1> QED BY <1>1, WakesInvariant, PTL

(***************************************************************************)
(* From the moment a deletion is asked for no lane takes up a completion:  *)
(* those of watches that still end and of re-armings whose session was     *)
(* being resolved are refused, and nothing waits in the queues.            *)
(***************************************************************************)
THEOREM GoneAlwaysQuiet == WakesSpec => GoneStaysQuiet
<1>1. WakesInv /\ [WakesNext]_wakesVars =>
        [agentGone => \A l \in RevivalLane : reviving'[l] \in {reviving[l], <<>>}]_wakesVars
  <2> SUFFICES ASSUME WakesInv, [WakesNext]_wakesVars, agentGone, NEW l \in RevivalLane
               PROVE  reviving'[l] \in {reviving[l], <<>>}
    OBVIOUS
  <2>1. /\ WakesTypeOK /\ LanesSeparate /\ GoneIsEmpty /\ \A w \in Work : HeldOnce(w)
        /\ reviving \in [RevivalLane -> Seq(Work)] /\ completions[l] = <<>> /\ markers \in SUBSET Work
    BY DEF WakesInv, WorkInv, WakesTypeOK, GoneIsEmpty
  <2>2. ASSUME NEW w \in Work, Settle(w) \/ RearmLost(w) PROVE reviving' = reviving
    <3>1. PICK ok \in BOOLEAN, M \in SUBSET Work, persisted \in BOOLEAN : Complete(ok, w, M, persisted)
      <4>1. ASSUME NEW ok \in BOOLEAN
            PROVE  Persisted(ok, w) \in SUBSET Work /\ (ok /\ ~agentGone) \in BOOLEAN
        BY <2>1 DEF Persisted
      <4> QED BY <2>1, <2>2, <4>1 DEF Settle, RearmLost
    <3> QED BY <2>1, <3>1, CompleteOutcome
  <2>3. ASSUME NEW k \in RevivalLane, RevivalEnds(k)
        PROVE  reviving'[l] \in {reviving[l], <<>>}
    BY <2>1, <2>3 DEF RevivalEnds, NextBatch
  <2>4. CASE HostCrash
    BY <2>4 DEF HostCrash
  <2>5. CASE UNCHANGED wakesVars
    BY <2>5 DEF wakesVars, memory
  <2>6. ASSUME NEW w \in Work, Dispatch(w) \/ Followup(w) \/ Abort(w) \/ RearmFails(w) \/ RearmWatch(w)
        PROVE  reviving' = reviving
    BY <2>6 DEF Dispatch, Followup, Abort, RearmFails, RearmWatch
  <2>7. CASE BootAndRearm \/ WakesDeleteAgent \/ WakesDeletionFails \/ EraseAgent \/ clearAgent
    BY <2>7 DEF BootAndRearm, WakesDeleteAgent, WakesDeletionFails, EraseAgent, clearAgent, memory
  <2> QED BY <2>2, <2>3, <2>4, <2>5, <2>6, <2>7 DEF WakesNext
<1> QED BY <1>1, WakesInvariant, PTL DEF WakesSpec, GoneStaysQuiet
=============================================================================
