----------------------- MODULE AgentWorkerPoolProofs -----------------------
(***************************************************************************)
(* Proofs about AgentWorkerPool, for every number of stores, calls and     *)
(* workers.                                                                *)
(***************************************************************************)
EXTENDS AgentWorkerPool, FiniteSetTheorems, TLAPS

IsWaiting(k) == stage[k] \in Waiting

\* Connections are handed out only once they have been made.
Numbered ==
    /\ \A k \in Call : IsWaiting(k) => bound[k] \in Conn /\ bound[k] <= spawned
    /\ \A s \in Store : connections[s] # None => connections[s] <= spawned

\* The next connections are new.
Fresh ==
    \A c \in Conn : c > spawned =>
        ~isDead[c] /\ closedBy[c] = "nobody" /\ worker[c] = "none"

\* A connection is in the map for one store, and serves calls on that store.
OneStoreEach ==
    \A s, t \in Open : connections[s] = connections[t] => s = t

Home ==
    \A k \in Call, s \in Store :
        IsWaiting(k) /\ connections[s] = bound[k] => StoreOf[k] = s

(***************************************************************************)
(* The connection of a call under way is still the one of its store, or    *)
(* the owner has closed it, or it is dead; and the map never goes back to  *)
(* an older connection.  From this no two workers serve a store.           *)
(***************************************************************************)
Anchored ==
    \A k \in Call : IsWaiting(k) =>
        \/ connections[StoreOf[k]] = bound[k]
        \/ closedBy[bound[k]] = "owner"
        \/ isDead[bound[k]]

Newest ==
    \A k \in Call : IsWaiting(k) /\ connections[StoreOf[k]] # None =>
        bound[k] <= connections[StoreOf[k]]

\* The requests of a connection are those of calls that wait for it, each
\* posted once, and a thread that has ended holds none.
AwaitsAnswer(k, c) == stage[k] \in {"init", "op"} /\ bound[k] = c

PendingIsOwn ==
    \A c \in Conn, k \in Call : k \in pending[c] => AwaitsAnswer(k, c)

InboxIsOwn ==
    \A c \in Conn : \A i \in DOMAIN inbox[c] :
        inbox[c][i] \in Call =>
            /\ AwaitsAnswer(inbox[c][i], c)
            /\ \A j \in DOMAIN inbox[c] : inbox[c][j] = inbox[c][i] => i = j

EndedReadsNothing == \A c \in Conn : ~Reads(c) => inbox[c] = <<>>

PoolInv ==
    /\ TypeOK
    /\ Numbered /\ Fresh
    /\ OneStoreEach /\ Home
    /\ MapIsLive
    /\ RetainsAreExact
    /\ BusyIsSpared
    /\ Anchored /\ Newest
    /\ WaitersAreKnown /\ PendingIsOwn
    /\ InboxIsOwn /\ EndedReadsNothing

-----------------------------------------------------------------------------
(* Retain counts.                                                          *)

WaitersIn(st, s) == {k \in Call : StoreOf[k] = s /\ st[k] \in Waiting}

LEMMA WaitersFinite ==
    ASSUME NEW st, NEW s
    PROVE  /\ IsFiniteSet(WaitersIn(st, s))
           /\ Cardinality(WaitersIn(st, s)) \in Nat
BY PoolAssumption, FS_Subset, FS_CardinalityType DEF WaitersIn

(***************************************************************************)
(* retain counts the call that begins, and release those that end.         *)
(***************************************************************************)
LEMMA RetainExact ==
    ASSUME TypeOK, RetainsAreExact, NEW k \in Call, stage[k] = "idle",
           NEW x \in Waiting, NEW s \in Store
    PROVE  retain(k)[s] = Cardinality(WaitersIn([stage EXCEPT ![k] = x], s))
<1> DEFINE W == WaitersIn(stage, s)
           V == WaitersIn([stage EXCEPT ![k] = x], s)
<1>1. /\ IsFiniteSet(W) /\ Cardinality(W) \in Nat
      /\ activeOps[s] = Cardinality(W)
  BY WaitersFinite DEF RetainsAreExact, WaitersIn
<1>2. k \notin W /\ stage \in [Call -> Stage]
  BY DEF WaitersIn, Waiting, TypeOK
<1>3. CASE StoreOf[k] = s
  <2>1. V = W \cup {k}
    BY <1>2, <1>3 DEF WaitersIn
  <2>2. Cardinality(V) = Cardinality(W) + 1
    <3> HIDE DEF W, V
    <3> QED BY <1>1, <1>2, <2>1, FS_AddElement
  <2> QED BY <1>1, <1>3, <2>2 DEF retain, TypeOK
<1>4. CASE StoreOf[k] # s
  <2>1. V = W
    BY <1>2, <1>4 DEF WaitersIn
  <2> QED BY <1>1, <1>4, <2>1, PoolAssumption DEF retain, TypeOK
<1> QED BY <1>3, <1>4

LEMMA ReleaseExact ==
    ASSUME TypeOK, RetainsAreExact, NEW K \in SUBSET Call, NEW st, NEW s \in Store,
           \A k \in K : IsWaiting(k),
           \A k \in Call : st[k] \in Waiting <=> IsWaiting(k) /\ k \notin K
    PROVE  release(K)[s] = Cardinality(WaitersIn(st, s))
<1> DEFINE W == WaitersIn(stage, s)
           E == {k \in K : StoreOf[k] = s}
           V == WaitersIn(st, s)
<1>a. IsFiniteSet(W) /\ Cardinality(W) \in Nat
  BY WaitersFinite
<1>b. activeOps[s] = Cardinality(W)
  BY DEF RetainsAreExact, WaitersIn
<1>1. /\ IsFiniteSet(W) /\ Cardinality(W) \in Nat
      /\ activeOps[s] = Cardinality(W)
  BY <1>a, <1>b
<1>2. E \subseteq W /\ V = W \ E
  BY DEF WaitersIn, IsWaiting
<1>3. release(K)[s] = IF Cardinality(E) >= activeOps[s] THEN 0
                      ELSE activeOps[s] - Cardinality(E)
  BY DEF release
<1> HIDE DEF W, E, V
<1>4. /\ IsFiniteSet(E) /\ Cardinality(E) \in Nat /\ Cardinality(E) <= Cardinality(W)
  BY <1>1, <1>2, FS_Subset, FS_CardinalityType
<1>5. Cardinality(V) = Cardinality(W) - Cardinality(E)
  <2>1. Cardinality(W \ E) = Cardinality(W) - Cardinality(W \cap E)
    BY <1>1, <1>4, FS_Difference
  <2>2. W \cap E = E
    BY <1>2
  <2> QED BY <1>2, <2>1, <2>2
<1> QED BY <1>1, <1>3, <1>4, <1>5 DEF V

\* Without calls there is nothing to release.
LEMMA ReleaseNone ==
    ASSUME TypeOK, RetainsAreExact
    PROVE  \A s \in Store : release({})[s] = activeOps[s]
BY FS_EmptySet, WaitersFinite DEF release, RetainsAreExact, WaitersIn, TypeOK

LEMMA ReleaseType ==
    ASSUME TypeOK, NEW K \in SUBSET Call
    PROVE  release(K) \in [Store -> Nat]
<1>1. ASSUME NEW s \in Store PROVE Cardinality({k \in K : StoreOf[k] = s}) \in Nat
  BY PoolAssumption, FS_Subset, FS_CardinalityType
<1>2. ASSUME NEW s \in Store, NEW n \in Nat
      PROVE  (IF n >= activeOps[s] THEN 0 ELSE activeOps[s] - n) \in Nat
  BY DEF TypeOK
<1> QED BY <1>1, <1>2, Zenon DEF release

LEMMA PostedType ==
    ASSUME TypeOK, NEW c \in Conn, NEW r \in Request
    PROVE  Posted(c, r) \in Seq(Request)
BY DEF Posted, TypeOK

LEMMA PoolInitially == Init => PoolInv
<1> SUFFICES ASSUME Init PROVE PoolInv
  OBVIOUS
<1>1. TypeOK
  <2>1. spawned \in 0..MaxSpawns /\ peak \in Nat
    BY PoolAssumption DEF Init
  <2>5. sweepTimer \in BOOLEAN
    BY DEF Init
  <2>3. inbox \in [Conn -> Seq(Request)]
    BY <<>> \in Seq(Request) DEF Init
  <2>4. pending \in [Conn -> SUBSET Request]
    BY DEF Init
  <2>2. /\ connections \in [Store -> Conn \cup {None}] /\ activeOps \in [Store -> Nat]
        /\ isDead \in [Conn -> BOOLEAN] /\ worker \in [Conn -> WorkerState]
        /\ stage \in [Call -> Stage] /\ bound \in [Call -> Conn \cup {None}]
        /\ closedBy \in [Conn -> {"nobody", "housekeeping", "owner"}]
    BY DEF Init, Stage, WorkerState
  <2> QED BY <2>1, <2>2, <2>3, <2>4, <2>5 DEF TypeOK
<1>2. RetainsAreExact
  <2> SUFFICES ASSUME NEW s \in Store
               PROVE  activeOps[s] = Cardinality({k \in Call : StoreOf[k] = s /\ stage[k] \in Waiting})
    BY DEF RetainsAreExact
  <2>1. {k \in Call : StoreOf[k] = s /\ stage[k] \in Waiting} = {}
    BY DEF Init, Waiting
  <2> QED BY <2>1, FS_EmptySet DEF Init
<1>3. /\ Numbered /\ Fresh /\ OneStoreEach /\ Home /\ MapIsLive /\ BusyIsSpared
      /\ Anchored /\ Newest /\ WaitersAreKnown
  BY DEF Init, Numbered, Fresh, OneStoreEach, Home, MapIsLive, BusyIsSpared, Open,
         Anchored, Newest, WaitersAreKnown, IsWaiting, Waiting
<1>4. PendingIsOwn /\ InboxIsOwn /\ EndedReadsNothing
  BY DEF Init, PendingIsOwn, InboxIsOwn, EndedReadsNothing
<1> QED BY <1>1, <1>2, <1>3, <1>4 DEF PoolInv

-----------------------------------------------------------------------------
(* Each step of a call, of a worker and of its connection preserves the    *)
(* invariant.                                                              *)

LEMMA PeakType ==
    ASSUME TypeOK, NEW ops
    PROVE  Highest(ops) \in Nat
BY PoolAssumption, FS_Subset, FS_CardinalityType DEF Highest, Retained, TypeOK

LEMMA JoinKeeps ==
    ASSUME PoolInv, NEW k \in Call, Join(k)
    PROVE  PoolInv'
<1> USE DEF PoolInv
<1>0. StoreOf[k] \in Store /\ connections[StoreOf[k]] \in Conn
  BY PoolAssumption DEF Join, TypeOK
<1>1. /\ stage' = [stage EXCEPT ![k] = "ready"] /\ stage \in [Call -> Stage]
      /\ bound' = [bound EXCEPT ![k] = connections[StoreOf[k]]]
      /\ bound \in [Call -> Conn \cup {None}]
      /\ stage[k] = "idle"
  BY DEF Join, TypeOK
<1>2. TypeOK'
  <2>1. activeOps' \in [Store -> Nat]
    BY <1>0 DEF Join, retain, TypeOK
  <2>2. peak' \in Nat
    BY PeakType DEF Join
  <2> QED BY <1>0, <1>1, <2>1, <2>2 DEF Join, TypeOK, Stage, thread
<1>3. RetainsAreExact'
  BY <1>1, RetainExact DEF Join, RetainsAreExact, WaitersIn, Waiting
<1>4. Numbered' /\ Home' /\ Anchored' /\ Newest' /\ BusyIsSpared'
  BY <1>0, <1>1 DEF Join, Numbered, Home, Anchored, Newest, BusyIsSpared, IsWaiting, Waiting,
                    OneStoreEach, MapIsLive, Open, TypeOK, Conn
<1>5. Fresh' /\ OneStoreEach' /\ MapIsLive'
  BY DEF Join, Fresh, OneStoreEach, MapIsLive, Open, thread
<1>6. WaitersAreKnown' /\ PendingIsOwn'
  BY <1>1 DEF Join, WaitersAreKnown, PendingIsOwn, AwaitsAnswer
<1>7. InboxIsOwn' /\ EndedReadsNothing'
  BY <1>1 DEF Join, InboxIsOwn, EndedReadsNothing, Reads, AwaitsAnswer, thread
<1> QED BY <1>2, <1>3, <1>4, <1>5, <1>6, <1>7

LEMMA OpenDbKeeps ==
    ASSUME PoolInv, NEW c \in Conn, OpenDb(c) \/ Crash(c)
    PROVE  PoolInv'
<1> USE DEF PoolInv
<1>1. /\ UNCHANGED <<connections, activeOps, sweepTimer, spawned, isDead, pending,
                     stage, bound, closedBy, peak>>
      /\ worker' \in [Conn -> WorkerState]
      /\ inbox' \in [Conn -> Seq(Request)]
      /\ \A d \in Conn : inbox'[d] = inbox[d] \/ inbox'[d] = <<>>
      /\ \A d \in Conn : worker[d] = "none" => worker'[d] = "none"
  <2>1. CASE OpenDb(c)
    BY <2>1 DEF OpenDb, TypeOK, WorkerState, caller
  <2>2. CASE Crash(c)
    BY <2>2, <<>> \in Seq(Request) DEF Crash, TypeOK, WorkerState, caller, Reads
  <2> QED BY <2>1, <2>2
<1>2. TypeOK'
  BY <1>1 DEF TypeOK
<1>3. /\ Numbered' /\ OneStoreEach' /\ Home' /\ MapIsLive' /\ RetainsAreExact'
      /\ BusyIsSpared' /\ Anchored' /\ Newest' /\ WaitersAreKnown' /\ PendingIsOwn'
  BY <1>1 DEF Numbered, OneStoreEach, Home, MapIsLive, RetainsAreExact, BusyIsSpared,
              Anchored, Newest, WaitersAreKnown, PendingIsOwn, IsWaiting, AwaitsAnswer, Open
<1>4. Fresh'
  BY <1>1 DEF Fresh
<1>5. InboxIsOwn'
  BY <1>1 DEF InboxIsOwn, AwaitsAnswer
<1>6. EndedReadsNothing'
  <2>1. CASE OpenDb(c)
    BY <2>1 DEF OpenDb, EndedReadsNothing, Reads, TypeOK
  <2>2. CASE Crash(c)
    BY <2>2 DEF Crash, EndedReadsNothing, Reads, TypeOK
  <2> QED BY <2>1, <2>2
<1> QED BY <1>2, <1>3, <1>4, <1>5, <1>6

(***************************************************************************)
(* A call leaves the microtask after ensure.  Its request is posted once,  *)
(* because a call that is ready has none.                                  *)
(***************************************************************************)
LEMMA SendKeeps ==
    ASSUME PoolInv, NEW k \in Call, Send(k)
    PROVE  PoolInv'
<1> USE DEF PoolInv
<1> DEFINE c == bound[k]
<1>0. /\ UNCHANGED <<connections, sweepTimer, spawned, isDead, worker, bound, closedBy, peak>>
      /\ stage[k] = "ready" /\ c \in Conn
      /\ k \in Request
  BY DEF Send, Numbered, IsWaiting, Waiting, Request
<1>1. CASE Accepts(c) /\ stage' = [stage EXCEPT ![k] = "op"]
           /\ pending' = [pending EXCEPT ![c] = @ \cup {k}]
           /\ inbox' = [inbox EXCEPT ![c] = Posted(c, k)]
           /\ UNCHANGED activeOps
  <2>1. TypeOK'
    <3>1. inbox' \in [Conn -> Seq(Request)]
      BY <1>0, <1>1, PostedType DEF TypeOK
    <3>2. pending' \in [Conn -> SUBSET Request]
      BY <1>0, <1>1 DEF TypeOK
    <3>3. stage' \in [Call -> Stage]
      BY <1>1 DEF TypeOK, Stage
    <3> QED BY <1>0, <1>1, <3>1, <3>2, <3>3 DEF TypeOK
  <2>2. \A j \in Call : stage'[j] \in Waiting <=> stage[j] \in Waiting
    BY <1>0, <1>1 DEF TypeOK, Waiting
  <2>3. RetainsAreExact'
    <3>1. \A s \in Store : {j \in Call : StoreOf[j] = s /\ stage'[j] \in Waiting}
                           = {j \in Call : StoreOf[j] = s /\ stage[j] \in Waiting}
      BY <2>2
    <3> QED BY <1>1, <3>1 DEF RetainsAreExact
  <2>4. Numbered' /\ Home' /\ Anchored' /\ Newest' /\ BusyIsSpared'
    BY <1>0, <2>2 DEF Numbered, Home, Anchored, Newest, BusyIsSpared, IsWaiting
  <2>5. Fresh' /\ OneStoreEach' /\ MapIsLive'
    BY <1>0 DEF Fresh, OneStoreEach, MapIsLive, Open
  <2>6. WaitersAreKnown' /\ PendingIsOwn'
    BY <1>0, <1>1 DEF WaitersAreKnown, PendingIsOwn, AwaitsAnswer, TypeOK, Accepts
  <2>7. InboxIsOwn'
    <3> SUFFICES ASSUME NEW d \in Conn, NEW i \in DOMAIN inbox'[d], inbox'[d][i] \in Call
                 PROVE  /\ stage'[inbox'[d][i]] \in {"init", "op"} /\ bound'[inbox'[d][i]] = d
                        /\ \A j \in DOMAIN inbox'[d] : inbox'[d][j] = inbox'[d][i] => i = j
      BY DEF InboxIsOwn, AwaitsAnswer
    <3>1. CASE d = c /\ Reads(c)
      <4> DEFINE q == inbox[c]
                 r == inbox'[d]
                 n == Len(q)
      <4>1. r = Append(q, k) /\ q \in Seq(Request)
        BY <1>0, <1>1, <3>1 DEF Posted, TypeOK
      <4>2. /\ \A j \in DOMAIN q : q[j] # k
            /\ \A h \in DOMAIN q : q[h] \in Call =>
                  /\ stage[q[h]] \in {"init", "op"} /\ bound[q[h]] = c
                  /\ \A j \in DOMAIN q : q[j] = q[h] => h = j
        BY <1>0 DEF InboxIsOwn, AwaitsAnswer
      <4>3. /\ DOMAIN q = 1..n /\ n \in Nat /\ DOMAIN r = 1..(n + 1)
            /\ r[n + 1] = k /\ \A j \in 1..n : r[j] = q[j]
        BY <4>1
      <4>4. stage'[k] = "op" /\ \A j \in Call : j # k => stage'[j] = stage[j]
        BY <1>1 DEF TypeOK
      <4>5. i \in 1..(n + 1) /\ r[i] \in Call
        BY <4>3
      <4> HIDE DEF q, r, n
      <4>6. CASE i = n + 1
        <5>1. \A j \in DOMAIN r : r[j] = r[i] => i = j
          BY <4>2, <4>3, <4>6
        <5> QED BY <1>0, <3>1, <4>3, <4>4, <4>6, <5>1 DEF r
      <4>7. CASE i \in 1..n
        <5>1. \A j \in DOMAIN r : r[j] = r[i] => i = j
          BY <4>2, <4>3, <4>5, <4>7
        <5>2. stage'[r[i]] \in {"init", "op"} /\ bound[r[i]] = c
          BY <4>2, <4>3, <4>4, <4>5, <4>7
        <5> QED BY <1>0, <3>1, <5>1, <5>2 DEF r
      <4> QED BY <4>3, <4>5, <4>6, <4>7
    <3>2. CASE d = c /\ ~Reads(c)
      BY <1>0, <1>1, <3>2 DEF Posted, TypeOK
    <3>3. CASE d # c
      BY <1>0, <1>1, <3>3 DEF InboxIsOwn, AwaitsAnswer, TypeOK
    <3> QED BY <3>1, <3>2, <3>3
  <2>8. EndedReadsNothing'
    BY <1>0, <1>1 DEF EndedReadsNothing, Posted, Reads, TypeOK
  <2> QED BY <2>1, <2>3, <2>4, <2>5, <2>6, <2>7, <2>8
<1>2. CASE /\ stage' = [stage EXCEPT ![k] = "failed"]
           /\ activeOps' = release({k})
           /\ UNCHANGED <<pending, inbox>>
  <2>1. TypeOK'
    <3>1. activeOps' \in [Store -> Nat]
      BY <1>2, ReleaseType
    <3>2. stage' \in [Call -> Stage]
      BY <1>2 DEF TypeOK, Stage
    <3> QED BY <1>0, <1>2, <3>1, <3>2 DEF TypeOK
  <2>2. \A j \in Call : stage'[j] \in Waiting <=> IsWaiting(j) /\ j \notin {k}
    BY <1>0, <1>2 DEF TypeOK, Waiting, IsWaiting
  <2>3. RetainsAreExact'
    <3>1. \A j \in {k} : IsWaiting(j)
      BY <1>0 DEF IsWaiting, Waiting
    <3>2. \A s \in Store : release({k})[s] = Cardinality(WaitersIn(stage', s))
      BY <2>2, <3>1, ReleaseExact
    <3> QED BY <1>2, <3>2 DEF RetainsAreExact, WaitersIn
  <2>4. Numbered' /\ Home' /\ Anchored' /\ Newest' /\ BusyIsSpared'
    BY <1>0, <2>2 DEF Numbered, Home, Anchored, Newest, BusyIsSpared, IsWaiting
  <2>5. Fresh' /\ OneStoreEach' /\ MapIsLive'
    BY <1>0 DEF Fresh, OneStoreEach, MapIsLive, Open
  <2>6. WaitersAreKnown' /\ PendingIsOwn'
    BY <1>0, <1>2 DEF WaitersAreKnown, PendingIsOwn, AwaitsAnswer, TypeOK
  <2>7. InboxIsOwn' /\ EndedReadsNothing'
    BY <1>0, <1>2 DEF InboxIsOwn, EndedReadsNothing, Reads, AwaitsAnswer, TypeOK
  <2> QED BY <2>1, <2>3, <2>4, <2>5, <2>6, <2>7
<1> QED BY <1>1, <1>2 DEF Send

(***************************************************************************)
(* An answer settles the request at the head of the inbox, which is the    *)
(* one request of the call that waits for it.                              *)
(***************************************************************************)
LEMMA AnswerKeeps ==
    ASSUME PoolInv, NEW c \in Conn, Answer(c)
    PROVE  PoolInv'
<1> USE DEF PoolInv
<1> DEFINE q == inbox[c]
           r == Head(q)
           rest == Tail(q)
           ended == {k \in Call : k = r /\ stage[k] = "op"}
<1>0. /\ UNCHANGED <<connections, sweepTimer, spawned, isDead, bound, closedBy, peak>>
      /\ worker[c] = "serving" /\ q # <<>>
      /\ pending' = [pending EXCEPT ![c] = @ \ {r}]
      /\ activeOps' = release(ended)
      /\ worker' = [worker EXCEPT ![c] = IF r = Close THEN "gone" ELSE @]
      /\ inbox' = [inbox EXCEPT ![c] = IF r = Close THEN <<>> ELSE Tail(@)]
  BY DEF Answer
<1>1. PICK result \in Outcome :
         stage' = [k \in Call |-> IF k \in ended THEN result
                                  ELSE IF k = r THEN "ready" ELSE stage[k]]
  BY DEF Answer
<1>2. /\ q \in Seq(Request) /\ Len(q) \in Nat /\ Len(q) >= 1 /\ r = q[1] /\ 1 \in DOMAIN q
      /\ DOMAIN q = 1..Len(q) /\ r \in Request
  BY <1>0 DEF TypeOK
<1>3. r \in Call => stage[r] \in {"init", "op"} /\ bound[r] = c
  BY <1>2 DEF InboxIsOwn, AwaitsAnswer
<1>4. /\ DOMAIN rest = 1..(Len(q) - 1) /\ rest \in Seq(Request)
      /\ \A i \in 1..(Len(q) - 1) : rest[i] = q[i + 1]
  BY <1>0, <1>2
<1>5. /\ inbox'[c] = IF r = Close THEN <<>> ELSE rest
      /\ \A d \in Conn : d # c => inbox'[d] = inbox[d]
  BY <1>0 DEF TypeOK
<1>6. /\ \A k \in Call : k # r => stage'[k] = stage[k]
      /\ r \in Call => stage'[r] \in {"ready", "done", "failed"}
      /\ ended \subseteq Call
  BY <1>1 DEF Outcome
<1>7. ended = (IF r \in Call /\ stage[r] = "op" THEN {r} ELSE {})
  OBVIOUS
<1>8. \A k \in Call : stage'[k] \in Waiting <=> IsWaiting(k) /\ k \notin ended
  BY <1>1, <1>3 DEF Outcome, IsWaiting, Waiting
<1>9. \A k \in ended : IsWaiting(k)
  BY DEF IsWaiting, Waiting
<1> HIDE DEF q, r, ended, rest
<1>10. TypeOK'
  <2>1. activeOps' \in [Store -> Nat]
    BY <1>0, <1>6, ReleaseType
  <2>2. stage' \in [Call -> Stage]
    BY <1>1 DEF TypeOK, Stage, Outcome
  <2>3. pending' \in [Conn -> SUBSET Request] /\ worker' \in [Conn -> WorkerState]
    BY <1>0 DEF TypeOK, WorkerState
  <2>4. inbox' \in [Conn -> Seq(Request)]
    BY <1>0, <1>4, <<>> \in Seq(Request) DEF TypeOK, q, rest
  <2> QED BY <1>0, <2>1, <2>2, <2>3, <2>4 DEF TypeOK
<1>11. RetainsAreExact'
  <2>1. \A s \in Store : release(ended)[s] = Cardinality(WaitersIn(stage', s))
    BY <1>6, <1>8, <1>9, ReleaseExact
  <2> QED BY <1>0, <2>1 DEF RetainsAreExact, WaitersIn
<1>12. Numbered' /\ Home' /\ Anchored' /\ Newest' /\ BusyIsSpared'
  BY <1>0, <1>8 DEF Numbered, Home, Anchored, Newest, BusyIsSpared, IsWaiting
<1>13. OneStoreEach' /\ MapIsLive'
  BY <1>0 DEF OneStoreEach, MapIsLive, Open
<1>14. Fresh'
  BY <1>0 DEF Fresh, TypeOK
<1>15. WaitersAreKnown' /\ PendingIsOwn'
  BY <1>0, <1>3, <1>6 DEF WaitersAreKnown, PendingIsOwn, AwaitsAnswer, TypeOK
<1>16. InboxIsOwn'
  <2> SUFFICES ASSUME NEW d \in Conn, NEW i \in DOMAIN inbox'[d], inbox'[d][i] \in Call
               PROVE  /\ stage'[inbox'[d][i]] \in {"init", "op"} /\ bound'[inbox'[d][i]] = d
                      /\ \A j \in DOMAIN inbox'[d] : inbox'[d][j] = inbox'[d][i] => i = j
    BY DEF InboxIsOwn, AwaitsAnswer
  <2>1. CASE d = c
    <3>0. r # Close /\ inbox'[d] = rest
      BY <1>5, <2>1
    <3>1. inbox'[d] = rest /\ i \in 1..(Len(q) - 1) /\ rest[i] \in Call
      BY <1>4, <3>0
    <3>2. \A h \in 1..Len(q) : q[h] \in Call =>
             /\ stage[q[h]] \in {"init", "op"} /\ bound[q[h]] = c
             /\ \A j \in 1..Len(q) : q[j] = q[h] => h = j
      BY <1>2 DEF InboxIsOwn, AwaitsAnswer, q
    <3>3. i + 1 \in 1..Len(q) /\ i + 1 # 1 /\ 1 \in 1..Len(q) /\ q[i + 1] = rest[i]
      BY <1>2, <1>4, <3>1
    <3>4. q[i + 1] # r
      BY <1>2, <3>1, <3>2, <3>3
    <3>5. stage'[q[i + 1]] \in {"init", "op"} /\ bound'[q[i + 1]] = c
      BY <1>0, <1>6, <3>1, <3>2, <3>3, <3>4
    <3>6. \A j \in 1..(Len(q) - 1) : rest[j] = rest[i] => i = j
      <4> SUFFICES ASSUME NEW j \in 1..(Len(q) - 1), rest[j] = rest[i] PROVE i = j
        OBVIOUS
      <4>1. j + 1 \in 1..Len(q) /\ q[j + 1] = q[i + 1]
        BY <1>2, <1>4, <3>3
      <4>2. i + 1 = j + 1
        BY <3>1, <3>2, <3>3, <4>1
      <4> QED BY <3>1, <4>2, <1>2
    <3> QED BY <1>4, <2>1, <3>1, <3>3, <3>5, <3>6
  <2>2. CASE d # c
    <3>1. inbox'[d] = inbox[d] /\ inbox[d][i] \in Call
      BY <1>5, <2>2
    <3>2. /\ stage[inbox[d][i]] \in {"init", "op"} /\ bound[inbox[d][i]] = d
          /\ \A j \in DOMAIN inbox[d] : inbox[d][j] = inbox[d][i] => i = j
      BY <3>1 DEF InboxIsOwn, AwaitsAnswer
    <3>3. inbox[d][i] # r
      BY <1>3, <2>2, <3>1, <3>2
    <3> QED BY <1>0, <1>6, <3>1, <3>2, <3>3
  <2> QED BY <2>1, <2>2
<1>17. EndedReadsNothing'
  BY <1>0, <1>5 DEF EndedReadsNothing, Reads, TypeOK
<1> QED BY <1>10, <1>11, <1>12, <1>13, <1>14, <1>15, <1>16, <1>17

(***************************************************************************)
(* When a thread has ended, its connection fails every call that waits for *)
(* it and leaves the map.                                                  *)
(***************************************************************************)
LEMMA DieKeeps ==
    ASSUME PoolInv, NEW c \in Conn, Die(c)
    PROVE  PoolInv'
<1> USE DEF PoolInv
<1> DEFINE gone == {s \in Store : connections[s] = c}
           failed == pending[c] \cap Call
<1>0. /\ UNCHANGED <<spawned, worker, inbox, bound, closedBy, peak>>
      /\ worker[c] = "gone" /\ ~isDead[c]
      /\ isDead' = [isDead EXCEPT ![c] = TRUE]
      /\ pending' = [pending EXCEPT ![c] = {}]
      /\ stage' = [k \in Call |-> IF k \in failed THEN "failed" ELSE stage[k]]
      /\ activeOps' = release(failed)
      /\ connections' = Without(gone)
      /\ sweepTimer' = (sweepTimer /\ ~(gone # {} /\ Open \subseteq gone))
  BY DEF Die, thread
<1>1. \A k \in failed : AwaitsAnswer(k, c)
  BY DEF PendingIsOwn
<1>2. \A s \in Store : connections'[s] = IF connections[s] = c THEN None ELSE connections[s]
  BY <1>0 DEF Without
<1>3. /\ isDead'[c] = TRUE /\ \A d \in Conn : d # c => isDead'[d] = isDead[d]
  BY <1>0 DEF TypeOK
<1>4. \A k \in Call : stage'[k] \in Waiting <=> IsWaiting(k) /\ k \notin failed
  BY <1>0, <1>1 DEF IsWaiting, Waiting
<1>5. \A k \in Call : stage'[k] = IF k \in failed THEN "failed" ELSE stage[k]
  BY <1>0
<1>6. \A s \in Store : connections'[s] # None => connections[s] # c /\ connections'[s] = connections[s]
  BY <1>2
<1>7. \A s \in Store : connections'[s] # None => ~(Open \subseteq gone)
  BY <1>6 DEF Open
<1> HIDE DEF gone
<1>10. TypeOK'
  <2>1. activeOps' \in [Store -> Nat]
    BY <1>0, ReleaseType
  <2>2. stage' \in [Call -> Stage]
    BY <1>0 DEF TypeOK, Stage
  <2>3. pending' \in [Conn -> SUBSET Request]
    BY <1>0 DEF TypeOK
  <2>4. connections' \in [Store -> Conn \cup {None}]
    BY <1>0 DEF TypeOK, Without
  <2>5. isDead' \in [Conn -> BOOLEAN]
    BY <1>0 DEF TypeOK
  <2>6. sweepTimer' \in BOOLEAN
    BY <1>0
  <2> QED BY <1>0, <2>1, <2>2, <2>3, <2>4, <2>5, <2>6 DEF TypeOK
<1>11. RetainsAreExact'
  <2>1. \A k \in failed : IsWaiting(k)
    BY <1>1 DEF IsWaiting, Waiting, AwaitsAnswer
  <2>2. \A s \in Store : release(failed)[s] = Cardinality(WaitersIn(stage', s))
    BY <1>4, <2>1, ReleaseExact
  <2> QED BY <1>0, <2>2 DEF RetainsAreExact, WaitersIn
<1> HIDE DEF failed
<1>12. Numbered' /\ Newest'
  BY <1>0, <1>4, <1>6, PoolAssumption DEF Numbered, Newest, IsWaiting
<1>13. Home'
  BY <1>0, <1>4, <1>2, PoolAssumption DEF Home, IsWaiting, Numbered, Conn
<1>14. BusyIsSpared'
  BY <1>0, <1>4 DEF BusyIsSpared, IsWaiting
<1>15. Anchored'
  BY <1>0, <1>2, <1>3, <1>4, PoolAssumption DEF Anchored, IsWaiting, Numbered
<1>16. Fresh'
  BY <1>0, <1>3 DEF Fresh
<1>17. OneStoreEach'
  BY <1>6 DEF OneStoreEach, Open
<1>18. MapIsLive'
  <2> SUFFICES ASSUME NEW s \in Store, connections'[s] # None
               PROVE  ~isDead'[connections'[s]] /\ closedBy'[connections'[s]] = "nobody" /\ sweepTimer'
    BY DEF MapIsLive, Open
  <2>1. connections[s] \in Conn /\ connections[s] # c /\ connections'[s] = connections[s] /\ s \in Open
    BY <1>6 DEF TypeOK, Open
  <2> QED BY <1>0, <1>3, <1>7, <2>1 DEF MapIsLive
<1>19. WaitersAreKnown' /\ PendingIsOwn'
  <2>1. \A k \in Call : stage'[k] \in {"init", "op"} =>
            stage[k] \in {"init", "op"} /\ bound[k] \in Conn /\ bound[k] # c
    BY <1>5 DEF WaitersAreKnown, failed, Numbered, IsWaiting, Waiting
  <2>2. WaitersAreKnown'
    BY <1>0, <1>3, <2>1 DEF WaitersAreKnown, TypeOK
  <2>3. PendingIsOwn'
    BY <1>0, <1>1, <1>5 DEF PendingIsOwn, AwaitsAnswer, TypeOK
  <2> QED BY <2>2, <2>3
<1>20. InboxIsOwn'
  BY <1>0, <1>1, <1>5 DEF InboxIsOwn, AwaitsAnswer, EndedReadsNothing, Reads
<1>21. EndedReadsNothing'
  BY <1>0 DEF EndedReadsNothing, Reads
<1> QED BY <1>10, <1>11, <1>12, <1>13, <1>14, <1>15, <1>16, <1>17, <1>18, <1>19, <1>20, <1>21

-----------------------------------------------------------------------------
(* Closing connections.                                                    *)

\* Close adds no request of a call to an inbox, and none to those awaited.
LEMMA PostCloseCalls ==
    ASSUME PoolInv, NEW C, NEW c \in Conn
    PROVE  /\ PostClose(C)[c] \in Seq(Request)
           /\ \A i \in DOMAIN PostClose(C)[c] :
                 PostClose(C)[c][i] \in Call =>
                     i \in DOMAIN inbox[c] /\ PostClose(C)[c][i] = inbox[c][i]
           /\ ~Reads(c) => PostClose(C)[c] = <<>>
<1> DEFINE q == inbox[c]
           p == PostClose(C)[c]
<1>1. q \in Seq(Request) /\ Close \in Request /\ Close \notin Call
  BY PoolAssumption DEF PoolInv, TypeOK, Request
<1>2. ~Reads(c) => q = <<>>
  BY DEF PoolInv, EndedReadsNothing
<1>3. \/ p = q
      \/ Reads(c) /\ p = Append(q, Close)
      \/ ~Reads(c) /\ p = <<>>
  BY DEF PostClose, Posted
<1> HIDE DEF q, p
<1>4. CASE p = Append(q, Close)
  <2>1. /\ DOMAIN q = 1..Len(q) /\ Len(q) \in Nat /\ DOMAIN p = 1..(Len(q) + 1)
        /\ p[Len(q) + 1] = Close /\ \A i \in 1..Len(q) : p[i] = q[i]
        /\ p \in Seq(Request)
    BY <1>1, <1>4
  <2>2. \A i \in DOMAIN p : p[i] \in Call => i \in DOMAIN q /\ p[i] = q[i]
    BY <1>1, <2>1
  <2>3. ~Reads(c) => p = <<>>
    BY <1>2, <1>3
  <2> QED BY <2>1, <2>2, <2>3 DEF p, q
<1>5. CASE p = q
  BY <1>1, <1>2, <1>5 DEF p, q
<1>6. CASE p = <<>>
  BY <1>6, <<>> \in Seq(Request) DEF p, q
<1> QED BY <1>3, <1>4, <1>5, <1>6

LEMMA AwaitCloseCalls ==
    ASSUME PoolInv, NEW C
    PROVE  /\ AwaitClose(C) \in [Conn -> SUBSET Request]
           /\ \A c \in Conn, k \in Call : k \in AwaitClose(C)[c] <=> k \in pending[c]
BY PoolAssumption DEF PoolInv, TypeOK, AwaitClose, Request

\* No call under way is on a store that nobody retains.
LEMMA UnretainedUnused ==
    ASSUME RetainsAreExact, NEW k \in Call, IsWaiting(k), StoreOf[k] \in Store
    PROVE  activeOps[StoreOf[k]] # 0
<1> DEFINE W == WaitersIn(stage, StoreOf[k])
<1>1. k \in W /\ IsFiniteSet(W)
  BY WaitersFinite DEF WaitersIn, IsWaiting
<1>2. activeOps[StoreOf[k]] = Cardinality(W)
  BY DEF RetainsAreExact, WaitersIn
<1> QED BY <1>1, <1>2, FS_EmptySet

(***************************************************************************)
(* Closing stores keeps the invariant if the owner does it, or if nobody   *)
(* retains them.                                                           *)
(***************************************************************************)
LEMMA CloseThemKeeps ==
    ASSUME PoolInv, NEW S \in SUBSET Open, NEW who \in {"owner", "housekeeping"},
           who = "housekeeping" => \A s \in S : activeOps[s] = 0,
           CloseThem(S, who)
    PROVE  PoolInv'
<1> USE DEF PoolInv
<1> DEFINE out == {connections[s] : s \in S}
<1>0. /\ UNCHANGED <<activeOps, spawned, isDead, worker, stage, bound, peak>>
      /\ connections' = Without(S)
      /\ inbox' = PostClose(out)
      /\ pending' = AwaitClose(out)
      /\ closedBy' = ClosedBy(out, who)
      /\ sweepTimer' = (sweepTimer /\ ~(Open \subseteq S))
  BY DEF CloseThem, caller
<1>1. \A s \in Store : connections'[s] = IF s \in S THEN None ELSE connections[s]
  BY <1>0 DEF Without
<1>2. \A c \in Conn : closedBy'[c] = IF c \in out THEN who ELSE closedBy[c]
  BY <1>0 DEF ClosedBy
<1>3. \A c \in out : c \in Conn /\ ~isDead[c] /\ closedBy[c] = "nobody"
  BY DEF MapIsLive, Open, TypeOK
<1>4. \A k \in Call : IsWaiting(k) /\ bound[k] \in out => StoreOf[k] \in S
  BY DEF Home, Open
<1>5. \A k \in Call : StoreOf[k] \in Store
  BY PoolAssumption
<1>6. \A k \in Call : IsWaiting(k) /\ StoreOf[k] \in S => who = "owner"
  BY <1>5, UnretainedUnused
<1>7. \A k \in Call : IsWaiting(k) => bound[k] \in Conn
  BY DEF Numbered
<1>8. \A s \in Open \ S : connections[s] \in Conn \ out
  BY DEF OneStoreEach, Open, TypeOK
<1>9. \A s \in S : connections[s] \in out
  OBVIOUS
<1> HIDE DEF out
<1>10. TypeOK'
  <2>1. inbox' \in [Conn -> Seq(Request)]
    <3>1. \A c \in Conn : inbox'[c] \in Seq(Request)
      BY <1>0, PostCloseCalls
    <3> QED BY <1>0, <3>1 DEF PostClose
  <2>2. pending' \in [Conn -> SUBSET Request]
    BY <1>0, AwaitCloseCalls
  <2>3. connections' \in [Store -> Conn \cup {None}]
    BY <1>0 DEF Without, TypeOK
  <2>4. closedBy' \in [Conn -> {"nobody", "housekeeping", "owner"}]
    BY <1>0 DEF ClosedBy, TypeOK
  <2>5. sweepTimer' \in BOOLEAN
    BY <1>0
  <2> QED BY <1>0, <2>1, <2>2, <2>3, <2>4, <2>5 DEF TypeOK
<1>11. RetainsAreExact'
  BY <1>0 DEF RetainsAreExact
<1>12. Numbered' /\ Newest'
  BY <1>0, <1>1, <1>5 DEF Numbered, Newest, IsWaiting
<1>13. Home'
  BY <1>0, <1>1, <1>7, PoolAssumption DEF Home, IsWaiting, Conn
<1>14. BusyIsSpared'
  BY <1>0, <1>2, <1>4, <1>6, <1>7 DEF BusyIsSpared, IsWaiting
<1>15. Anchored'
  BY <1>0, <1>1, <1>2, <1>3, <1>5, <1>6, <1>7, <1>9 DEF Anchored, IsWaiting
<1>16. Fresh'
  BY <1>0, <1>2, <1>8, <1>3 DEF Fresh, Numbered, Open, out, TypeOK, Conn
<1>17. OneStoreEach'
  BY <1>1 DEF OneStoreEach, Open
<1>18. MapIsLive'
  <2> SUFFICES ASSUME NEW s \in Store, connections'[s] # None
               PROVE  ~isDead'[connections'[s]] /\ closedBy'[connections'[s]] = "nobody" /\ sweepTimer'
    BY DEF MapIsLive, Open
  <2>1. s \in Open \ S /\ connections'[s] = connections[s]
    BY <1>1 DEF Open
  <2>2. ~(Open \subseteq S)
    BY <2>1
  <2> QED BY <1>0, <1>2, <1>8, <2>1, <2>2 DEF MapIsLive
<1>19. WaitersAreKnown' /\ PendingIsOwn'
  BY <1>0, <1>7, AwaitCloseCalls DEF WaitersAreKnown, PendingIsOwn, AwaitsAnswer, IsWaiting, Waiting
<1>20. InboxIsOwn'
  <2>1. \A c \in Conn : \A i \in DOMAIN inbox'[c] : inbox'[c][i] \in Call =>
           i \in DOMAIN inbox[c] /\ inbox'[c][i] = inbox[c][i]
    BY <1>0, PostCloseCalls
  <2> QED BY <1>0, <2>1 DEF InboxIsOwn, AwaitsAnswer
<1>21. EndedReadsNothing'
  BY <1>0, PostCloseCalls DEF EndedReadsNothing, Reads
<1> QED BY <1>10, <1>11, <1>12, <1>13, <1>14, <1>15, <1>16, <1>17, <1>18, <1>19, <1>20, <1>21

\* What is evicted is in the map, and no call retains it.
LEMMA VictimsIdle ==
    ASSUME NEW ops, NEW V \in Victims(ops)
    PROVE  /\ V \in SUBSET Open
           /\ \A v \in V : ops[v] = 0
BY DEF Victims

(***************************************************************************)
(* A call that finds no connection makes room, and has the newest one.     *)
(***************************************************************************)
LEMMA SpawnKeeps ==
    ASSUME PoolInv, NEW k \in Call, Spawn(k)
    PROVE  PoolInv'
<1> USE DEF PoolInv
<1> DEFINE s == StoreOf[k]
           n == spawned + 1
<1>1. PICK V \in Victims(activeOps') :
         LET out == {connections[v] : v \in V}
         IN  /\ connections' = Registered(V, s, n)
             /\ inbox' = [PostClose(out) EXCEPT ![n] = <<k>>]
             /\ pending' = [AwaitClose(out) EXCEPT ![n] = {k}]
             /\ closedBy' = ClosedBy(out, "housekeeping")
  BY DEF Spawn
<1> DEFINE out == {connections[v] : v \in V}
<1>2. /\ stage[k] = "idle" /\ connections[s] = None /\ s \in Store
      /\ spawned \in Nat /\ n \in Conn
      /\ activeOps' = retain(k) /\ peak' = Highest(activeOps')
      /\ spawned' = n /\ worker' = [worker EXCEPT ![n] = "opening"]
      /\ bound' = [bound EXCEPT ![k] = n] /\ stage' = [stage EXCEPT ![k] = "init"]
      /\ sweepTimer' = TRUE /\ isDead' = isDead
  <2>1. /\ stage[k] = "idle" /\ connections[s] = None /\ spawned < MaxSpawns
        /\ activeOps' = retain(k) /\ peak' = Highest(activeOps')
        /\ spawned' = n /\ worker' = [worker EXCEPT ![n] = "opening"]
        /\ bound' = [bound EXCEPT ![k] = n] /\ stage' = [stage EXCEPT ![k] = "init"]
        /\ sweepTimer' = TRUE /\ isDead' = isDead
    BY DEF Spawn
  <2>2. s \in Store
    BY PoolAssumption
  <2>3. spawned \in Nat /\ n \in Conn
    BY <2>1, PoolAssumption DEF TypeOK, Conn
  <2> QED BY <2>1, <2>2, <2>3
<1>d. \A c \in Conn : c \in Nat
  BY DEF Conn
<1>3. V \in SUBSET Open /\ \A v \in V : v # s /\ activeOps[v] = 0
  <2>1. V \in SUBSET Open /\ \A v \in V : activeOps'[v] = 0
    BY <1>1, VictimsIdle
  <2>2. s \notin Open /\ \A v \in Store : v # s => activeOps'[v] = activeOps[v]
    BY <1>2 DEF retain, TypeOK, Open
  <2> QED BY <2>1, <2>2 DEF Open
<1>4. \A c \in out : c \in Conn /\ c <= spawned /\ c # n /\ closedBy[c] = "nobody"
  BY <1>2, <1>3 DEF MapIsLive, Open, TypeOK, Numbered, Conn
<1>5. /\ connections'[s] = n
      /\ \A t \in Store : t # s => connections'[t] = IF t \in V THEN None ELSE connections[t]
  BY <1>1, <1>2 DEF Registered, Without
<1>6. \A c \in Conn : closedBy'[c] = IF c \in out THEN "housekeeping" ELSE closedBy[c]
  BY <1>1 DEF ClosedBy
<1>7. /\ stage'[k] = "init" /\ bound'[k] = n
      /\ \A j \in Call : j # k => stage'[j] = stage[j] /\ bound'[j] = bound[j]
  BY <1>2 DEF TypeOK
<1>8. \A j \in Call : IsWaiting(j) =>
         bound[j] \in Conn /\ bound[j] <= spawned /\ bound[j] # n /\ j # k
  BY <1>2 DEF Numbered, IsWaiting, Waiting, Conn
<1>9. \A j \in Call : IsWaiting(j) => StoreOf[j] \in Store \ V /\ bound[j] \notin out
  BY <1>3, UnretainedUnused, PoolAssumption DEF Home, Open
<1>a. \A t \in Open \ V : connections[t] \in Conn \ out /\ connections[t] <= spawned
                          /\ connections[t] # n
  BY <1>2, <1>3 DEF OneStoreEach, Open, TypeOK, Numbered, Conn
<1>b. /\ inbox'[n] = <<k>> /\ \A c \in Conn : c # n => inbox'[c] = PostClose(out)[c]
      /\ pending'[n] = {k} /\ \A c \in Conn : c # n => pending'[c] = AwaitClose(out)[c]
  BY <1>1, <1>2 DEF PostClose, AwaitClose
<1>c. k \in Request /\ <<k>> \in Seq(Request)
  BY DEF Request
<1> HIDE DEF s, n, out
<1>10. TypeOK'
  <2>1. inbox' \in [Conn -> Seq(Request)]
    <3>1. \A c \in Conn : inbox'[c] \in Seq(Request)
      BY <1>b, <1>c, PostCloseCalls
    <3> QED BY <1>1, <3>1 DEF PostClose, out
  <2>2. pending' \in [Conn -> SUBSET Request]
    BY <1>1, <1>c, AwaitCloseCalls DEF out
  <2>3. connections' \in [Store -> Conn \cup {None}]
    BY <1>1, <1>2 DEF Registered, Without, TypeOK
  <2>4. closedBy' \in [Conn -> {"nobody", "housekeeping", "owner"}]
    BY <1>1 DEF ClosedBy, TypeOK, out
  <2>5. activeOps' \in [Store -> Nat]
    BY <1>2 DEF retain, TypeOK, s
  <2>6. peak' \in Nat /\ spawned' \in 0..MaxSpawns
    BY <1>2, PeakType DEF Conn
  <2>7. stage' \in [Call -> Stage] /\ bound' \in [Call -> Conn \cup {None}]
        /\ worker' \in [Conn -> WorkerState]
    BY <1>2 DEF TypeOK, Stage, WorkerState
  <2> QED BY <1>2, <2>1, <2>2, <2>3, <2>4, <2>5, <2>6, <2>7 DEF TypeOK
<1>11. RetainsAreExact'
  <2>1. "init" \in Waiting
    BY DEF Waiting
  <2>2. \A t \in Store : retain(k)[t] = Cardinality(WaitersIn(stage', t))
    BY <1>2, <2>1, RetainExact
  <2> QED BY <1>2, <2>2 DEF RetainsAreExact, WaitersIn
<1>w. \A j \in Call : stage'[j] \in Waiting <=> j = k \/ IsWaiting(j)
  BY <1>7, <1>8 DEF IsWaiting, Waiting
<1>12. Numbered'
  <2>1. \A j \in Call : stage'[j] \in Waiting => bound'[j] \in Conn /\ bound'[j] <= spawned'
    BY <1>2, <1>7, <1>8, <1>d, <1>w DEF n
  <2>2. \A t \in Store : connections'[t] # None => connections'[t] <= spawned'
    BY <1>2, <1>5, <1>a, <1>d DEF n, Open
  <2> QED BY <2>1, <2>2 DEF Numbered, IsWaiting
<1>13. Newest'
  <2> SUFFICES ASSUME NEW j \in Call, stage'[j] \in Waiting, connections'[StoreOf[j]] # None
               PROVE  bound'[j] <= connections'[StoreOf[j]]
    BY DEF Newest, IsWaiting
  <2>1. CASE j = k
    BY <1>2, <1>5, <1>7, <1>d, <2>1 DEF s, n
  <2>2. CASE j # k /\ StoreOf[j] = s
    BY <1>2, <1>5, <1>7, <1>8, <1>d, <1>w, <2>2 DEF n
  <2>3. CASE j # k /\ StoreOf[j] # s
    BY <1>5, <1>7, <1>9, <1>w, <2>3 DEF Newest
  <2> QED BY <2>1, <2>2, <2>3
<1>14. Home'
  <2> SUFFICES ASSUME NEW j \in Call, NEW t \in Store, stage'[j] \in Waiting, connections'[t] = bound'[j]
               PROVE  StoreOf[j] = t
    BY DEF Home, IsWaiting
  <2>1. CASE j = k
    BY <1>2, <1>5, <1>7, <1>a, <2>1, PoolAssumption DEF s, n, Open
  <2>2. CASE j # k
    BY <1>5, <1>7, <1>8, <1>w, <2>2, PoolAssumption DEF Home, Conn
  <2> QED BY <2>1, <2>2
<1>15. BusyIsSpared'
  BY <1>2, <1>4, <1>6, <1>7, <1>8, <1>9, <1>w DEF BusyIsSpared, Fresh, IsWaiting, n
<1>16. Anchored'
  <2> SUFFICES ASSUME NEW j \in Call, stage'[j] \in Waiting
               PROVE  \/ connections'[StoreOf[j]] = bound'[j]
                      \/ closedBy'[bound'[j]] = "owner"
                      \/ isDead'[bound'[j]]
    BY DEF Anchored, IsWaiting
  <2>1. CASE j = k
    BY <1>5, <1>7, <2>1 DEF s
  <2>2. CASE j # k
    <3>1. IsWaiting(j) /\ bound'[j] = bound[j] /\ bound[j] \in Conn \ out
          /\ StoreOf[j] \in Store \ V
      BY <1>7, <1>8, <1>9, <1>w, <2>2
    <3>2. CASE connections[StoreOf[j]] = bound[j]
      <4>1. StoreOf[j] # s
        BY <1>2, <3>1, <3>2, PoolAssumption DEF Conn
      <4> QED BY <1>5, <3>1, <3>2, <4>1
    <3>3. CASE closedBy[bound[j]] = "owner" \/ isDead[bound[j]]
      BY <1>2, <1>6, <3>1, <3>3
    <3> QED BY <3>1, <3>2, <3>3 DEF Anchored
  <2> QED BY <2>1, <2>2
<1>17. Fresh'
  BY <1>2, <1>4, <1>6 DEF Fresh, TypeOK, n, Conn
<1>18. OneStoreEach'
  BY <1>5, <1>a DEF OneStoreEach, Open
<1>19. MapIsLive'
  <2> SUFFICES ASSUME NEW t \in Store, connections'[t] # None
               PROVE  ~isDead'[connections'[t]] /\ closedBy'[connections'[t]] = "nobody" /\ sweepTimer'
    BY DEF MapIsLive, Open
  <2>1. CASE t = s
    BY <1>2, <1>4, <1>5, <1>6, <2>1 DEF Fresh, n
  <2>2. CASE t # s
    <3>1. t \in Open \ V /\ connections'[t] = connections[t]
      BY <1>5, <2>2 DEF Open
    <3> QED BY <1>2, <1>6, <1>a, <3>1 DEF MapIsLive
  <2> QED BY <2>1, <2>2
<1>20. WaitersAreKnown'
  <2> SUFFICES ASSUME NEW j \in Call, stage'[j] \in {"init", "op"}
               PROVE  ~isDead'[bound'[j]] /\ j \in pending'[bound'[j]]
    BY DEF WaitersAreKnown
  <2>1. CASE j = k
    BY <1>2, <1>7, <1>b, <2>1 DEF Fresh, n
  <2>2. CASE j # k
    <3>1. stage[j] \in {"init", "op"} /\ bound'[j] = bound[j] /\ bound[j] \in Conn /\ bound[j] # n
      BY <1>7, <1>8, <2>2 DEF IsWaiting, Waiting
    <3> QED BY <1>2, <1>b, <3>1, AwaitCloseCalls DEF WaitersAreKnown
  <2> QED BY <2>1, <2>2
<1>21. PendingIsOwn'
  <2> SUFFICES ASSUME NEW c \in Conn, NEW j \in Call, j \in pending'[c]
               PROVE  stage'[j] \in {"init", "op"} /\ bound'[j] = c
    BY DEF PendingIsOwn, AwaitsAnswer
  <2>1. CASE c = n
    BY <1>7, <1>b, <2>1
  <2>2. CASE c # n
    <3>1. j \in pending[c]
      BY <1>b, <2>2, AwaitCloseCalls
    <3> QED BY <1>2, <1>7, <3>1 DEF PendingIsOwn, AwaitsAnswer
  <2> QED BY <2>1, <2>2
<1>22. InboxIsOwn'
  <2> SUFFICES ASSUME NEW c \in Conn, NEW i \in DOMAIN inbox'[c], inbox'[c][i] \in Call
               PROVE  /\ stage'[inbox'[c][i]] \in {"init", "op"} /\ bound'[inbox'[c][i]] = c
                      /\ \A j \in DOMAIN inbox'[c] : inbox'[c][j] = inbox'[c][i] => i = j
    BY DEF InboxIsOwn, AwaitsAnswer
  <2>1. CASE c = n
    BY <1>7, <1>b, <2>1
  <2>2. CASE c # n
    <3>1. \A h \in DOMAIN inbox'[c] : inbox'[c][h] \in Call =>
             h \in DOMAIN inbox[c] /\ inbox'[c][h] = inbox[c][h]
      BY <1>b, <2>2, PostCloseCalls
    <3>2. /\ stage[inbox[c][i]] \in {"init", "op"} /\ bound[inbox[c][i]] = c
          /\ \A j \in DOMAIN inbox[c] : inbox[c][j] = inbox[c][i] => i = j
      BY <3>1 DEF InboxIsOwn, AwaitsAnswer
    <3>3. inbox[c][i] # k
      BY <1>2, <3>2
    <3> QED BY <1>7, <3>1, <3>2, <3>3
  <2> QED BY <2>1, <2>2
<1>23. EndedReadsNothing'
  <2> SUFFICES ASSUME NEW c \in Conn, ~(worker'[c] \in {"opening", "serving"})
               PROVE  inbox'[c] = <<>>
    BY DEF EndedReadsNothing, Reads
  <2>1. c # n /\ worker'[c] = worker[c]
    BY <1>2 DEF TypeOK
  <2> QED BY <1>b, <2>1, PostCloseCalls DEF Reads
<1> QED BY <1>10, <1>11, <1>12, <1>13, <1>14, <1>15, <1>16, <1>17, <1>18, <1>19,
           <1>20, <1>21, <1>22, <1>23

-----------------------------------------------------------------------------
(* The theorems.                                                           *)

LEMMA PoolStep == PoolInv /\ [Next]_vars => PoolInv'
<1> SUFFICES ASSUME PoolInv, [Next]_vars PROVE PoolInv'
  OBVIOUS
<1>1. ASSUME NEW k \in Call, Join(k) \/ Spawn(k) \/ Send(k) PROVE PoolInv'
  BY <1>1, JoinKeeps, SpawnKeeps, SendKeeps
<1>2. ASSUME NEW c \in Conn, OpenDb(c) \/ Crash(c) \/ Answer(c) \/ Die(c) PROVE PoolInv'
  BY <1>2, OpenDbKeeps, AnswerKeeps, DieKeeps
<1>3. ASSUME NEW s \in Store, closeStore(s) PROVE PoolInv'
  BY <1>3, CloseThemKeeps DEF closeStore, Open
<1>4. ASSUME closeAll PROVE PoolInv'
  BY <1>4, CloseThemKeeps DEF closeAll
<1>5. ASSUME sweepIdle PROVE PoolInv'
  <2>1. PICK S \in SUBSET Idle : CloseThem(S, "housekeeping")
    BY <1>5 DEF sweepIdle
  <2>2. S \in SUBSET Open /\ \A s \in S : activeOps[s] = 0
    BY DEF Idle, Open, isRetained, PoolInv, TypeOK
  <2> QED BY <2>1, <2>2, CloseThemKeeps
<1>6. ASSUME UNCHANGED vars PROVE PoolInv'
  BY <1>6 DEF vars, PoolInv, TypeOK, Numbered, Fresh, OneStoreEach, Home, MapIsLive,
              RetainsAreExact, BusyIsSpared, Anchored, Newest, WaitersAreKnown, PendingIsOwn,
              InboxIsOwn, EndedReadsNothing, IsWaiting, AwaitsAnswer, Open, Reads
<1> QED BY <1>1, <1>2, <1>3, <1>4, <1>5, <1>6 DEF Next

LEMMA PoolAlways == Spec => []PoolInv
BY PoolInitially, PoolStep, PTL DEF Spec

(***************************************************************************)
(* The pool's retain counts, pending requests and map agree with its       *)
(* callers and workers in every reachable state.                           *)
(***************************************************************************)
THEOREM PoolAlwaysSound == Spec => []PoolIsSound
<1>1. PoolInv => PoolIsSound
  BY DEF PoolInv, PoolIsSound
<1> QED BY <1>1, PoolAlways, PTL

(***************************************************************************)
(* Eviction and sweep take no worker from a call, and no two workers serve *)
(* one store unless its owner closed the first or its thread has ended:    *)
(* the older of two connections is not the one in the map (Newest), so the *)
(* second or third case of Anchored holds of it.                           *)
(***************************************************************************)
THEOREM HousekeepingAlwaysSpares == Spec => []HousekeepingSpares
<1>1. ASSUME PoolInv PROVE OneWorkerServes
  <2> SUFFICES ASSUME NEW j \in Call, NEW k \in Call, stage[j] \in Waiting, stage[k] \in Waiting,
                      StoreOf[j] = StoreOf[k], bound[j] < bound[k]
               PROVE  closedBy[bound[j]] = "owner" \/ isDead[bound[j]]
    BY DEF OneWorkerServes
  <2>1. bound[j] \in Nat /\ bound[k] \in Nat
    BY <1>1 DEF PoolInv, Numbered, IsWaiting, Conn
  <2>2. connections[StoreOf[j]] # bound[j]
    <3> SUFFICES ASSUME connections[StoreOf[j]] = bound[j] PROVE FALSE
      OBVIOUS
    <3>1. bound[k] <= bound[j]
      BY <1>1, <2>1, PoolAssumption DEF PoolInv, Newest, IsWaiting
    <3> QED BY <2>1, <3>1
  <2> QED BY <1>1, <2>2 DEF PoolInv, Anchored, IsWaiting
<1>2. PoolInv => HousekeepingSpares
  BY <1>1 DEF PoolInv, HousekeepingSpares
<1> QED BY <1>2, PoolAlways, PTL

\* A map that does not grow stays within its bound.
LEMMA ShrinkingStaysBounded ==
    ASSUME PoolBounded, PoolInv, Open' \in SUBSET Open, peak' \in Nat, peak <= peak'
    PROVE  PoolBounded'
<1>1. IsFiniteSet(Open)
  BY PoolAssumption, FS_Subset DEF Open
<1>2. /\ Cardinality(Open') <= Cardinality(Open)
      /\ Cardinality(Open') \in Nat /\ Cardinality(Open) \in Nat
  BY <1>1, FS_Subset, FS_CardinalityType
<1> QED BY <1>2, PoolAssumption DEF PoolBounded, PoolInv, TypeOK

LEMMA PeakGrows ==
    ASSUME PoolInv, NEW ops
    PROVE  /\ peak <= Highest(ops)
           /\ Cardinality(Retained(ops)) <= Highest(ops)
<1>1. Cardinality(Retained(ops)) \in Nat /\ peak \in Nat
  BY PoolAssumption, FS_Subset, FS_CardinalityType DEF Retained, PoolInv, TypeOK
<1> QED BY <1>1 DEF Highest

(***************************************************************************)
(* A new worker fits into the pool, or takes the place of an idle one, or  *)
(* every worker there is is retained: then as many stores are needed.      *)
(***************************************************************************)
LEMMA SpawnStaysBounded ==
    ASSUME PoolInv, PoolInv', PoolBounded, NEW k \in Call, Spawn(k)
    PROVE  PoolBounded'
<1> DEFINE s == StoreOf[k]
           idle == {t \in Open : activeOps'[t] = 0}
<1>1. PICK V \in Victims(activeOps') : connections' = Registered(V, s, spawned + 1)
  BY DEF Spawn
<1>2. /\ s \in Store /\ s \notin Open /\ V \in SUBSET Open
      /\ peak' = Highest(activeOps')
      /\ spawned + 1 # None
      /\ activeOps' = retain(k)
  <2>1. V \in SUBSET Open
    BY <1>1, VictimsIdle
  <2>2. connections[s] = None /\ peak' = Highest(activeOps') /\ activeOps' = retain(k)
    BY DEF Spawn
  <2>3. s \in Store
    BY PoolAssumption
  <2>4. spawned + 1 # None
    BY PoolAssumption DEF PoolInv, TypeOK
  <2> QED BY <2>1, <2>2, <2>3, <2>4 DEF Open
<1>3. Open' = (Open \ V) \cup {s}
  BY <1>1, <1>2 DEF Open, Registered, Without
<1>4. IsFiniteSet(Open) /\ Cardinality(Open) \in Nat
  BY PoolAssumption, FS_Subset, FS_CardinalityType DEF Open
<1>5. peak' \in Nat /\ peak \in Nat /\ peak <= peak' /\ maxWorkers \in Nat
  BY <1>2, PeakGrows, PoolAssumption DEF PoolInv, TypeOK
<1>6. CASE V = {}
  <2>1. Cardinality(Open') = Cardinality(Open) + 1
    <3>1. Open' = Open \cup {s}
      BY <1>3, <1>6
    <3> QED BY <1>2, <1>4, <3>1, FS_AddElement
  <2>2. CASE Cardinality(Open) < maxWorkers
    BY <1>4, <1>5, <2>1, <2>2 DEF PoolBounded
  <2>3. CASE ~(Cardinality(Open) < maxWorkers)
    <3>1. idle = {}
      BY <1>1, <1>6, <2>3 DEF Victims
    <3>2. activeOps'[s] > 0 /\ \A t \in Open : activeOps'[t] > 0
      BY <1>2, <3>1 DEF retain, PoolInv, TypeOK, Open
    <3>3. Open' \in SUBSET Retained(activeOps')
      BY <1>2, <1>3, <3>2 DEF Retained, Open
    <3>4. IsFiniteSet(Retained(activeOps'))
      BY PoolAssumption, FS_Subset DEF Retained
    <3>5. /\ Cardinality(Open') <= Cardinality(Retained(activeOps'))
          /\ Cardinality(Retained(activeOps')) \in Nat
      BY <3>3, <3>4, FS_Subset, FS_CardinalityType
    <3>6. Cardinality(Retained(activeOps')) <= peak'
      BY <1>2, PeakGrows
    <3> QED BY <1>4, <1>5, <2>1, <3>5, <3>6 DEF PoolBounded
  <2> QED BY <2>2, <2>3
<1>7. CASE V # {}
  <2>1. PICK v \in Open : V = {v}
    BY <1>1, <1>7 DEF Victims
  <2>2. IsFiniteSet(Open \ {v}) /\ Cardinality(Open \ {v}) = Cardinality(Open) - 1
    BY <1>4, <2>1, FS_RemoveElement
  <2>3. s \notin Open \ {v} /\ Open' = (Open \ {v}) \cup {s}
    BY <1>2, <1>3, <2>1
  <2>4. Cardinality(Open') = Cardinality(Open \ {v}) + 1
    BY <2>2, <2>3, FS_AddElement
  <2> QED BY <1>4, <1>5, <2>2, <2>4 DEF PoolBounded
<1> QED BY <1>6, <1>7

(***************************************************************************)
(* evictForCapacity keeps the pool within maxWorkers, or within what calls *)
(* once needed at the same time.                                           *)
(***************************************************************************)
THEOREM PoolAlwaysBounded == Spec => []PoolBounded
<1>1. Init => PoolBounded
  <2> SUFFICES ASSUME Init PROVE PoolBounded
    OBVIOUS
  <2>1. Open = {}
    BY DEF Init, Open
  <2> QED BY <2>1, FS_EmptySet, PoolAssumption DEF PoolBounded
<1>2. PoolBounded /\ PoolInv /\ PoolInv' /\ [Next]_vars => PoolBounded'
  <2> SUFFICES ASSUME PoolBounded, PoolInv, PoolInv', [Next]_vars PROVE PoolBounded'
    OBVIOUS
  <2>0. peak \in Nat /\ peak' \in Nat /\ peak <= peak
    BY DEF PoolInv, TypeOK
  <2>1. ASSUME NEW k \in Call, Spawn(k) PROVE PoolBounded'
    BY <2>1, SpawnStaysBounded
  <2>2. ASSUME NEW k \in Call, Join(k) \/ Send(k) PROVE PoolBounded'
    <3>1. Open' = Open /\ peak <= peak'
      BY <2>0, <2>2, PeakGrows DEF Join, Send, Open
    <3> QED BY <2>0, <3>1, ShrinkingStaysBounded
  <2>3. ASSUME NEW c \in Conn, OpenDb(c) \/ Crash(c) \/ Answer(c) PROVE PoolBounded'
    <3>1. Open' = Open /\ peak' = peak
      BY <2>3 DEF OpenDb, Crash, Answer, Open
    <3> QED BY <2>0, <3>1, ShrinkingStaysBounded
  <2>4. ASSUME NEW c \in Conn, Die(c) PROVE PoolBounded'
    <3>1. Open' \in SUBSET Open /\ peak' = peak
      BY <2>4 DEF Die, Open, Without
    <3> QED BY <2>0, <3>1, ShrinkingStaysBounded
  <2>5. ASSUME NEW S, NEW who, CloseThem(S, who) PROVE PoolBounded'
    <3>1. Open' \in SUBSET Open /\ peak' = peak
      BY <2>5 DEF CloseThem, Open, Without
    <3> QED BY <2>0, <3>1, ShrinkingStaysBounded
  <2>6. ASSUME UNCHANGED vars PROVE PoolBounded'
    BY <2>6 DEF vars, PoolBounded, Open
  <2> QED BY <2>1, <2>2, <2>3, <2>4, <2>5, <2>6
          DEF Next, closeStore, closeAll, sweepIdle
<1> QED BY <1>1, <1>2, PoolAlways, PTL DEF Spec
=============================================================================
