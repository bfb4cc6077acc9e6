-------------------- MODULE PromptAcceptanceLedgerProofs --------------------
(***************************************************************************)
(* Proofs about PromptAcceptanceLedger, for every number of nonces,        *)
(* records, windows, restarts and clock values.                            *)
(***************************************************************************)
EXTENDS PromptAcceptanceLedger, SequenceLemmas

\* Nothing of a process survives it.
Unloaded ==
    ~loaded => /\ inFlight = {} /\ records = <<>> /\ gaps = EMPTY_GAPS
               /\ degradedSince = None /\ markerMayExist = FALSE

\* No stamp lies in the future.
StampsPast ==
    /\ \A a \in owed \cup inFlight : a.at <= clock
    /\ degradedSince <= clock
    /\ marker <= clock

\* Memory knows of the marker, and the marker is not younger than the failure.
MarkerTracked ==
    loaded => /\ markerMayExist <=> marker # None
              /\ degradedSince # None => marker <= degradedSince

\* LossesAreDated, for the attempts in flight too.
NoneLost ==
    loaded => \A a \in owed \cup inFlight :
                  Holds(records, a) \/ Dated(a.at, gaps)

\* One attempt per nonce, and what the nonce was accepted for before is lost.
NoncePassed ==
    \A a \in inFlight :
        /\ \A b \in inFlight : a.nonce = b.nonce => a = b
        /\ \A o \in owed : o.nonce = a.nonce => Dated(o.at, gaps)

LedgerInv ==
    /\ TypeOK /\ Unloaded /\ StampsPast /\ MarkerTracked /\ NoneLost
    /\ DiskAccountsForLosses /\ NoncePassed
-----------------------------------------------------------------------------
(***************************************************************************)
(* Gaps only grow: a time that they cover stays covered, also when a full  *)
(* list of windows merges the new one into its last.                       *)
(***************************************************************************)
BoundedGaps == {g \in Gaps : Len(g.windows) <= MAX_DEGRADED_WINDOWS}

LEMMA HorizonCovers ==
    ASSUME NEW g \in BoundedGaps, NEW t \in Time
    PROVE  /\ WithEvictionHorizon(g, t) \in BoundedGaps
           /\ Dated(t, WithEvictionHorizon(g, t))
           /\ \A at \in Time : Dated(at, g) =>
                                  Dated(at, WithEvictionHorizon(g, t))
BY LedgerAssumption
   DEF BoundedGaps, Gaps, WithEvictionHorizon, Later, Dated, Time, None

LEMMA ResetCovers ==
    ASSUME NEW g \in BoundedGaps, NEW t \in Time
    PROVE  /\ WithCorruptReset(g, t) \in BoundedGaps
           /\ \A at \in Time : at <= t => Dated(at, WithCorruptReset(g, t))
BY LedgerAssumption
   DEF BoundedGaps, Gaps, WithCorruptReset, Later, Dated, Time, None

LEMMA WindowCovers ==
    ASSUME NEW g \in BoundedGaps, NEW w \in Window
    PROVE  /\ WithDegradedWindow(g, w) \in BoundedGaps
           /\ \A at \in Time : (w.from <= at /\ at <= w.to) \/ Dated(at, g)
                  => Dated(at, WithDegradedWindow(g, w))
<1> DEFINE ws == g.windows
           n == Len(ws)
           merged == [from |-> Earlier(ws[n].from, w.from),
                      to |-> Later(ws[n].to, w.to)]
           h == WithDegradedWindow(g, w)
<1>1. /\ ws \in Seq(Window) /\ n \in Nat /\ n <= MAX_DEGRADED_WINDOWS
      /\ g.horizon \in Time \cup {None} /\ g.reset \in Time \cup {None}
      /\ g = [horizon |-> g.horizon, windows |-> ws, reset |-> g.reset]
  BY DEF BoundedGaps, Gaps
<1>2. CASE n < MAX_DEGRADED_WINDOWS
  <2>1. h = [horizon |-> g.horizon, windows |-> Append(ws, w),
             reset |-> g.reset]
    <3>1. h = [g EXCEPT !.windows = Append(ws, w)]
      BY <1>2, Zenon DEF WithDegradedWindow
    <3> HIDE DEF h
    <3> QED
      BY <1>1, <3>1
  <2>2. /\ Append(ws, w) \in Seq(Window) /\ Len(Append(ws, w)) = n + 1
        /\ DOMAIN Append(ws, w) = 1..(n + 1) /\ DOMAIN ws = 1..n
        /\ Append(ws, w)[n + 1] = w
        /\ \A i \in 1..n : Append(ws, w)[i] = ws[i]
    BY <1>1
  <2>3. h \in BoundedGaps
    BY <1>1, <1>2, <2>1, <2>2, LedgerAssumption DEF BoundedGaps, Gaps
  <2>4. ASSUME NEW at \in Time,
               (w.from <= at /\ at <= w.to) \/ Dated(at, g)
        PROVE  Dated(at, h)
    <3>1. n + 1 \in 1..(n + 1) /\ 1..n \subseteq 1..(n + 1)
      BY <1>1
    <3> QED
      BY <2>1, <2>2, <2>4, <3>1 DEF Dated
  <2> QED
    BY <2>3, <2>4
<1>3. CASE ~(n < MAX_DEGRADED_WINDOWS)
  <2>1. n \in 1..n /\ DOMAIN ws = 1..n /\ ws[n] \in Window
    BY <1>1, <1>3, LedgerAssumption
  <2>2. merged \in Window
    BY <2>1 DEF Window, Earlier, Later
  <2> DEFINE vs == [ws EXCEPT ![n] = merged]
  <2>3. h = [horizon |-> g.horizon, windows |-> vs, reset |-> g.reset]
    BY <1>1, <1>3 DEF WithDegradedWindow, BoundedGaps, Gaps
  <2>4. /\ vs \in Seq(Window) /\ Len(vs) = n /\ DOMAIN vs = 1..n
        /\ vs[n] = merged /\ \A i \in 1..n : i # n => vs[i] = ws[i]
    <3> HIDE DEF merged
    <3> QED
      BY <1>1, <2>1, <2>2
  <2>5. h \in BoundedGaps
    <3> HIDE DEF vs
    <3> QED
      BY <1>1, <2>3, <2>4 DEF BoundedGaps, Gaps
  <2>6. ASSUME NEW at \in Time,
               (w.from <= at /\ at <= w.to) \/ Dated(at, g)
        PROVE  Dated(at, h)
    <3>1. \A x \in Window : (x.from <= at /\ at <= x.to) /\ (x = w \/ x = ws[n])
             => merged.from <= at /\ at <= merged.to
      BY <2>1, LedgerAssumption DEF Window, Earlier, Later, Time
    <3> HIDE DEF vs, merged
    <3>2. CASE w.from <= at /\ at <= w.to
      BY <2>1, <2>3, <2>4, <3>1, <3>2 DEF Dated
    <3>3. CASE at <= g.horizon \/ at <= g.reset
      BY <2>3, <3>3 DEF Dated
    <3>4. CASE \E i \in DOMAIN ws : ws[i].from <= at /\ at <= ws[i].to
      <4>1. PICK i \in 1..n : ws[i].from <= at /\ at <= ws[i].to
        BY <2>1, <3>4
      <4>2. vs[i].from <= at /\ at <= vs[i].to
        BY <2>1, <2>4, <3>1, <4>1
      <4> QED
        BY <2>3, <2>4, <4>1, <4>2 DEF Dated
    <3> QED
      BY <2>6, <3>2, <3>3, <3>4 DEF Dated
  <2> QED
    BY <2>5, <2>6
<1> QED
  BY <1>2, <1>3
-----------------------------------------------------------------------------
(***************************************************************************)
(* persist, called with records recs and gaps g that account for the       *)
(* attempts A: memory still accounts for them afterwards, and so does the  *)
(* disk, whether the file is written or not.                               *)
(***************************************************************************)
DiskKnows(a) ==
    \/ OnFile(a)
    \/ file.damaged
    \/ marker # None /\ marker <= a.at

BoundedRecords == {recs \in Seq(Record) : Len(recs) <= MAX_RECORDS}

StateType ==
    /\ loaded \in BOOLEAN /\ markerMayExist \in BOOLEAN
    /\ records \in BoundedRecords /\ gaps \in BoundedGaps
    /\ degradedSince \in Time \cup {None} /\ marker \in Time \cup {None}
    /\ file \in [records : BoundedRecords, gaps : BoundedGaps,
                 damaged : BOOLEAN]

LEMMA TypeOKParts ==
    TypeOK <=> /\ StateType
               /\ clock \in Time
               /\ inFlight \subseteq Attempt /\ owed \subseteq Attempt
               /\ restarts \in 0..MaxRestarts /\ sends \in 0..MaxSends
BY DEF TypeOK, StateType, BoundedRecords, BoundedGaps

LEMMA PersistAccounts ==
    ASSUME StateType, clock \in Time,
           NEW recs \in BoundedRecords, NEW g \in BoundedGaps,
           NEW since \in Time \cup {None}, NEW may \in BOOLEAN,
           since <= clock, marker <= clock,
           may <=> marker # None, since # None => marker <= since,
           NEW A, A \subseteq Attempt,
           \A a \in A : a.at <= clock,
           \A a \in A : Holds(recs, a) \/ Dated(a.at, g),
           \A a \in A : \/ DiskKnows(a)
                        \/ (IF since = None THEN clock ELSE since) <= a.at,
           Persist(recs, g, since, may)
    PROVE  /\ StateType'
           /\ loaded' /\ degradedSince' <= clock /\ marker' <= clock
           /\ (markerMayExist' <=> marker' # None)
           /\ degradedSince' # None => marker' <= degradedSince'
           /\ \A a \in A : Holds(records', a) \/ Dated(a.at, gaps')
           /\ \A at \in Time : Dated(at, g) => Dated(at, gaps')
           /\ \A a \in A : \/ DiskKnows(a)'
                           \/ degradedSince' # None /\ degradedSince' <= a.at
<1>0. loaded' = TRUE
  BY DEF Persist
<1>1. CASE PersistWrites(recs, g, since, may)
  <2> DEFINE h == GapsToWrite(g, since)
  <2>1. h \in BoundedGaps /\ \A at \in Time : Dated(at, g) => Dated(at, h)
    <3>1. CASE since = None
      BY <3>1 DEF GapsToWrite
    <3>2. CASE since # None
      <4>1. [from |-> since, to |-> clock] \in Window
        BY <3>2 DEF Window
      <4> QED
        BY <3>2, <4>1, WindowCovers DEF GapsToWrite
    <3> QED
      BY <3>1, <3>2
  <2>2. /\ file' = [records |-> recs, gaps |-> h, damaged |-> FALSE]
        /\ records' = recs /\ gaps' = h /\ degradedSince' = None
        /\ RemoveMarker(may)
    BY <1>1 DEF PersistWrites
  <2> HIDE DEF h
  <2>3. /\ marker' \in Time \cup {None} /\ markerMayExist' \in BOOLEAN
        /\ marker' <= clock /\ (markerMayExist' <=> marker' # None)
    <3>1. \/ markerMayExist' = FALSE /\ marker' = None
          \/ markerMayExist' = TRUE /\ marker' = marker /\ marker # None
      BY <2>2, Zenon DEF RemoveMarker
    <3>2. CASE markerMayExist' = FALSE /\ marker' = None
      <4>1. None <= clock
        BY LedgerAssumption DEF Time, None
      <4> QED
        BY <3>2, <4>1, Zenon
    <3>3. CASE markerMayExist' = TRUE /\ marker' = marker /\ marker # None
      BY <3>3 DEF StateType
    <3> QED
      BY <3>1, <3>2, <3>3
  <2>4. StateType' /\ degradedSince' <= clock
    BY <1>0, <2>1, <2>2, <2>3, LedgerAssumption DEF StateType, Time, None
  <2>5. \A a \in A : Holds(records', a) \/ Dated(a.at, gaps')
    BY <2>1, <2>2 DEF Attempt
  <2>6. \A a \in A : OnFile(a)'
    BY <2>2, <2>5 DEF OnFile, Holds, Dated
  <2> QED
    BY <1>0, <2>1, <2>2, <2>3, <2>4, <2>5, <2>6 DEF DiskKnows
<1>2. CASE PersistFails(recs, g, since, may)
  <2> DEFINE now == IF since = None THEN clock ELSE since
  <2>1. /\ file' = file /\ records' = recs /\ gaps' = g
        /\ degradedSince' = now /\ WriteMarker(may, now)
    BY <1>2 DEF PersistFails
  <2>2. now \in Time /\ now <= clock /\ marker <= now /\ now # None
    BY LedgerAssumption DEF Time, None, StateType
  <2> HIDE DEF now
  <2>3. /\ marker' \in Time \cup {None} /\ markerMayExist' \in BOOLEAN
        /\ marker' <= now /\ (markerMayExist' <=> marker' # None)
        /\ marker' = marker \/ (marker = None /\ marker' = now)
    <3>1. \/ markerMayExist' = TRUE /\ marker' = marker /\ marker # None
          \/ markerMayExist' = TRUE /\ marker' = now /\ marker = None
          \/ markerMayExist' = FALSE /\ marker' = None /\ marker = None
      <4>1. CASE may
        BY <2>1, <4>1, Zenon DEF WriteMarker
      <4>2. CASE ~may
        BY <2>1, <4>2, Zenon DEF WriteMarker
      <4> QED
        BY <4>1, <4>2
    <3>2. CASE markerMayExist' = TRUE /\ marker' = marker /\ marker # None
      BY <2>2, <3>2 DEF StateType
    <3>3. CASE markerMayExist' = TRUE /\ marker' = now /\ marker = None
      BY <2>2, <3>3 DEF Time
    <3>4. CASE markerMayExist' = FALSE /\ marker' = None /\ marker = None
      BY <2>2, <3>4
    <3> QED
      BY <3>1, <3>2, <3>3, <3>4
  <2>4. StateType' /\ degradedSince' <= clock /\ marker' <= clock
    BY <1>0, <2>1, <2>2, <2>3, LedgerAssumption DEF StateType, Time, None
  <2>5. \A a \in A : DiskKnows(a) => DiskKnows(a)'
    BY <2>1, <2>3 DEF DiskKnows, OnFile, Holds, Dated
  <2>6. \A a \in A : DiskKnows(a)' \/ degradedSince' <= a.at
    BY <2>1, <2>5 DEF now
  <2> QED
    BY <1>0, <2>1, <2>2, <2>3, <2>4, <2>6
<1> QED
  BY <1>1, <1>2 DEF Persist
-----------------------------------------------------------------------------
LEMMA LedgerInvInit == Init => LedgerInv
<1> SUFFICES ASSUME Init PROVE LedgerInv
  OBVIOUS
<1>1. <<>> \in Seq(Record) /\ <<>> \in Seq(Window) /\ Len(<<>>) = 0
  OBVIOUS
<1>2. EMPTY_GAPS \in BoundedGaps /\ <<>> \in BoundedRecords
  BY <1>1, LedgerAssumption DEF EMPTY_GAPS, BoundedGaps, BoundedRecords, Gaps
<1>3. StateType
  BY <1>2 DEF Init, StateType, NoFile
<1>4. TypeOK
  BY <1>3, TypeOKParts, LedgerAssumption DEF Init, Time
<1>5. Unloaded /\ MarkerTracked /\ NoneLost /\ NoncePassed
      /\ DiskAccountsForLosses
  BY DEF Init, Unloaded, MarkerTracked, NoneLost, NoncePassed,
         DiskAccountsForLosses
<1>6. StampsPast
  BY DEF Init, StampsPast, None
<1> QED
  BY <1>4, <1>5, <1>6 DEF LedgerInv

(***************************************************************************)
(* A step that calls persist keeps the invariant, when what it hands to    *)
(* persist accounts for the attempts of the next state.                    *)
(***************************************************************************)
LEMMA PersistStep ==
    ASSUME LedgerInv,
           NEW recs \in BoundedRecords, NEW g \in BoundedGaps,
           NEW since \in Time \cup {None}, NEW may \in BOOLEAN,
           since <= clock, may <=> marker # None,
           since # None => marker <= since,
           owed' \subseteq Attempt, inFlight' \subseteq Attempt,
           restarts' \in 0..MaxRestarts, sends' \in 0..MaxSends,
           clock' = clock,
           \A a \in owed' \cup inFlight' :
              /\ a.at <= clock
              /\ Holds(recs, a) \/ Dated(a.at, g)
              /\ DiskKnows(a) \/ (IF since = None THEN clock ELSE since) <= a.at,
           \A a \in inFlight' :
              /\ \A b \in inFlight' : a.nonce = b.nonce => a = b
              /\ \A o \in owed' : o.nonce = a.nonce => Dated(o.at, g),
           Persist(recs, g, since, may)
    PROVE  LedgerInv'
<1> DEFINE A == owed' \cup inFlight'
<1>1. StateType /\ clock \in Time /\ marker <= clock
  BY TypeOKParts DEF LedgerInv, StampsPast
<1>2. A \subseteq Attempt /\ \A a \in A : a.at \in Time
  BY DEF Attempt
<1>3. /\ StateType'
      /\ loaded' /\ degradedSince' <= clock /\ marker' <= clock
      /\ (markerMayExist' <=> marker' # None)
      /\ degradedSince' # None => marker' <= degradedSince'
      /\ \A a \in A : Holds(records', a) \/ Dated(a.at, gaps')
      /\ \A at \in Time : Dated(at, g) => Dated(at, gaps')
      /\ \A a \in A : \/ DiskKnows(a)'
                      \/ degradedSince' # None /\ degradedSince' <= a.at
  <2> HIDE DEF A
  <2>1. /\ \A a \in A : a.at <= clock
        /\ \A a \in A : Holds(recs, a) \/ Dated(a.at, g)
        /\ \A a \in A : \/ DiskKnows(a)
                        \/ (IF since = None THEN clock ELSE since) <= a.at
    BY DEF A
  <2> QED
    BY <1>1, <1>2, <2>1, PersistAccounts
<1>4. TypeOK'
  <2>1. clock' \in Time
    BY <1>1
  <2> QED
    BY <1>3, <2>1 DEF TypeOK, StateType, BoundedRecords, BoundedGaps
<1>5. Unloaded' /\ MarkerTracked' /\ StampsPast'
  BY <1>3 DEF Unloaded, MarkerTracked, StampsPast
<1>6. NoneLost'
  BY <1>3 DEF NoneLost, Holds, Dated
<1>7. DiskAccountsForLosses'
  BY <1>3 DEF DiskAccountsForLosses, DiskKnows
<1>8. NoncePassed'
  BY <1>2, <1>3 DEF NoncePassed
<1> QED
  BY <1>4, <1>5, <1>6, <1>7, <1>8 DEF LedgerInv

(***************************************************************************)
(* load: whatever the disk says of a lost send becomes a gap.              *)
(***************************************************************************)
LEMMA LoadKeeps ==
    ASSUME LedgerInv, ~loaded,
           NEW f \in [records : BoundedRecords, gaps : BoundedGaps,
                     damaged : BOOLEAN],
           LoadFrom(f), owed' \subseteq owed,
           \A a \in owed' : \/ Holds(f.records, a)
                            \/ Dated(a.at, f.gaps)
                            \/ f.damaged
                            \/ marker # None /\ marker <= a.at,
           \A a \in owed' : DiskKnows(a),
           UNCHANGED <<clock, inFlight, bounds>>
    PROVE  LedgerInv'
<1> DEFINE g1 == GapsOfFile(f)
           g2 == GapsOfMarker(g1)
           may == marker # None
<1>1. /\ StateType /\ clock \in Time /\ marker <= clock
      /\ inFlight \subseteq Attempt /\ owed \subseteq Attempt
      /\ restarts \in 0..MaxRestarts /\ sends \in 0..MaxSends
      /\ \A a \in owed : a.at <= clock
      /\ inFlight = {} /\ degradedSince = None /\ markerMayExist = FALSE
  BY TypeOKParts DEF LedgerInv, StampsPast, Unloaded
<1>2. /\ owed' \subseteq Attempt /\ inFlight' = {}
      /\ clock' = clock /\ restarts' = restarts /\ sends' = sends
      /\ \A a \in owed' : a.at \in Time /\ a.at <= clock
  BY <1>1 DEF Attempt, bounds
<1>3. /\ g1 \in BoundedGaps
      /\ \A at \in Time : Dated(at, f.gaps) /\ ~f.damaged => Dated(at, g1)
      /\ \A a \in owed' : f.damaged => Dated(a.at, g1)
  <2>1. f.gaps \in BoundedGaps
    OBVIOUS
  <2>2. CASE f.damaged
    BY <1>1, <1>2, <2>1, <2>2, ResetCovers DEF GapsOfFile
  <2>3. CASE ~f.damaged
    BY <2>1, <2>3 DEF GapsOfFile
  <2> QED
    BY <2>2, <2>3
<1> HIDE DEF g1
<1>4. /\ g2 \in BoundedGaps
      /\ \A at \in Time : Dated(at, g1) => Dated(at, g2)
      /\ \A a \in owed' : marker # None /\ marker <= a.at => Dated(a.at, g2)
  <2>1. CASE marker = None
    BY <1>3, <2>1 DEF GapsOfMarker
  <2>2. CASE marker # None
    <3>1. [from |-> marker, to |-> clock] \in Window
      BY <1>1, <2>2 DEF Window, StateType
    <3> QED
      BY <1>2, <1>3, <2>2, <3>1, WindowCovers DEF GapsOfMarker
  <2> QED
    BY <2>1, <2>2
<1>5. \A a \in owed' : Holds(f.records, a) \/ Dated(a.at, g2)
  BY <1>2, <1>3, <1>4
<1>6. f.records \in BoundedRecords
  OBVIOUS
<1>7. CASE f.damaged \/ may
  <2>1. Persist(f.records, g2, None, may)
    BY <1>7 DEF LoadFrom, g1
  <2>2. /\ None \in Time \cup {None} /\ may \in BOOLEAN
        /\ None <= clock
    BY <1>1, LedgerAssumption DEF Time, None
  <2> HIDE DEF g2
  <2>3. \A a \in owed' \cup inFlight' :
           /\ a.at <= clock
           /\ Holds(f.records, a) \/ Dated(a.at, g2)
           /\ DiskKnows(a)
    BY <1>2, <1>5
  <2>4. \A a \in inFlight' : FALSE
    BY <1>2
  <2> QED
    BY <1>1, <1>2, <1>4, <1>6, <2>1, <2>2, <2>3, <2>4, PersistStep
<1>8. CASE ~(f.damaged \/ may)
  <2>1. /\ loaded' = TRUE /\ records' = f.records /\ gaps' = g2
        /\ UNCHANGED <<degradedSince, markerMayExist, disk>>
    BY <1>8, Zenon DEF LoadFrom, g1
  <2>2. /\ degradedSince' = None /\ markerMayExist' = FALSE
        /\ file' = file /\ marker' = marker /\ marker = None
    BY <1>1, <1>8, <2>1 DEF disk
  <2> HIDE DEF g2
  <2>3. StateType'
    BY <1>1, <1>4, <1>6, <2>1, <2>2 DEF StateType
  <2>4. TypeOK'
    BY <1>1, <1>2, <2>3 DEF TypeOK, StateType, BoundedRecords, BoundedGaps
  <2>5. Unloaded' /\ MarkerTracked'
    BY <2>1, <2>2 DEF Unloaded, MarkerTracked
  <2>6. StampsPast'
    BY <1>1, <1>2, <2>2, LedgerAssumption DEF StampsPast, Time, None
  <2>7. NoneLost'
    BY <1>2, <1>5, <2>1 DEF NoneLost, Holds, Dated
  <2>8. DiskAccountsForLosses'
    BY <1>2, <2>2 DEF DiskAccountsForLosses, DiskKnows, OnFile, Holds, Dated
  <2>9. NoncePassed'
    BY <1>2 DEF NoncePassed
  <2> QED
    BY <2>4, <2>5, <2>6, <2>7, <2>8, <2>9 DEF LedgerInv
<1> QED
  BY <1>7, <1>8

(***************************************************************************)
(* evictPastCap: the record that goes leaves its time in the horizon.      *)
(***************************************************************************)
LEMMA VictimInRecords ==
    ASSUME NEW recs \in Seq(Record), recs # <<>>
    PROVE  Victim(recs) \in DOMAIN recs
<1> DEFINE C == {i \in DOMAIN recs : recs[i].status # "pending"}
<1>1. CASE C = {}
  BY <1>1 DEF Victim
<1>2. CASE C # {}
  <2>1. C \subseteq Nat
    OBVIOUS
  <2>2. \E i \in C : \A j \in C : i <= j
    <3> HIDE DEF C
    <3> QED BY <1>2, <2>1, LeastNatural
  <2> QED
    BY <1>2, <2>2 DEF Victim
<1> QED
  BY <1>1, <1>2

LEMMA EvictKeeps ==
    ASSUME NEW recs \in Seq(Record), Len(recs) <= MAX_RECORDS + 1,
           NEW g \in BoundedGaps
    PROVE  /\ EvictedRecords(recs) \in BoundedRecords
           /\ EvictedGaps(recs, g) \in BoundedGaps
           /\ \A at \in Time : Dated(at, g) => Dated(at, EvictedGaps(recs, g))
           /\ \A a \in Attempt : Holds(recs, a) =>
                  \/ Holds(EvictedRecords(recs), a)
                  \/ Dated(a.at, EvictedGaps(recs, g))
<1>1. CASE Len(recs) <= MAX_RECORDS
  BY <1>1 DEF EvictedRecords, EvictedGaps, BoundedRecords
<1>2. CASE ~(Len(recs) <= MAX_RECORDS)
  <2> DEFINE v == Victim(recs)
             h == WithEvictionHorizon(g, recs[v].at)
             r == RemoveAt(recs, v)
  <2>1. EvictedRecords(recs) = r /\ EvictedGaps(recs, g) = h
    BY <1>2 DEF EvictedRecords, EvictedGaps
  <2>2. recs # <<>> /\ Len(recs) \in Nat
    BY <1>2, LedgerAssumption
  <2>3. v \in DOMAIN recs
    BY <2>2, VictimInRecords
  <2> HIDE DEF v
  <2>4. recs[v] \in Record /\ recs[v].at \in Time
    <3>1. recs[v] \in Record
      BY <2>3
    <3> QED
      BY <3>1 DEF Record
  <2>5. r \in Seq(Record) /\ Len(r) = Len(recs) - 1
    BY <2>3, RemoveAtType
  <2>6. r \in BoundedRecords
    BY <2>2, <2>5, LedgerAssumption DEF BoundedRecords
  <2>7. /\ h \in BoundedGaps /\ Dated(recs[v].at, h)
        /\ \A at \in Time : Dated(at, g) => Dated(at, h)
    BY <2>4, HorizonCovers
  <2>8. ASSUME NEW a \in Attempt, Holds(recs, a)
        PROVE  Holds(r, a) \/ Dated(a.at, h)
    <3>1. PICK k \in DOMAIN recs : /\ recs[k].nonce = a.nonce
                                   /\ recs[k].digest = a.digest
                                   /\ recs[k].at = a.at
      BY <2>8 DEF Holds
    <3>2. CASE k = v
      BY <2>7, <3>1, <3>2
    <3>3. CASE k # v
      <4>1. \E j \in DOMAIN r : r[j] = recs[k]
        BY <2>3, <3>3, RemoveAtKeeps
      <4> QED
        BY <3>1, <4>1 DEF Holds
    <3> QED
      BY <3>2, <3>3
  <2> HIDE DEF h, r
  <2> QED
    BY <2>1, <2>6, <2>7, <2>8
<1> QED
  BY <1>1, <1>2

LEMMA AppendHolds ==
    ASSUME NEW recs \in Seq(Record), NEW r \in Record
    PROVE  /\ Append(recs, r) \in Seq(Record)
           /\ Len(Append(recs, r)) = Len(recs) + 1
           /\ \A a : Holds(recs, a) => Holds(Append(recs, r), a)
           /\ \A a : r.nonce = a.nonce /\ r.digest = a.digest /\ r.at = a.at
                      => Holds(Append(recs, r), a)
<1> DEFINE q == Append(recs, r)
<1>1. /\ q \in Seq(Record) /\ Len(q) = Len(recs) + 1 /\ Len(recs) \in Nat
      /\ DOMAIN recs = 1..Len(recs) /\ DOMAIN q = 1..(Len(recs) + 1)
      /\ q[Len(recs) + 1] = r /\ \A i \in 1..Len(recs) : q[i] = recs[i]
  OBVIOUS
<1>2. /\ Len(recs) + 1 \in 1..(Len(recs) + 1)
      /\ 1..Len(recs) \subseteq 1..(Len(recs) + 1)
  BY <1>1
<1> HIDE DEF q
<1>3. \A a : Holds(recs, a) => Holds(q, a)
  BY <1>1, <1>2 DEF Holds
<1>4. \A a : r.nonce = a.nonce /\ r.digest = a.digest /\ r.at = a.at
             => Holds(q, a)
  BY <1>1, <1>2 DEF Holds
<1> QED
  BY <1>1, <1>3, <1>4 DEF q
-----------------------------------------------------------------------------
\* What the actions need of the invariant while the ledger is loaded.
LEMMA LoadedFacts ==
    ASSUME LedgerInv, loaded
    PROVE  /\ StateType /\ clock \in Time
           /\ inFlight \subseteq Attempt /\ owed \subseteq Attempt
           /\ restarts \in 0..MaxRestarts /\ sends \in 0..MaxSends
           /\ records \in BoundedRecords /\ records \in Seq(Record)
           /\ gaps \in BoundedGaps
           /\ degradedSince \in Time \cup {None} /\ degradedSince <= clock
           /\ markerMayExist \in BOOLEAN
           /\ (markerMayExist <=> marker # None)
           /\ degradedSince # None => marker <= degradedSince
           /\ \A a \in owed \cup inFlight :
                 /\ a \in Attempt /\ a.at \in Time /\ a.at <= clock
                 /\ Holds(records, a) \/ Dated(a.at, gaps)
                 /\ \/ DiskKnows(a)
                    \/ (IF degradedSince = None THEN clock ELSE degradedSince)
                           <= a.at
           /\ \A a \in inFlight :
                 /\ \A b \in inFlight : a.nonce = b.nonce => a = b
                 /\ \A o \in owed : o.nonce = a.nonce => Dated(o.at, gaps)
<1>1. /\ StateType /\ clock \in Time
      /\ inFlight \subseteq Attempt /\ owed \subseteq Attempt
      /\ restarts \in 0..MaxRestarts /\ sends \in 0..MaxSends
  BY TypeOKParts DEF LedgerInv
<1>2. /\ records \in BoundedRecords /\ gaps \in BoundedGaps
      /\ degradedSince \in Time \cup {None} /\ markerMayExist \in BOOLEAN
  BY <1>1 DEF StateType
<1>3. records \in Seq(Record)
  BY <1>2 DEF BoundedRecords
<1>4. /\ (markerMayExist <=> marker # None)
      /\ degradedSince # None => marker <= degradedSince
  BY DEF LedgerInv, MarkerTracked
<1>5. degradedSince <= clock /\ \A a \in owed \cup inFlight : a.at <= clock
  BY DEF LedgerInv, StampsPast
<1>6. \A a \in owed \cup inFlight :
         /\ a \in Attempt /\ a.at \in Time
         /\ Holds(records, a) \/ Dated(a.at, gaps)
  BY <1>1 DEF LedgerInv, NoneLost, Attempt
<1>7. \A a \in owed \cup inFlight :
         DiskKnows(a) \/ (degradedSince # None /\ degradedSince <= a.at)
  BY DEF LedgerInv, DiskAccountsForLosses, DiskKnows
<1>8. \A a \in inFlight :
         /\ \A b \in inFlight : a.nonce = b.nonce => a = b
         /\ \A o \in owed : o.nonce = a.nonce => Dated(o.at, gaps)
  BY DEF LedgerInv, NoncePassed
<1> QED
  BY <1>1, <1>2, <1>3, <1>4, <1>5, <1>6, <1>7, <1>8

LEMMA RecordPendingKeeps ==
    ASSUME LedgerInv, NEW n \in Nonce, NEW d \in Digest, RecordPending(n, d)
    PROVE  LedgerInv'
<1> DEFINE r == [nonce |-> n, digest |-> d, status |-> "pending", at |-> clock]
           recs == Append(records, r)
           new == [nonce |-> n, digest |-> d, at |-> clock]
           er == EvictedRecords(recs)
           eg == EvictedGaps(recs, gaps)
           now == IF degradedSince = None THEN clock ELSE degradedSince
<1>1. /\ loaded /\ sends < MaxSends /\ AttemptsInFlight(n) = {}
      /\ AdmitSend(n, d) = "dispatch"
      /\ Persist(er, eg, degradedSince, markerMayExist)
      /\ inFlight' = inFlight \cup {new} /\ sends' = sends + 1
      /\ clock' = clock /\ owed' = owed /\ restarts' = restarts
  BY DEF RecordPending
<1> HIDE DEF new
<1>2. r \in Record /\ new \in Attempt /\ new.at = clock /\ new.nonce = n
  BY <1>1, LoadedFacts DEF Record, Attempt, new
<1>3. n \notin Keys(records)
  BY <1>1 DEF AdmitSend, Lookup, Keys
<1>4. /\ records \in BoundedRecords /\ records \in Seq(Record)
      /\ gaps \in BoundedGaps /\ clock \in Time
      /\ Len(records) <= MAX_RECORDS /\ Len(records) \in Nat
  BY <1>1, LoadedFacts DEF BoundedRecords
<1> HIDE DEF r
<1>5. /\ recs \in Seq(Record) /\ Len(recs) = Len(records) + 1
      /\ \A a : Holds(records, a) => Holds(recs, a)
      /\ Holds(recs, new)
  <2>1. r.nonce = new.nonce /\ r.digest = new.digest /\ r.at = new.at
    BY DEF r, new
  <2> QED
    BY <1>2, <1>4, <2>1, AppendHolds
<1> HIDE DEF recs
<1>6. /\ er \in BoundedRecords /\ eg \in BoundedGaps
      /\ \A at \in Time : Dated(at, gaps) => Dated(at, eg)
      /\ \A a \in Attempt : Holds(recs, a) => Holds(er, a) \/ Dated(a.at, eg)
  <2>1. Len(recs) <= MAX_RECORDS + 1
    BY <1>4, <1>5, LedgerAssumption
  <2> QED
    BY <1>4, <1>5, <2>1, EvictKeeps
<1> HIDE DEF er, eg
<1>7. now <= clock /\ now \in Int
  BY <1>1, LoadedFacts, LedgerAssumption DEF Time, None
<1>8. ASSUME NEW a \in owed' \cup inFlight'
      PROVE  /\ a.at <= clock
             /\ Holds(er, a) \/ Dated(a.at, eg)
             /\ DiskKnows(a) \/ now <= a.at
  <2>1. CASE a = new
    BY <1>2, <1>4, <1>5, <1>6, <1>7, <2>1 DEF Time
  <2>2. CASE a \in owed \cup inFlight
    BY <1>1, <1>5, <1>6, <2>2, LoadedFacts
  <2> QED
    BY <1>1, <1>8, <2>1, <2>2
<1>9. ASSUME NEW a \in inFlight'
      PROVE  /\ \A b \in inFlight' : a.nonce = b.nonce => a = b
             /\ \A o \in owed' : o.nonce = a.nonce => Dated(o.at, eg)
  <2>1. \A b \in inFlight : b.nonce # n
    BY <1>1 DEF AttemptsInFlight
  <2>2. \A o \in owed : o.nonce = n => ~Holds(records, o)
    BY <1>3 DEF Holds, Keys
  <2>3. \A o \in owed : o.nonce = n => Dated(o.at, gaps)
    BY <1>1, <2>2, LoadedFacts
  <2>4. \A o \in owed : Dated(o.at, gaps) => Dated(o.at, eg)
    BY <1>1, <1>6, LoadedFacts
  <2>5. \A b \in inFlight' : a.nonce = b.nonce => a = b
    BY <1>1, <1>2, <2>1, LoadedFacts
  <2>6. \A o \in owed' : o.nonce = a.nonce => Dated(o.at, eg)
    BY <1>1, <1>2, <2>3, <2>4, LoadedFacts
  <2> QED
    BY <2>5, <2>6
<1>10. /\ owed' \subseteq Attempt /\ inFlight' \subseteq Attempt
       /\ restarts' \in 0..MaxRestarts /\ sends' \in 0..MaxSends
  <2>1. /\ owed \subseteq Attempt /\ inFlight \subseteq Attempt
        /\ restarts \in 0..MaxRestarts /\ sends \in 0..MaxSends
    BY <1>1, LoadedFacts
  <2> QED
    BY <1>1, <1>2, <2>1, LedgerAssumption
<1>11. /\ degradedSince \in Time \cup {None} /\ markerMayExist \in BOOLEAN
       /\ degradedSince <= clock /\ (markerMayExist <=> marker # None)
       /\ degradedSince # None => marker <= degradedSince
  BY <1>1, LoadedFacts
<1> QED
  BY <1>1, <1>6, <1>8, <1>9, <1>10, <1>11, PersistStep

(***************************************************************************)
(* The methods that leave the clock, the gaps and the restarts alone and   *)
(* move an attempt from inFlight to owed, or drop it.                      *)
(***************************************************************************)
LEMMA PersistRecordsKeeps ==
    ASSUME LedgerInv, loaded, NEW recs \in BoundedRecords,
           \A o \in owed' \cup inFlight' :
              Holds(recs, o) \/ Dated(o.at, gaps),
           inFlight' \subseteq inFlight,
           \/ owed' = owed
           \/ \E a \in inFlight : inFlight' = inFlight \ {a}
                                   /\ owed' = owed \cup {a},
           Persist(recs, gaps, degradedSince, markerMayExist),
           UNCHANGED <<clock, bounds>>
    PROVE  LedgerInv'
<1> DEFINE now == IF degradedSince = None THEN clock ELSE degradedSince
<1>1. /\ owed' \subseteq owed \cup inFlight /\ clock' = clock
      /\ restarts' = restarts /\ sends' = sends
  BY DEF bounds
<1>2. \A a \in owed' \cup inFlight' :
         /\ a.at <= clock
         /\ Holds(recs, a) \/ Dated(a.at, gaps)
         /\ DiskKnows(a) \/ now <= a.at
  BY <1>1, LoadedFacts
<1>3. \A a \in inFlight' :
         /\ \A b \in inFlight' : a.nonce = b.nonce => a = b
         /\ \A o \in owed' : o.nonce = a.nonce => Dated(o.at, gaps)
  <2>1. \A a \in inFlight :
         /\ \A b \in inFlight : a.nonce = b.nonce => a = b
         /\ \A o \in owed : o.nonce = a.nonce => Dated(o.at, gaps)
    BY LoadedFacts
  <2> QED
    BY <2>1
<1>4. /\ owed' \subseteq Attempt /\ inFlight' \subseteq Attempt
      /\ restarts' \in 0..MaxRestarts /\ sends' \in 0..MaxSends
  BY <1>1, LoadedFacts
<1>5. /\ degradedSince \in Time \cup {None} /\ markerMayExist \in BOOLEAN
      /\ degradedSince <= clock /\ (markerMayExist <=> marker # None)
      /\ degradedSince # None => marker <= degradedSince
      /\ gaps \in BoundedGaps
  BY LoadedFacts
<1> QED
  BY <1>1, <1>2, <1>3, <1>4, <1>5, PersistStep

LEMMA NoPersistKeeps ==
    ASSUME LedgerInv, loaded, UNCHANGED <<clock, memory, disk, bounds>>,
           inFlight' \subseteq inFlight,
           \/ owed' = owed
           \/ \E a \in inFlight : inFlight' = inFlight \ {a}
                                   /\ owed' = owed \cup {a}
    PROVE  LedgerInv'
<1>1. /\ owed' \subseteq owed \cup inFlight
      /\ owed' \cup inFlight' \subseteq owed \cup inFlight
  OBVIOUS
<1>2. /\ clock' = clock /\ restarts' = restarts /\ sends' = sends
      /\ loaded' = loaded /\ records' = records /\ gaps' = gaps
      /\ degradedSince' = degradedSince /\ markerMayExist' = markerMayExist
      /\ file' = file /\ marker' = marker
  BY DEF memory, disk, bounds
<1>3. TypeOK'
  BY <1>1, <1>2 DEF LedgerInv, TypeOK
<1>4. Unloaded' /\ StampsPast' /\ MarkerTracked'
  BY <1>1, <1>2 DEF LedgerInv, Unloaded, StampsPast, MarkerTracked
<1>5. NoneLost'
  BY <1>1, <1>2 DEF LedgerInv, NoneLost, Holds, Dated
<1>6. DiskAccountsForLosses'
  BY <1>1, <1>2 DEF LedgerInv, DiskAccountsForLosses, OnFile, Holds, Dated
<1>7. NoncePassed'
  <2>1. \A a \in inFlight :
         /\ \A b \in inFlight : a.nonce = b.nonce => a = b
         /\ \A o \in owed : o.nonce = a.nonce => Dated(o.at, gaps)
    BY DEF LedgerInv, NoncePassed
  <2>2. \A a \in inFlight' :
         /\ \A b \in inFlight' : a.nonce = b.nonce => a = b
         /\ \A o \in owed' : o.nonce = a.nonce => Dated(o.at, gaps)
    BY <2>1
  <2> QED
    BY <1>2, <2>2 DEF NoncePassed, Dated
<1> QED
  BY <1>3, <1>4, <1>5, <1>6, <1>7 DEF LedgerInv

LEMMA SetStatusHolds ==
    ASSUME records \in BoundedRecords, NEW n,
           NEW s \in {"pending", "accepted", "rejected"}
    PROVE  /\ SetStatus(n, s) \in BoundedRecords
           /\ \A a : Holds(records, a) => Holds(SetStatus(n, s), a)
<1> DEFINE q == SetStatus(n, s)
<1>1. /\ records \in Seq(Record) /\ Len(records) <= MAX_RECORDS
      /\ Len(records) \in Nat /\ DOMAIN records = 1..Len(records)
  BY DEF BoundedRecords
<1>2. \A i \in DOMAIN records : records[i] \in Record
  BY <1>1
<1>3. ASSUME NEW i \in DOMAIN records
      PROVE  /\ q[i] \in Record /\ q[i].nonce = records[i].nonce
             /\ q[i].digest = records[i].digest /\ q[i].at = records[i].at
  BY <1>2 DEF SetStatus, Record
<1>4. DOMAIN q = DOMAIN records
  BY DEF SetStatus
<1>5. q = [i \in DOMAIN records |-> q[i]]
  BY DEF SetStatus
<1> HIDE DEF q
<1>6. q \in Seq(Record) /\ Len(q) = Len(records)
  BY <1>1, <1>3, <1>4, <1>5
<1>7. \A a : Holds(records, a) => Holds(q, a)
  BY <1>3, <1>4 DEF Holds
<1> QED
  BY <1>1, <1>6, <1>7 DEF q, BoundedRecords

LEMMA CompleteKeeps ==
    ASSUME LedgerInv, NEW a \in inFlight,
           NEW s \in {"accepted", "rejected"}, Complete(a.nonce, s),
           inFlight' = inFlight \ {a},
           owed' = owed \/ owed' = owed \cup {a},
           UNCHANGED <<clock, bounds>>
    PROVE  LedgerInv'
<1>1. loaded
  BY DEF LedgerInv, Unloaded
<1>2. \/ owed' = owed
      \/ \E b \in inFlight : inFlight' = inFlight \ {b}
                              /\ owed' = owed \cup {b}
  OBVIOUS
<1>3. CASE IsPending(a.nonce)
  <2>1. /\ SetStatus(a.nonce, s) \in BoundedRecords
        /\ \A b : Holds(records, b) => Holds(SetStatus(a.nonce, s), b)
    BY <1>1, LoadedFacts, SetStatusHolds
  <2>2. \A o \in owed' \cup inFlight' :
           Holds(SetStatus(a.nonce, s), o) \/ Dated(o.at, gaps)
    BY <1>1, <2>1, LoadedFacts
  <2>3. Persist(SetStatus(a.nonce, s), gaps, degradedSince, markerMayExist)
    BY <1>3 DEF Complete
  <2> QED
    BY <1>1, <1>2, <2>1, <2>2, <2>3, PersistRecordsKeeps
<1>4. CASE ~IsPending(a.nonce)
  <2>1. UNCHANGED <<memory, disk>>
    BY <1>4 DEF Complete
  <2> QED
    BY <1>1, <1>2, <2>1, NoPersistKeeps
<1> QED
  BY <1>3, <1>4

LEMMA ClearKeeps ==
    ASSUME LedgerInv, NEW a \in inFlight, ClearUnlessAccepted(a)
    PROVE  LedgerInv'
<1>1. loaded
  BY DEF LedgerInv, Unloaded
<1>2. /\ inFlight' = inFlight \ {a} /\ owed' = owed
      /\ UNCHANGED <<clock, bounds>>
  BY DEF ClearUnlessAccepted
<1>3. ASSUME NEW i \in DOMAIN records, records[i].nonce = a.nonce,
             Persist(RemoveAt(records, i), gaps, degradedSince, markerMayExist)
      PROVE  LedgerInv'
  <2> DEFINE q == RemoveAt(records, i)
  <2>1. /\ records \in Seq(Record) /\ Len(records) <= MAX_RECORDS
        /\ Len(records) \in Nat
    BY <1>1, LoadedFacts DEF BoundedRecords
  <2>2. q \in Seq(Record) /\ Len(q) = Len(records) - 1
    BY <2>1, RemoveAtType
  <2>3. q \in BoundedRecords
    BY <2>1, <2>2, LedgerAssumption DEF BoundedRecords
  <2>4. ASSUME NEW o \in owed' \cup inFlight'
        PROVE  Holds(q, o) \/ Dated(o.at, gaps)
    <3>1. CASE o.nonce = a.nonce
      BY <1>1, <1>2, <2>4, <3>1, LoadedFacts
    <3>2. CASE o.nonce # a.nonce /\ Holds(records, o)
      <4>1. PICK k \in DOMAIN records : /\ records[k].nonce = o.nonce
                                        /\ records[k].digest = o.digest
                                        /\ records[k].at = o.at
        BY <3>2 DEF Holds
      <4>2. \E j \in DOMAIN q : q[j] = records[k]
        BY <1>3, <2>1, <3>2, <4>1, RemoveAtKeeps
      <4> QED
        BY <4>1, <4>2 DEF Holds
    <3>3. CASE Dated(o.at, gaps)
      BY <3>3
    <3> QED
      BY <1>1, <1>2, <2>4, <3>1, <3>2, <3>3, LoadedFacts
  <2> HIDE DEF q
  <2>5. Persist(q, gaps, degradedSince, markerMayExist)
    BY <1>3 DEF q
  <2> QED
    BY <1>1, <1>2, <2>3, <2>4, <2>5, PersistRecordsKeeps
<1>4. CASE UNCHANGED <<memory, disk>>
  BY <1>1, <1>2, <1>4, NoPersistKeeps
<1> QED
  BY <1>3, <1>4 DEF ClearUnlessAccepted

LEMMA RestartKeeps ==
    ASSUME LedgerInv, Restart
    PROVE  LedgerInv'
<1>1. loaded /\ StateType /\ clock \in Time
  BY TypeOKParts DEF LedgerInv, Restart
<1>2. /\ loaded' = FALSE /\ records' = <<>> /\ gaps' = EMPTY_GAPS
      /\ degradedSince' = None /\ markerMayExist' = FALSE /\ inFlight' = {}
      /\ clock' = clock /\ marker' = marker /\ sends' = sends
      /\ restarts' \in 0..MaxRestarts /\ owed' \subseteq owed
  BY LedgerAssumption DEF Restart, LedgerInv, TypeOK
<1>3. file' = file \/ file' = TornFile
  BY DEF Restart
<1>4. <<>> \in BoundedRecords /\ EMPTY_GAPS \in BoundedGaps
  <2>1. <<>> \in Seq(Record) /\ <<>> \in Seq(Window) /\ Len(<<>>) = 0
    OBVIOUS
  <2> QED
    BY <2>1, LedgerAssumption DEF EMPTY_GAPS, BoundedGaps, BoundedRecords, Gaps
<1>5. StateType'
  <2>1. TornFile \in [records : BoundedRecords, gaps : BoundedGaps,
                     damaged : BOOLEAN]
    BY <1>4 DEF TornFile, NoFile
  <2> QED
    BY <1>1, <1>2, <1>3, <1>4, <2>1 DEF StateType
<1>6. TypeOK'
  <2>1. /\ owed' \subseteq Attempt /\ inFlight' \subseteq Attempt
        /\ clock' \in Time /\ sends' \in 0..MaxSends
    BY <1>2 DEF LedgerInv, TypeOK
  <2> QED
    BY <1>2, <1>5, <2>1 DEF TypeOK, StateType, BoundedRecords, BoundedGaps
<1>7. Unloaded' /\ MarkerTracked' /\ NoneLost' /\ NoncePassed'
  BY <1>2 DEF Unloaded, MarkerTracked, NoneLost, NoncePassed
<1>8. StampsPast'
  <2>1. None <= clock /\ marker <= clock /\ \A a \in owed : a.at <= clock
    BY <1>1, LedgerAssumption DEF LedgerInv, StampsPast, Time, None
  <2> QED
    BY <1>2, <2>1 DEF StampsPast
<1>9. DiskAccountsForLosses'
  <2>1. CASE file' = TornFile
    BY <2>1 DEF DiskAccountsForLosses, TornFile, NoFile
  <2>2. CASE file' = file /\ owed' = owed \ Forgiven
    <3>1. ASSUME NEW a \in owed'
          PROVE  OnFile(a) \/ file.damaged \/ (marker # None /\ marker <= a.at)
      <4>1. a \in owed /\ a \notin Forgiven
        BY <2>2, <3>1
      <4>2. CASE degradedSince # None /\ marker = None
        BY <4>1, <4>2 DEF Forgiven
      <4>3. CASE degradedSince # None /\ marker # None /\ degradedSince <= a.at
        <5>1. marker <= degradedSince
          BY <1>1, <4>3 DEF LedgerInv, MarkerTracked
        <5>2. marker \in Int /\ degradedSince \in Int /\ a.at \in Int
          BY <1>1, <4>1, LedgerAssumption
             DEF StateType, Time, None, LedgerInv, TypeOK, Attempt
        <5> QED
          BY <4>3, <5>1, <5>2
      <4> QED
        BY <4>1, <4>2, <4>3 DEF LedgerInv, DiskAccountsForLosses
    <3> QED
      BY <1>2, <2>2, <3>1
         DEF DiskAccountsForLosses, OnFile, Holds, Dated
  <2> QED
    BY <2>1, <2>2 DEF Restart
<1> QED
  BY <1>6, <1>7, <1>8, <1>9 DEF LedgerInv

LEMMA TickKeeps ==
    ASSUME LedgerInv, Tick
    PROVE  LedgerInv'
<1>1. /\ restarts' = restarts /\ sends' = sends /\ owed' = owed
      /\ loaded' = loaded /\ records' = records /\ gaps' = gaps
      /\ degradedSince' = degradedSince /\ markerMayExist' = markerMayExist
      /\ file' = file /\ marker' = marker /\ inFlight' = inFlight
      /\ clock' = clock + 1 /\ clock < MaxClock /\ clock \in Time
  BY DEF Tick, memory, disk, bounds, LedgerInv, TypeOK
<1>2. clock' \in Time
  BY <1>1, LedgerAssumption DEF Time
<1>3. TypeOK'
  BY <1>1, <1>2 DEF LedgerInv, TypeOK
<1>4. Unloaded' /\ MarkerTracked' /\ NoncePassed' /\ NoneLost'
  BY <1>1 DEF LedgerInv, Unloaded, MarkerTracked, NoncePassed, NoneLost, Holds,
              Dated
<1>5. DiskAccountsForLosses'
  BY <1>1 DEF LedgerInv, DiskAccountsForLosses, OnFile, Holds, Dated
<1>6. StampsPast'
  <2>1. /\ degradedSince \in Int /\ marker \in Int /\ clock \in Int
        /\ \A a \in owed \cup inFlight : a.at \in Int
    BY LedgerAssumption DEF LedgerInv, TypeOK, Time, None, Attempt
  <2> QED
    BY <1>1, <2>1 DEF LedgerInv, StampsPast
<1> QED
  BY <1>3, <1>4, <1>5, <1>6 DEF LedgerInv

LEMMA LedgerInvNext == LedgerInv /\ [Next]_vars => LedgerInv'
<1> SUFFICES ASSUME LedgerInv, [Next]_vars PROVE LedgerInv'
  OBVIOUS
<1>0. StateType /\ owed \subseteq Attempt
  BY TypeOKParts DEF LedgerInv
<1>1. CASE Load
  <2>1. ~loaded /\ inFlight = {}
    BY <1>1 DEF Load, LedgerInv, Unloaded
  <2>2. \A a \in owed : DiskKnows(a)
    BY <2>1 DEF LedgerInv, DiskAccountsForLosses, DiskKnows
  <2>3. /\ LoadFrom(file) /\ owed' = owed
        /\ UNCHANGED <<clock, inFlight, bounds>>
    BY <1>1 DEF Load
  <2>4. file \in [records : BoundedRecords, gaps : BoundedGaps,
                 damaged : BOOLEAN]
    BY <1>0 DEF StateType
  <2>5. \A a \in owed : \/ Holds(file.records, a)
                        \/ Dated(a.at, file.gaps)
                        \/ file.damaged
                        \/ marker # None /\ marker <= a.at
    BY <2>2 DEF DiskKnows, OnFile
  <2> QED
    BY <2>1, <2>2, <2>3, <2>4, <2>5, LoadKeeps
<1>2. CASE LoadUnreadable
  <2>1. /\ ~loaded /\ LoadFrom(NoFile) /\ owed' = {}
        /\ UNCHANGED <<clock, inFlight, bounds>>
    BY <1>2 DEF LoadUnreadable
  <2>2. NoFile \in [records : BoundedRecords, gaps : BoundedGaps,
                   damaged : BOOLEAN]
    <3>1. <<>> \in Seq(Record) /\ <<>> \in Seq(Window) /\ Len(<<>>) = 0
      OBVIOUS
    <3> QED
      BY <3>1, LedgerAssumption
         DEF NoFile, EMPTY_GAPS, BoundedGaps, BoundedRecords, Gaps
  <2> QED
    BY <2>1, <2>2, LoadKeeps
<1>3. CASE \E n \in Nonce, d \in Digest : RecordPending(n, d)
  BY <1>3, RecordPendingKeeps
<1>4. CASE \E a \in inFlight : MarkAccepted(a)
  BY <1>4, CompleteKeeps DEF MarkAccepted
<1>5. CASE \E a \in inFlight : MarkRejected(a)
  BY <1>5, CompleteKeeps DEF MarkRejected
<1>6. CASE \E a \in inFlight : ClearUnlessAccepted(a)
  BY <1>6, ClearKeeps
<1>7. CASE Dispose
  <2>1. /\ loaded /\ Persist(records, gaps, degradedSince, markerMayExist)
        /\ inFlight' = inFlight /\ owed' = owed
        /\ UNCHANGED <<clock, bounds>>
    BY <1>7 DEF Dispose
  <2>2. /\ records \in BoundedRecords
        /\ \A o \in owed' \cup inFlight' : Holds(records, o) \/ Dated(o.at, gaps)
    BY <2>1, LoadedFacts
  <2> QED
    BY <2>1, <2>2, PersistRecordsKeeps
<1>8. CASE Restart
  BY <1>8, RestartKeeps
<1>9. CASE Tick
  BY <1>9, TickKeeps
<1>10. CASE UNCHANGED vars
  <2>1. /\ restarts' = restarts /\ sends' = sends /\ owed' = owed
        /\ loaded' = loaded /\ records' = records /\ gaps' = gaps
        /\ degradedSince' = degradedSince /\ markerMayExist' = markerMayExist
        /\ file' = file /\ marker' = marker /\ inFlight' = inFlight
        /\ clock' = clock
    BY <1>10 DEF vars, memory, disk, bounds
  <2>2. TypeOK' /\ Unloaded' /\ StampsPast' /\ MarkerTracked'
    BY <2>1 DEF LedgerInv, TypeOK, Unloaded, StampsPast, MarkerTracked
  <2>3. NoneLost' /\ DiskAccountsForLosses' /\ NoncePassed'
    BY <2>1 DEF LedgerInv, NoneLost, DiskAccountsForLosses, NoncePassed,
                OnFile, Holds, Dated
  <2> QED
    BY <2>2, <2>3 DEF LedgerInv
<1> QED
  BY <1>1, <1>2, <1>3, <1>4, <1>5, <1>6, <1>7, <1>8, <1>9, <1>10 DEF Next
-----------------------------------------------------------------------------
(***************************************************************************)
(* The inductive invariant: memory, the file and the marker, between them, *)
(* account for every send, whichever of the writes fail and whenever the   *)
(* process ends.                                                           *)
(***************************************************************************)
THEOREM LedgerInvariant == Spec => []LedgerInv
BY LedgerInvInit, LedgerInvNext, PTL DEF Spec

(***************************************************************************)
(* Every accepted send is on record or dated by a gap, for any number of   *)
(* records, windows, sends and restarts of persist and load.               *)
(***************************************************************************)
THEOREM LossesAlwaysDated == Spec => []LossesAreDated
<1>1. LedgerInv => LossesAreDated
  BY DEF LedgerInv, NoneLost, LossesAreDated
<1> QED
  BY <1>1, LedgerInvariant, PTL

(***************************************************************************)
(* A restart finds on disk what it needs to date every loss, except what   *)
(* only a process that could write neither file knew.                      *)
(***************************************************************************)
THEOREM DiskAlwaysAccounts == Spec => []DiskAccountsForLosses
<1>1. LedgerInv => DiskAccountsForLosses
  BY DEF LedgerInv
<1> QED
  BY <1>1, LedgerInvariant, PTL

(***************************************************************************)
(* The state of PromptAcceptanceLedger is well-typed, and neither list     *)
(* outgrows its limit.                                                     *)
(***************************************************************************)
THEOREM LedgerTypeCorrect == Spec => []TypeOK
<1>1. LedgerInv => TypeOK
  BY DEF LedgerInv
<1> QED
  BY <1>1, LedgerInvariant, PTL

(***************************************************************************)
(* lookup never answers "not-found" for a send that was accepted.          *)
(***************************************************************************)
THEOREM NeverNotFound ==
    Spec => [](loaded => \A a \in owed : Lookup(a.nonce) # "not-found")
<1>1. LedgerInv => (loaded => \A a \in owed : Lookup(a.nonce) # "not-found")
  <2> SUFFICES ASSUME LedgerInv, loaded, NEW a \in owed
               PROVE  Lookup(a.nonce) # "not-found"
    OBVIOUS
  <2>1. CASE Holds(records, a)
    <3>1. a.nonce \in Keys(records)
      BY <2>1 DEF Holds, Keys
    <3> QED
      BY <3>1 DEF Lookup
  <2>2. CASE Dated(a.at, gaps)
    <3>1. ~Dated(a.at, EMPTY_GAPS)
      <4>1. a.at \in Nat
        BY LedgerAssumption DEF LedgerInv, TypeOK, Attempt, Time
      <4> QED
        BY <4>1 DEF Dated, EMPTY_GAPS, None
    <3>2. gaps # EMPTY_GAPS
      BY <2>2, <3>1
    <3> QED
      BY <3>2 DEF Lookup
  <2> QED
    BY <2>1, <2>2 DEF LedgerInv, NoneLost
<1> QED
  BY <1>1, LedgerInvariant, PTL
-----------------------------------------------------------------------------
(***************************************************************************)
(* A nonce has one record, in memory and in the file, and the record of an *)
(* attempt in flight is pending.                                           *)
(***************************************************************************)
OneRecordEach(recs) ==
    \A i, j \in DOMAIN recs : recs[i].nonce = recs[j].nonce => i = j

FlightIsPending ==
    \A a \in inFlight : \A i \in DOMAIN records :
        records[i].nonce = a.nonce => records[i].status = "pending"

RecordsInv == /\ OneRecordEach(records) /\ OneRecordEach(file.records)
              /\ FlightIsPending

LEMMA EmptyRecords == OneRecordEach(<<>>)
BY DEF OneRecordEach

LEMMA RemoveAtRecords ==
    ASSUME NEW recs \in Seq(Record), OneRecordEach(recs), NEW i \in DOMAIN recs
    PROVE  /\ OneRecordEach(RemoveAt(recs, i))
           /\ \A j \in DOMAIN RemoveAt(recs, i) :
                 \E k \in DOMAIN recs : k # i /\ RemoveAt(recs, i)[j] = recs[k]
           /\ \A k \in DOMAIN recs : k # i =>
                 \E j \in DOMAIN RemoveAt(recs, i) : RemoveAt(recs, i)[j] = recs[k]
<1> DEFINE r == RemoveAt(recs, i)
<1>1. /\ \A j \in DOMAIN r : /\ Origin(j, i) \in DOMAIN recs /\ Origin(j, i) # i
                             /\ r[j] = recs[Origin(j, i)]
      /\ \A j, k \in DOMAIN r : Origin(j, i) = Origin(k, i) => j = k
  BY RemoveAtOrigin
<1>2. \A k \in DOMAIN recs : k # i => \E j \in DOMAIN r : r[j] = recs[k]
  BY RemoveAtKeeps
<1>3. OneRecordEach(r)
  <2> HIDE DEF r
  <2> QED BY <1>1 DEF OneRecordEach
<1> QED
  BY <1>1, <1>2, <1>3

LEMMA AppendRecords ==
    ASSUME NEW recs \in Seq(Record), OneRecordEach(recs), NEW r \in Record,
           r.nonce \notin Keys(recs)
    PROVE  /\ OneRecordEach(Append(recs, r)) /\ Append(recs, r) \in Seq(Record)
           /\ \A i \in DOMAIN Append(recs, r) :
                 Append(recs, r)[i] = r
                   \/ \E k \in DOMAIN recs : Append(recs, r)[i] = recs[k]
           /\ \A k \in DOMAIN recs :
                 \E i \in DOMAIN Append(recs, r) : Append(recs, r)[i] = recs[k]
           /\ Append(recs, r) # <<>>
<1> DEFINE q == Append(recs, r)
<1>1. /\ Len(recs) \in Nat /\ DOMAIN recs = 1..Len(recs)
      /\ DOMAIN q = 1..(Len(recs) + 1) /\ q \in Seq(Record) /\ q # <<>>
      /\ q[Len(recs) + 1] = r /\ \A j \in 1..Len(recs) : q[j] = recs[j]
  OBVIOUS
<1>2. \A j \in 1..Len(recs) : recs[j].nonce # r.nonce
  BY <1>1 DEF Keys
<1>3. /\ \A j \in 1..(Len(recs) + 1) : j \in 1..Len(recs) \/ j = Len(recs) + 1
      /\ 1..Len(recs) \subseteq 1..(Len(recs) + 1)
  BY <1>1
<1>4. OneRecordEach(q)
  <2> HIDE DEF q
  <2> QED BY <1>1, <1>2, <1>3 DEF OneRecordEach
<1>5. /\ \A i \in DOMAIN q : q[i] = r \/ \E k \in DOMAIN recs : q[i] = recs[k]
      /\ \A k \in DOMAIN recs : \E i \in DOMAIN q : q[i] = recs[k]
  <2> HIDE DEF q
  <2> QED BY <1>1, <1>3
<1> QED
  BY <1>1, <1>4, <1>5

(***************************************************************************)
(* evictPastCap takes a pending record only when all of them are pending.  *)
(***************************************************************************)
LEMMA VictimCompleted ==
    ASSUME NEW recs \in Seq(Record), recs # <<>>,
           recs[Victim(recs)].status = "pending"
    PROVE  \A i \in DOMAIN recs : recs[i].status = "pending"
<1> DEFINE C == {i \in DOMAIN recs : recs[i].status # "pending"}
<1>1. CASE C = {}
  BY <1>1
<1>2. CASE C # {}
  <2>1. C \subseteq Nat
    OBVIOUS
  <2>2. \E i \in C : \A j \in C : i <= j
    <3> HIDE DEF C
    <3> QED BY <1>2, <2>1, LeastNatural
  <2>3. Victim(recs) \in C
    BY <1>2, <2>2 DEF Victim
  <2> QED
    BY <2>3
<1> QED
  BY <1>1, <1>2

\* Eviction leaves distinct records, all of them from before.
LEMMA EvictRecords ==
    ASSUME NEW recs \in Seq(Record), recs # <<>>, OneRecordEach(recs)
    PROVE  /\ OneRecordEach(EvictedRecords(recs))
           /\ \A j \in DOMAIN EvictedRecords(recs) :
                 \E k \in DOMAIN recs : EvictedRecords(recs)[j] = recs[k]
           /\ \A k \in DOMAIN recs :
                 \/ \E j \in DOMAIN EvictedRecords(recs) :
                        EvictedRecords(recs)[j] = recs[k]
                 \/ k = Victim(recs)
<1>1. Victim(recs) \in DOMAIN recs
  BY VictimInRecords
<1>2. CASE Len(recs) <= MAX_RECORDS
  BY <1>2 DEF EvictedRecords
<1>3. CASE ~(Len(recs) <= MAX_RECORDS)
  <2>1. EvictedRecords(recs) = RemoveAt(recs, Victim(recs))
    BY <1>3 DEF EvictedRecords
  <2> QED
    BY <1>1, <2>1, RemoveAtRecords
<1> QED
  BY <1>2, <1>3

\* What persist does to the records, whether or not the write succeeds.
LEMMA PersistRecords ==
    ASSUME NEW recs, NEW g, NEW since, NEW may, Persist(recs, g, since, may)
    PROVE  /\ records' = recs
           /\ file'.records = recs \/ file' = file
BY DEF Persist, PersistWrites, PersistFails

LEMMA LoadRecords ==
    ASSUME NEW f, LoadFrom(f)
    PROVE  /\ records' = f.records
           /\ file'.records = f.records \/ file' = file
<1>1. CASE f.damaged \/ marker # None
  BY <1>1, PersistRecords DEF LoadFrom
<1>2. CASE ~(f.damaged \/ marker # None)
  BY <1>2 DEF LoadFrom, disk
<1> QED
  BY <1>1, <1>2

(***************************************************************************)
(* recordPending: the nonce is new to the ledger, so its record is the     *)
(* only one; whichever attempt loses its record to it, nothing completed   *)
(* was left to evict.                                                      *)
(***************************************************************************)
EvictionSpares ==
    \A a \in inFlight \cap inFlight' :
        (a.nonce \in Keys(records) /\ a.nonce \notin Keys(records'))
           => \A i \in DOMAIN records' : records'[i].status = "pending"

LEMMA RecordPendingRecords ==
    ASSUME LedgerInv, RecordsInv, NEW n \in Nonce, NEW d \in Digest,
           RecordPending(n, d)
    PROVE  RecordsInv' /\ EvictionSpares
<1> DEFINE r == [nonce |-> n, digest |-> d, status |-> "pending", at |-> clock]
           recs == Append(records, r)
           new == [nonce |-> n, digest |-> d, at |-> clock]
<1>1. /\ records \in Seq(Record) /\ r \in Record /\ r.nonce = n
      /\ r.status = "pending" /\ new.nonce = n
  BY DEF LedgerInv, TypeOK, Record
<1>2. n \notin Keys(records)
  BY DEF RecordPending, AdmitSend, Lookup
<1>3. /\ inFlight' = inFlight \cup {new} /\ \A a \in inFlight : a.nonce # n
      /\ Persist(EvictedRecords(recs), EvictedGaps(recs, gaps), degradedSince,
                 markerMayExist)
  BY DEF RecordPending, AttemptsInFlight
<1> HIDE DEF r, new
<1>4. /\ OneRecordEach(recs) /\ recs \in Seq(Record) /\ recs # <<>>
      /\ \A i \in DOMAIN recs :
             recs[i] = r \/ \E k \in DOMAIN records : recs[i] = records[k]
      /\ \A k \in DOMAIN records : \E i \in DOMAIN recs : recs[i] = records[k]
  BY <1>1, <1>2, AppendRecords DEF RecordsInv
<1> HIDE DEF recs
<1>5. /\ records' = EvictedRecords(recs)
      /\ file'.records = EvictedRecords(recs) \/ file' = file
  BY <1>3, PersistRecords
<1>6. /\ OneRecordEach(records')
      /\ \A j \in DOMAIN records' : \E k \in DOMAIN recs : records'[j] = recs[k]
      /\ \A k \in DOMAIN recs : \/ \E j \in DOMAIN records' : records'[j] = recs[k]
                                \/ k = Victim(recs)
  BY <1>4, <1>5, EvictRecords
<1>7. OneRecordEach(file'.records)
  BY <1>5, <1>6 DEF RecordsInv
<1>8. \A a \in inFlight' : \A k \in DOMAIN recs :
         recs[k].nonce = a.nonce => recs[k].status = "pending"
  <2> SUFFICES ASSUME NEW a \in inFlight', NEW k \in DOMAIN recs,
                      recs[k].nonce = a.nonce
               PROVE  recs[k].status = "pending"
    OBVIOUS
  <2>1. CASE recs[k] = r
    BY <1>1, <2>1
  <2>2. CASE recs[k] # r
    <3>1. PICK i \in DOMAIN records : recs[k] = records[i]
      BY <1>4, <2>2
    <3>2. records[i].nonce # n
      BY <1>2 DEF Keys
    <3>3. a \in inFlight
      BY <1>1, <1>3, <3>1, <3>2
    <3> QED
      BY <3>1, <3>3 DEF RecordsInv, FlightIsPending
  <2> QED
    BY <2>1, <2>2
<1>9. FlightIsPending'
  <2> SUFFICES ASSUME NEW a \in inFlight', NEW j \in DOMAIN records',
                      records'[j].nonce = a.nonce
               PROVE  records'[j].status = "pending"
    BY DEF FlightIsPending
  <2> QED
    BY <1>6, <1>8
<1>10. EvictionSpares
  <2> SUFFICES ASSUME NEW a \in inFlight, a \in inFlight',
                      a.nonce \in Keys(records), a.nonce \notin Keys(records')
               PROVE  \A i \in DOMAIN records' : records'[i].status = "pending"
    BY DEF EvictionSpares
  <2>1. PICK k \in DOMAIN records : records[k].nonce = a.nonce
    BY DEF Keys
  <2>2. PICK i \in DOMAIN recs : recs[i] = records[k]
    BY <1>4
  <2>3. \A j \in DOMAIN records' : records'[j].nonce # a.nonce
    BY DEF Keys
  <2>4. i = Victim(recs)
    BY <1>6, <2>1, <2>2, <2>3
  <2>5. recs[Victim(recs)].status = "pending"
    BY <1>8, <2>1, <2>2, <2>4
  <2>6. \A j \in DOMAIN recs : recs[j].status = "pending"
    BY <1>4, <2>5, VictimCompleted
  <2> QED
    BY <1>6, <2>6
<1> QED
  BY <1>6, <1>7, <1>9, <1>10 DEF RecordsInv

(***************************************************************************)
(* markAccepted and markRejected change the status of one record.          *)
(***************************************************************************)
LEMMA CompleteRecords ==
    ASSUME LedgerInv, RecordsInv, NEW a \in inFlight, NEW s,
           Complete(a.nonce, s), inFlight' = inFlight \ {a}
    PROVE  RecordsInv' /\ EvictionSpares
<1> DEFINE q == SetStatus(a.nonce, s)
<1>1. /\ DOMAIN q = DOMAIN records
      /\ \A i \in DOMAIN records :
            /\ q[i].nonce = records[i].nonce
            /\ records[i].nonce # a.nonce => q[i] = records[i]
  <2>1. /\ DOMAIN q = DOMAIN records
        /\ \A i \in DOMAIN records :
              q[i] = IF records[i].nonce = a.nonce
                     THEN [records[i] EXCEPT !.status = s] ELSE records[i]
    BY DEF SetStatus
  <2>2. \A i \in DOMAIN records : records[i] \in Record
    BY DEF LedgerInv, TypeOK
  <2> HIDE DEF q
  <2> QED
    BY <2>1, <2>2 DEF Record
<1>2. \A b \in inFlight' : b \in inFlight /\ b.nonce # a.nonce
  BY DEF LedgerInv, NoncePassed
<1> HIDE DEF q
<1>3. CASE records' = q /\ (file'.records = q \/ file' = file)
  <2>1. OneRecordEach(q)
    BY <1>1 DEF RecordsInv, OneRecordEach
  <2>2. FlightIsPending'
    BY <1>1, <1>2, <1>3 DEF RecordsInv, FlightIsPending
  <2>3. Keys(records') = Keys(records)
    BY <1>1, <1>3 DEF Keys
  <2> QED
    BY <1>3, <2>1, <2>2, <2>3 DEF RecordsInv, EvictionSpares
<1>4. CASE records' = records /\ file' = file
  BY <1>2, <1>4 DEF RecordsInv, FlightIsPending, EvictionSpares
<1>5. CASE IsPending(a.nonce)
  BY <1>3, <1>5, PersistRecords DEF Complete, q
<1>6. CASE ~IsPending(a.nonce)
  BY <1>4, <1>6 DEF Complete, memory, disk
<1> QED
  BY <1>5, <1>6

LEMMA ClearRecords ==
    ASSUME LedgerInv, RecordsInv, NEW a \in inFlight, ClearUnlessAccepted(a)
    PROVE  RecordsInv' /\ EvictionSpares
<1>1. inFlight' = inFlight \ {a}
  BY DEF ClearUnlessAccepted
<1>2. \A b \in inFlight' : b \in inFlight /\ b.nonce # a.nonce
  BY <1>1 DEF LedgerInv, NoncePassed
<1>3. CASE UNCHANGED <<memory, disk>>
  <2>1. records' = records /\ file' = file
    BY <1>3 DEF memory, disk
  <2> QED
    BY <1>2, <2>1 DEF RecordsInv, FlightIsPending, EvictionSpares
<1>4. CASE ~UNCHANGED <<memory, disk>>
  <2>1. PICK i \in DOMAIN records :
          /\ records[i].nonce = a.nonce
          /\ Persist(RemoveAt(records, i), gaps, degradedSince, markerMayExist)
    BY <1>4 DEF ClearUnlessAccepted
  <2>2. /\ records' = RemoveAt(records, i)
        /\ file'.records = RemoveAt(records, i) \/ file' = file
    BY <2>1, PersistRecords
  <2>3. records \in Seq(Record)
    BY DEF LedgerInv, TypeOK
  <2>4. /\ OneRecordEach(records')
        /\ \A j \in DOMAIN records' :
              \E k \in DOMAIN records : k # i /\ records'[j] = records[k]
        /\ \A k \in DOMAIN records : k # i =>
              \E j \in DOMAIN records' : records'[j] = records[k]
    BY <2>2, <2>3, RemoveAtRecords DEF RecordsInv
  <2>5. FlightIsPending'
    BY <1>2, <2>4 DEF RecordsInv, FlightIsPending
  <2>6. EvictionSpares
    <3> SUFFICES ASSUME NEW b \in inFlight, b \in inFlight',
                        b.nonce \in Keys(records)
                 PROVE  b.nonce \in Keys(records')
      BY DEF EvictionSpares
    <3>1. PICK k \in DOMAIN records : records[k].nonce = b.nonce
      BY DEF Keys
    <3>2. k # i
      BY <1>2, <2>1, <3>1
    <3>3. \E j \in DOMAIN records' : records'[j] = records[k]
      BY <2>4, <3>2
    <3> QED
      BY <3>1, <3>3 DEF Keys
  <2> QED
    BY <2>2, <2>4, <2>5, <2>6 DEF RecordsInv
<1> QED
  BY <1>3, <1>4

LEMMA RecordsNext ==
    LedgerInv /\ RecordsInv /\ [Next]_vars
        => RecordsInv' /\ (EvictionSpares \/ UNCHANGED vars)
<1> SUFFICES ASSUME LedgerInv, RecordsInv, [Next]_vars
             PROVE  RecordsInv' /\ (EvictionSpares \/ UNCHANGED vars)
  OBVIOUS
<1>0. OneRecordEach(records) /\ OneRecordEach(file.records) /\ FlightIsPending
  BY DEF RecordsInv
<1>1. CASE Load \/ LoadUnreadable
  <2>1. inFlight = {} /\ inFlight' = {}
    BY <1>1 DEF Load, LoadUnreadable, LedgerInv, Unloaded
  <2>2. OneRecordEach(NoFile.records)
    BY EmptyRecords DEF NoFile
  <2>3. \/ records' = file.records
             /\ (file'.records = file.records \/ file' = file)
        \/ records' = NoFile.records
             /\ (file'.records = NoFile.records \/ file' = file)
    <3> HIDE DEF NoFile
    <3> QED BY <1>1, LoadRecords DEF Load, LoadUnreadable
  <2> QED
    BY <1>0, <2>1, <2>2, <2>3 DEF RecordsInv, FlightIsPending, EvictionSpares
<1>2. ASSUME NEW n \in Nonce, NEW d \in Digest, RecordPending(n, d)
      PROVE  RecordsInv' /\ EvictionSpares
  BY <1>2, RecordPendingRecords
<1>3. ASSUME NEW a \in inFlight, MarkAccepted(a) PROVE RecordsInv' /\ EvictionSpares
  BY <1>3, CompleteRecords DEF MarkAccepted
<1>4. ASSUME NEW a \in inFlight, MarkRejected(a) PROVE RecordsInv' /\ EvictionSpares
  BY <1>4, CompleteRecords DEF MarkRejected
<1>5. ASSUME NEW a \in inFlight, ClearUnlessAccepted(a)
      PROVE  RecordsInv' /\ EvictionSpares
  BY <1>5, ClearRecords
<1>6. CASE Dispose
  <2>1. /\ records' = records /\ inFlight' = inFlight
        /\ file'.records = records \/ file' = file
    BY <1>6, PersistRecords DEF Dispose
  <2> QED
    BY <1>0, <2>1 DEF RecordsInv, FlightIsPending, EvictionSpares
<1>7. CASE Restart
  <2>1. /\ records' = <<>> /\ inFlight' = {}
        /\ file' = file \/ file' = TornFile
    BY <1>7 DEF Restart
  <2>2. OneRecordEach(TornFile.records)
    BY EmptyRecords DEF TornFile, NoFile
  <2> QED
    BY <1>0, <2>1, <2>2, EmptyRecords DEF RecordsInv, FlightIsPending, EvictionSpares
<1>8. CASE Tick
  BY <1>0, <1>8 DEF Tick, memory, disk, RecordsInv, FlightIsPending, EvictionSpares
<1>9. CASE UNCHANGED vars
  BY <1>0, <1>9 DEF vars, memory, disk, RecordsInv, FlightIsPending
<1> QED
  BY <1>1, <1>2, <1>3, <1>4, <1>5, <1>6, <1>7, <1>8, <1>9 DEF Next

LEMMA RecordsInvariant == Spec => []RecordsInv
<1>1. Init => RecordsInv
  BY EmptyRecords DEF Init, NoFile, RecordsInv, FlightIsPending
<1> QED
  BY <1>1, RecordsNext, LedgerInvariant, PTL DEF Spec

(***************************************************************************)
(* One nonce is accepted twice only after the ledger has come to know of a *)
(* gap in its history: without one every accepted send is on record, and   *)
(* a nonce has one record.                                                 *)
(***************************************************************************)
THEOREM NonceAlwaysAcceptedOnce == Spec => []NonceAcceptedOnce
<1>1. LedgerInv /\ RecordsInv => NonceAcceptedOnce
  <2> SUFFICES ASSUME LedgerInv, RecordsInv, loaded, gaps = EMPTY_GAPS,
                      NEW a \in owed, NEW b \in owed, a.nonce = b.nonce
               PROVE  a = b
    BY DEF NonceAcceptedOnce
  <2>1. a \in Attempt /\ b \in Attempt /\ a.at \in Nat /\ b.at \in Nat
    BY LedgerAssumption DEF LedgerInv, TypeOK, Attempt, Time
  <2>2. ~Dated(a.at, gaps) /\ ~Dated(b.at, gaps)
    BY <2>1 DEF Dated, EMPTY_GAPS, None
  <2>3. Holds(records, a) /\ Holds(records, b)
    BY <2>2 DEF LedgerInv, NoneLost
  <2>4. a.digest = b.digest /\ a.at = b.at
    BY <2>3 DEF Holds, RecordsInv, OneRecordEach
  <2> QED
    BY <2>1, <2>4 DEF Attempt
<1> QED
  BY <1>1, LedgerInvariant, RecordsInvariant, PTL

(***************************************************************************)
(* evictPastCap drops the record of a running attempt only when every      *)
(* record is pending, for every limit MAX_RECORDS.                         *)
(***************************************************************************)
THEOREM EvictionAlwaysSparesPending == Spec => EvictionSparesPending
BY RecordsNext, LedgerInvariant, RecordsInvariant, PTL
   DEF Spec, EvictionSparesPending, EvictionSpares
=============================================================================
