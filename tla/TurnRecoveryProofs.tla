------------------------- MODULE TurnRecoveryProofs -------------------------
(***************************************************************************)
(* Proofs about TurnRecovery, for every set of messages in every shape,    *)
(* dispatched in any order, and any number of failures.                    *)
(***************************************************************************)
EXTENDS TurnRecovery, SequenceLemmas, FiniteSetTheorems

\* An entry is written once and a message is dispatched once.
EntriesAreOnce ==
    /\ \A i, j \in DOMAIN transcript : transcript[i] = transcript[j] => i = j
    /\ \A i, j \in DOMAIN order : order[i] = order[j] => i = j

\* Every message but the bare ones has an entry from the moment it is sent.
EntriesAreThere ==
    \A m \in Send : m \in ToSet(transcript) <=> shape[m] \notin {"unsent", "bare"}

\* What waits and what runs was dispatched, and the last to be dispatched is
\* the last in the queue.
TurnsAreDispatched ==
    /\ \A m \in ToSet(order) : shape[m] # "unsent"
    /\ ToSet(queue) \subseteq ToSet(order)
    /\ active # NoSend => active \in ToSet(order)
    /\ active = NoSend <=> phase = "idle"
    /\ queue # <<>> => order # <<>> /\ queue[Len(queue)] = order[Len(order)]

\* The turn that a check relies on waits until the check is over.
CheckedIsCarried ==
    phase = "checking" =>
        latest \in ToSet(queue) /\ latest # active /\ shape[active] = "plain"

\* Only a turn whose text a prepend can carry gives way.
AbortedIsCarried ==
    aborted => phase \in {"preparing", "streaming"} /\ RecoveryShaped(active)

WatermarkIsHandled == watermark \in handled \cup {NoSend, Blank}

HandledIsDispatched == handled \subseteq ToSet(order)

RecoveryInv ==
    /\ TypeOK
    /\ EntriesAreOnce /\ EntriesAreThere /\ TurnsAreDispatched
    /\ CheckedIsCarried /\ AbortedIsCarried /\ WatermarkIsHandled

(***************************************************************************)
(* A confirmed turn leaves nothing behind that stands before it, not only  *)
(* the last one: the watermark may go back to an earlier message.          *)
(***************************************************************************)
HandledKnowsAll ==
    \A h \in handled :
        h \in known /\ \A i \in 1 .. Position(h) : transcript[i] \in known

\* The messages whose turn is still to come, or runs and goes on.
StillToRun(n) == n \in ToSet(queue) \/ (n = active /\ ~aborted)

(***************************************************************************)
(* A dispatched message that was overtaken is known, or exempt, or stands  *)
(* before one whose turn is still to come.                                 *)
(***************************************************************************)
Covered(m) ==
    \/ m \in handled \/ StillToRun(m)
    \/ /\ RecoveryShaped(m)
       /\ \/ m \in known \/ OvertakesBack(m)
          \/ \E n \in Send : StillToRun(n) /\ Position(n) > Position(m)

OvertakenIsCovered == failures = 0 => \A m \in ToSet(order) : Covered(m)

KnowledgeInv ==
    RecoveryInv /\ HandledIsDispatched /\ HandledKnowsAll /\ OvertakenIsCovered

(***************************************************************************)
(* What the code's prepend is good for: the last confirmed turn has a user *)
(* message, and at most MaxPrependedUserMessages stand between it and the  *)
(* turn that is being confirmed.                                           *)
(***************************************************************************)
WithinReach ==
    /\ watermark # Blank
    /\ Position(active) - Position(watermark) <= MaxPrependedUserMessages + 1

PrependSuffices == [][Confirm => WithinReach]_vars

-----------------------------------------------------------------------------
(* Places in the transcript and in the order of dispatch.                  *)

\* Position and Epoch as functions of the sequences they look into.
PlaceIn(s, m) == IF m \in ToSet(s) THEN CHOOSE i \in DOMAIN s : s[i] = m ELSE 0
TurnIn(s, m) == CHOOSE e \in DOMAIN s : s[e] = m

LEMMA PositionIsPlace ==
    \A m : /\ Position(m) = PlaceIn(transcript, m)
           /\ Position(m)' = PlaceIn(transcript', m)
           /\ Epoch(m) = TurnIn(order, m)
           /\ Epoch(m)' = TurnIn(order', m)
BY DEF Position, PlaceIn, Epoch, TurnIn

LEMMA PlaceOf ==
    ASSUME NEW s \in Seq(Send)
    PROVE  /\ \A m \in ToSet(s) :
                 /\ PlaceIn(s, m) \in 1 .. Len(s) /\ s[PlaceIn(s, m)] = m
                 /\ TurnIn(s, m) \in 1 .. Len(s) /\ s[TurnIn(s, m)] = m
           /\ \A m : m \notin ToSet(s) => PlaceIn(s, m) = 0
<1>1. DOMAIN s = 1 .. Len(s)
  OBVIOUS
<1>2. \A m \in ToSet(s) : \E i \in DOMAIN s : s[i] = m
  BY DEF ToSet
<1> QED BY <1>1, <1>2 DEF PlaceIn, TurnIn

\* A message that is added at the end moves none of the others.
LEMMA PlaceKept ==
    ASSUME NEW s \in Seq(Send), NEW x \in Send, NEW m, m # x,
           \A i, j \in DOMAIN s : s[i] = s[j] => i = j
    PROVE  /\ PlaceIn(Append(s, x), m) = PlaceIn(s, m)
           /\ m \in ToSet(s) => TurnIn(Append(s, x), m) = TurnIn(s, m)
<1> DEFINE r == Append(s, x)
<1>1. /\ Len(s) \in Nat /\ DOMAIN s = 1 .. Len(s) /\ DOMAIN r = 1 .. (Len(s) + 1)
      /\ \A i \in 1 .. Len(s) : r[i] = s[i]
      /\ r[Len(s) + 1] = x
      /\ r \in Seq(Send)
  OBVIOUS
<1>2. ToSet(r) = ToSet(s) \cup {x}
  BY ToSetAppend
<1> HIDE DEF r
<1>3. CASE m \notin ToSet(s)
  BY <1>2, <1>3, <1>1, PlaceOf DEF r
<1>4. CASE m \in ToSet(s)
  <2>1. \A i \in DOMAIN r : r[i] = m => i \in DOMAIN s /\ s[i] = m
    BY <1>1
  <2>2. /\ PlaceIn(r, m) \in DOMAIN r /\ r[PlaceIn(r, m)] = m
        /\ TurnIn(r, m) \in DOMAIN r /\ r[TurnIn(r, m)] = m
        /\ PlaceIn(s, m) \in DOMAIN s /\ s[PlaceIn(s, m)] = m
        /\ TurnIn(s, m) \in DOMAIN s /\ s[TurnIn(s, m)] = m
    BY <1>1, <1>2, <1>4, PlaceOf
  <2> QED BY <2>1, <2>2 DEF r
<1> QED BY <1>3, <1>4

\* The message that was added stands at the end.
LEMMA PlaceOfLast ==
    ASSUME NEW s \in Seq(Send), NEW x \in Send, x \notin ToSet(s)
    PROVE  TurnIn(Append(s, x), x) = Len(s) + 1
<1> DEFINE r == Append(s, x)
<1>1. /\ Len(s) \in Nat /\ DOMAIN s = 1 .. Len(s) /\ DOMAIN r = 1 .. (Len(s) + 1)
      /\ \A i \in 1 .. Len(s) : r[i] = s[i]
      /\ r \in Seq(Send)
  OBVIOUS
<1>2. ToSet(r) = ToSet(s) \cup {x}
  BY ToSetAppend
<1>3. \A i \in DOMAIN s : s[i] # x
  BY DEF ToSet
<1> HIDE DEF r
<1>4. TurnIn(r, x) \in 1 .. Len(r) /\ r[TurnIn(r, x)] = x /\ DOMAIN r = 1 .. Len(r)
  BY <1>1, <1>2, PlaceOf
<1> QED BY <1>1, <1>3, <1>4 DEF r

\* The elements of a queue without its head.
LEMMA HeadAndTail ==
    ASSUME NEW q \in Seq(Send), q # <<>>
    PROVE  /\ Head(q) \in Send /\ Tail(q) \in Seq(Send)
           /\ ToSet(q) = {Head(q)} \cup ToSet(Tail(q))
           /\ Tail(q) # <<>> => Tail(q)[Len(Tail(q))] = q[Len(q)]
           /\ Tail(q) = <<>> => Head(q) = q[Len(q)]
           /\ Len(q) >= 1 /\ \A x \in ToSet(q) : x \in Send
<1> DEFINE r == Tail(q)
<1>1. /\ Len(q) \in Nat /\ Len(q) >= 1 /\ DOMAIN q = 1 .. Len(q) /\ Head(q) = q[1]
      /\ r \in Seq(Send) /\ Len(r) = Len(q) - 1 /\ DOMAIN r = 1 .. (Len(q) - 1)
      /\ \A j \in 1 .. (Len(q) - 1) : r[j] = q[j + 1]
  OBVIOUS
<1>2. Head(q) \in Send /\ \A x \in ToSet(q) : x \in Send
  BY DEF ToSet
<1> HIDE DEF r
<1>a. r = <<>> <=> Len(q) = 1
  <2>1. \A u \in Seq(Send) : u = <<>> <=> Len(u) = 0
    OBVIOUS
  <2> QED BY <1>1, <2>1
<1>3. ToSet(q) = {q[1]} \cup ToSet(r)
  <2>1. \A k \in DOMAIN q : k = 1 \/ (k - 1 \in DOMAIN r /\ r[k - 1] = q[k])
    BY <1>1
  <2>2. \A j \in DOMAIN r : j + 1 \in DOMAIN q /\ r[j] = q[j + 1]
    BY <1>1
  <2>3. 1 \in DOMAIN q
    BY <1>1
  <2>4. ToSet(q) \subseteq {q[1]} \cup ToSet(r)
    BY <2>1 DEF ToSet
  <2>5. {q[1]} \cup ToSet(r) \subseteq ToSet(q)
    BY <2>2, <2>3 DEF ToSet
  <2> QED BY <2>4, <2>5
<1>4. r # <<>> => r[Len(r)] = q[Len(q)]
  BY <1>1, <1>a
<1>5. r = <<>> => q[1] = q[Len(q)]
  BY <1>1, <1>a
<1> QED BY <1>1, <1>2, <1>3, <1>4, <1>5 DEF r

LEMMA LastOfAppend ==
    ASSUME NEW s \in Seq(Send), NEW x \in Send
    PROVE  /\ Append(s, x) \in Seq(Send) /\ Append(s, x) # <<>>
           /\ Len(Append(s, x)) = Len(s) + 1 /\ Len(s) \in Nat
           /\ Append(s, x)[Len(Append(s, x))] = x
OBVIOUS

-----------------------------------------------------------------------------
(* The invariant.                                                          *)

LEMMA RecoveryInit == Init => RecoveryInv
<1> SUFFICES ASSUME Init PROVE RecoveryInv
  OBVIOUS
<1>0. <<>> \in Seq(Send) /\ Len(<<>>) = 0 /\ ToSet(<<>>) = {}
  BY ToSetEmpty
<1>1. TypeOK
  <2>1. failures \in 0 .. MaxFailures /\ latestRecoverySend \in 0 .. Len(order)
        /\ recoveryBreakEpoch \in 0 .. Len(order)
    BY <1>0, RecoveryAssumption DEF Init
  <2>2. aborted \in BOOLEAN
    BY DEF Init
  <2> QED BY <1>0, <2>1, <2>2 DEF Init, TypeOK
<1>2. EntriesAreOnce /\ EntriesAreThere /\ TurnsAreDispatched
  BY <1>0 DEF Init, EntriesAreOnce, EntriesAreThere, TurnsAreDispatched
<1>3. CheckedIsCarried /\ AbortedIsCarried /\ WatermarkIsHandled
  BY DEF Init, CheckedIsCarried, AbortedIsCarried, WatermarkIsHandled
<1> QED BY <1>1, <1>2, <1>3 DEF RecoveryInv

LEMMA EchoStep ==
    ASSUME RecoveryInv, NEW m \in Send, NEW s \in Shape, Echo(m, s)
    PROVE  RecoveryInv'
<1>1. /\ shape[m] = "unsent" /\ shape' = [shape EXCEPT ![m] = s]
      /\ transcript' = IF s = "bare" THEN transcript ELSE Append(transcript, m)
      /\ order' = order /\ latestRecoverySend' = latestRecoverySend
      /\ recoveryBreakEpoch' = recoveryBreakEpoch
      /\ queue' = queue /\ active' = active /\ phase' = phase /\ latest' = latest
      /\ aborted' = aborted /\ watermark' = watermark /\ known' = known
      /\ handled' = handled /\ skipped' = skipped /\ failures' = failures
  BY DEF Echo, turns, conversation
<1>a. TypeOK
  BY DEF RecoveryInv
<1>2. transcript \in Seq(Send) /\ shape \in [Send -> Shape \cup {"unsent"}]
  BY <1>a DEF TypeOK
<1>3. m \notin ToSet(transcript) /\ m \notin ToSet(order) /\ s # "unsent"
  BY <1>1, RecoveryAssumption DEF RecoveryInv, EntriesAreThere, TurnsAreDispatched
<1>4. /\ transcript' \in Seq(Send)
      /\ \A i, j \in DOMAIN transcript' : transcript'[i] = transcript'[j] => i = j
      /\ ToSet(transcript') = IF s = "bare" THEN ToSet(transcript)
                                            ELSE ToSet(transcript) \cup {m}
  <2>1. IsInjective(transcript)
    BY DEF RecoveryInv, EntriesAreOnce, IsInjective
  <2>2. IsInjective(Append(transcript, m))
    BY <1>2, <1>3, <2>1, AppendDistinct
  <2>3. IsInjective(transcript')
    BY <1>1, <2>1, <2>2
  <2>4. ToSet(Append(transcript, m)) = ToSet(transcript) \cup {m}
    BY <1>2, ToSetAppend
  <2>5. Append(transcript, m) \in Seq(Send)
    BY <1>2
  <2> QED BY <1>1, <1>2, <2>3, <2>4, <2>5 DEF IsInjective
<1>5. TypeOK'
  <2>1. shape' \in [Send -> Shape \cup {"unsent"}]
    BY <1>1, <1>2
  <2> QED BY <1>1, <1>4, <1>a, <2>1 DEF TypeOK
<1>6. EntriesAreOnce'
  BY <1>1, <1>4 DEF RecoveryInv, EntriesAreOnce
<1>7. EntriesAreThere'
  BY <1>1, <1>2, <1>3, <1>4 DEF RecoveryInv, EntriesAreThere
<1>8. ToSet(order) \subseteq Send
  BY <1>a DEF TypeOK, ToSet
<1>9. TurnsAreDispatched'
  BY <1>1, <1>2, <1>3, <1>8 DEF RecoveryInv, TurnsAreDispatched
<1>10. \A n \in Send : n # m => shape'[n] = shape[n]
  BY <1>1, <1>2
<1>11. active # m /\ (active # NoSend => active \in Send)
  BY <1>3, <1>8, RecoveryAssumption DEF RecoveryInv, TurnsAreDispatched
<1>12. CheckedIsCarried' /\ AbortedIsCarried' /\ WatermarkIsHandled'
  BY <1>1, <1>10, <1>11 DEF RecoveryInv, TurnsAreDispatched, CheckedIsCarried,
        AbortedIsCarried, WatermarkIsHandled, RecoveryShaped
<1> QED BY <1>5, <1>6, <1>7, <1>9, <1>12 DEF RecoveryInv

LEMMA DispatchStep ==
    ASSUME RecoveryInv, NEW m \in Send, Dispatch(m)
    PROVE  RecoveryInv'
<1>1. /\ shape[m] # "unsent" /\ m \notin ToSet(order)
      /\ order' = Append(order, m) /\ queue' = Append(queue, m)
      /\ aborted' = (aborted \/ Interrupts(m))
      /\ shape' = shape /\ transcript' = transcript
      /\ active' = active /\ phase' = phase /\ latest' = latest
      /\ watermark' = watermark /\ known' = known
      /\ handled' = handled /\ skipped' = skipped /\ failures' = failures
  BY DEF Dispatch, conversation
<1>a. TypeOK /\ order \in Seq(Send) /\ queue \in Seq(Send)
  BY DEF RecoveryInv, TypeOK
<1>2. /\ order' \in Seq(Send) /\ queue' \in Seq(Send)
      /\ Len(order') = Len(order) + 1 /\ Len(order) \in Nat
      /\ order' # <<>> /\ queue' # <<>>
      /\ order'[Len(order')] = m /\ queue'[Len(queue')] = m
      /\ ToSet(order') = ToSet(order) \cup {m} /\ ToSet(queue') = ToSet(queue) \cup {m}
  BY <1>1, <1>a, LastOfAppend, ToSetAppend
<1>3. TypeOK'
  <2>1. latestRecoverySend' \in 0 .. Len(order') /\ recoveryBreakEpoch' \in 0 .. Len(order')
    BY <1>2, <1>a DEF TypeOK, Dispatch
  <2>2. aborted' \in BOOLEAN
    BY <1>1, <1>a, Zenon DEF TypeOK, Interrupts, CarriesRecovery, RecoveryShaped
  <2> QED BY <1>1, <1>2, <1>a, <2>1, <2>2 DEF TypeOK
<1>4. EntriesAreOnce' /\ EntriesAreThere'
  <2>1. IsInjective(order)
    BY DEF RecoveryInv, EntriesAreOnce, IsInjective
  <2>2. IsInjective(order')
    BY <1>1, <1>a, <2>1, AppendDistinct
  <2> QED BY <1>1, <2>2 DEF RecoveryInv, EntriesAreOnce, EntriesAreThere, IsInjective
<1>5. TurnsAreDispatched'
  BY <1>1, <1>2 DEF RecoveryInv, TurnsAreDispatched
<1>6. CheckedIsCarried' /\ WatermarkIsHandled'
  BY <1>1, <1>2 DEF RecoveryInv, CheckedIsCarried, WatermarkIsHandled
<1>7. AbortedIsCarried'
  BY <1>1 DEF RecoveryInv, AbortedIsCarried, Interrupts, RecoveryShaped
<1> QED BY <1>3, <1>4, <1>5, <1>6, <1>7 DEF RecoveryInv

(***************************************************************************)
(* The turn a check relies on is the last that was dispatched, and so is   *)
(* still in the queue.                                                     *)
(***************************************************************************)
LEMMA StartTurnStep == RecoveryInv /\ StartTurn => RecoveryInv'
<1> SUFFICES ASSUME RecoveryInv, StartTurn PROVE RecoveryInv'
  OBVIOUS
<1>1. /\ active = NoSend /\ queue # <<>>
      /\ active' = Head(queue) /\ queue' = Tail(queue) /\ aborted' = FALSE
      /\ shape' = shape /\ transcript' = transcript /\ order' = order
      /\ latestRecoverySend' = latestRecoverySend
      /\ recoveryBreakEpoch' = recoveryBreakEpoch
      /\ watermark' = watermark /\ known' = known
      /\ handled' = handled /\ skipped' = skipped /\ failures' = failures
  BY DEF StartTurn, sends, conversation
<1>2. IF Recoverable(Head(queue))
      THEN phase' = "checking" /\ latest' = order[latestRecoverySend]
      ELSE phase' = "preparing" /\ latest' = NoSend
  BY DEF StartTurn
<1>a. TypeOK /\ order \in Seq(Send) /\ queue \in Seq(Send)
  BY DEF RecoveryInv, TypeOK
<1>3. /\ active' \in Send /\ queue' \in Seq(Send)
      /\ ToSet(queue) = {active'} \cup ToSet(queue')
      /\ queue' # <<>> => queue'[Len(queue')] = queue[Len(queue)]
      /\ queue' = <<>> => active' = queue[Len(queue)]
  BY <1>1, <1>a, HeadAndTail
<1>4. active' \in ToSet(order) /\ order # <<>> /\ queue[Len(queue)] = order[Len(order)]
  BY <1>1, <1>3 DEF RecoveryInv, TurnsAreDispatched
<1>5. active' # NoSend
  BY <1>3, RecoveryAssumption
<1>6. ASSUME Recoverable(Head(queue))
      PROVE  /\ latest' = order[Len(order)] /\ latest' \in ToSet(queue')
             /\ latest' # active' /\ latest' \in Send /\ shape[active'] = "plain"
  <2>1. /\ latest' = order[Len(order)] /\ Epoch(active') # Len(order)
        /\ shape[active'] = "plain"
    BY <1>1, <1>2, <1>6 DEF Recoverable, CurrentTurnEpoch
  <2>2. Len(order) \in DOMAIN order /\ order[Len(order)] \in Send
    BY <1>4, <1>a
  <2>3. active' # latest'
    <3>1. ASSUME active' = order[Len(order)] PROVE Epoch(active') = Len(order)
      <4>1. Epoch(active') \in DOMAIN order /\ order[Epoch(active')] = active'
        BY <1>4, <1>a DEF Epoch, ToSet
      <4> QED BY <2>2, <3>1, <4>1 DEF RecoveryInv, EntriesAreOnce
    <3> QED BY <2>1, <3>1
  <2>4. queue' # <<>>
    BY <1>3, <1>4, <2>1, <2>3
  <2>5. queue'[Len(queue')] \in ToSet(queue')
    <3>1. Len(queue') \in DOMAIN queue'
      BY <1>3, <2>4
    <3> QED BY <3>1 DEF ToSet
  <2> QED BY <1>3, <1>4, <2>1, <2>2, <2>3, <2>4, <2>5
<1>7. TypeOK'
  <2>1. phase' \in {"idle", "checking", "preparing", "streaming"}
        /\ latest' \in Send \cup {NoSend}
    BY <1>2, <1>6
  <2>2. aborted' \in BOOLEAN
    BY <1>1
  <2> QED BY <1>1, <1>3, <1>a, <2>1, <2>2 DEF TypeOK
<1>8. EntriesAreOnce' /\ EntriesAreThere' /\ WatermarkIsHandled' /\ AbortedIsCarried'
  BY <1>1 DEF RecoveryInv, EntriesAreOnce, EntriesAreThere, WatermarkIsHandled,
              AbortedIsCarried
<1>9. TurnsAreDispatched'
  <2>1. phase' # "idle"
    BY <1>2
  <2> QED BY <1>1, <1>3, <1>4, <1>5, <2>1 DEF RecoveryInv, TurnsAreDispatched
<1>10. CheckedIsCarried'
  BY <1>1, <1>2, <1>6 DEF CheckedIsCarried
<1> QED BY <1>7, <1>8, <1>9, <1>10 DEF RecoveryInv

\* The other steps only move the turn on, confirm it or end it.
LEMMA EndTurnKeeps ==
    ASSUME RecoveryInv, EndTurn, UNCHANGED sends,
           handled \subseteq handled', handled' \subseteq Send, known' \subseteq Send,
           skipped' \subseteq Send, watermark' = watermark, failures' \in 0 .. MaxFailures
    PROVE  RecoveryInv'
<1>1. /\ active' = NoSend /\ phase' = "idle" /\ latest' = NoSend /\ queue' = queue
      /\ aborted' = FALSE
      /\ shape' = shape /\ transcript' = transcript /\ order' = order
      /\ latestRecoverySend' = latestRecoverySend
      /\ recoveryBreakEpoch' = recoveryBreakEpoch
  BY DEF EndTurn, sends
<1>2. TypeOK'
  <2>1. aborted' \in BOOLEAN
    BY <1>1
  <2> QED BY <1>1, <2>1 DEF RecoveryInv, TypeOK
<1>3. EntriesAreOnce' /\ EntriesAreThere' /\ WatermarkIsHandled' /\ AbortedIsCarried'
      /\ CheckedIsCarried'
  BY <1>1 DEF RecoveryInv, EntriesAreOnce, EntriesAreThere, WatermarkIsHandled,
              AbortedIsCarried, CheckedIsCarried
<1>4. TurnsAreDispatched'
  BY <1>1 DEF RecoveryInv, TurnsAreDispatched
<1> QED BY <1>2, <1>3, <1>4 DEF RecoveryInv

LEMMA EndStep ==
    RecoveryInv /\ (SkipTurn \/ EndRun \/ EndAborted \/ EndWithError) => RecoveryInv'
<1> SUFFICES ASSUME RecoveryInv, SkipTurn \/ EndRun \/ EndAborted \/ EndWithError
             PROVE  RecoveryInv'
  OBVIOUS
<1>1. EndTurn /\ UNCHANGED <<sends, conversation>>
  BY DEF SkipTurn, EndRun, EndAborted, EndWithError
<1>2. TypeOK /\ handled \subseteq Send /\ known \subseteq Send /\ failures \in 0 .. MaxFailures
      /\ skipped \subseteq Send
  BY DEF RecoveryInv, TypeOK
<1>3. failures' \in 0 .. MaxFailures
  BY <1>2, RecoveryAssumption DEF SkipTurn, EndRun, EndAborted, EndWithError
<1>4. skipped' \subseteq Send
  <2>1. phase = "checking" => active \in Send
    BY DEF RecoveryInv, TypeOK, TurnsAreDispatched
  <2> QED BY <1>2, <2>1 DEF SkipTurn, EndRun, EndAborted, EndWithError
<1> QED BY <1>1, <1>2, <1>3, <1>4, EndTurnKeeps DEF conversation

LEMMA RunStep ==
    RecoveryInv /\ (RunCheckedTurn \/ StartStream) => RecoveryInv'
<1> SUFFICES ASSUME RecoveryInv, RunCheckedTurn \/ StartStream PROVE RecoveryInv'
  OBVIOUS
<1>1. /\ shape' = shape /\ transcript' = transcript /\ order' = order
      /\ latestRecoverySend' = latestRecoverySend
      /\ recoveryBreakEpoch' = recoveryBreakEpoch
      /\ queue' = queue /\ active' = active /\ aborted' = aborted
      /\ watermark' = watermark /\ known' = known
      /\ handled' = handled /\ skipped' = skipped /\ failures' = failures
      /\ phase # "idle" /\ phase' \in {"preparing", "streaming"}
      /\ latest' \in {latest, NoSend}
  BY DEF RunCheckedTurn, StartStream, sends, conversation
<1>2. TypeOK'
  BY <1>1 DEF RecoveryInv, TypeOK
<1>3. EntriesAreOnce' /\ EntriesAreThere' /\ WatermarkIsHandled' /\ AbortedIsCarried'
      /\ CheckedIsCarried'
  BY <1>1 DEF RecoveryInv, EntriesAreOnce, EntriesAreThere, WatermarkIsHandled,
              AbortedIsCarried, CheckedIsCarried, RecoveryShaped
<1>4. TurnsAreDispatched'
  BY <1>1 DEF RecoveryInv, TurnsAreDispatched
<1> QED BY <1>2, <1>3, <1>4 DEF RecoveryInv

LEMMA ConfirmStep == RecoveryInv /\ Confirm => RecoveryInv'
<1> SUFFICES ASSUME RecoveryInv, Confirm PROVE RecoveryInv'
  OBVIOUS
<1>1. /\ shape' = shape /\ transcript' = transcript /\ order' = order
      /\ latestRecoverySend' = latestRecoverySend
      /\ recoveryBreakEpoch' = recoveryBreakEpoch
      /\ queue' = queue /\ active' = active /\ aborted' = aborted /\ phase' = phase
      /\ latest' = latest /\ skipped' = skipped /\ failures' = failures
      /\ watermark' = ConfirmedId(active) /\ handled' = handled \cup {active}
      /\ known' = known \cup PrependUserMessages(active) \cup {active}
      /\ phase = "streaming"
  BY DEF Confirm, sends, turns
<1>2. active \in Send
  BY <1>1 DEF RecoveryInv, TypeOK, TurnsAreDispatched
<1>3. PrependUserMessages(active) \subseteq Send
  BY DEF RecoveryInv, TypeOK, PrependUserMessages, SelectUnconfirmed
<1>4. watermark' \in {active, Blank}
  BY <1>1 DEF ConfirmedId
<1>5. TypeOK'
  BY <1>1, <1>2, <1>3, <1>4 DEF RecoveryInv, TypeOK
<1>6. EntriesAreOnce' /\ EntriesAreThere' /\ WatermarkIsHandled' /\ AbortedIsCarried'
      /\ CheckedIsCarried'
  BY <1>1, <1>4 DEF RecoveryInv, EntriesAreOnce, EntriesAreThere, WatermarkIsHandled,
              AbortedIsCarried, CheckedIsCarried, RecoveryShaped
<1>7. TurnsAreDispatched'
  BY <1>1 DEF RecoveryInv, TurnsAreDispatched
<1> QED BY <1>5, <1>6, <1>7 DEF RecoveryInv

LEMMA RecoveryStutter == RecoveryInv /\ UNCHANGED vars => RecoveryInv'
<1> SUFFICES ASSUME RecoveryInv, UNCHANGED vars PROVE RecoveryInv'
  OBVIOUS
<1> USE DEF vars, sends, turns, conversation
<1>1. TypeOK' /\ EntriesAreOnce' /\ EntriesAreThere'
  BY DEF RecoveryInv, TypeOK, EntriesAreOnce, EntriesAreThere
<1>2. WatermarkIsHandled' /\ AbortedIsCarried' /\ CheckedIsCarried' /\ TurnsAreDispatched'
  BY DEF RecoveryInv, WatermarkIsHandled, AbortedIsCarried, CheckedIsCarried,
         TurnsAreDispatched, RecoveryShaped
<1> QED BY <1>1, <1>2 DEF RecoveryInv

(***************************************************************************)
(* The inductive invariant of the turns.                                   *)
(***************************************************************************)
THEOREM RecoveryInvariant == Spec => []RecoveryInv
<1>1. Init => RecoveryInv
  BY RecoveryInit
<1>2. RecoveryInv /\ [Next]_vars => RecoveryInv'
  BY EchoStep, DispatchStep, StartTurnStep, EndStep, RunStep, ConfirmStep, RecoveryStutter
     DEF Next
<1> QED BY <1>1, <1>2, PTL DEF Spec

(***************************************************************************)
(* A turn is skipped only while a later turn waits that stands behind it   *)
(* in the transcript and so will prepend its text, in whatever order the   *)
(* messages were dispatched and whatever came in during the check.         *)
(***************************************************************************)
THEOREM SkipsAlwaysCarried == Spec => SkipsAreCarried
<1>1. RecoveryInv /\ [Next]_vars => [skipped' # skipped => CarrierWaits(active)]_vars
  <2> SUFFICES ASSUME RecoveryInv, [Next]_vars, skipped' # skipped
               PROVE  CarrierWaits(active)
    OBVIOUS
  <2>1. SkipTurn
    BY DEF vars, Next, Echo, Dispatch, StartTurn, RunCheckedTurn, StartStream, Confirm,
           EndRun, EndAborted, EndWithError
  <2>2. /\ latest \in ToSet(queue) /\ latest # active /\ shape[active] = "plain"
        /\ Position(active) <= Position(latest)
    BY <2>1 DEF SkipTurn, WouldRecoverViaPrepend, RecoveryInv, CheckedIsCarried
  <2>3. active \in ToSet(transcript) /\ transcript \in Seq(Send)
    <3>1. active \in Send
      BY <2>1 DEF RecoveryInv, TypeOK, TurnsAreDispatched, SkipTurn
    <3> QED BY <2>2, <3>1 DEF RecoveryInv, EntriesAreThere, TypeOK
  <2>4. /\ Position(active) \in 1 .. Len(transcript) /\ transcript[Position(active)] = active
        /\ \/ Position(latest) = 0
           \/ /\ Position(latest) \in 1 .. Len(transcript)
              /\ transcript[Position(latest)] = latest
    BY <2>3, PositionIsPlace, PlaceOf
  <2>5. Len(transcript) \in Nat
    BY <2>3
  <2>6. Position(latest) > Position(active)
    BY <2>2, <2>4, <2>5
  <2> QED BY <2>2, <2>6 DEF CarrierWaits
<1> QED BY <1>1, RecoveryInvariant, PTL DEF Spec, SkipsAreCarried

-----------------------------------------------------------------------------
(* What the agent knows.                                                   *)

\* Every message that may prepend has its place in the transcript.
LEMMA Places ==
    ASSUME RecoveryInv
    PROVE  /\ Len(transcript) \in Nat /\ ToSet(transcript) \subseteq Send
           /\ \A m \in ToSet(transcript) :
                 /\ Position(m) \in 1 .. Len(transcript) /\ transcript[Position(m)] = m
           /\ \A m : m \notin ToSet(transcript) => Position(m) = 0
           /\ \A m : Position(m) \in 0 .. Len(transcript)
           /\ \A m \in Send : RecoveryShaped(m) \/ CarriesRecovery(m) => m \in ToSet(transcript)
           /\ ToSet(order) \subseteq Send /\ ToSet(queue) \subseteq ToSet(order)
           /\ Position(NoSend) = 0 /\ Position(Blank) = 0
           /\ active # NoSend => active \in ToSet(order)
<1>1. transcript \in Seq(Send) /\ order \in Seq(Send)
  BY DEF RecoveryInv, TypeOK
<1>2. Len(transcript) \in Nat /\ ToSet(transcript) \subseteq Send /\ ToSet(order) \subseteq Send
  BY <1>1 DEF ToSet
<1>3. /\ \A m \in ToSet(transcript) :
            /\ Position(m) \in 1 .. Len(transcript) /\ transcript[Position(m)] = m
      /\ \A m : m \notin ToSet(transcript) => Position(m) = 0
  BY <1>1, PositionIsPlace, PlaceOf
<1>4. \A m : Position(m) \in 0 .. Len(transcript)
  BY <1>2, <1>3
<1>5. \A m \in Send : RecoveryShaped(m) \/ CarriesRecovery(m) => m \in ToSet(transcript)
  BY DEF RecoveryInv, EntriesAreThere, RecoveryShaped, CarriesRecovery
<1>6. Position(NoSend) = 0 /\ Position(Blank) = 0
  BY <1>2, <1>3, RecoveryAssumption
<1>7. ToSet(queue) \subseteq ToSet(order) /\ (active # NoSend => active \in ToSet(order))
  BY DEF RecoveryInv, TurnsAreDispatched
<1> QED BY <1>2, <1>3, <1>4, <1>5, <1>6, <1>7

LEMMA KnowledgeInit == Init => KnowledgeInv
<1> SUFFICES ASSUME Init PROVE KnowledgeInv
  OBVIOUS
<1>1. HandledIsDispatched /\ HandledKnowsAll /\ OvertakenIsCovered
  BY ToSetEmpty DEF Init, HandledIsDispatched, HandledKnowsAll, OvertakenIsCovered
<1> QED BY <1>1, RecoveryInit DEF KnowledgeInv

\* Steps that leave the sends alone leave places and exemptions alone.
LEMMA SendsUnchanged ==
    ASSUME UNCHANGED sends, NEW m
    PROVE  /\ Position(m)' = Position(m)
           /\ OvertakesBack(m)' <=> OvertakesBack(m)
           /\ RecoveryShaped(m)' <=> RecoveryShaped(m)
BY DEF sends, Position, OvertakesBack, Epoch, RecoveryShaped

(***************************************************************************)
(* A message that is echoed comes last in the transcript and was not       *)
(* dispatched yet: nothing changes for the others.                         *)
(***************************************************************************)
LEMMA EchoKnowledge ==
    ASSUME KnowledgeInv, NEW x \in Send, NEW s \in Shape, Echo(x, s)
    PROVE  HandledKnowsAll' /\ OvertakenIsCovered'
<1>a. RecoveryInv /\ TypeOK /\ transcript \in Seq(Send)
  BY DEF KnowledgeInv, RecoveryInv, TypeOK
<1>1. /\ shape[x] = "unsent" /\ shape' = [shape EXCEPT ![x] = s]
      /\ transcript' = IF s = "bare" THEN transcript ELSE Append(transcript, x)
      /\ order' = order /\ queue' = queue /\ active' = active
      /\ aborted' = aborted /\ known' = known /\ handled' = handled /\ failures' = failures
  BY DEF Echo, turns, conversation
<1>2. x \notin ToSet(order) /\ x \notin ToSet(transcript)
  BY <1>1, <1>a DEF RecoveryInv, TurnsAreDispatched, EntriesAreThere
<1>3. \A m : m # x => Position(m)' = Position(m)
  BY <1>1, <1>a, PositionIsPlace, PlaceKept DEF RecoveryInv, EntriesAreOnce
<1>4. \A m : Epoch(m)' = Epoch(m)
  BY <1>1 DEF Epoch
<1>5. \A m \in ToSet(order) : /\ OvertakesBack(m)' <=> OvertakesBack(m)
                              /\ RecoveryShaped(m)' <=> RecoveryShaped(m)
  <2>1. \A m \in Send : m # x => shape'[m] = shape[m]
    BY <1>1, <1>a DEF TypeOK
  <2> QED BY <1>1, <1>2, <1>3, <1>4, <1>a, <2>1, Places DEF OvertakesBack, RecoveryShaped
<1>6. \A n : StillToRun(n)' <=> StillToRun(n)
  BY <1>1 DEF StillToRun
<1>7. \A n \in Send : StillToRun(n) => n \in ToSet(order)
  BY <1>a, Places, RecoveryAssumption DEF StillToRun
<1>8. OvertakenIsCovered'
  <2> SUFFICES ASSUME failures = 0, NEW m \in ToSet(order) PROVE Covered(m)'
    BY <1>1 DEF OvertakenIsCovered
  <2>1. Covered(m)
    BY DEF KnowledgeInv, OvertakenIsCovered
  <2> QED BY <1>1, <1>2, <1>3, <1>5, <1>6, <1>7, <2>1 DEF Covered
<1>9. HandledKnowsAll'
  <2> SUFFICES ASSUME NEW h \in handled
               PROVE  h \in known /\ \A i \in 1 .. Position(h)' : transcript'[i] \in known
    BY <1>1 DEF HandledKnowsAll
  <2>1. h \in known /\ \A i \in 1 .. Position(h) : transcript[i] \in known
    BY DEF KnowledgeInv, HandledKnowsAll
  <2>2. CASE h # x
    <3>1. Position(h)' = Position(h) /\ Position(h) \in 0 .. Len(transcript)
      BY <1>3, <1>a, <2>2, Places
    <3>2. \A i \in 1 .. Len(transcript) : transcript'[i] = transcript[i]
      BY <1>1, <1>a
    <3>3. Len(transcript) \in Nat
      BY <1>a
    <3> QED BY <2>1, <3>1, <3>2, <3>3
  <2>3. CASE h = x
    BY <2>3, <1>2 DEF KnowledgeInv, HandledIsDispatched
  <2> QED BY <2>2, <2>3
<1> QED BY <1>8, <1>9

(***************************************************************************)
(* The turn that gives way to x: its message, and those that counted on    *)
(* it, stand before x, or else x was dispatched after them and stands      *)
(* before them.                                                            *)
(***************************************************************************)
LEMMA DispatchKnowledge ==
    ASSUME KnowledgeInv, NEW x \in Send, Dispatch(x)
    PROVE  HandledKnowsAll' /\ OvertakenIsCovered'
<1>a. RecoveryInv /\ order \in Seq(Send) /\ queue \in Seq(Send) /\ aborted \in BOOLEAN
  BY DEF KnowledgeInv, RecoveryInv, TypeOK
<1>1. /\ x \notin ToSet(order) /\ shape' = shape /\ transcript' = transcript
      /\ order' = Append(order, x) /\ queue' = Append(queue, x) /\ active' = active
      /\ aborted' = (aborted \/ Interrupts(x))
      /\ known' = known /\ handled' = handled /\ failures' = failures
  BY DEF Dispatch, conversation
<1>2. ToSet(order') = ToSet(order) \cup {x} /\ ToSet(queue') = ToSet(queue) \cup {x}
  BY <1>1, <1>a, ToSetAppend
<1>3. \A m : Position(m)' = Position(m) /\ (RecoveryShaped(m)' <=> RecoveryShaped(m))
  BY <1>1 DEF Position, RecoveryShaped
<1>4. \A m \in ToSet(order) : Epoch(m)' = Epoch(m) /\ Epoch(m) < Epoch(x)'
  <2>1. Epoch(x)' = Len(order) + 1 /\ Len(order) \in Nat
    BY <1>1, <1>a, PositionIsPlace, PlaceOfLast
  <2>2. \A m \in ToSet(order) : Epoch(m) \in 1 .. Len(order)
    BY <1>a, PositionIsPlace, PlaceOf
  <2>3. \A m \in ToSet(order) : Epoch(m)' = Epoch(m)
    BY <1>1, <1>a, PositionIsPlace, PlaceKept DEF RecoveryInv, EntriesAreOnce
  <2> QED BY <2>1, <2>2, <2>3
<1>5. \A m \in ToSet(order) : OvertakesBack(m) => OvertakesBack(m)'
  BY <1>2, <1>3, <1>4 DEF OvertakesBack
<1>6. HandledKnowsAll'
  BY <1>1, <1>3 DEF KnowledgeInv, HandledKnowsAll
<1>7. StillToRun(x)'
  BY <1>2 DEF StillToRun
<1>8. ASSUME NEW m \in ToSet(order), Covered(m) PROVE Covered(m)'
  <2>a. m \in Send /\ Position(m) \in Nat /\ Position(x) \in Nat /\ Position(active) \in Nat
    BY <1>a, Places
  <2>1. CASE ~Interrupts(x)
    <3>1. \A n : StillToRun(n) => StillToRun(n)'
      BY <1>1, <1>2, <2>1 DEF StillToRun
    <3> QED BY <1>1, <1>3, <1>5, <1>8, <3>1 DEF Covered
  <2>2. CASE Interrupts(x)
    <3>1. CarriesRecovery(x) /\ RecoveryShaped(active) /\ Position(x) > 0
      BY <1>a, <2>2, Places DEF Interrupts
    <3>2. \A n : StillToRun(n) /\ n # active => StillToRun(n)'
      BY <1>2 DEF StillToRun
    <3>3. ASSUME RecoveryShaped(m), Position(m) <= Position(active)
          PROVE  Covered(m)'
      <4>1. CASE Position(x) > Position(m)
        BY <1>3, <1>7, <3>3, <4>1 DEF Covered
      <4>2. CASE Position(x) < Position(m)
        <5>1. OvertakesBack(m)'
          BY <1>2, <1>3, <1>4, <3>1, <4>2 DEF OvertakesBack
        <5> QED BY <1>3, <3>3, <5>1 DEF Covered
      <4>3. Position(x) # Position(m)
        <5>1. x \in ToSet(transcript) /\ m \in ToSet(transcript)
          BY <1>a, <2>a, <3>1, <3>3, Places
        <5>2. transcript[Position(x)] = x /\ transcript[Position(m)] = m
          BY <1>a, <5>1, Places
        <5> QED BY <1>1, <5>2
      <4> QED BY <2>a, <4>1, <4>2, <4>3
    <3>4. CASE m \in handled
      BY <1>1, <3>4 DEF Covered
    <3>5. CASE StillToRun(m)
      <4>1. CASE m = active
        BY <2>a, <3>1, <3>3, <4>1
      <4>2. CASE m # active
        BY <3>2, <3>5, <4>2 DEF Covered
      <4> QED BY <4>1, <4>2
    <3>6. CASE RecoveryShaped(m) /\ (m \in known \/ OvertakesBack(m))
      BY <1>1, <1>3, <1>5, <3>6 DEF Covered
    <3>7. CASE RecoveryShaped(m) /\ \E n \in Send : StillToRun(n) /\ Position(n) > Position(m)
      <4>1. PICK n \in Send : StillToRun(n) /\ Position(n) > Position(m)
        BY <3>7
      <4>2. CASE n = active
        BY <2>a, <3>3, <3>7, <4>1, <4>2
      <4>3. CASE n # active
        BY <1>3, <3>2, <3>7, <4>1, <4>3 DEF Covered
      <4> QED BY <4>2, <4>3
    <3> QED BY <1>8, <3>4, <3>5, <3>6, <3>7 DEF Covered
  <2> QED BY <2>1, <2>2
<1>9. OvertakenIsCovered'
  <2> SUFFICES ASSUME failures = 0, NEW m \in ToSet(order) \cup {x} PROVE Covered(m)'
    BY <1>1, <1>2 DEF OvertakenIsCovered
  <2>1. CASE m = x
    BY <1>7, <2>1 DEF Covered
  <2>2. CASE m \in ToSet(order)
    BY <1>8, <2>2 DEF KnowledgeInv, OvertakenIsCovered
  <2> QED BY <2>1, <2>2
<1> QED BY <1>6, <1>9

LEMMA StartTurnKnowledge ==
    ASSUME KnowledgeInv, StartTurn
    PROVE  HandledKnowsAll' /\ OvertakenIsCovered'
<1>a. RecoveryInv /\ queue \in Seq(Send)
  BY DEF KnowledgeInv, RecoveryInv, TypeOK
<1>1. /\ UNCHANGED sends /\ transcript' = transcript /\ order' = order
      /\ active = NoSend /\ queue # <<>>
      /\ active' = Head(queue) /\ queue' = Tail(queue) /\ aborted' = FALSE
      /\ known' = known /\ handled' = handled /\ failures' = failures
  BY DEF StartTurn, sends, conversation
<1>2. \A m : /\ Position(m)' = Position(m)
             /\ OvertakesBack(m)' <=> OvertakesBack(m)
             /\ RecoveryShaped(m)' <=> RecoveryShaped(m)
  BY <1>1, SendsUnchanged
<1>3. ToSet(queue) = {active'} \cup ToSet(queue')
  BY <1>1, <1>a, HeadAndTail
<1>4. \A n \in Send : StillToRun(n) => StillToRun(n)'
  BY <1>1, <1>3, RecoveryAssumption DEF StillToRun
<1>5. HandledKnowsAll'
  BY <1>1, <1>2 DEF KnowledgeInv, HandledKnowsAll
<1>6. OvertakenIsCovered'
  <2> SUFFICES ASSUME failures = 0, NEW m \in ToSet(order) PROVE Covered(m)'
    BY <1>1 DEF OvertakenIsCovered
  <2>1. Covered(m) /\ m \in Send
    BY <1>a, Places DEF KnowledgeInv, OvertakenIsCovered
  <2> QED BY <1>1, <1>2, <1>4, <2>1 DEF Covered
<1> QED BY <1>5, <1>6

(***************************************************************************)
(* The end of a turn takes it from those still to run.  It had been        *)
(* confirmed, or had given way before, or is skipped for one that stands   *)
(* behind it; after an error nothing is promised.                          *)
(***************************************************************************)
LEMMA EndKnowledge ==
    ASSUME KnowledgeInv, SkipTurn \/ EndRun \/ EndAborted \/ EndWithError
    PROVE  HandledKnowsAll' /\ OvertakenIsCovered'
<1>a. RecoveryInv /\ aborted \in BOOLEAN /\ failures \in Nat
  BY RecoveryAssumption DEF KnowledgeInv, RecoveryInv, TypeOK
<1>1. /\ UNCHANGED sends /\ transcript' = transcript /\ order' = order
      /\ active' = NoSend /\ queue' = queue /\ aborted' = FALSE
      /\ known' = known /\ handled' = handled
  BY DEF SkipTurn, EndRun, EndAborted, EndWithError, EndTurn, sends, conversation
<1>2. \A m : /\ Position(m)' = Position(m)
             /\ OvertakesBack(m)' <=> OvertakesBack(m)
             /\ RecoveryShaped(m)' <=> RecoveryShaped(m)
  BY <1>1, SendsUnchanged
<1>3. HandledKnowsAll'
  BY <1>1, <1>2 DEF KnowledgeInv, HandledKnowsAll
<1>4. \A n : n # active /\ StillToRun(n) => StillToRun(n)'
  BY <1>1 DEF StillToRun
<1>5. CASE EndWithError
  <2>1. failures' # 0
    BY <1>5, <1>a DEF EndWithError
  <2> QED BY <1>3, <2>1 DEF OvertakenIsCovered
<1>6. ASSUME ~EndWithError, failures = 0, NEW m \in ToSet(order) PROVE Covered(m)'
  <2>1. Covered(m) /\ m \in Send
    BY <1>a, <1>6, Places DEF KnowledgeInv, OvertakenIsCovered
  <2>2. Position(m) \in Nat /\ Position(active) \in Nat
    BY <1>a, Places
  <2>3. ASSUME active \in handled \/ aborted
                 \/ \E n \in Send : StillToRun(n)' /\ Position(n) > Position(active),
               RecoveryShaped(m), ~aborted, Position(active) > Position(m)
        PROVE  Covered(m)'
    <3>1. CASE active \in handled
      <4>1. Position(m) \in 1 .. Position(active) /\ transcript[Position(m)] = m
        BY <1>a, <2>1, <2>2, <2>3, Places
      <4>2. m \in known
        BY <3>1, <4>1 DEF KnowledgeInv, HandledKnowsAll
      <4> QED BY <1>1, <1>2, <2>3, <4>2 DEF Covered
    <3>2. CASE \E n \in Send : StillToRun(n)' /\ Position(n) > Position(active)
      <4>1. PICK n \in Send : StillToRun(n)' /\ Position(n) > Position(active)
        BY <3>2
      <4>2. Position(n) \in Nat
        BY <1>a, Places
      <4>3. Position(n)' > Position(m)'
        BY <1>2, <2>2, <2>3, <4>1, <4>2
      <4> QED BY <1>2, <2>3, <4>1, <4>3 DEF Covered
    <3> QED BY <2>3, <3>1, <3>2
  <2>4. active \in handled \/ aborted
          \/ (/\ shape[active] = "plain"
              /\ \E n \in Send : StillToRun(n)' /\ Position(n) > Position(active))
    <3>1. CASE SkipTurn
      <4>1. /\ latest \in ToSet(queue) /\ latest # active /\ shape[active] = "plain"
            /\ Position(active) <= Position(latest) /\ active \in Send
        BY <1>a, <3>1 DEF SkipTurn, WouldRecoverViaPrepend, RecoveryInv, CheckedIsCarried,
                          TypeOK, TurnsAreDispatched
      <4>2. latest \in Send /\ active \in ToSet(transcript)
        BY <1>a, <4>1, Places DEF RecoveryShaped
      <4>3. Position(active) >= 1 /\ Position(latest) \in Nat
            /\ transcript[Position(active)] = active
            /\ (Position(latest) > 0 => transcript[Position(latest)] = latest)
        BY <1>a, <4>2, Places
      <4>4. Position(latest) > Position(active)
        BY <2>2, <4>1, <4>3
      <4>5. PICK c \in Send : c = latest
        BY <4>2
      <4>6. StillToRun(c)'
        BY <1>1, <4>1, <4>5 DEF StillToRun
      <4> QED BY <4>1, <4>4, <4>5, <4>6
    <3>2. CASE EndRun
      BY <3>2 DEF EndRun
    <3>3. CASE EndAborted
      BY <3>3 DEF EndAborted
    <3> QED BY <1>6, <3>1, <3>2, <3>3
  <2>5. CASE m \in handled
    BY <1>1, <2>5 DEF Covered
  <2>6. CASE StillToRun(m) /\ m \notin handled
    <3>1. CASE m # active
      BY <1>4, <2>6, <3>1 DEF Covered
    <3>2. CASE m \in ToSet(queue)
      BY <1>1, <3>2 DEF Covered, StillToRun
    <3>3. CASE m = active /\ ~aborted
      <4>1. shape[active] = "plain" /\ \E n \in Send : StillToRun(n)' /\ Position(n) > Position(active)
        BY <2>4, <2>6, <3>3
      <4>2. RecoveryShaped(m)
        BY <3>3, <4>1 DEF RecoveryShaped
      <4> QED BY <1>2, <3>3, <4>1, <4>2 DEF Covered
    <3> QED BY <2>6, <3>1, <3>2, <3>3 DEF StillToRun
  <2>7. CASE RecoveryShaped(m) /\ (m \in known \/ OvertakesBack(m))
    BY <1>1, <1>2, <2>7 DEF Covered
  <2>8. CASE RecoveryShaped(m) /\ \E n \in Send : StillToRun(n) /\ Position(n) > Position(m)
    <3>1. PICK n \in Send : StillToRun(n) /\ Position(n) > Position(m)
      BY <2>8
    <3>2. CASE StillToRun(n)'
      BY <1>2, <2>8, <3>1, <3>2 DEF Covered
    <3>3. CASE ~StillToRun(n)'
      <4>1. n = active /\ ~aborted
        BY <1>1, <1>4, <3>1, <3>3 DEF StillToRun
      <4> QED BY <2>3, <2>4, <2>8, <3>1, <4>1
    <3> QED BY <3>2, <3>3
  <2> QED BY <2>1, <2>5, <2>6, <2>7, <2>8 DEF Covered
<1>7. ~EndWithError => failures' = failures
  BY DEF SkipTurn, EndRun, EndAborted
<1> QED BY <1>1, <1>3, <1>5, <1>6, <1>7 DEF OvertakenIsCovered

LEMMA RunKnowledge ==
    ASSUME KnowledgeInv, RunCheckedTurn \/ StartStream \/ UNCHANGED vars
    PROVE  HandledKnowsAll' /\ OvertakenIsCovered'
<1>1. /\ UNCHANGED sends /\ transcript' = transcript /\ order' = order
      /\ active' = active /\ queue' = queue /\ aborted' = aborted
      /\ known' = known /\ handled' = handled /\ failures' = failures
  BY DEF RunCheckedTurn, StartStream, vars, sends, turns, conversation
<1>2. \A m : /\ Position(m)' = Position(m)
             /\ OvertakesBack(m)' <=> OvertakesBack(m)
             /\ RecoveryShaped(m)' <=> RecoveryShaped(m)
             /\ StillToRun(m)' <=> StillToRun(m)
  BY <1>1, SendsUnchanged DEF StillToRun
<1>3. HandledKnowsAll'
  BY <1>1, <1>2 DEF KnowledgeInv, HandledKnowsAll
<1>4. \A m : Covered(m) => Covered(m)'
  BY <1>1, <1>2 DEF Covered
<1> QED BY <1>1, <1>3, <1>4 DEF KnowledgeInv, OvertakenIsCovered

(***************************************************************************)
(* A turn within reach of the last confirmed one takes everything between  *)
(* the two along.                                                          *)
(***************************************************************************)
LEMMA ConfirmKnowledge ==
    ASSUME KnowledgeInv, Confirm, WithinReach
    PROVE  HandledKnowsAll' /\ OvertakenIsCovered'
<1>a. RecoveryInv /\ active \in Send /\ MaxPrependedUserMessages \in Nat
  BY RecoveryAssumption DEF KnowledgeInv, RecoveryInv, TypeOK, TurnsAreDispatched, Confirm
<1>1. /\ UNCHANGED sends /\ transcript' = transcript /\ order' = order
      /\ active' = active /\ queue' = queue /\ aborted' = aborted /\ failures' = failures
      /\ known' = known \cup PrependUserMessages(active) \cup {active}
      /\ handled' = handled \cup {active}
  BY DEF Confirm, sends, turns
<1>2. \A m : /\ Position(m)' = Position(m)
             /\ OvertakesBack(m)' <=> OvertakesBack(m)
             /\ RecoveryShaped(m)' <=> RecoveryShaped(m)
             /\ StillToRun(m)' <=> StillToRun(m)
  BY <1>1, SendsUnchanged DEF StillToRun
<1>3. \A i \in 1 .. Position(active) : transcript[i] \in known'
  <2> SUFFICES ASSUME NEW i \in 1 .. Position(active) PROVE transcript[i] \in known'
    OBVIOUS
  <2>1. /\ Position(active) \in 0 .. Len(transcript) /\ Position(watermark) \in 0 .. Len(transcript)
        /\ Len(transcript) \in Nat
    BY <1>a, Places
  <2>2. CASE i = Position(active)
    <3>1. active \in ToSet(transcript)
      BY <1>a, <2>1, <2>2, Places
    <3>2. transcript[i] = active
      BY <1>a, <2>2, <3>1, Places
    <3> QED BY <1>1, <3>2
  <2>3. CASE i <= Position(watermark)
    <3>1. watermark \in handled
      BY <1>a, <2>1, <2>3, Places DEF RecoveryInv, WatermarkIsHandled
    <3>2. transcript[i] \in known
      BY <2>1, <2>3, <3>1 DEF KnowledgeInv, HandledKnowsAll
    <3> QED BY <1>1, <3>2
  <2>4. CASE i > Position(watermark) /\ i < Position(active)
    <3>1. i \in DOMAIN transcript
      <4>1. DOMAIN transcript = 1 .. Len(transcript)
        BY <1>a DEF RecoveryInv, TypeOK
      <4> QED BY <2>1, <4>1
    <3>2. i \in SelectUnconfirmed(active)
      BY <2>4, <3>1 DEF SelectUnconfirmed, WithinReach
    <3>3. i >= Position(active) - MaxPrependedUserMessages
      BY <1>a, <2>1, <2>4 DEF WithinReach
    <3>4. transcript[i] \in PrependUserMessages(active)
      BY <3>2, <3>3 DEF PrependUserMessages
    <3> QED BY <1>1, <3>4
  <2> QED BY <2>1, <2>2, <2>3, <2>4
<1>4. HandledKnowsAll'
  BY <1>1, <1>2, <1>3 DEF KnowledgeInv, HandledKnowsAll
<1>5. \A m : Covered(m) => Covered(m)'
  BY <1>1, <1>2 DEF Covered
<1> QED BY <1>1, <1>4, <1>5 DEF KnowledgeInv, OvertakenIsCovered

LEMMA HandledStep == KnowledgeInv /\ [Next]_vars => HandledIsDispatched'
<1> SUFFICES ASSUME KnowledgeInv, [Next]_vars PROVE HandledIsDispatched'
  OBVIOUS
<1>1. CASE Confirm
  BY <1>1, Places DEF Confirm, sends, turns, KnowledgeInv, RecoveryInv, TurnsAreDispatched,
                      HandledIsDispatched
<1>2. ASSUME NEW m \in Send, Dispatch(m) PROVE HandledIsDispatched'
  <2>1. ToSet(order') = ToSet(order) \cup {m} /\ handled' = handled
    BY <1>2, ToSetAppend DEF KnowledgeInv, RecoveryInv, TypeOK, Dispatch, conversation
  <2> QED BY <2>1 DEF KnowledgeInv, HandledIsDispatched
<1>3. CASE order' = order /\ handled' = handled
  BY <1>3 DEF KnowledgeInv, HandledIsDispatched
<1> QED
  BY <1>1, <1>2, <1>3
     DEF Next, Echo, StartTurn, SkipTurn, RunCheckedTurn, StartStream, EndRun, EndAborted,
         EndWithError, vars, sends, turns, conversation

(***************************************************************************)
(* What the agent knows, as an inductive invariant of the executions in    *)
(* which every confirmed turn was within reach of the one before.          *)
(***************************************************************************)
THEOREM KnowledgeInvariant == Spec /\ PrependSuffices => []KnowledgeInv
<1>1. Init => KnowledgeInv
  BY KnowledgeInit
<1>2. KnowledgeInv /\ [Next]_vars /\ [Confirm => WithinReach]_vars
        => HandledKnowsAll' /\ OvertakenIsCovered'
  <2> SUFFICES ASSUME KnowledgeInv, [Next]_vars, [Confirm => WithinReach]_vars
               PROVE  HandledKnowsAll' /\ OvertakenIsCovered'
    OBVIOUS
  <2>1. CASE UNCHANGED vars
    BY <2>1, RunKnowledge
  <2>2. CASE Next /\ (Confirm => WithinReach)
    BY <2>2, EchoKnowledge, DispatchKnowledge, StartTurnKnowledge, EndKnowledge,
       RunKnowledge, ConfirmKnowledge DEF Next
  <2> QED BY <2>1, <2>2
<1>3. KnowledgeInv <=>
        RecoveryInv /\ HandledIsDispatched /\ HandledKnowsAll /\ OvertakenIsCovered
  BY DEF KnowledgeInv
<1> QED BY <1>1, <1>2, <1>3, HandledStep, RecoveryInvariant, PTL DEF Spec, PrependSuffices

(***************************************************************************)
(* Nothing sent is lost to the agent: the watermark passes no message it   *)
(* does not know, and at rest it knows all of them, however turns were     *)
(* interrupted, skipped and dispatched out of order; given that no more    *)
(* than MaxPrependedUserMessages ever stood between a confirmed turn and   *)
(* the one before, and that the one before had a user message.             *)
(***************************************************************************)
THEOREM AgentKnowsWithinReach == Spec /\ PrependSuffices => []AgentKnows
<1>1. KnowledgeInv => AgentKnows
  <2> SUFFICES ASSUME KnowledgeInv PROVE AgentKnows
    OBVIOUS
  <2>a. RecoveryInv /\ TypeOK
    BY DEF KnowledgeInv, RecoveryInv
  <2>1. NothingPassedOver
    <3>1. CASE watermark \in handled
      BY <3>1 DEF KnowledgeInv, HandledKnowsAll, NothingPassedOver
    <3>2. CASE watermark \in {NoSend, Blank}
      <4>1. Position(watermark) = 0
        BY <2>a, <3>2, Places
      <4> QED BY <4>1 DEF NothingPassedOver
    <3> QED BY <2>a, <3>1, <3>2 DEF RecoveryInv, WatermarkIsHandled
  <2>2. AllKnownAtRest
    <3> SUFFICES ASSUME active = NoSend, queue = <<>>, failures = 0, NEW m \in ToSet(order)
                 PROVE  \/ shape[m] = "rich" /\ m \in handled
                        \/ shape[m] # "rich" /\ (m \in known \/ OvertakesBack(m))
      BY DEF AllKnownAtRest
    <3>1. Covered(m) /\ m \in Send
      BY <2>a, Places DEF KnowledgeInv, OvertakenIsCovered
    <3>2. \A n \in Send : ~StillToRun(n)
      BY ToSetEmpty, RecoveryAssumption DEF StillToRun
    <3>3. m \in handled \/ (RecoveryShaped(m) /\ (m \in known \/ OvertakesBack(m)))
      BY <3>1, <3>2 DEF Covered
    <3>4. m \in handled => m \in known
      BY DEF KnowledgeInv, HandledKnowsAll
    <3> QED BY <3>3, <3>4 DEF RecoveryShaped
  <2> QED BY <2>a, <2>1, <2>2 DEF AgentKnows
<1> QED BY <1>1, KnowledgeInvariant, PTL

-----------------------------------------------------------------------------
(* A conversation in which the prepend always suffices.                    *)

FewTexts ==
    /\ IsFiniteSet(Send) /\ Cardinality(Send) <= MaxPrependedUserMessages + 1
    /\ "bare" \notin Shape

\* The transcript holds no more entries than there are messages.
LEMMA TranscriptIsShort ==
    ASSUME RecoveryInv, IsFiniteSet(Send)
    PROVE  Len(transcript) \in Nat /\ Len(transcript) <= Cardinality(Send)
<1>1. /\ Len(transcript) \in Nat
      /\ transcript \in [1 .. Len(transcript) -> Send]
      /\ \A i, j \in DOMAIN transcript : transcript[i] = transcript[j] => i = j
  BY DEF RecoveryInv, TypeOK, EntriesAreOnce
<1>2. transcript \in Injection(1 .. Len(transcript), Send)
  BY <1>1 DEF Injection, IsInjective
<1>3. Cardinality(1 .. Len(transcript)) <= Cardinality(Send)
  BY <1>2, FS_Injection
<1>4. Cardinality(1 .. Len(transcript)) = Len(transcript)
  BY <1>1, FS_Interval
<1> QED BY <1>1, <1>3, <1>4

LEMMA FewTextsSuffice ==
    ASSUME FewTexts
    PROVE  Spec => PrependSuffices
<1>1. Init => watermark # Blank
  BY RecoveryAssumption DEF Init
<1>2. RecoveryInv /\ watermark # Blank /\ [Next]_vars => (watermark # Blank)'
  <2> SUFFICES ASSUME RecoveryInv, watermark # Blank, [Next]_vars PROVE watermark' # Blank
    OBVIOUS
  <2>1. CASE Confirm
    <3>1. active \in Send /\ shape[active] # "bare" /\ watermark' = ConfirmedId(active)
      BY <2>1 DEF Confirm, RecoveryInv, TypeOK, TurnsAreDispatched, FewTexts
    <3> QED BY <3>1, RecoveryAssumption DEF ConfirmedId
  <2>2. CASE watermark' = watermark
    BY <2>2
  <2> QED
    BY <2>1, <2>2
       DEF Next, Echo, Dispatch, StartTurn, SkipTurn, RunCheckedTurn, StartStream, EndRun,
           EndAborted, EndWithError, vars, conversation
<1>3. RecoveryInv /\ watermark # Blank => [Confirm => WithinReach]_vars
  <2> SUFFICES ASSUME RecoveryInv, watermark # Blank PROVE WithinReach
    OBVIOUS
  <2>1. /\ Position(active) \in 0 .. Len(transcript)
        /\ Position(watermark) \in 0 .. Len(transcript)
    BY Places
  <2>2. Len(transcript) \in Nat /\ Len(transcript) <= MaxPrependedUserMessages + 1
    BY TranscriptIsShort, FS_CardinalityType, RecoveryAssumption DEF FewTexts
  <2> QED BY <2>1, <2>2, RecoveryAssumption DEF WithinReach
<1> QED BY <1>1, <1>2, <1>3, RecoveryInvariant, PTL DEF Spec, PrependSuffices

(***************************************************************************)
(* In a conversation of text messages that are no more than the prepend    *)
(* and one besides (six, in the code), nothing sent is lost to the agent,  *)
(* without any assumption on what happens.                                 *)
(***************************************************************************)
THEOREM AgentKnowsFewTexts ==
    ASSUME FewTexts
    PROVE  Spec => []AgentKnows
BY FewTextsSuffice, AgentKnowsWithinReach, PTL
=============================================================================
