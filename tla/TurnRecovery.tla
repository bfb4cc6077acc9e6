---------------------------- MODULE TurnRecovery ----------------------------
(***************************************************************************)
(* How the text of a message reaches the agent when a newer message        *)
(* overtakes it: dispatchUserTurn interrupts the running turn, runTurn     *)
(* skips a queued one, and both rely on the newer turn to prepend the      *)
(* user messages that no confirmed turn has carried yet.                   *)
(*                                                                         *)
(* One agent, whose runs settle (RunScheduler has the ones that do not)    *)
(* and whose turns are confirmed when a checkpoint that contains them is   *)
(* persisted.  Of a message only its shape matters:                        *)
(*   plain - text alone, handed to the agent as it is in the transcript;   *)
(*   rich  - text with attachments, a reply context or expanded references;*)
(*   fork  - text alone, sent as a fork;                                   *)
(*   bare  - no user message in the transcript (attachments without text,  *)
(*           or the answer to a widget).                                   *)
(***************************************************************************)
EXTENDS Integers, Sequences, SequencesExt, FiniteSets

CONSTANTS Send, Shape, NoSend, Blank,
          MaxPrependedUserMessages, \* 5 in the code
          MaxFailures \* bound on the turns that end with an error

ASSUME RecoveryAssumption ==
    /\ NoSend \notin Send /\ Blank \notin Send /\ NoSend # Blank
    /\ Shape \subseteq {"plain", "rich", "fork", "bare"}
    /\ MaxPrependedUserMessages \in Nat /\ MaxFailures \in Nat

VARIABLES
    shape,        \* of the messages sent so far; "unsent" for the others
    transcript,   \* the user messages, by their entries
    order,        \* order[e] is the message dispatched in turn epoch e
    latestRecoverySend, \* epoch of the newest message that carries recovery
    recoveryBreakEpoch, \* epoch of the newest message that does not
    queue,        \* user turns waiting
    active,       \* the turn that runs
    phase,        \* "checking", "preparing" or "streaming"
    latest,       \* the message whose turn the checked one may rely on
    aborted,      \* the active run has been interrupted
    watermark,    \* user message of the last confirmed turn; Blank if none
    known,        \* messages whose text is in the confirmed conversation
    handled,      \* messages whose own turn was confirmed
    skipped,      \* messages whose turn was skipped
    failures      \* number of turns that ended with an error

sends == <<shape, transcript, order, latestRecoverySend, recoveryBreakEpoch>>
turns == <<queue, active, phase, latest, aborted>>
conversation == <<watermark, known, handled>>
vars == <<sends, turns, conversation, skipped, failures>>

Init ==
    /\ shape = [m \in Send |-> "unsent"] /\ transcript = <<>> /\ order = <<>>
    /\ latestRecoverySend = 0 /\ recoveryBreakEpoch = 0
    /\ queue = <<>> /\ active = NoSend /\ phase = "idle" /\ latest = NoSend
    /\ aborted = FALSE
    /\ watermark = NoSend /\ known = {} /\ handled = {}
    /\ skipped = {} /\ failures = 0

\* The index of m's entry among the user messages; 0 if it has none.
Position(m) ==
    IF m \in ToSet(transcript)
    THEN CHOOSE i \in DOMAIN transcript : transcript[i] = m
    ELSE 0

Epoch(m) == CHOOSE e \in DOMAIN order : order[e] = m
CurrentTurnEpoch == Len(order)
-----------------------------------------------------------------------------
(***************************************************************************)
(* sendPromptOnce up to the echo.  Between it and the dispatch it awaits   *)
(* the roster and the images, so that sends may overtake each other.       *)
(***************************************************************************)
Echo(m, s) ==
    /\ shape[m] = "unsent"
    /\ shape' = [shape EXCEPT ![m] = s]
    /\ transcript' = IF s = "bare" THEN transcript ELSE Append(transcript, m)
    /\ UNCHANGED <<order, latestRecoverySend, recoveryBreakEpoch, turns,
                   conversation, skipped, failures>>

CarriesRecovery(m) == shape[m] \in {"plain", "rich"}
RecoveryShaped(m) == shape[m] \in {"plain", "fork"}

(***************************************************************************)
(* The runner's interrupt: a run whose request is not out yet, which is    *)
(* every run before its stream has ended, gives way only if the newer turn *)
(* can carry its text.                                                     *)
(***************************************************************************)
Interrupts(m) ==
    /\ phase \in {"preparing", "streaming"}
    /\ CarriesRecovery(m) /\ RecoveryShaped(active)

Dispatch(m) ==
    /\ shape[m] # "unsent" /\ m \notin ToSet(order)
    /\ order' = Append(order, m)
    /\ IF CarriesRecovery(m)
       THEN latestRecoverySend' = Len(order') /\ UNCHANGED recoveryBreakEpoch
       ELSE recoveryBreakEpoch' = Len(order') /\ UNCHANGED latestRecoverySend
    /\ aborted' = (aborted \/ Interrupts(m))
    /\ queue' = Append(queue, m)
    /\ UNCHANGED <<shape, transcript, active, phase, latest, conversation,
                   skipped, failures>>
-----------------------------------------------------------------------------
(***************************************************************************)
(* runTurn.  A plain turn that is not the newest is checked against the    *)
(* newest one, which must carry recovery, with no break in between.  The   *)
(* check awaits the runner; the newest message is not read again after it. *)
(***************************************************************************)
Recoverable(m) ==
    /\ Epoch(m) # CurrentTurnEpoch /\ shape[m] = "plain"
    /\ Epoch(m) > recoveryBreakEpoch
    /\ latestRecoverySend = CurrentTurnEpoch

StartTurn ==
    /\ active = NoSend /\ queue # <<>>
    /\ active' = Head(queue) /\ queue' = Tail(queue) /\ aborted' = FALSE
    /\ IF Recoverable(Head(queue))
       THEN phase' = "checking" /\ latest' = order[latestRecoverySend]
       ELSE phase' = "preparing" /\ latest' = NoSend
    /\ UNCHANGED <<sends, conversation, skipped, failures>>

\* wouldRecoverViaPrepend compares places in the transcript, not epochs.
RecoverByEpoch(m, newest) == Epoch(m) <= Epoch(newest)
WouldRecoverViaPrepend(m, newest) == Position(m) <= Position(newest)

EndTurn ==
    /\ active' = NoSend /\ phase' = "idle" /\ latest' = NoSend
    /\ aborted' = FALSE /\ UNCHANGED queue

SkipTurn ==
    /\ phase = "checking" /\ WouldRecoverViaPrepend(active, latest)
    /\ skipped' = skipped \cup {active}
    /\ EndTurn
    /\ UNCHANGED <<sends, conversation, failures>>

RunCheckedTurn ==
    /\ phase = "checking" /\ ~WouldRecoverViaPrepend(active, latest)
    /\ phase' = "preparing" /\ latest' = NoSend
    /\ UNCHANGED <<sends, queue, active, aborted, conversation, skipped,
                   failures>>
-----------------------------------------------------------------------------
(***************************************************************************)
(* The run.  selectUnconfirmedUserMessages selects what lies between the   *)
(* last confirmed turn's message and the run's own; nothing when the run   *)
(* has no message, and nothing when the last turn's message has no id.  Of *)
(* these the agent keeps the last MaxPrependedUserMessages.                *)
(***************************************************************************)
SelectAfterNext(m) ==
    {i \in DOMAIN transcript :
        watermark # Blank /\ Position(watermark) + 1 < i /\ i < Position(m)}
SelectUnconfirmed(m) ==
    {i \in DOMAIN transcript :
        watermark # Blank /\ Position(watermark) < i /\ i < Position(m)}

PrependUserMessages(m) ==
    {transcript[i] : i \in {j \in SelectUnconfirmed(m) :
                                j >= Position(m) - MaxPrependedUserMessages}}

\* The two looks at the signal before the request is sent.
StartStream ==
    /\ phase = "preparing" /\ ~aborted
    /\ phase' = "streaming"
    /\ UNCHANGED <<sends, queue, active, latest, aborted, conversation,
                   skipped, failures>>

\* The message of a confirmed turn, as the next turn will find it.
ConfirmedId(m) == IF shape[m] = "bare" THEN Blank ELSE m

\* A checkpoint, or the final state: the turn and its prepends are confirmed.
Confirm ==
    /\ phase = "streaming" /\ active \notin handled
    /\ known' = known \cup PrependUserMessages(active) \cup {active}
    /\ handled' = handled \cup {active}
    /\ watermark' = ConfirmedId(active)
    /\ UNCHANGED <<sends, turns, skipped, failures>>

\* A run that nothing stopped persists its final state before it ends.
EndRun ==
    /\ phase = "streaming" /\ active \in handled
    /\ EndTurn
    /\ UNCHANGED <<sends, conversation, skipped, failures>>

EndAborted ==
    /\ aborted
    /\ EndTurn
    /\ UNCHANGED <<sends, conversation, skipped, failures>>

EndWithError ==
    /\ phase \in {"preparing", "streaming"} /\ ~aborted
    /\ failures < MaxFailures /\ failures' = failures + 1
    /\ EndTurn
    /\ UNCHANGED <<sends, conversation, skipped>>

Next ==
    \/ \E m \in Send : (\E s \in Shape : Echo(m, s)) \/ Dispatch(m)
    \/ StartTurn \/ SkipTurn \/ RunCheckedTurn \/ StartStream \/ Confirm
    \/ EndRun \/ EndAborted \/ EndWithError

Spec == Init /\ [][Next]_vars
-----------------------------------------------------------------------------
(***************************************************************************)
(* Type invariant.                                                         *)
(***************************************************************************)
TypeOK ==
    /\ shape \in [Send -> Shape \cup {"unsent"}]
    /\ transcript \in Seq(Send) /\ order \in Seq(Send)
    /\ latestRecoverySend \in 0 .. Len(order)
    /\ recoveryBreakEpoch \in 0 .. Len(order)
    /\ queue \in Seq(Send) /\ active \in Send \cup {NoSend}
    /\ phase \in {"idle", "checking", "preparing", "streaming"}
    /\ latest \in Send \cup {NoSend} /\ aborted \in BOOLEAN
    /\ watermark \in Send \cup {NoSend, Blank}
    /\ known \subseteq Send /\ handled \subseteq Send /\ skipped \subseteq Send
    /\ failures \in 0 .. MaxFailures

(***************************************************************************)
(* The watermark never passes a message the agent does not know: every     *)
(* user message up to the last confirmed turn's own is in the confirmed    *)
(* conversation, whatever was interrupted, skipped, failed or dispatched   *)
(* out of order (findConfirmedUserTurnWatermark,                           *)
(* selectUnconfirmedUserMessages).                                         *)
(***************************************************************************)
NothingPassedOver ==
    \A i \in 1 .. Position(watermark) : transcript[i] \in known

(***************************************************************************)
(* A turn is skipped only while a later turn that will prepend its text    *)
(* waits: one whose message stands behind it in the transcript, although   *)
(* messages may be dispatched in another order and the newest message may  *)
(* change during the check (the skip in runTurn).                          *)
(***************************************************************************)
CarrierWaits(m) == \E n \in ToSet(queue) : Position(n) > Position(m)

SkipsAreCarried == [][skipped' # skipped => CarrierWaits(active)]_vars

(***************************************************************************)
(* At rest the agent knows everything it was sent, if no turn failed: the  *)
(* text of plain and fork messages, and each rich message by its own turn, *)
(* since a prepend would lose its attachments.  Exempt is a message        *)
(* that another one, earlier in the transcript, was dispatched after: if   *)
(* that one interrupts it, its text waits for the next message.            *)
(***************************************************************************)
OvertakesBack(m) ==
    \E n \in ToSet(order) : /\ 0 < Position(n) /\ Position(n) < Position(m)
                            /\ Epoch(m) < Epoch(n)

AllKnownAtRest ==
    (active = NoSend /\ queue = <<>> /\ failures = 0) =>
        \A m \in ToSet(order) :
            \/ shape[m] = "rich" /\ m \in handled
            \/ shape[m] # "rich" /\ (m \in known \/ OvertakesBack(m))

(***************************************************************************)
(* Nothing sent is lost to the agent: the watermark passes no message it   *)
(* does not know, and at rest it knows all of them.                        *)
(***************************************************************************)
AgentKnows == TypeOK /\ NothingPassedOver /\ AllKnownAtRest

(***************************************************************************)
(* What the name of runTurn's check says of a skipped turn, that its text  *)
(* is recovered by a prepend: the agent knows the text, or the message     *)
(* still stands behind the last confirmed turn's, where the next turn's    *)
(* prepend takes it from.                                                  *)
(***************************************************************************)
SkippedIsRecovered ==
    \A m \in skipped : m \in known \/ Position(m) > Position(watermark)
=============================================================================
