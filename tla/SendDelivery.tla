---------------------------- MODULE SendDelivery ----------------------------
(***************************************************************************)
(* What happens to a user message of a one-to-one chat between the client  *)
(* and a visible reply: sendPrompt and dispatchUserTurn accept it and      *)
(* queue a turn, AckObligations keeps a durable note that the user is owed *)
(* a reply, runTurn and the redrives try to pay it, and the host may end   *)
(* at any point.  One agent is modelled; agents share only the files.      *)
(*                                                                         *)
(* The exclusive queue is the one of RunScheduler, reduced to what this    *)
(* protocol sees of it: user turns in order, redrives behind them, one run *)
(* at a time, and a run that may be given up while a user turn waits.  The *)
(* ledger is reduced to the status of a nonce (PromptAcceptanceLedger has  *)
(* its losses), writes of the obligations file succeed here, and whether a *)
(* superseded turn may be skipped is a choice (TurnRecovery has the rule). *)
(* A run's ack token is named by the run.                                  *)
(***************************************************************************)
EXTENDS Integers, Sequences, SequencesExt, FiniteSets

CONSTANTS Send,             \* user messages; each has its own client nonce
          Redrive,          \* names for the redrive runs
          NoRun,
          MAX_ACK_REDRIVES,
          MaxCrashes, MaxThrows \* bounds on failures of the environment

ASSUME DeliveryAssumption ==
    /\ Send \cap Redrive = {} /\ NoRun \notin Send \cup Redrive
    /\ MAX_ACK_REDRIVES \in Nat /\ MaxCrashes \in Nat /\ MaxThrows \in Nat

VARIABLES
    \* on disk
    echoed,      \* messages in the transcript
    ledger,      \* status of the message's nonce in the acceptance ledger
    obligation,  \* redriveAttempts of the agent's obligation, or None
    \* in the process
    up,
    attempt,     \* how far the running sendPromptOnce of a message has come
    inFlight,    \* inFlightRunCounts of the session
    latest,      \* the message of the current turn epoch
    queue,       \* user turns waiting for the exclusive queue
    redrives,    \* redrive runs waiting for it
    active,      \* the run that holds it
    phase,       \* of the active run: "checking" or "running"
    zombies,     \* runs given up that have not settled
    ackRunTokens,
    ackRedriveTimer,
    resolving,   \* redrives that await resolveBackgroundSession
    bootRedrive, \* the start-up redrive of stored obligations is still to come
    \* history
    dispatched,  \* messages whose turn was ever queued
    answered,    \* those followed by a visible message of the agent
    lost,        \* those unanswered when an obligation was given up
    torn,        \* those whose acceptance a crash has cut after the nonce
    crashes, throws

disk == <<echoed, ledger, obligation>>
runs == <<queue, redrives, active, phase, zombies, ackRunTokens>>
timers == <<ackRedriveTimer, resolving, bootRedrive>>
history == <<dispatched, answered, lost>>
failures == <<torn, crashes, throws>>
vars == <<disk, up, attempt, inFlight, latest, runs, timers, history, failures>>

None == -1
Run == Send \cup Redrive
LiveRedrives == redrives \cup (({active} \cup zombies) \cap Redrive)
-----------------------------------------------------------------------------
(***************************************************************************)
(* beginSessionRun and endSessionRun.  When the last run of the session    *)
(* ends and an obligation is open, the redrive timer is armed (again).     *)
(***************************************************************************)
BeginSessionRun == inFlight' = inFlight + 1

EndSessionRun(owed, timer) ==
    /\ inFlight' = IF inFlight > 1 THEN inFlight - 1 ELSE 0
    /\ ackRedriveTimer' = (timer \/ (inFlight <= 1 /\ owed # None))

(***************************************************************************)
(* recordAckObligationSend: a new obligation, or one more message on the   *)
(* open one, whose redrives stay counted.  Its callers also clear the      *)
(* redrive timer.                                                          *)
(***************************************************************************)
RecordSend(owed) == IF owed = None THEN 0 ELSE owed

Init ==
    /\ echoed = {} /\ ledger = [m \in Send |-> "none"] /\ obligation = None
    /\ up = TRUE /\ attempt = [m \in Send |-> "none"] /\ inFlight = 0
    /\ latest = NoRun
    /\ queue = <<>> /\ redrives = {} /\ active = NoRun /\ phase = "idle"
    /\ zombies = {} /\ ackRunTokens = {}
    /\ ackRedriveTimer = FALSE /\ resolving = 0 /\ bootRedrive = FALSE
    /\ dispatched = {} /\ answered = {} /\ lost = {} /\ torn = {}
    /\ crashes = 0 /\ throws = 0
-----------------------------------------------------------------------------
(***************************************************************************)
(* sendPrompt.  A nonce that is in flight coalesces (no change); one that  *)
(* the ledger knows is answered as a duplicate; any other is tried: the    *)
(* session is pinned, and the attempt awaits sizes and attachments.        *)
(***************************************************************************)
AnswersDuplicate(m) == up /\ attempt[m] = "none" /\ ledger[m] # "none"

StartAttempt(m) ==
    /\ up /\ attempt[m] = "none"
    /\ ledger[m] = "none"
    /\ attempt' = [attempt EXCEPT ![m] = "pinned"]
    /\ BeginSessionRun
    /\ UNCHANGED <<disk, up, latest, runs, timers, history, failures>>

(***************************************************************************)
(* The stretch of sendPromptOnce without an await: the echo is appended,   *)
(* the nonce is recorded as pending, the obligation is recorded.           *)
(***************************************************************************)
AcceptUnowed(m) ==
    /\ attempt[m] = "pinned"
    /\ echoed' = echoed \cup {m}
    /\ ledger' = [ledger EXCEPT ![m] = "pending"]
    /\ attempt' = [attempt EXCEPT ![m] = "recorded"]
    /\ UNCHANGED <<obligation, ackRedriveTimer, up, inFlight, latest, runs,
                   resolving, bootRedrive, history, failures>>
RecordAcceptance(m) ==
    /\ attempt[m] = "pinned"
    /\ echoed' = echoed \cup {m}
    /\ ledger' = [ledger EXCEPT ![m] = "pending"]
    /\ obligation' = RecordSend(obligation)
    /\ ackRedriveTimer' = FALSE
    /\ attempt' = [attempt EXCEPT ![m] = "recorded"]
    /\ UNCHANGED <<up, inFlight, latest, runs, resolving, bootRedrive, history,
                   failures>>

(***************************************************************************)
(* dispatchUserTurn, which has no await before markSendAccepted.  The      *)
(* obligation is confirmed: a reply of the interrupted run may have        *)
(* cleared it since it was recorded.                                       *)
(***************************************************************************)
KeepObligation(owed) == owed
ConfirmObligation(owed) == RecordSend(owed)

Dispatch(m) ==
    /\ attempt[m] = "recorded"
    /\ latest' = m
    /\ BeginSessionRun
    /\ obligation' = ConfirmObligation(obligation)
    /\ ackRedriveTimer' = FALSE
    /\ ackRunTokens' = ackRunTokens \cup {m}
    /\ queue' = Append(queue, m)
    /\ ledger' = [ledger EXCEPT ![m] = "accepted"]
    /\ attempt' = [attempt EXCEPT ![m] = "dispatched"]
    /\ dispatched' = dispatched \cup {m}
    /\ answered' = answered \ {m}
    /\ UNCHANGED <<echoed, up, redrives, active, phase, zombies, resolving,
                   bootRedrive, lost, failures>>

\* The attempt returns: at once, or (awaitTurn) when its turn has settled.
AttemptReturns(m) ==
    /\ attempt[m] = "dispatched"
    /\ attempt' = [attempt EXCEPT ![m] = "none"]
    /\ EndSessionRun(obligation, ackRedriveTimer)
    /\ UNCHANGED <<disk, up, latest, runs, resolving, bootRedrive, history,
                   failures>>

(***************************************************************************)
(* An attempt throws.  After the acceptance the guard of armSendGuard      *)
(* records the obligation if a reply has cleared it meanwhile; sendPrompt  *)
(* clears the nonce, so that the client may try again.                     *)
(***************************************************************************)
AttemptThrows(m) ==
    LET owed == IF attempt[m] = "recorded" THEN RecordSend(obligation)
                ELSE obligation
        timer == ackRedriveTimer /\ owed = obligation
    IN  /\ attempt[m] \in {"pinned", "recorded"}
        /\ throws < MaxThrows
        /\ attempt' = [attempt EXCEPT ![m] = "none"]
        /\ obligation' = owed
        /\ EndSessionRun(owed, timer)
        /\ ledger' = [ledger EXCEPT ![m] = "none"]
        /\ throws' = throws + 1
        /\ UNCHANGED <<echoed, up, latest, runs, resolving, bootRedrive,
                       history, torn, crashes>>
-----------------------------------------------------------------------------
(***************************************************************************)
(* runTurn.  The turn of a message that is not the newest any more awaits  *)
(* the runner's word on whether the newest turn carries its text, and is   *)
(* skipped if so.                                                          *)
(***************************************************************************)
StartTurn ==
    /\ active = NoRun /\ queue # <<>>
    /\ active' = Head(queue) /\ queue' = Tail(queue)
    /\ phase' = IF Head(queue) = latest THEN "running" ELSE "checking"
    /\ UNCHANGED <<disk, up, attempt, inFlight, latest, redrives, zombies,
                   ackRunTokens, timers, history, failures>>

RunCheckedTurn ==
    /\ phase = "checking"
    /\ phase' = "running"
    /\ UNCHANGED <<disk, up, attempt, inFlight, latest, queue, redrives, active,
                   zombies, ackRunTokens, timers, history, failures>>

SkipLeavingTokens ==
    /\ phase = "checking"
    /\ active' = NoRun /\ phase' = "idle"
    /\ UNCHANGED <<disk, up, attempt, inFlight, latest, queue, redrives,
                   zombies, ackRunTokens, timers, history, failures>>
SkipTurn ==
    /\ phase = "checking"
    /\ active' = NoRun /\ phase' = "idle"
    /\ ackRunTokens' = ackRunTokens \ {active}
    /\ EndSessionRun(obligation, ackRedriveTimer)
    /\ UNCHANGED <<disk, up, attempt, latest, queue, redrives, zombies,
                   resolving, bootRedrive, history, failures>>

(***************************************************************************)
(* A SendMessage of a run, also of one that was interrupted or given up:   *)
(* the tool does not look at the run's signal before it emits.  The        *)
(* message is visible; it pays the obligation if the run's token is live.  *)
(***************************************************************************)
FulfillAckObligation(r) ==
    IF r \in ackRunTokens /\ obligation # None
    THEN obligation' = None /\ ackRedriveTimer' = FALSE
    ELSE UNCHANGED <<obligation, ackRedriveTimer>>

SendMessage(r) ==
    /\ r \in zombies \/ (r = active /\ phase = "running")
    /\ FulfillAckObligation(r)
    /\ answered' = echoed
    /\ UNCHANGED <<echoed, ledger, up, attempt, inFlight, latest, runs,
                   resolving, bootRedrive, dispatched, lost, failures>>

\* A run settles, with or without a message: its token is retired.
SettleRun(r) ==
    /\ r \in zombies \/ (r = active /\ phase = "running")
    /\ IF r = active THEN active' = NoRun /\ phase' = "idle" /\ UNCHANGED zombies
       ELSE zombies' = zombies \ {r} /\ UNCHANGED <<active, phase>>
    /\ ackRunTokens' = ackRunTokens \ {r}
    /\ EndSessionRun(obligation, ackRedriveTimer)
    /\ UNCHANGED <<disk, up, attempt, latest, queue, redrives, resolving,
                   bootRedrive, history, failures>>

\* The watchdog gives the active run up for a waiting user turn.
RetireAckRunToken(tokens, r) == tokens \ {r}

GiveUpRun ==
    /\ phase = "running" /\ queue # <<>>
    /\ zombies' = zombies \cup {active}
    /\ active' = NoRun /\ phase' = "idle"
    /\ ackRunTokens' = RetireAckRunToken(ackRunTokens, active)
    /\ UNCHANGED <<disk, up, attempt, inFlight, latest, queue, redrives, timers,
                   history, failures>>
-----------------------------------------------------------------------------
(***************************************************************************)
(* redriveAckObligation.  The timer's callback counts the redrive or gives *)
(* the obligation up; the run is queued once the session is resolved.      *)
(***************************************************************************)
OneMoreRedrive(owed) == owed <= MAX_ACK_REDRIVES
MayRedrive(owed) == owed < MAX_ACK_REDRIVES
UncountedRedrive(owed) == owed
RecordRedriveAttempt(owed) == owed + 1

TimerFires ==
    /\ ackRedriveTimer
    /\ ackRedriveTimer' = FALSE
    /\ IF obligation # None /\ MayRedrive(obligation)
       THEN /\ obligation' = RecordRedriveAttempt(obligation)
            /\ resolving' = resolving + 1
            /\ UNCHANGED lost
       ELSE /\ obligation' = None
            /\ lost' = IF obligation = None THEN lost
                       ELSE lost \cup (echoed \ answered)
            /\ UNCHANGED resolving
    /\ UNCHANGED <<echoed, ledger, up, attempt, inFlight, latest, runs,
                   bootRedrive, dispatched, answered, failures>>

QueueRedrive(r) ==
    /\ resolving > 0
    /\ r \in Redrive \ LiveRedrives
    /\ resolving' = resolving - 1
    /\ BeginSessionRun
    /\ ackRunTokens' = ackRunTokens \cup {r}
    /\ redrives' = redrives \cup {r}
    /\ UNCHANGED <<disk, up, attempt, latest, queue, active, phase, zombies,
                   ackRedriveTimer, bootRedrive, history, failures>>

ForgetRedrive(owed, timer) == timer
RearmAfterFailure(owed, timer) == timer \/ owed # None
ResolveFails ==
    /\ resolving > 0 /\ throws < MaxThrows
    /\ resolving' = resolving - 1
    /\ ackRedriveTimer' = RearmAfterFailure(obligation, ackRedriveTimer)
    /\ throws' = throws + 1
    /\ UNCHANGED <<disk, up, attempt, inFlight, latest, runs, bootRedrive,
                   history, torn, crashes>>

\* A redrive whose obligation has been paid meanwhile settles at once.
StartRedrive(r) ==
    /\ active = NoRun /\ queue = <<>> /\ r \in redrives
    /\ redrives' = redrives \ {r}
    /\ IF obligation # None
       THEN /\ active' = r /\ phase' = "running"
            /\ UNCHANGED <<ackRunTokens, inFlight, ackRedriveTimer>>
       ELSE /\ ackRunTokens' = RetireAckRunToken(ackRunTokens, r)
            /\ EndSessionRun(obligation, ackRedriveTimer)
            /\ UNCHANGED <<active, phase>>
    /\ UNCHANGED <<disk, up, attempt, latest, queue, zombies, resolving,
                   bootRedrive, history, failures>>
-----------------------------------------------------------------------------
(***************************************************************************)
(* The host ends.  Only the disk survives.  In the stretch without an      *)
(* await it may end between two of the writes.                             *)
(***************************************************************************)
EndProcess ==
    /\ up /\ crashes < MaxCrashes
    /\ crashes' = crashes + 1
    /\ up' = FALSE /\ attempt' = [m \in Send |-> "none"] /\ inFlight' = 0
    /\ latest' = NoRun
    /\ queue' = <<>> /\ redrives' = {} /\ active' = NoRun /\ phase' = "idle"
    /\ zombies' = {} /\ ackRunTokens' = {}
    /\ ackRedriveTimer' = FALSE /\ resolving' = 0 /\ bootRedrive' = FALSE
    /\ UNCHANGED <<history, throws>>

Crash == EndProcess /\ UNCHANGED <<disk, torn>>

CrashInAcceptance(m) ==
    /\ attempt[m] = "pinned"
    /\ EndProcess
    /\ echoed' = echoed \cup {m}
    /\ \/ UNCHANGED <<ledger, torn>>
       \/ /\ ledger' = [ledger EXCEPT ![m] = "pending"]
          /\ torn' = torn \cup {m}
    /\ UNCHANGED obligation

Boot ==
    /\ ~up
    /\ up' = TRUE /\ bootRedrive' = TRUE
    /\ UNCHANGED <<disk, attempt, inFlight, latest, runs, ackRedriveTimer,
                   resolving, history, failures>>

\* redriveUnfulfilledAckObligations, called once the host has started.
BootRedrives ==
    /\ bootRedrive
    /\ bootRedrive' = FALSE
    /\ ackRedriveTimer' = (ackRedriveTimer \/ obligation # None)
    /\ UNCHANGED <<disk, up, attempt, inFlight, latest, runs, resolving,
                   history, failures>>

Next ==
    \/ \E m \in Send : \/ StartAttempt(m) \/ RecordAcceptance(m) \/ Dispatch(m)
                       \/ AttemptReturns(m) \/ AttemptThrows(m)
                       \/ CrashInAcceptance(m)
    \/ StartTurn \/ RunCheckedTurn \/ SkipTurn \/ GiveUpRun
    \/ \E r \in Run : SendMessage(r) \/ SettleRun(r)
    \/ TimerFires \/ ResolveFails
    \/ \E r \in Redrive : QueueRedrive(r) \/ StartRedrive(r)
    \/ Crash \/ Boot \/ BootRedrives

Spec == Init /\ [][Next]_vars

(***************************************************************************)
(* What the host's scheduling gives: the event loop runs what is ready and *)
(* timers fire; a supervisor restarts the host.  That attempts and runs    *)
(* settle is assumed of the file system and of the model provider, whose   *)
(* calls have deadlines of their own.  Clients need not send anything.     *)
(***************************************************************************)
Fairness ==
    /\ \A m \in Send : WF_vars(RecordAcceptance(m) \/ Dispatch(m)
                               \/ AttemptReturns(m))
    /\ \A r \in Run : WF_vars(SettleRun(r))
    /\ WF_vars(StartTurn) /\ WF_vars(RunCheckedTurn \/ SkipTurn)
    /\ WF_vars(TimerFires)
    /\ WF_vars(\E r \in Redrive : QueueRedrive(r))
    /\ WF_vars(\E r \in Redrive : StartRedrive(r))
    /\ WF_vars(Boot) /\ WF_vars(BootRedrives)

FairSpec == Spec /\ Fairness
-----------------------------------------------------------------------------
(***************************************************************************)
(* Type invariant.                                                         *)
(***************************************************************************)
TypeOK ==
    /\ echoed \subseteq Send
    /\ ledger \in [Send -> {"none", "pending", "accepted"}]
    /\ obligation \in {None} \cup 0 .. MAX_ACK_REDRIVES
    /\ up \in BOOLEAN
    /\ attempt \in [Send -> {"none", "pinned", "recorded", "dispatched"}]
    /\ inFlight \in Nat
    /\ latest \in Send \cup {NoRun}
    /\ queue \in Seq(Send) /\ redrives \subseteq Redrive
    /\ active \in Run \cup {NoRun}
    /\ phase \in {"idle", "checking", "running"}
    /\ (phase = "idle") <=> (active = NoRun)
    /\ zombies \subseteq Run /\ ackRunTokens \subseteq Run
    /\ ackRedriveTimer \in BOOLEAN /\ resolving \in Nat
    /\ bootRedrive \in BOOLEAN
    /\ dispatched \subseteq Send /\ answered \subseteq Send
    /\ lost \subseteq Send /\ torn \subseteq Send
    /\ crashes \in Nat /\ throws \in Nat

(***************************************************************************)
(* A message whose turn was queued is never lost in silence: the agent has *)
(* written something visible since, or the obligation to reply is still on *)
(* disk, or the obligation was given up and reported lost - through        *)
(* interrupted runs that reply late, skipped and given-up turns, failed    *)
(* attempts and restarts (confirmAckObligationAfterInterrupt, armSendGuard,*)
(* fulfillAckObligation).                                                  *)
(***************************************************************************)
NoSilentLoss ==
    \A m \in dispatched : m \in answered \/ m \in lost \/ obligation # None

(***************************************************************************)
(* An open obligation is never forgotten by an idle host: when no run of   *)
(* the session is counted, no redrive is being resolved and the start-up   *)
(* redrive is done, the redrive timer is armed (endSessionRun,             *)
(* redriveAckObligation, redriveUnfulfilledAckObligations).                *)
(***************************************************************************)
RedriveCovered ==
    (up /\ obligation # None /\ inFlight = 0 /\ resolving = 0 /\ ~bootRedrive)
        => ackRedriveTimer

(***************************************************************************)
(* The session's run count is exactly the attempts and runs that will      *)
(* still end it: no path of runTurn, of sendPromptOnce or of a redrive     *)
(* leaks a count (the session would stay pinned and never be redriven) or  *)
(* ends twice (it would be retired under a live run).                      *)
(***************************************************************************)
Holders ==
    Cardinality({m \in Send : attempt[m] # "none"}) + Len(queue)
        + Cardinality(redrives) + Cardinality({active} \ {NoRun})
        + Cardinality(zombies)

RunsAreCounted == inFlight = Holders

(***************************************************************************)
(* A token is live only while its run is queued or holds the queue: the    *)
(* late message of a run that was given up cannot pay the obligation of a  *)
(* newer message (retireAckRunToken in onWatchdog and in runTurn).         *)
(***************************************************************************)
TokensAreLive ==
    ackRunTokens = ToSet(queue) \cup redrives \cup ({active} \ {NoRun})

(***************************************************************************)
(* Every run, attempt and redrive is accounted for exactly once, in the    *)
(* count that pins the session and in the tokens that may pay the          *)
(* obligation.                                                             *)
(***************************************************************************)
RunsAreAccounted == RunsAreCounted /\ TokensAreLive

(***************************************************************************)
(* Every obligation is settled in the end: paid, or given up after at most *)
(* MAX_ACK_REDRIVES redrives.                                              *)
(***************************************************************************)
ObligationSettles == obligation # None ~> obligation = None

(***************************************************************************)
(* A retry that sendPrompt answers as a duplicate ("nonce already          *)
(* accepted") had its first send dispatched, or a reply is owed to it or   *)
(* came or was given up: a crash between the nonce and the obligation is   *)
(* the only way to lose a message that the client believes accepted.       *)
(***************************************************************************)
DuplicateIsKept ==
    \A m \in Send : AnswersDuplicate(m) =>
        \/ m \in dispatched \cup answered \cup lost \cup torn
        \/ obligation # None
=============================================================================
