----------------------------- MODULE AgentInbox -----------------------------
(***************************************************************************)
(* Messages that wake an agent and may be overtaken: those of other agents *)
(* (agent-to-agent-messaging.ts, lane "agent") and those of connectors     *)
(* (background-wakes.ts, lane "channel").  Each lane has a queue and one   *)
(* reviver, which takes the whole queue as a batch, resolves the session   *)
(* and runs the batch in the agent's exclusive run slot: an agent message  *)
(* at a time, or a whole batch of envelopes.  A direct message of the user *)
(* and a priority message of another agent interrupt the run; what was     *)
(* interrupted that way is run once more.  The one flag that tells such an *)
(* interruption from any other (dmPreemptedWakeAgentIds) is shared by      *)
(* every run of the agent.                                                 *)
(*                                                                         *)
(* A run that keeps a turn of the user waiting is interrupted and then     *)
(* given up (RunScheduler): its reviver goes on, while the run itself is   *)
(* still alive and ends late, with the same flag and the same queue.       *)
(*                                                                         *)
(* One recipient.  Turns of the user get the slot first; which other task  *)
(* gets it is left open here.  Messages are numbered in the order they are *)
(* queued.                                                                 *)
(***************************************************************************)
EXTENDS Naturals, Sequences, FiniteSets, Subsequences

CONSTANTS
    MaxMessages,   \* bound: messages sent to the agent
    MaxTurns,      \* bound: direct messages of the user, other wakes
    MaxStops       \* bound: stops, deletions, and sessions and runs that fail

ASSUME InboxAssumption ==
    MaxMessages \in Nat /\ MaxTurns \in Nat /\ MaxStops \in Nat

VARIABLES
    queue,         \* pendingAgentInbound, pendingInbound
    batch,         \* what the reviver has taken and not run yet
    phase,         \* where the reviver is
    priority,      \* messages sent with priority (chosen at the start)
    isDisplayed, isRedriven,  \* flags of messages
    flag,          \* dmPreemptedWakeAgentIds
    slot,          \* who has the slot
    tripped,       \* has the watchdog interrupted its run
    active,        \* whose run is the runner's activeRun
    late,          \* wake tasks that were given up and are still alive
    lateTurns,     \* is a turn alive that was given up
    turns,         \* user turns and other wakes waiting for the slot
    gone,          \* is the agent deleted
    unchecked,     \* sends that found the agent before it was deleted
    sent, asked, stops,  \* how often the bounded actions were taken
    \* history
    why,           \* why the run of the slot was interrupted, first
    exact,         \* did this task start with no other run of the agent alive
    returned,      \* messages that a given-up run put back
    shown,         \* times each message was put in the transcript
    attempts,      \* times each message was run
    fate           \* what became of each message

lanes == <<queue, batch, phase>>
flags == <<priority, isDisplayed, isRedriven>>
run == <<slot, tripped, active, why, exact>>
others == <<late, lateTurns, returned>>
bounds == <<sent, asked, stops>>
history == <<shown, attempts, fate>>
vars == <<lanes, flags, flag, run, others, turns, gone, unchecked, bounds, history>>

Lane == {"agent", "channel"}
Message == 1..MaxMessages
Turn == {"user", "other"}
Phase == {"idle", "resolving", "refused", "waiting", "loading", "running"}
Cause == {"none", "preempted", "stopped", "overtaken"}
LateTask == [lane : Lane, batch : Seq(Message), phase : {"loading", "running"}]

TypeOK ==
    /\ queue \in [Lane -> Seq(Message)]
    /\ batch \in [Lane -> Seq(Message)]
    /\ phase \in [Lane -> Phase]
    /\ priority \subseteq Message /\ isDisplayed \subseteq Message /\ isRedriven \subseteq Message
    /\ returned \subseteq Message
    /\ flag \in BOOLEAN /\ gone \in BOOLEAN
    /\ tripped \in BOOLEAN /\ lateTurns \in BOOLEAN /\ exact \in BOOLEAN
    /\ slot \in Lane \cup Turn \cup {"none"}
    /\ active \in {"none", "slot", "late"}
    /\ late \subseteq LateTask
    /\ turns \in [Turn -> 0..MaxTurns]
    /\ unchecked \in 0..MaxMessages
    /\ sent \in 0..MaxMessages /\ asked \in 0..MaxTurns /\ stops \in 0..MaxStops
    /\ why \in Cause
    /\ shown \in [Message -> Nat] /\ attempts \in [Message -> Nat]
    /\ fate \in [Message -> {"none", "run", "dropped"}]

Init ==
    /\ queue = [l \in Lane |-> <<>>]
    /\ batch = [l \in Lane |-> <<>>]
    /\ phase = [l \in Lane |-> "idle"]
    /\ priority \in SUBSET Message
    /\ isDisplayed = {} /\ isRedriven = {} /\ returned = {}
    /\ flag = FALSE /\ gone = FALSE
    /\ slot \in {"none", "other"} /\ tripped = FALSE /\ active = "none"
    /\ late = {} /\ lateTurns = FALSE
    /\ turns = [t \in Turn |-> 0]
    /\ unchecked = 0
    /\ sent = 0 /\ asked = 0 /\ stops = 0
    /\ why = "none" /\ exact = FALSE
    /\ shown = [m \in Message |-> 0]
    /\ attempts = [m \in Message |-> 0]
    /\ fate = [m \in Message |-> "none"]

-----------------------------------------------------------------------------
(* Queues.                                                                 *)

\* partitionAgentInbound.
Urgent(s) == Subsequence(s, {i \in DOMAIN s : s[i] \in priority})
Plain(s) == Subsequence(s, {i \in DOMAIN s : s[i] \notin priority})

prioritizeAgentInbound(s) == Urgent(s) \o Plain(s)

mergeAgentInboundQueue(queued, deferred) ==
    Urgent(queued) \o Urgent(deferred) \o Plain(deferred) \o Plain(queued)

\* What is put back goes before what has come in since.
PutBackOver(l, q, deferred) == deferred
PutBack(l, q, deferred) ==
    IF l = "agent" THEN mergeAgentInboundQueue(q, deferred) ELSE deferred \o q

\* The reviver's loop: take the whole queue, or stop.  Whether the agent is
\* gone is asked before the session is opened, and not again.
Taken(l, q) == IF l = "agent" THEN prioritizeAgentInbound(q) ELSE q
LoopNever(l, q) ==
    /\ queue' = [queue EXCEPT ![l] = q]
    /\ batch' = [batch EXCEPT ![l] = <<>>]
    /\ phase' = [phase EXCEPT ![l] = "idle"]
LoopWith(l, q) ==
    /\ queue' = [queue EXCEPT ![l] = <<>>]
    /\ batch' = [batch EXCEPT ![l] = Taken(l, q)]
    /\ phase' = [phase EXCEPT ![l] = IF q = <<>> THEN "idle"
                                     ELSE IF gone THEN "refused" ELSE "resolving"]

-----------------------------------------------------------------------------
(* Interruptions.  A runner interrupts the run that started last, which    *)
(* may be one that was given up; the first cause of an interruption stays. *)

Stopped(cause) == IF cause = "none" THEN "stopped" ELSE cause
Preempted(cause) ==
    CASE cause = "none" -> "preempted"
      [] cause = "stopped" -> "overtaken"
      [] OTHER -> cause

\* A direct message, or a priority message unless the user's turn is running.
Preempt ==
    /\ flag' = (flag \/ active # "none")
    /\ why' = IF active = "slot" THEN Preempted(why) ELSE why

-----------------------------------------------------------------------------
(* Senders.                                                                *)

\* A message joins its lane and starts the reviver if it is idle.
Arrive(l, q) ==
    IF phase[l] = "idle" THEN LoopWith(l, q)
    ELSE queue' = [queue EXCEPT ![l] = q] /\ UNCHANGED <<batch, phase>>

\* sendToAgent, from the end of its await of the roster; whether the agent is
\* gone was asked before.
sendToAgent ==
    LET m == sent + 1
    IN  /\ ~gone \/ unchecked > 0
        /\ unchecked' = IF gone THEN unchecked - 1 ELSE unchecked
        /\ sent < MaxMessages /\ sent' = m
        /\ Arrive("agent", IF m \in priority THEN <<m>> \o queue["agent"]
                                             ELSE Append(queue["agent"], m))
        /\ IF m \in priority /\ slot # "user" THEN Preempt ELSE UNCHANGED <<flag, why>>
        /\ UNCHANGED <<flags, slot, tripped, active, exact, others, turns, gone, asked,
                       stops, history>>

\* wakeForInbound.
wakeForInbound ==
    LET m == sent + 1
    IN  /\ ~gone
        /\ sent < MaxMessages /\ sent' = m
        /\ m \notin priority
        /\ Arrive("channel", Append(queue["channel"], m))
        /\ UNCHANGED <<flags, flag, run, others, turns, gone, unchecked, asked, stops,
                       history>>

\* A turn is queued for the slot.
Asked(t) == [turns EXCEPT ![t] = @ + 1]

\* A direct message of the user, dispatched as a turn.  It does not interrupt
\* a hidden run that has not reached the provider yet.
DirectMessage ==
    /\ ~gone /\ asked < MaxTurns /\ asked' = asked + 1
    /\ Preempt \/ UNCHANGED <<flag, why>>
    /\ turns' = Asked("user")
    /\ UNCHANGED <<lanes, flags, slot, tripped, active, exact, others, gone, unchecked,
                   sent, stops, history>>

\* A revival or an automation: a run that knows nothing of the flag.
OtherWake ==
    /\ ~gone /\ asked < MaxTurns /\ asked' = asked + 1
    /\ turns' = Asked("other")
    /\ UNCHANGED <<lanes, flags, flag, run, others, gone, unchecked, sent, stops,
                   history>>

\* The user stops the run.
StopRun ==
    /\ stops < MaxStops /\ stops' = stops + 1
    /\ active = "slot"
    /\ why' = Stopped(why)
    /\ UNCHANGED <<lanes, flags, flag, slot, tripped, active, exact, others, turns, gone,
                   unchecked, sent, asked, history>>

-----------------------------------------------------------------------------
(* The run slot.                                                           *)

\* The slot is taken, by a task that reads no flag or by that of a lane.
Takes(who) ==
    /\ slot = "none"
    /\ slot' = who
    /\ why' = "none" /\ exact' = (late = {} /\ ~lateTurns)
    /\ UNCHANGED <<tripped, active>>

Frees ==
    /\ slot' = "none"
    /\ why' = "none" /\ exact' = FALSE /\ tripped' = FALSE
    /\ active' = IF active = "slot" THEN "none" ELSE active

\* A run starts and becomes the one that is interrupted.
Activates(who) == active' = who /\ UNCHANGED <<slot, tripped, why, exact>>

TakeTurn(t) ==
    /\ turns[t] > 0
    /\ t = "user" \/ turns["user"] = 0
    /\ Takes(t)
    /\ turns' = [turns EXCEPT ![t] = @ - 1]
    /\ UNCHANGED <<lanes, flags, flag, others, gone, unchecked, bounds, history>>

TurnStarts(t) ==
    /\ slot = t /\ active # "slot"
    /\ Activates("slot")
    /\ UNCHANGED <<lanes, flags, flag, others, turns, gone, unchecked, bounds, history>>

EndTurn(t) ==
    /\ slot = t
    /\ Frees
    /\ UNCHANGED <<lanes, flags, flag, others, turns, gone, unchecked, bounds, history>>

\* onWatchdogFired: a turn of the user has waited too long.
Trip ==
    /\ turns["user"] > 0 /\ slot # "none" /\ ~tripped
    /\ tripped' = TRUE
    /\ why' = IF active = "slot" THEN Stopped(why) ELSE why
    /\ UNCHANGED <<lanes, flags, flag, slot, active, exact, others, turns, gone,
                   unchecked, bounds, history>>

\* escapeWedgedRun: the run is given up and lives on, still the one that is
\* interrupted if it was.
GivesUp ==
    /\ tripped
    /\ slot' = "none"
    /\ why' = "none" /\ exact' = FALSE /\ tripped' = FALSE
    /\ active' = IF active = "slot" THEN "late" ELSE active

GiveUpTurn(t) ==
    /\ slot = t
    /\ GivesUp
    /\ lateTurns' = TRUE
    /\ UNCHANGED <<lanes, flags, flag, late, returned, turns, gone, unchecked, bounds,
                   history>>

\* A turn that was given up starts a run, and the last of them ends.
LateTurnStarts ==
    /\ lateTurns /\ active # "late"
    /\ Activates("late")
    /\ UNCHANGED <<lanes, flags, flag, others, turns, gone, unchecked, bounds, history>>

\* The given-up runs that are left: one of them may be the active run.
LateEnds(L, turn) ==
    /\ late' = L /\ lateTurns' = turn
    /\ IF active = "late" THEN active' \in {"none"} \cup (IF L # {} \/ turn THEN {"late"} ELSE {})
                          ELSE active' = active
    /\ UNCHANGED <<slot, tripped, why, exact>>

LateTurnEnds ==
    /\ lateTurns
    /\ \E turn \in BOOLEAN : LateEnds(late, turn)
    /\ UNCHANGED <<lanes, flags, flag, returned, turns, gone, unchecked, bounds, history>>

-----------------------------------------------------------------------------
(* The reviver of a lane.                                                  *)

Ended(W, what) == fate' = [m \in Message |-> IF m \in W THEN what ELSE fate[m]]

\* The session is resolved; what the transcript does not show yet is added,
\* and the task is queued for the slot.
Resolved(l) ==
    /\ phase[l] = "resolving"
    /\ phase' = [phase EXCEPT ![l] = "waiting"]
    /\ shown' = [m \in Message |-> IF m \in Items(batch[l]) \ isDisplayed
                                   THEN shown[m] + 1 ELSE shown[m]]
    /\ UNCHANGED <<queue, batch, flags, flag, run, others, turns, gone, unchecked, bounds,
                   attempts, fate>>

Unresolved(l) ==
    /\ \/ phase[l] = "refused" /\ UNCHANGED stops
       \/ phase[l] = "resolving" /\ stops < MaxStops /\ stops' = stops + 1
    /\ Ended(Items(batch[l]), "dropped")
    /\ LoopWith(l, queue[l])
    /\ UNCHANGED <<flags, flag, run, others, turns, gone, unchecked, sent, asked, shown,
                   attempts>>

\* The task gets the slot and clears the flag.
FlagKept == flag
FlagAtStart == FALSE
TaskStarts(l) ==
    /\ phase[l] = "waiting"
    /\ turns["user"] = 0
    /\ Takes(l)
    /\ flag' = FlagAtStart
    /\ phase' = [phase EXCEPT ![l] = "loading"]
    /\ UNCHANGED <<queue, batch, flags, others, turns, gone, unchecked, bounds, history>>

\* The messages of one run: the next of the agent lane's batch (once its
\* images are loaded), or all envelopes; and what it leaves of the batch.
InRun(l, b) == IF l = "agent" THEN {Head(b)} ELSE Items(b)
Untaken(l, b) == IF l = "agent" THEN Tail(b) ELSE <<>>

Attempted(W) == attempts' = [m \in Message |-> IF m \in W THEN attempts[m] + 1 ELSE attempts[m]]

RunStarts(l) ==
    /\ phase[l] = "loading"
    /\ phase' = [phase EXCEPT ![l] = "running"]
    /\ Activates("slot")
    /\ Attempted(InRun(l, batch[l]))
    /\ UNCHANGED <<queue, batch, flags, flag, others, turns, gone, unchecked, bounds,
                   shown, fate>>

\* The end of a task, after which the reviver loops with queue q.
Finish(l, q) == Frees /\ LoopWith(l, q)

HasUrgent(q) == Urgent(q) # <<>>

\* The run ends well: on to the next message, unless a priority message has
\* come, to which the rest of the batch is deferred.
RunOk(l) ==
    LET left == Untaken(l, batch[l])
    IN  /\ phase[l] = "running"
        /\ flag' = FALSE
        /\ Ended(InRun(l, batch[l]), "run")
        /\ \/ /\ left = <<>>
              /\ Finish(l, queue[l])
              /\ UNCHANGED isDisplayed
           \/ /\ left # <<>> /\ HasUrgent(queue[l])
              /\ isDisplayed' = isDisplayed \cup Items(left)
              /\ Finish(l, PutBack(l, queue[l], left))
           \/ /\ left # <<>> /\ ~HasUrgent(queue[l])
              /\ batch' = [batch EXCEPT ![l] = left]
              /\ phase' = [phase EXCEPT ![l] = "loading"]
              /\ active' = IF active = "slot" THEN "none" ELSE active
              /\ why' = "none"
              /\ UNCHANGED <<queue, slot, tripped, exact, isDisplayed>>
        /\ UNCHANGED <<priority, isRedriven, others, turns, gone, unchecked, bounds,
                       shown, attempts>>

\* What an aborted batch may be put back for: what was not put back before.
RedrivableAgain(s) == s
Redrivable(s) == Subsequence(s, {i \in DOMAIN s : s[i] \notin isRedriven})
Back(b) == IF flag /\ ~gone THEN Redrivable(b) ELSE <<>>

\* The run ends aborted: a preemption puts the batch back once, anything else
\* drops it.
RunAborted(l) ==
    LET back == Back(batch[l])
    IN  /\ phase[l] = "running"
        /\ why # "none"
        /\ flag' = FALSE
        /\ isDisplayed' = isDisplayed \cup Items(back)
        /\ isRedriven' = isRedriven \cup Items(back)
        /\ Ended(Items(batch[l]) \ Items(back), "dropped")
        /\ Finish(l, PutBack(l, queue[l], back))
        /\ UNCHANGED <<priority, others, turns, gone, unchecked, bounds, shown, attempts>>

\* The run throws: the rest of the batch is dropped.
RunFails(l) ==
    /\ phase[l] = "running"
    /\ stops < MaxStops /\ stops' = stops + 1
    /\ Ended(Items(batch[l]), "dropped")
    /\ Finish(l, queue[l])
    /\ UNCHANGED <<flags, flag, others, turns, gone, unchecked, sent, asked, shown,
                   attempts>>

\* The task is given up: the reviver goes on as if it had ended.
GiveUp(l) ==
    /\ slot = l
    /\ GivesUp
    /\ late' = late \cup {[lane |-> l, batch |-> batch[l], phase |-> phase[l]]}
    /\ LoopWith(l, queue[l])
    /\ UNCHANGED <<flags, flag, lateTurns, returned, turns, gone, unchecked, bounds,
                   history>>

-----------------------------------------------------------------------------
(* A task that was given up goes on with its batch.  It shares the flag    *)
(* and the queue with the tasks of the slot, and no reviver waits for it.  *)

LateRunStarts(r) ==
    /\ r.phase = "loading"
    /\ late' = (late \ {r}) \cup {[r EXCEPT !.phase = "running"]}
    /\ Activates("late")
    /\ Attempted(InRun(r.lane, r.batch))
    /\ UNCHANGED <<lanes, flags, flag, lateTurns, returned, turns, gone, unchecked,
                   bounds, shown, fate>>

\* Messages return to a queue whose reviver may have stopped, or taken newer
\* ones meanwhile.
Returns(l, back) ==
    /\ queue' = [queue EXCEPT ![l] = IF back = <<>> THEN @ ELSE PutBack(l, @, back)]
    /\ isDisplayed' = isDisplayed \cup Items(back)
    /\ returned' = returned \cup Items(back)
    /\ UNCHANGED <<batch, phase>>

LateRunOk(r) ==
    LET left == Untaken(r.lane, r.batch)
        deferred == IF HasUrgent(queue[r.lane]) THEN left ELSE <<>>
        rest == IF left = deferred THEN {}
                ELSE {[r EXCEPT !.batch = left, !.phase = "loading"]}
    IN  /\ r.phase = "running"
        /\ flag' = FALSE
        /\ Ended(InRun(r.lane, r.batch), "run")
        /\ Returns(r.lane, deferred)
        /\ LateEnds((late \ {r}) \cup rest, lateTurns)
        /\ UNCHANGED <<priority, isRedriven, turns, gone, unchecked, bounds, shown,
                       attempts>>

\* A given-up run is one that was interrupted, so it may end aborted.
LateRunAborted(r) ==
    LET back == Back(r.batch)
    IN  /\ r.phase = "running"
        /\ flag' = FALSE
        /\ isRedriven' = isRedriven \cup Items(back)
        /\ Ended(Items(r.batch) \ Items(back), "dropped")
        /\ Returns(r.lane, back)
        /\ LateEnds(late \ {r}, lateTurns)
        /\ UNCHANGED <<priority, turns, gone, unchecked, bounds, shown, attempts>>

LateRunFails(r) ==
    /\ r.phase = "running"
    /\ stops < MaxStops /\ stops' = stops + 1
    /\ Ended(Items(r.batch), "dropped")
    /\ LateEnds(late \ {r}, lateTurns)
    /\ UNCHANGED <<lanes, flags, flag, returned, turns, gone, unchecked, sent, asked,
                   shown, attempts>>

-----------------------------------------------------------------------------
(* Deletion of the agent.                                                  *)

\* interruptAgentForDeletion.
DeleteAgent ==
    /\ ~gone
    /\ stops < MaxStops /\ stops' = stops + 1
    /\ gone' = TRUE
    /\ unchecked' \in 0..(MaxMessages - sent)
    /\ flag' = FALSE
    /\ queue' = [l \in Lane |-> <<>>]
    /\ fate' = [m \in Message |-> IF \E l \in Lane : m \in Items(queue[l])
                                  THEN "dropped" ELSE fate[m]]
    /\ why' = IF active = "slot" THEN Stopped(why) ELSE why
    /\ exact' = FALSE
    /\ UNCHANGED <<batch, phase, flags, slot, tripped, active, others, turns, sent, asked,
                   shown, attempts>>

\* deleteAgents fails later, and the agent is back.
DeletionFails ==
    /\ gone
    /\ gone' = FALSE /\ unchecked' = 0
    /\ UNCHANGED <<lanes, flags, flag, run, others, turns, bounds, history>>

-----------------------------------------------------------------------------
LateTaskSteps(r) == LateRunStarts(r) \/ LateRunOk(r) \/ LateRunAborted(r) \/ LateRunFails(r)

Next ==
    \/ sendToAgent \/ wakeForInbound
    \/ DirectMessage \/ OtherWake \/ StopRun \/ Trip
    \/ DeleteAgent \/ DeletionFails
    \/ LateTurnStarts \/ LateTurnEnds
    \/ \E t \in Turn : TakeTurn(t) \/ TurnStarts(t) \/ EndTurn(t) \/ GiveUpTurn(t)
    \/ \E l \in Lane :
          \/ Resolved(l) \/ Unresolved(l) \/ TaskStarts(l) \/ RunStarts(l)
          \/ RunOk(l) \/ RunAborted(l) \/ RunFails(l) \/ GiveUp(l)
    \/ \E r \in late : LateTaskSteps(r)

Spec == Init /\ [][Next]_vars

\* Sessions are resolved, queued tasks get the slot, and what has it ends or
\* is given up (RunScheduler's EveryRunSettles).  A run that was given up may
\* hang for ever.
TurnGoesOn(t) == EndTurn(t) \/ GiveUpTurn(t)
LaneGoesOn(l) ==
    Resolved(l) \/ Unresolved(l) \/ RunStarts(l) \/ RunOk(l) \/ RunAborted(l) \/ GiveUp(l)

FairSpec ==
    /\ Spec
    /\ WF_vars(TakeTurn("user"))
    /\ WF_vars(\E t \in Turn : TurnGoesOn(t))
    /\ \A l \in Lane : WF_vars(LaneGoesOn(l)) /\ SF_vars(TaskStarts(l))

-----------------------------------------------------------------------------
(***************************************************************************)
(* The shared flag tells the truth to the run that reads it: it is set for *)
(* a run of a lane exactly when a direct or a priority message interrupted *)
(* that run, and is never the leftover of a run before it.  Whether the    *)
(* message came first does not show: a run that the user had stopped       *)
(* before (why = "overtaken") is put back too.  A task during which the    *)
(* agent was deleted, or that started while a given-up run was alive, is   *)
(* excepted: that run shares the flag and may set or take it.              *)
(***************************************************************************)
FlagIsExact ==
    \A l \in Lane : phase[l] = "running" /\ exact => (flag <=> why \in {"preempted", "overtaken"})

(***************************************************************************)
(* A message sent is in exactly one place until it has been run or         *)
(* dropped, the batches of given-up tasks included: interruptions,         *)
(* deferrals and redeliveries neither lose nor duplicate it.               *)
(***************************************************************************)
Waiting == queue["agent"] \o batch["agent"] \o queue["channel"] \o batch["channel"]
Places(m) ==
    {i \in DOMAIN Waiting : Waiting[i] = m}
      \cup UNION {{<<r, i>> : i \in {j \in DOMAIN r.batch : r.batch[j] = m}} : r \in late}
OnePlace ==
    \A m \in 1..sent : Cardinality(Places(m)) = IF fate[m] = "none" THEN 1 ELSE 0

(***************************************************************************)
(* Messages without priority keep the order in which they were sent,       *)
(* whatever was deferred to a priority message or put back after a         *)
(* preemption in between; what a given-up run returned late is out of it.  *)
(***************************************************************************)
KeepsOrder ==
    \A l \in Lane :
        LET line == batch[l] \o queue[l]
        IN  \A i, j \in DOMAIN line :
               i < j /\ {line[i], line[j]} \cap (priority \cup returned) = {}
                  => line[i] < line[j]

(***************************************************************************)
(* A reviver stops only when its queue is empty; what is found there later *)
(* was returned by a given-up run.                                         *)
(***************************************************************************)
NoneLeft == \A l \in Lane : phase[l] = "idle" => Items(queue[l]) \subseteq returned

(***************************************************************************)
(* The agent sees each message once in its transcript, before it is run,   *)
(* and runs it at most twice: the second preemption ends it.               *)
(***************************************************************************)
ShownOnceRunTwice ==
    \A m \in Message : /\ shown[m] <= 1
                       /\ attempts[m] > 0 => shown[m] = 1
                       /\ attempts[m] <= 2

(***************************************************************************)
(* The queues of the agent are sound: each message is in one place, those  *)
(* without priority are in the order they were sent, and no reviver leaves *)
(* one behind.                                                             *)
(***************************************************************************)
QueuesAreSound == TypeOK /\ OnePlace /\ KeepsOrder /\ NoneLeft

(***************************************************************************)
(* Every message is run or dropped in the end: the senders stop at their   *)
(* bound, and then the inbox comes to rest.  Excepted is what a run given  *)
(* up for a turn of the user still holds, or has returned to a queue whose *)
(* reviver had stopped: there it waits for the next message.               *)
(***************************************************************************)
GivenUp(m) ==
    \/ \E r \in late : m \in Items(r.batch)
    \/ m \in returned /\ \E l \in Lane : phase[l] = "idle" /\ m \in Items(queue[l])
EveryMessageEnds == []<>(\A m \in 1..sent : fate[m] # "none" \/ GivenUp(m))
=============================================================================
