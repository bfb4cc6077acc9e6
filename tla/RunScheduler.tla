---------------------------- MODULE RunScheduler ----------------------------
(***************************************************************************)
(* SandRunScheduler: the queue that runs one agent's work exclusively.     *)
(* The scheduler keeps one such queue per agent and the queues share only  *)
(* the disposed flag, so one queue is modelled.                            *)
(*                                                                         *)
(* Time is kept as ages.  The code compares Date.now() stamps; all that it *)
(* uses is now - max(head.enqueuedAtMs, active.startedAtMs), which is the  *)
(* smaller of the two ages.  An age saturates at AgeCap.  Timers count     *)
(* down (setTimeout does not follow the wall clock), and ClockStep moves   *)
(* the wall clock without moving the timers.  A generation number is the   *)
(* identity of the run it was given to, so runs are compared directly.     *)
(***************************************************************************)
EXTENDS RunTasks, Sequences, SequencesExt

CONSTANTS WatchdogMs,      \* options.watchdogMs
          WatchdogGraceMs, \* options.watchdogGraceMs
          AgeCap,          \* ages saturate here
          MaxClockSteps    \* how often the wall clock may be stepped

ASSUME TimeAssumption ==
    /\ WatchdogMs \in Nat \ {0}
    /\ WatchdogGraceMs \in Nat \ {0}
    /\ AgeCap \in Nat /\ AgeCap > WatchdogMs + WatchdogGraceMs
    /\ MaxClockSteps \in Nat

VARIABLES
    pendingUser, pendingAgent, pendingBackground,
    active,        \* the run that holds the queue
    phase,         \* active.phase
    zombies,       \* runs given up by the watchdog that have not settled
    promise,       \* the promise returned by enqueue, per task
    pumpDue,       \* a microtask will call pump
    watchdogTimer, \* time left, or Off
    graceTimer,    \* time left, or Off
    graceRun,      \* the run captured by the grace timer's callback
    age,           \* now - enqueuedAtMs, for the waiting user tasks
    activeAge,     \* now - active.startedAtMs
    clockSteps,    \* wall clock steps so far
    draining, drainRuns, drainItems, \* a drain in progress and its snapshot
    disposed

queueVars == <<pendingUser, pendingAgent, pendingBackground>>
timerVars == <<watchdogTimer, graceTimer, graceRun>>
drainVars == <<draining, drainRuns, drainItems>>
vars == <<queueVars, active, phase, zombies, promise, pumpDue, timerVars,
          age, activeAge, clockSteps, drainVars, disposed>>

Off == -1
Smaller(x, y) == IF x <= y THEN x ELSE y
Pending == ToSet(pendingUser) \cup ToSet(pendingAgent)
             \cup ToSet(pendingBackground)
Settled(t) == /\ promise[t] # "none"
              /\ t \notin Pending \cup zombies \cup {active}

Init ==
    /\ pendingUser = <<>> /\ pendingAgent = <<>> /\ pendingBackground = <<>>
    /\ active = NoTask /\ phase = "idle" /\ zombies = {}
    /\ promise = [t \in Task |-> "none"]
    /\ pumpDue = FALSE
    /\ watchdogTimer = Off /\ graceTimer = Off /\ graceRun = NoTask
    /\ age = [t \in Task |-> 0] /\ activeAge = 0 /\ clockSteps = 0
    /\ draining = FALSE /\ drainRuns = {} /\ drainItems = {}
    /\ disposed = FALSE
-----------------------------------------------------------------------------
(***************************************************************************)
(* waitedBehindActiveMs, for a head of age headAge and an active run of    *)
(* age runAge, and the delay that armWatchdog gives its timer.             *)
(***************************************************************************)
WaitedBehindActive(headAge, runAge) == Smaller(headAge, runAge)

LateDelay(waited) == WatchdogMs - waited + 1
SwappedDelay(waited) == waited - WatchdogMs
WatchdogDelay(waited) ==
    IF waited >= WatchdogMs THEN 0 ELSE WatchdogMs - waited

(***************************************************************************)
(* armWatchdog: the watchdog timer after a call that finds the timers dog  *)
(* and grace, and the user queue users, with ages ages, behind the run act *)
(* of age runAge.                                                          *)
(***************************************************************************)
ArmWatchdog(dog, grace, users, ages, act, runAge) ==
    IF disposed \/ dog # Off \/ grace # Off \/ users = <<>> \/ act = NoTask
    THEN dog
    ELSE WatchdogDelay(WaitedBehindActive(ages[Head(users)], runAge))

(***************************************************************************)
(* disarmWatchdog.                                                         *)
(***************************************************************************)
DisarmGrace == graceTimer' = Off /\ graceRun' = NoTask
DisarmWatchdog == watchdogTimer' = Off /\ DisarmGrace

(***************************************************************************)
(* takeNextUserTask: the first task whose source is not "group-member",    *)
(* or the first task when there is none.                                   *)
(***************************************************************************)
TakeOldestUserTask(users) == 1
TakeNextUserTask(users) ==
    LET preferred == {i \in DOMAIN users : users[i].source # "group-member"}
    IN  IF preferred = {}
        THEN 1
        ELSE CHOOSE i \in preferred : \A j \in preferred : i <= j

(***************************************************************************)
(* The part of pump after the task has been taken: it becomes the active   *)
(* run, the timers of the previous run are dropped, and the watchdog is    *)
(* armed again if a user task still waits.                                 *)
(***************************************************************************)
BeginUncovered(t) ==
    /\ active' = t /\ phase' = "running" /\ activeAge' = 0
    /\ age' = [age EXCEPT ![t] = 0]
    /\ DisarmWatchdog
BeginRun(t) ==
    /\ active' = t /\ phase' = "running" /\ activeAge' = 0
    /\ age' = [age EXCEPT ![t] = 0]
    /\ DisarmGrace
    /\ watchdogTimer' = ArmWatchdog(Off, Off, pendingUser', age, t, 0)

PumpUser ==
    /\ ~disposed /\ pendingUser # <<>>
    /\ LET i == TakeNextUserTask(pendingUser)
       IN  /\ pendingUser' = RemoveAt(pendingUser, i)
           /\ BeginRun(pendingUser[i])
    /\ UNCHANGED <<pendingAgent, pendingBackground>>

PumpAgent ==
    /\ ~disposed /\ pendingUser = <<>> /\ pendingAgent # <<>>
    /\ pendingAgent' = Tail(pendingAgent)
    /\ UNCHANGED <<pendingUser, pendingBackground>>
    /\ BeginRun(Head(pendingAgent))

PumpBackground ==
    /\ ~disposed /\ pendingUser = <<>> /\ pendingAgent = <<>>
    /\ pendingBackground # <<>>
    /\ pendingBackground' = Tail(pendingBackground)
    /\ UNCHANGED <<pendingUser, pendingAgent>>
    /\ BeginRun(Head(pendingBackground))

LeaveIdle ==
    /\ active' = NoTask /\ phase' = "idle" /\ activeAge' = 0
    /\ DisarmWatchdog
    /\ UNCHANGED <<queueVars, age>>

PumpNothing == (disposed \/ Pending = {}) /\ LeaveIdle

(***************************************************************************)
(* pump once queue.active is null: taken by the microtask of enqueue, and  *)
(* called at the end of onTaskSettled and of escapeWedgedRun.              *)
(***************************************************************************)
PumpIdle == PumpUser \/ PumpAgent \/ PumpBackground \/ PumpNothing
-----------------------------------------------------------------------------
(***************************************************************************)
(* enqueue: append to the task's lane, arm the watchdog if the task waits  *)
(* behind a run, and let a microtask pump.                                 *)
(***************************************************************************)
PushToLane(t) ==
    \/ /\ t.lane = "user"
       /\ pendingUser' = Append(pendingUser, t)
       /\ UNCHANGED <<pendingAgent, pendingBackground>>
    \/ /\ t.lane = "agent"
       /\ pendingAgent' = Append(pendingAgent, t)
       /\ UNCHANGED <<pendingUser, pendingBackground>>
    \/ /\ t.lane = "background"
       /\ pendingBackground' = Append(pendingBackground, t)
       /\ UNCHANGED <<pendingUser, pendingAgent>>

Enqueue(t) ==
    /\ promise[t] = "none"
    /\ promise' = [promise EXCEPT ![t] = "pending"]
    /\ age' = [age EXCEPT ![t] = 0]
    /\ PushToLane(t)
    /\ watchdogTimer' = ArmWatchdog(watchdogTimer, graceTimer, pendingUser',
                                   age', active, activeAge)
    /\ pumpDue' = TRUE
    /\ UNCHANGED <<active, phase, zombies, graceTimer, graceRun, activeAge,
                   clockSteps, drainVars, disposed>>

(***************************************************************************)
(* The microtask: pump returns at once while a run is active.              *)
(***************************************************************************)
Pump ==
    /\ pumpDue
    /\ pumpDue' = FALSE
    /\ \/ active = NoTask /\ PumpIdle
       \/ /\ active # NoTask
          /\ UNCHANGED <<queueVars, active, phase, timerVars, age, activeAge>>
    /\ UNCHANGED <<zombies, promise, clockSteps, drainVars, disposed>>

(***************************************************************************)
(* onTaskSettled for the run that holds the queue: settle its promise,     *)
(* free the queue, disarm, pump.  A task may resolve or reject.            *)
(***************************************************************************)
SettleWithoutPump(outcome) ==
    /\ active # NoTask
    /\ promise' = [promise EXCEPT ![active] = outcome]
    /\ LeaveIdle
    /\ UNCHANGED <<zombies, pumpDue, clockSteps, drainVars, disposed>>
SettleActive(outcome) ==
    /\ active # NoTask
    /\ promise' = [promise EXCEPT ![active] = outcome]
    /\ PumpIdle
    /\ UNCHANGED <<zombies, pumpDue, clockSteps, drainVars, disposed>>

(***************************************************************************)
(* onTaskSettled for a run the watchdog has given up (late_settle): its    *)
(* promise is already resolved and the queue belongs to another run.       *)
(***************************************************************************)
SettleZombie(t) ==
    /\ t \in zombies
    /\ zombies' = zombies \ {t}
    /\ UNCHANGED <<queueVars, active, phase, promise, pumpDue, timerVars, age,
                   activeAge, clockSteps, drainVars, disposed>>

(***************************************************************************)
(* onWatchdogFired: give the run its grace time, or wait longer when the   *)
(* wall clock says that the head has not waited long enough.  The code     *)
(* returns without a timer when nobody waits any more.                     *)
(***************************************************************************)
WatchdogFires ==
    /\ watchdogTimer = 0 /\ ~pumpDue
    /\ LET waiting == ~disposed /\ active # NoTask /\ pendingUser # <<>>
           waited == WaitedBehindActive(age[Head(pendingUser)], activeAge)
           early == waiting /\ waited < WatchdogMs
           trip == waiting /\ waited >= WatchdogMs
       IN  /\ watchdogTimer' = IF early THEN WatchdogDelay(waited) ELSE Off
           /\ phase' = IF trip THEN "interrupted" ELSE phase
           /\ graceTimer' = IF trip THEN WatchdogGraceMs ELSE graceTimer
           /\ graceRun' = IF trip THEN active ELSE graceRun
    /\ UNCHANGED <<queueVars, active, zombies, promise, pumpDue, age,
                   activeAge, clockSteps, drainVars, disposed>>

(***************************************************************************)
(* escapeWedgedRun: the run becomes a zombie, whoever awaits it is         *)
(* released, and the queue is pumped.  The code returns when it has been   *)
(* disposed of or another run holds the queue.                             *)
(***************************************************************************)
GiveUpActive ==
    /\ promise' = [promise EXCEPT ![active] = "resolved"]
    /\ zombies' = zombies \cup {active}

GraceFires ==
    /\ graceTimer = 0 /\ ~pumpDue
    /\ IF ~disposed /\ active = graceRun
       THEN GiveUpActive /\ PumpIdle
       ELSE /\ graceTimer' = Off /\ graceRun' = NoTask
            /\ UNCHANGED <<queueVars, active, phase, zombies, promise,
                           watchdogTimer, age, activeAge>>
    /\ UNCHANGED <<pumpDue, clockSteps, drainVars, disposed>>

(***************************************************************************)
(* drain: a snapshot of the promises to await.  The active run and the     *)
(* zombies are awaited until they settle, a queued task until the promise  *)
(* that enqueue returned settles.                                          *)
(***************************************************************************)
Drain ==
    /\ ~draining
    /\ draining' = TRUE
    /\ drainRuns' = zombies \cup ({active} \ {NoTask})
    /\ drainItems' = Pending
    /\ UNCHANGED <<queueVars, active, phase, zombies, promise, pumpDue,
                   timerVars, age, activeAge, clockSteps, disposed>>

RunsReleased == \A t \in drainRuns : promise[t] # "pending"
RunsSettled == \A t \in drainRuns : Settled(t)

DrainReturns ==
    /\ draining
    /\ RunsSettled
    /\ \A t \in drainItems : promise[t] # "pending"
    /\ draining' = FALSE /\ drainRuns' = {} /\ drainItems' = {}
    /\ UNCHANGED <<queueVars, active, phase, zombies, promise, pumpDue,
                   timerVars, age, activeAge, clockSteps, disposed>>

Dispose ==
    /\ ~disposed
    /\ disposed' = TRUE
    /\ DisarmWatchdog
    /\ UNCHANGED <<queueVars, active, phase, zombies, promise, pumpDue, age,
                   activeAge, clockSteps, drainVars>>
-----------------------------------------------------------------------------
Saturate(x) == IF x > AgeCap THEN AgeCap ELSE x

Aged(d) ==
    /\ age' = [t \in Task |-> IF t \in ToSet(pendingUser)
                              THEN Saturate(age[t] + d) ELSE age[t]]
    /\ activeAge' = IF active = NoTask THEN 0 ELSE Saturate(activeAge + d)

CountDown(timer) == IF timer = Off THEN Off ELSE timer - 1

(***************************************************************************)
(* Time passes: microtasks run first and a timer that is due fires before  *)
(* the next tick.                                                          *)
(***************************************************************************)
Tick ==
    /\ ~pumpDue /\ watchdogTimer # 0 /\ graceTimer # 0
    /\ Aged(1)
    /\ watchdogTimer' = CountDown(watchdogTimer)
    /\ graceTimer' = CountDown(graceTimer)
    /\ UNCHANGED <<queueVars, active, phase, zombies, promise, pumpDue,
                   graceRun, clockSteps, drainVars, disposed>>

(***************************************************************************)
(* The wall clock is stepped, forwards or backwards; timers do not follow. *)
(***************************************************************************)
ClockStep(d) ==
    /\ clockSteps < MaxClockSteps
    /\ clockSteps' = clockSteps + 1
    /\ Aged(d)
    /\ UNCHANGED <<queueVars, active, phase, zombies, promise, pumpDue,
                   timerVars, drainVars, disposed>>

Next ==
    \/ \E t \in Task : Enqueue(t)
    \/ Pump
    \/ \E outcome \in {"resolved", "rejected"} : SettleActive(outcome)
    \/ \E t \in Task : SettleZombie(t)
    \/ WatchdogFires
    \/ GraceFires
    \/ Drain
    \/ DrainReturns
    \/ Dispose
    \/ Tick
    \/ \E d \in {-1, 1} : ClockStep(d)

Spec == Init /\ [][Next]_vars

(***************************************************************************)
(* Microtasks and timers always run and time passes; a task need not ever  *)
(* settle (an inference stream may hang).                                  *)
(***************************************************************************)
TimerFairness == /\ WF_vars(Pump)
                 /\ WF_vars(WatchdogFires)
                 /\ WF_vars(GraceFires)
                 /\ WF_vars(Tick)

FairSpec == Spec /\ TimerFairness

\* Runs that hold the queue settle in the end.
RunsSettle == WF_vars(\E outcome \in {"resolved", "rejected"} :
                          SettleActive(outcome))
-----------------------------------------------------------------------------
(***************************************************************************)
(* Every variable of the queue stays in its range.                         *)
(***************************************************************************)
TypeOK ==
    /\ pendingUser \in Seq(Task)
    /\ pendingAgent \in Seq(Task)
    /\ pendingBackground \in Seq(Task)
    /\ active \in Task \cup {NoTask}
    /\ phase \in {"idle", "running", "interrupted"}
    /\ zombies \subseteq Task
    /\ promise \in [Task -> {"none", "pending", "resolved", "rejected"}]
    /\ pumpDue \in BOOLEAN
    /\ watchdogTimer \in Nat \cup {Off}
    /\ graceTimer \in Nat \cup {Off}
    /\ graceRun \in Task \cup {NoTask}
    /\ age \in [Task -> Int]
    /\ activeAge \in Int
    /\ clockSteps \in 0..MaxClockSteps
    /\ draining \in BOOLEAN
    /\ drainRuns \subseteq Task
    /\ drainItems \subseteq Task
    /\ disposed \in BOOLEAN

(***************************************************************************)
(* A caller of enqueue awaits exactly while its task is queued or holds    *)
(* the queue: pump, onTaskSettled and escapeWedgedRun never lose a task,   *)
(* never run one twice, and never leave a caller behind a run that the     *)
(* watchdog has given up.                                                  *)
(***************************************************************************)
CallersMatchQueue ==
    /\ \A t \in Task : promise[t] = "pending" <=> t \in Pending \cup {active}
    /\ \A t \in zombies : promise[t] \in {"resolved", "rejected"}

WaitingUser == ~disposed /\ active # NoTask /\ pendingUser # <<>>

(***************************************************************************)
(* A user task that waits behind a run is covered by exactly one timer,    *)
(* and a timer runs only then: disarm followed by arm in pump, and the     *)
(* early returns of armWatchdog and onWatchdogFired, leave no gap in which *)
(* a wedged run would hold the agent for ever.                             *)
(***************************************************************************)
WatchdogCovers ==
    /\ WaitingUser <=> (watchdogTimer # Off \/ graceTimer # Off)
    /\ watchdogTimer = Off \/ graceTimer = Off

(***************************************************************************)
(* The grace timer is only ever armed for the run that holds the queue     *)
(* and has been interrupted, so its callback cannot give up a run that     *)
(* started after the wedged one settled.                                   *)
(***************************************************************************)
GraceTargetsActive ==
    graceTimer # Off => graceRun = active /\ phase = "interrupted"

(***************************************************************************)
(* A queue with work and no run has a pump on its way: no wakeup is lost   *)
(* between the microtask of enqueue and the settling of a run.             *)
(***************************************************************************)
NoLostWakeup ==
    ~disposed /\ active = NoTask /\ Pending # {} => pumpDue

(***************************************************************************)
(* With a steady wall clock no user task is kept behind one run for longer *)
(* than watchdogMs + watchdogGraceMs, whatever the run does.               *)
(***************************************************************************)
WaitBounded ==
    WaitingUser /\ clockSteps = 0 =>
        Smaller(age[Head(pendingUser)], activeAge)
            <= WatchdogMs + WatchdogGraceMs

(***************************************************************************)
(* The queue agrees with its callers: whoever awaits a task waits for one  *)
(* that will run or has not settled, and a queue with work has a run or a  *)
(* pump on its way.                                                        *)
(***************************************************************************)
QueueIsSound == CallersMatchQueue /\ NoLostWakeup

(***************************************************************************)
(* The two timers cover a user task that waits behind a run, one at a time *)
(* and without a gap, and only ever give up the run that was interrupted   *)
(* for it.                                                                 *)
(***************************************************************************)
TimersCover == WatchdogCovers /\ GraceTargetsActive

(***************************************************************************)
(* drain returns only when nothing that was there when it was called is    *)
(* queued or holds the queue any more, and the run and the zombies it saw  *)
(* have really stopped.                                                    *)
(***************************************************************************)
DrainIsBarrier ==
    [][draining /\ ~draining' =>
         /\ drainRuns \cap (Pending \cup zombies \cup {active}) = {}
         /\ drainItems \cap (Pending \cup {active}) = {}]_vars

(***************************************************************************)
(* A user task is started even when the run before it never settles        *)
(* (unless the host shuts the scheduler down).                             *)
(***************************************************************************)
UserTaskStarts ==
    \A t \in Task : t \in ToSet(pendingUser)
                      ~> (t \notin ToSet(pendingUser) \/ disposed)

(***************************************************************************)
(* When runs settle, whoever awaits enqueue is released, background tasks  *)
(* behind user and agent tasks included.                                   *)
(***************************************************************************)
CallersReleased ==
    RunsSettle =>
        \A t \in Task : promise[t] = "pending"
                          ~> (promise[t] # "pending" \/ disposed)
-----------------------------------------------------------------------------
Exclusive == INSTANCE ExclusiveRuns WITH
    waiting <- Pending,
    running <- active,
    abandoned <- zombies,
    finished <- {t \in Task : Settled(t)},
    closed <- disposed

(***************************************************************************)
(* The queue with its lanes, timers and microtasks is an exclusive,        *)
(* prioritised run of the agent: every step of it is a step of             *)
(* ExclusiveRuns or leaves that specification's state alone.               *)
(***************************************************************************)
ImplementsExclusiveRuns == Exclusive!AbsSpec
=============================================================================
