------------------------- MODULE RunSchedulerProofs -------------------------
(***************************************************************************)
(* Proofs about RunScheduler, for every set of tasks and every choice of   *)
(* the watchdog's times.                                                   *)
(***************************************************************************)
EXTENDS RunScheduler, SequenceLemmas

(***************************************************************************)
(* While the wall clock is steady a timer and the wait that it measures    *)
(* add up to the time at which it is due.  This is what makes WaitBounded  *)
(* inductive.                                                              *)
(***************************************************************************)
Waited == Smaller(age[Head(pendingUser)], activeAge)

TimersTrackWait ==
    clockSteps = 0 =>
        /\ activeAge >= 0
        /\ \A t \in Task : age[t] >= 0
        /\ watchdogTimer # Off => watchdogTimer + Waited = WatchdogMs
        /\ graceTimer # Off =>
               graceTimer + Waited = WatchdogMs + WatchdogGraceMs

\* A task waits only after it has been enqueued.
KnownTasks == \A t \in ToSet(pendingUser) : promise[t] # "none"

TimerInv == /\ TypeOK
            /\ KnownTasks
            /\ WatchdogCovers
            /\ GraceTargetsActive
            /\ TimersTrackWait

(***************************************************************************)
(* takeNextUserTask returns a position of a nonempty queue, and removing   *)
(* that position leaves a queue of tasks.                                  *)
(***************************************************************************)
LEMMA TakeNextInQueue ==
    ASSUME NEW q \in Seq(Task), q # <<>>
    PROVE  TakeNextUserTask(q) \in DOMAIN q
<1> DEFINE P == {i \in DOMAIN q : q[i].source # "group-member"}
<1>1. CASE P = {}
  BY <1>1 DEF TakeNextUserTask
<1>2. CASE P # {}
  <2>1. P \subseteq Nat
    OBVIOUS
  <2>2. \E i \in P : \A j \in P : i <= j
    <3> HIDE DEF P
    <3> QED BY <1>2, <2>1, LeastNatural
  <2> QED
    BY <1>2, <2>2 DEF TakeNextUserTask
<1> QED
  BY <1>1, <1>2

(***************************************************************************)
(* What pump leaves behind, in terms of the variables that it assigns.     *)
(***************************************************************************)
Pumped == /\ pendingUser \in Seq(Task)
          /\ pendingAgent \in Seq(Task)
          /\ pendingBackground \in Seq(Task)
          /\ active \in Task \cup {NoTask}
          /\ phase \in {"idle", "running", "interrupted"}
          /\ watchdogTimer \in Nat \cup {Off}
          /\ graceTimer \in Nat \cup {Off}
          /\ graceRun \in Task \cup {NoTask}
          /\ age \in [Task -> Int]
          /\ activeAge \in Int
          /\ WatchdogCovers
          /\ GraceTargetsActive
          /\ TimersTrackWait

LEMMA DelayType ==
    ASSUME NEW w \in Int
    PROVE  /\ WatchdogDelay(w) \in Nat
           /\ w = 0 => WatchdogDelay(w) = WatchdogMs
           /\ w >= 0 /\ w <= WatchdogMs => WatchdogDelay(w) + w = WatchdogMs
BY TimeAssumption DEF WatchdogDelay

(***************************************************************************)
(* pump starts a run: the wait of the new head begins with the run.        *)
(***************************************************************************)
LEMMA BeginRunPumped ==
    ASSUME TimerInv, NEW t \in Task, ~disposed, BeginRun(t),
           pendingUser' \in Seq(Task), pendingAgent' \in Seq(Task),
           pendingBackground' \in Seq(Task), UNCHANGED <<disposed, clockSteps>>
    PROVE  Pumped'
<1> USE DEF TimerInv, TypeOK
<1>1. /\ active' = t /\ active' # NoTask
      /\ phase' = "running" /\ activeAge' = 0
      /\ graceTimer' = Off /\ graceRun' = NoTask
      /\ age' = [age EXCEPT ![t] = 0] /\ age' \in [Task -> Int]
  BY TaskAssumption DEF BeginRun, DisarmGrace
<1>2. CASE pendingUser' = <<>>
  <2>1. watchdogTimer' = Off
    BY <1>2 DEF BeginRun, ArmWatchdog
  <2>2. WatchdogCovers' /\ GraceTargetsActive'
    BY <1>1, <1>2, <2>1 DEF WatchdogCovers, WaitingUser, GraceTargetsActive
  <2>3. TimersTrackWait'
    BY <1>1, <2>1 DEF TimersTrackWait
  <2> QED
    BY <1>1, <2>1, <2>2, <2>3 DEF Pumped
<1>3. CASE pendingUser' # <<>>
  <2> DEFINE h == Head(pendingUser')
             w == Smaller(age[h], 0)
  <2>1. h \in Task /\ age[h] \in Int
    BY <1>3
  <2>2. w \in Int /\ (age[h] >= 0 => w = 0)
    BY <2>1 DEF Smaller
  <2>3. watchdogTimer' = WatchdogDelay(w)
    BY <1>1, <1>3 DEF BeginRun, ArmWatchdog, WaitedBehindActive, Off
  <2>4. watchdogTimer' \in Nat /\ watchdogTimer' # Off
    BY <2>2, <2>3, DelayType DEF Off
  <2>5. WatchdogCovers' /\ GraceTargetsActive'
    BY <1>1, <1>3, <2>4 DEF WatchdogCovers, WaitingUser, GraceTargetsActive
  <2>6. TimersTrackWait'
    <3> SUFFICES ASSUME clockSteps' = 0
                 PROVE  /\ activeAge' >= 0
                        /\ \A u \in Task : age'[u] >= 0
                        /\ watchdogTimer' + Waited' = WatchdogMs
      BY <1>1 DEF TimersTrackWait
    <3>1. \A u \in Task : age'[u] >= 0
      BY <1>1 DEF TimersTrackWait
    <3>2. Waited' = 0
      BY <1>1, <2>1, <3>1 DEF Waited, Smaller
    <3>3. age[h] >= 0
      BY <2>1 DEF TimersTrackWait
    <3>4. watchdogTimer' = WatchdogMs
      BY <2>2, <2>3, <3>3, DelayType
    <3> QED
      BY <1>1, <3>1, <3>2, <3>4, TimeAssumption
  <2> QED
    BY <1>1, <2>4, <2>5, <2>6 DEF Pumped
<1> QED
  BY <1>2, <1>3

LEMMA PumpIdlePumped ==
    ASSUME TimerInv, PumpIdle, UNCHANGED <<disposed, clockSteps>>
    PROVE  Pumped' /\ ToSet(pendingUser') \subseteq ToSet(pendingUser)
<1> USE DEF TimerInv, TypeOK
<1>1. CASE PumpUser
  <2> DEFINE i == TakeNextUserTask(pendingUser)
  <2>1. i \in DOMAIN pendingUser
    BY <1>1, TakeNextInQueue DEF PumpUser
  <2>2. pendingUser' \in Seq(Task) /\ pendingUser[i] \in Task
    BY <1>1, <2>1, RemoveAtType DEF PumpUser
  <2>3. ToSet(pendingUser') \subseteq ToSet(pendingUser)
    BY <1>1, <2>1, RemoveAtElements DEF PumpUser
  <2> QED
    BY <1>1, <2>2, <2>3, BeginRunPumped DEF PumpUser
<1>2. CASE PumpAgent
  <2>1. Head(pendingAgent) \in Task /\ pendingAgent' \in Seq(Task)
    BY <1>2 DEF PumpAgent
  <2> QED
    BY <1>2, <2>1, BeginRunPumped DEF PumpAgent
<1>3. CASE PumpBackground
  <2>1. Head(pendingBackground) \in Task /\ pendingBackground' \in Seq(Task)
    BY <1>3 DEF PumpBackground
  <2> QED
    BY <1>3, <2>1, BeginRunPumped DEF PumpBackground
<1>4. CASE PumpNothing
  BY <1>4 DEF PumpNothing, LeaveIdle, DisarmWatchdog, DisarmGrace, Pumped,
     queueVars, WatchdogCovers, WaitingUser, GraceTargetsActive,
     TimersTrackWait
<1> QED
  BY <1>1, <1>2, <1>3, <1>4 DEF PumpIdle

LEMMA TimerInvInit == Init => TimerInv
<1> SUFFICES ASSUME Init PROVE TimerInv
  OBVIOUS
<1> USE DEF Init, Off
<1>1. TypeOK
  <2>1. <<>> \in Seq(Task)
    OBVIOUS
  <2>2. /\ promise \in [Task -> {"none", "pending", "resolved", "rejected"}]
        /\ age \in [Task -> Int] /\ clockSteps \in 0..MaxClockSteps
    BY TimeAssumption
  <2>3. pumpDue \in BOOLEAN /\ draining \in BOOLEAN /\ disposed \in BOOLEAN
    OBVIOUS
  <2> QED
    BY <2>1, <2>2, <2>3 DEF TypeOK
<1>2. KnownTasks
  BY ToSetEmpty DEF KnownTasks
<1>3. WatchdogCovers /\ GraceTargetsActive /\ TimersTrackWait
  BY DEF WatchdogCovers, WaitingUser, GraceTargetsActive, TimersTrackWait
<1> QED
  BY <1>1, <1>2, <1>3 DEF TimerInv

(***************************************************************************)
(* enqueue arms the watchdog exactly when the task becomes the head of a   *)
(* user queue behind a run; a head that is already there keeps its timer   *)
(* and, because a task is enqueued once, its age.                          *)
(***************************************************************************)
LEMMA EnqueueTimers ==
    ASSUME TimerInv, NEW t \in Task, Enqueue(t)
    PROVE  TimerInv'
<1> USE TimeAssumption DEF TimerInv
<1>1. /\ pendingUser' \in Seq(Task) /\ pendingAgent' \in Seq(Task)
      /\ pendingBackground' \in Seq(Task)
      /\ ToSet(pendingUser') \subseteq ToSet(pendingUser) \cup {t}
      /\ pendingUser # <<>> =>
           pendingUser' # <<>> /\ Head(pendingUser') = Head(pendingUser)
      /\ pendingUser = <<>> /\ pendingUser' # <<>> => Head(pendingUser') = t
  <2> USE DEF TypeOK
  <2>0. /\ pendingUser' \in Seq(Task) /\ pendingAgent' \in Seq(Task)
        /\ pendingBackground' \in Seq(Task)
        /\ pendingUser' = pendingUser \/ pendingUser' = Append(pendingUser, t)
    <3>1. PushToLane(t)
      BY DEF Enqueue
    <3>2. /\ Append(pendingUser, t) \in Seq(Task)
          /\ Append(pendingAgent, t) \in Seq(Task)
          /\ Append(pendingBackground, t) \in Seq(Task)
      OBVIOUS
    <3> QED
      BY <3>1, <3>2, Zenon DEF PushToLane
  <2>1. CASE pendingUser' = pendingUser
    BY <2>0, <2>1, ToSet(pendingUser') = ToSet(pendingUser)
  <2>2. CASE pendingUser' = Append(pendingUser, t)
    <3>1. ToSet(pendingUser') = ToSet(pendingUser) \cup {t}
      BY <2>2, ToSetAppend DEF TypeOK
    <3>2. /\ pendingUser' # <<>>
          /\ pendingUser # <<>> => Head(pendingUser') = Head(pendingUser)
          /\ pendingUser = <<>> => Head(pendingUser') = t
      BY <2>2 DEF TypeOK
    <3> QED
      BY <2>0, <2>2, <3>1, <3>2
  <2> QED
    BY <2>0, <2>1, <2>2
<1>2. /\ age' = [age EXCEPT ![t] = 0] /\ age' \in [Task -> Int]
      /\ promise' = [promise EXCEPT ![t] = "pending"]
      /\ promise' \in [Task -> {"none", "pending", "resolved", "rejected"}]
      /\ promise[t] = "none"
  BY DEF Enqueue, TypeOK
<1>3. /\ UNCHANGED <<active, phase, zombies, graceTimer, graceRun, activeAge,
                     clockSteps, draining, drainRuns, drainItems, disposed>>
      /\ pumpDue' = TRUE
      /\ watchdogTimer' = ArmWatchdog(watchdogTimer, graceTimer, pendingUser',
                                      age', active, activeAge)
  BY DEF Enqueue, drainVars
<1>4. KnownTasks'
  <2> SUFFICES ASSUME NEW u \in ToSet(pendingUser') PROVE promise'[u] # "none"
    BY DEF KnownTasks
  <2>1. u \in Task
    BY <1>1 DEF ToSet
  <2> QED
    BY <1>1, <1>2, <2>1 DEF KnownTasks, TypeOK
<1>5. CASE pendingUser = <<>> /\ pendingUser' # <<>> /\ ~disposed /\ active # NoTask
  <2> DEFINE w == Smaller(0, activeAge)
  <2>1. watchdogTimer = Off /\ graceTimer = Off
    BY <1>5 DEF WatchdogCovers, WaitingUser
  <2>2. age'[Head(pendingUser')] = 0
    BY <1>1, <1>2, <1>5 DEF TypeOK
  <2>3. w \in Int /\ (activeAge >= 0 => w = 0)
    BY DEF Smaller, TypeOK
  <2>4. watchdogTimer' = WatchdogDelay(w)
    BY <1>3, <1>5, <2>1, <2>2 DEF ArmWatchdog, WaitedBehindActive
  <2>5. watchdogTimer' \in Nat /\ watchdogTimer' # Off
    BY <2>3, <2>4, DelayType DEF Off
  <2>6. Waited' = w
    BY <1>3, <2>2 DEF Waited
  <2>7. TimersTrackWait'
    <3> SUFFICES ASSUME clockSteps' = 0
                 PROVE  /\ activeAge' >= 0
                        /\ \A u \in Task : age'[u] >= 0
                        /\ watchdogTimer' + Waited' = WatchdogMs
      BY <1>3, <2>1 DEF TimersTrackWait
    <3>1. activeAge >= 0 /\ \A u \in Task : age'[u] >= 0
      BY <1>2, <1>3 DEF TimersTrackWait, TypeOK
    <3> QED
      BY <1>3, <2>3, <2>4, <2>6, <3>1, DelayType
  <2>8. WatchdogCovers' /\ GraceTargetsActive'
    BY <1>3, <1>5, <2>1, <2>5 DEF WatchdogCovers, WaitingUser, GraceTargetsActive
  <2>9. TypeOK'
    BY <1>1, <1>2, <1>3, <2>5 DEF TypeOK
  <2> QED
    BY <1>4, <2>7, <2>8, <2>9
<1>6. CASE ~(pendingUser = <<>> /\ pendingUser' # <<>> /\ ~disposed /\ active # NoTask)
  <2>1. watchdogTimer' = watchdogTimer
    BY <1>1, <1>3, <1>6 DEF ArmWatchdog, WatchdogCovers, WaitingUser
  <2>2. WatchdogCovers' /\ GraceTargetsActive'
    BY <1>1, <1>3, <1>6, <2>1 DEF WatchdogCovers, WaitingUser, GraceTargetsActive
  <2>3. WaitingUser => Waited' = Waited
    <3> SUFFICES ASSUME WaitingUser PROVE Waited' = Waited
      OBVIOUS
    <3>1. Head(pendingUser) \in ToSet(pendingUser) /\ Head(pendingUser) \in Task
      BY DEF WaitingUser, TypeOK, ToSet
    <3>2. Head(pendingUser) # t
      BY <1>2, <3>1 DEF KnownTasks
    <3>3. Head(pendingUser') = Head(pendingUser)
      BY <1>1 DEF WaitingUser
    <3> QED
      BY <1>2, <1>3, <3>1, <3>2, <3>3 DEF Waited, TypeOK
  <2>4. TimersTrackWait'
    <3>1. clockSteps = 0 => activeAge >= 0 /\ \A u \in Task : age'[u] >= 0
      BY <1>2 DEF TimersTrackWait, TypeOK
    <3> QED
      BY <1>3, <2>1, <2>3, <3>1 DEF TimersTrackWait, WatchdogCovers
  <2>5. TypeOK'
    BY <1>1, <1>2, <1>3, <2>1 DEF TypeOK
  <2> QED
    BY <1>4, <2>2, <2>4, <2>5
<1> QED
  BY <1>5, <1>6

(***************************************************************************)
(* The steps that pump: the microtask, the settling of the active run and  *)
(* the escape from a wedged one.                                           *)
(***************************************************************************)
PromiseType == [Task -> {"none", "pending", "resolved", "rejected"}]

LEMMA PumpedStep ==
    ASSUME TimerInv, PumpIdle, promise' \in PromiseType,
           \A t \in Task : promise[t] # "none" => promise'[t] # "none",
           zombies' \subseteq Task, pumpDue' \in BOOLEAN,
           UNCHANGED <<clockSteps, drainVars, disposed>>
    PROVE  TimerInv'
<1>1. Pumped' /\ ToSet(pendingUser') \subseteq ToSet(pendingUser)
  BY PumpIdlePumped
<1>2. ToSet(pendingUser) \subseteq Task
  BY DEF TimerInv, TypeOK, ToSet
<1>3. KnownTasks'
  BY <1>1, <1>2 DEF KnownTasks, TimerInv
<1>4. TypeOK'
  BY <1>1 DEF TypeOK, TimerInv, Pumped, drainVars, PromiseType
<1> QED
  BY <1>1, <1>3, <1>4 DEF TimerInv, Pumped

LEMMA SettledPromise ==
    ASSUME promise \in PromiseType, NEW t \in Task,
           NEW o \in {"resolved", "rejected"},
           promise' = [promise EXCEPT ![t] = o]
    PROVE  /\ promise' \in PromiseType
           /\ \A u \in Task : promise[u] # "none" => promise'[u] # "none"
BY DEF PromiseType

LEMMA SettleActiveTimers ==
    ASSUME TimerInv, NEW o \in {"resolved", "rejected"}, SettleActive(o)
    PROVE  TimerInv'
<1>1. active \in Task /\ promise \in PromiseType
  BY DEF SettleActive, TimerInv, TypeOK, PromiseType
<1>2. /\ promise' = [promise EXCEPT ![active] = o]
      /\ PumpIdle /\ zombies' \subseteq Task /\ pumpDue' \in BOOLEAN
      /\ UNCHANGED <<clockSteps, drainVars, disposed>>
  BY DEF SettleActive, TimerInv, TypeOK
<1> QED
  BY <1>1, <1>2, PumpedStep, SettledPromise

LEMMA PumpTimers ==
    ASSUME TimerInv, Pump
    PROVE  TimerInv'
<1>1. CASE PumpIdle
  <2>1. /\ promise' = promise /\ promise' \in PromiseType
        /\ zombies' \subseteq Task /\ pumpDue' \in BOOLEAN
        /\ UNCHANGED <<clockSteps, drainVars, disposed>>
    BY DEF Pump, TimerInv, TypeOK, PromiseType
  <2> QED
    BY <1>1, <2>1, PumpedStep
<1>2. CASE ~PumpIdle
  BY <1>2 DEF Pump, TimerInv, TypeOK, KnownTasks, WatchdogCovers, WaitingUser,
     GraceTargetsActive, TimersTrackWait, Waited, queueVars, timerVars, drainVars
<1> QED
  BY <1>1, <1>2

LEMMA GraceFiresTimers ==
    ASSUME TimerInv, GraceFires
    PROVE  TimerInv'
<1>1. ~disposed /\ active = graceRun /\ active \in Task
  BY DEF GraceFires, TimerInv, TypeOK, WatchdogCovers, WaitingUser,
     GraceTargetsActive, Off
<1>2. /\ promise' = [promise EXCEPT ![active] = "resolved"]
      /\ zombies' = zombies \cup {active} /\ PumpIdle
      /\ UNCHANGED <<pumpDue, clockSteps, drainVars, disposed>>
  BY <1>1 DEF GraceFires, GiveUpActive
<1>3. /\ promise \in PromiseType /\ pumpDue' \in BOOLEAN
      /\ zombies' \subseteq Task
  BY <1>1, <1>2 DEF TimerInv, TypeOK, PromiseType
<1> QED
  BY <1>1, <1>2, <1>3, PumpedStep, SettledPromise

(***************************************************************************)
(* A timer is due when the wait has reached what it was armed for: the     *)
(* watchdog hands over to the grace timer.                                 *)
(***************************************************************************)
LEMMA WatchdogFiresTimers ==
    ASSUME TimerInv, WatchdogFires
    PROVE  TimerInv'
<1> USE TimeAssumption DEF TimerInv
<1>1. WaitingUser /\ graceTimer = Off /\ watchdogTimer = 0
  BY DEF WatchdogFires, WatchdogCovers, Off
<1>2. /\ Waited \in Int
      /\ WaitedBehindActive(age[Head(pendingUser)], activeAge) = Waited
  BY <1>1 DEF WaitingUser, TypeOK, Waited, WaitedBehindActive, Smaller
<1>3. /\ UNCHANGED <<queueVars, active, zombies, promise, pumpDue, age,
                     activeAge, clockSteps, drainVars, disposed>>
      /\ Waited' = Waited
  BY DEF WatchdogFires, Waited, queueVars
<1>4. CASE Waited < WatchdogMs
  <2>1. /\ watchdogTimer' = WatchdogDelay(Waited)
        /\ phase' = phase /\ graceTimer' = graceTimer /\ graceRun' = graceRun
    BY <1>1, <1>2, <1>4 DEF WatchdogFires, WaitingUser
  <2>2. watchdogTimer' \in Nat /\ watchdogTimer' # Off
    BY <1>2, <2>1, DelayType DEF Off
  <2>3. clockSteps # 0
    BY <1>1, <1>2, <1>4 DEF TimersTrackWait, Off
  <2> QED
    BY <1>1, <1>3, <2>1, <2>2, <2>3 DEF TypeOK, KnownTasks, WatchdogCovers,
       WaitingUser, GraceTargetsActive, TimersTrackWait, queueVars, drainVars
<1>5. CASE ~(Waited < WatchdogMs)
  <2>1. /\ watchdogTimer' = Off /\ phase' = "interrupted"
        /\ graceTimer' = WatchdogGraceMs /\ graceRun' = active
    BY <1>1, <1>2, <1>5 DEF WatchdogFires, WaitingUser
  <2>2. graceTimer' \in Nat /\ graceTimer' # Off
    BY <2>1 DEF Off
  <2>3. TimersTrackWait'
    BY <1>1, <1>2, <1>3, <2>1 DEF TimersTrackWait, Off
  <2>4. WatchdogCovers' /\ GraceTargetsActive' /\ KnownTasks'
    BY <1>1, <1>3, <2>1, <2>2 DEF WatchdogCovers, WaitingUser, KnownTasks,
       GraceTargetsActive, queueVars
  <2>5. TypeOK'
    BY <1>3, <2>1, <2>2 DEF TypeOK, queueVars, drainVars
  <2> QED
    BY <2>3, <2>4, <2>5
<1> QED
  BY <1>4, <1>5

(***************************************************************************)
(* A tick moves a timer and the wait it measures by the same amount.  No   *)
(* tick happens while a timer is due, so the wait stays below AgeCap.      *)
(***************************************************************************)
LEMMA AgedType ==
    ASSUME TypeOK, NEW d \in Int, Aged(d)
    PROVE  age' \in [Task -> Int] /\ activeAge' \in Int
<1>1. \A x \in Int : Saturate(x) \in Int
  BY TimeAssumption DEF Saturate
<1>2. /\ activeAge + d \in Int
      /\ \A t \in Task : age[t] \in Int /\ age[t] + d \in Int
  BY DEF TypeOK
<1>3. age' \in [Task -> Int]
  BY <1>1, <1>2, Zenon DEF Aged
<1>4. activeAge' \in Int
  BY <1>1, <1>2 DEF Aged
<1> QED
  BY <1>3, <1>4

LEMMA TickTimers ==
    ASSUME TimerInv, Tick
    PROVE  TimerInv'
<1> USE TimeAssumption DEF TimerInv
<1>1. /\ UNCHANGED <<queueVars, active, phase, zombies, promise, pumpDue,
                     graceRun, clockSteps, drainVars, disposed>>
      /\ watchdogTimer # 0 /\ graceTimer # 0 /\ Aged(1)
      /\ watchdogTimer' = CountDown(watchdogTimer)
      /\ graceTimer' = CountDown(graceTimer)
  BY DEF Tick
<1>2. /\ watchdogTimer' \in Nat \cup {Off} /\ graceTimer' \in Nat \cup {Off}
      /\ watchdogTimer' = Off <=> watchdogTimer = Off
      /\ graceTimer' = Off <=> graceTimer = Off
      /\ watchdogTimer # Off => watchdogTimer' = watchdogTimer - 1
                                  /\ watchdogTimer > 0
      /\ graceTimer # Off => graceTimer' = graceTimer - 1 /\ graceTimer > 0
  BY <1>1 DEF TypeOK, CountDown, Off
<1>3. age' \in [Task -> Int] /\ activeAge' \in Int
  BY <1>1, AgedType
<1>4. TypeOK' /\ KnownTasks' /\ WatchdogCovers' /\ GraceTargetsActive'
  BY <1>1, <1>2, <1>3 DEF TypeOK, KnownTasks, WatchdogCovers, WaitingUser,
     GraceTargetsActive, queueVars, drainVars
<1>5. TimersTrackWait'
  <2> SUFFICES ASSUME clockSteps = 0 PROVE TimersTrackWait'
    BY <1>1 DEF TimersTrackWait
  <2>1. /\ activeAge' = IF active = NoTask THEN 0 ELSE Saturate(activeAge + 1)
        /\ \A t \in Task : age'[t] = IF t \in ToSet(pendingUser)
                                     THEN Saturate(age[t] + 1) ELSE age[t]
    BY <1>1 DEF Aged
  <2>2. activeAge \in Int /\ activeAge >= 0
    BY DEF TimersTrackWait, TypeOK
  <2>3. \A t \in Task : age[t] \in Int /\ age[t] >= 0
    BY DEF TimersTrackWait, TypeOK
  <2>4. activeAge' >= 0 /\ \A t \in Task : age'[t] >= 0
    BY <2>1, <2>2, <2>3 DEF Saturate
  <2>5. ASSUME WaitingUser, Waited < WatchdogMs + WatchdogGraceMs
        PROVE  Waited' = Waited + 1
    <3> DEFINE h == Head(pendingUser)
    <3>1. h \in Task /\ h \in ToSet(pendingUser) /\ Head(pendingUser') = h
      BY <1>1, <2>5 DEF WaitingUser, TypeOK, ToSet, queueVars
    <3>2. age'[h] = Saturate(age[h] + 1)
      BY <2>1, <3>1
    <3>3. activeAge' = Saturate(activeAge + 1)
      BY <2>1, <2>5 DEF WaitingUser
    <3>4. age[h] \in Int /\ age[h] >= 0
      BY <2>3, <3>1
    <3>5. Waited = Smaller(age[h], activeAge)
      BY DEF Waited
    <3>6. Waited' = Smaller(age'[h], activeAge')
      BY <3>1 DEF Waited
    <3> QED
      BY <2>2, <2>5, <3>2, <3>3, <3>4, <3>5, <3>6 DEF Smaller, Saturate
  <2>6. watchdogTimer \in Int /\ graceTimer \in Int /\ (WaitingUser => Waited \in Int)
    <3>1. WaitingUser => age[Head(pendingUser)] \in Int
      BY <2>3 DEF WaitingUser, TypeOK
    <3> QED
      BY <2>2, <3>1 DEF TypeOK, Waited, Smaller, Off
  <2>7. watchdogTimer # Off => watchdogTimer' + Waited' = WatchdogMs
    BY <1>2, <2>5, <2>6 DEF TimersTrackWait, WatchdogCovers
  <2>8. graceTimer # Off => graceTimer' + Waited' = WatchdogMs + WatchdogGraceMs
    BY <1>2, <2>5, <2>6 DEF TimersTrackWait, WatchdogCovers
  <2> QED
    BY <1>2, <2>4, <2>7, <2>8 DEF TimersTrackWait
<1> QED
  BY <1>4, <1>5

LEMMA ClockStepTimers ==
    ASSUME TimerInv, NEW d \in {-1, 1}, ClockStep(d)
    PROVE  TimerInv'
<1> USE TimeAssumption DEF TimerInv
<1>1. age' \in [Task -> Int] /\ activeAge' \in Int
  BY AgedType DEF ClockStep
<1>2. clockSteps' \in 0..MaxClockSteps /\ clockSteps' # 0
  BY DEF ClockStep, TypeOK
<1> QED
  BY <1>1, <1>2 DEF ClockStep, TypeOK, KnownTasks, WatchdogCovers, WaitingUser,
     GraceTargetsActive, TimersTrackWait, queueVars, timerVars, drainVars

LEMMA DisposeTimers ==
    ASSUME TimerInv, Dispose
    PROVE  TimerInv'
BY DEF TimerInv, Dispose, DisarmWatchdog, DisarmGrace, TypeOK, KnownTasks,
   WatchdogCovers, WaitingUser, GraceTargetsActive, TimersTrackWait, queueVars,
   drainVars

(***************************************************************************)
(* A late settle and drain leave the queue and its timers alone.           *)
(***************************************************************************)
LEMMA PassiveTimers ==
    ASSUME TimerInv, TypeOK',
           UNCHANGED <<queueVars, active, phase, promise, timerVars, age,
                       activeAge, clockSteps, disposed>>
    PROVE  TimerInv'
BY DEF TimerInv, KnownTasks, WatchdogCovers, WaitingUser, GraceTargetsActive,
   TimersTrackWait, Waited, queueVars, timerVars

LEMMA TimerInvNext == TimerInv /\ [Next]_vars => TimerInv'
<1> SUFFICES ASSUME TimerInv, [Next]_vars PROVE TimerInv'
  OBVIOUS
<1>1. ASSUME NEW t \in Task, Enqueue(t) PROVE TimerInv'
  BY <1>1, EnqueueTimers
<1>2. CASE Pump
  BY <1>2, PumpTimers
<1>3. ASSUME NEW o \in {"resolved", "rejected"}, SettleActive(o) PROVE TimerInv'
  BY <1>3, SettleActiveTimers
<1>4. ASSUME NEW t \in Task, SettleZombie(t) PROVE TimerInv'
  <2>1. TypeOK'
    BY <1>4 DEF SettleZombie, TimerInv, TypeOK, queueVars, timerVars, drainVars
  <2> QED
    BY <1>4, <2>1, PassiveTimers DEF SettleZombie
<1>5. CASE WatchdogFires
  BY <1>5, WatchdogFiresTimers
<1>6. CASE GraceFires
  BY <1>6, GraceFiresTimers
<1>7. CASE Drain
  <2>1. ToSet(pendingUser) \subseteq Task /\ ToSet(pendingAgent) \subseteq Task
        /\ ToSet(pendingBackground) \subseteq Task
    BY DEF TimerInv, TypeOK, ToSet
  <2>2. TypeOK'
    BY <1>7, <2>1 DEF Drain, TimerInv, TypeOK, Pending, queueVars, timerVars
  <2> QED
    BY <1>7, <2>2, PassiveTimers DEF Drain
<1>8. CASE DrainReturns
  <2>1. TypeOK'
    BY <1>8 DEF DrainReturns, TimerInv, TypeOK, queueVars, timerVars
  <2> QED
    BY <1>8, <2>1, PassiveTimers DEF DrainReturns
<1>9. CASE Dispose
  BY <1>9, DisposeTimers
<1>10. CASE Tick
  BY <1>10, TickTimers
<1>11. ASSUME NEW d \in {-1, 1}, ClockStep(d) PROVE TimerInv'
  BY <1>11, ClockStepTimers
<1>12. CASE UNCHANGED vars
  <2>1. TypeOK'
    BY <1>12 DEF vars, TimerInv, TypeOK, queueVars, timerVars, drainVars
  <2> QED
    BY <1>12, <2>1, PassiveTimers DEF vars
<1> QED
  BY <1>1, <1>2, <1>3, <1>4, <1>5, <1>6, <1>7, <1>8, <1>9, <1>10, <1>11, <1>12
     DEF Next
-----------------------------------------------------------------------------
(***************************************************************************)
(* The inductive invariant behind the theorems below.                      *)
(***************************************************************************)
THEOREM TimerInvariant == Spec => []TimerInv
<1>1. Init => TimerInv
  BY TimerInvInit
<1>2. TimerInv /\ [Next]_vars => TimerInv'
  BY TimerInvNext
<1> QED
  BY <1>1, <1>2, PTL DEF Spec

(***************************************************************************)
(* The variables of the queue stay in their ranges, for every set of tasks *)
(* and all times.                                                          *)
(***************************************************************************)
THEOREM TypeCorrect == Spec => []TypeOK
<1>1. TimerInv => TypeOK
  BY DEF TimerInv
<1> QED
  BY <1>1, TimerInvariant, PTL

(***************************************************************************)
(* armWatchdog, disarmWatchdog and onWatchdogFired keep exactly one timer  *)
(* running exactly while a user task waits behind a run, and               *)
(* escapeWedgedRun only ever gives up the interrupted run it was armed     *)
(* for.                                                                    *)
(***************************************************************************)
THEOREM TimersAlwaysCover == Spec => []TimersCover
<1>1. TimerInv => TimersCover
  BY DEF TimerInv, TimersCover
<1> QED
  BY <1>1, TimerInvariant, PTL

(***************************************************************************)
(* No user task waits behind one run for longer than the watchdog's time   *)
(* and its grace time together, for every choice of the two.               *)
(***************************************************************************)
THEOREM WaitAlwaysBounded == Spec => []WaitBounded
<1>1. TimerInv => WaitBounded
  <2> SUFFICES ASSUME TimerInv, WaitingUser, clockSteps = 0
               PROVE  Waited <= WatchdogMs + WatchdogGraceMs
    BY DEF WaitBounded, Waited
  <2>1. watchdogTimer # Off \/ graceTimer # Off
    BY DEF TimerInv, WatchdogCovers
  <2>2. Waited \in Int
    BY DEF TimerInv, TypeOK, WaitingUser, Waited, Smaller
  <2> QED
    BY <2>1, <2>2, TimeAssumption DEF TimerInv, TypeOK, TimersTrackWait
<1> QED
  BY <1>1, TimerInvariant, PTL
-----------------------------------------------------------------------------
(***************************************************************************)
(* What makes QueueIsSound inductive: a task stands in the queue of its    *)
(* lane, in one place, and the run that holds the agent has left it.       *)
(***************************************************************************)
LanesAreSorted ==
    /\ \A t \in ToSet(pendingUser) : t.lane = "user"
    /\ \A t \in ToSet(pendingAgent) : t.lane = "agent"
    /\ \A t \in ToSet(pendingBackground) : t.lane = "background"

QueuedOnce ==
    /\ IsInjective(pendingUser)
    /\ IsInjective(pendingAgent)
    /\ IsInjective(pendingBackground)

QueueInv == /\ TypeOK
            /\ LanesAreSorted
            /\ QueuedOnce
            /\ active \notin Pending
            /\ CallersMatchQueue
            /\ NoLostWakeup

(***************************************************************************)
(* The task that pump hands the agent to, and the queues it leaves.        *)
(***************************************************************************)
Foremost(t) == t \in Pending /\ \A u \in Pending : Class(t) <= Class(u)

HandsTo(t) == /\ ~disposed /\ Foremost(t)
              /\ pendingUser # <<>> => t.lane = "user"
              /\ active' = t /\ Pending' = Pending \ {t}

LeavesIdle == /\ disposed \/ Pending = {}
              /\ active' = NoTask /\ Pending' = Pending

LEMMA PendingTasks ==
    ASSUME TypeOK
    PROVE  Pending \subseteq Task /\ NoTask \notin Pending
BY TaskAssumption DEF TypeOK, Pending, ToSet

(***************************************************************************)
(* takeNextUserTask prefers a task that is not a member turn of a room.    *)
(***************************************************************************)
LEMMA TakeNextPrefers ==
    ASSUME NEW q \in Seq(Task), q # <<>>,
           q[TakeNextUserTask(q)].source = "group-member"
    PROVE  \A t \in ToSet(q) : t.source = "group-member"
<1> DEFINE P == {i \in DOMAIN q : q[i].source # "group-member"}
<1>1. CASE P = {}
  BY <1>1 DEF ToSet
<1>2. CASE P # {}
  <2>1. P \subseteq Nat
    OBVIOUS
  <2>2. \E i \in P : \A j \in P : i <= j
    <3> HIDE DEF P
    <3> QED BY <1>2, <2>1, LeastNatural
  <2>3. TakeNextUserTask(q) \in P
    BY <1>2, <2>2 DEF TakeNextUserTask
  <2> QED
    BY <2>3
<1> QED
  BY <1>1, <1>2

(***************************************************************************)
(* The lanes are served in the order of Class.                             *)
(***************************************************************************)
LEMMA ClassOfLane ==
    ASSUME NEW t \in Task
    PROVE  /\ t.lane = "user" /\ t.source # "group-member" => Class(t) = 0
           /\ t.lane = "user" /\ t.source = "group-member" => Class(t) = 1
           /\ t.lane = "agent" => Class(t) = 2
           /\ t.lane = "background" => Class(t) = 3
BY DEF Class

LEMMA PumpUserHands ==
    ASSUME QueueInv, PumpUser
    PROVE  /\ \E t \in Pending : HandsTo(t)
           /\ LanesAreSorted' /\ QueuedOnce'
<1> USE DEF QueueInv
<1> DEFINE i == TakeNextUserTask(pendingUser)
           t == pendingUser[i]
<1>1. /\ i \in DOMAIN pendingUser /\ t \in Task /\ t \in ToSet(pendingUser)
      /\ pendingUser \in Seq(Task) /\ pendingUser # <<>>
  BY TakeNextInQueue DEF PumpUser, TypeOK, ToSet
<1>2. /\ ~disposed /\ pendingUser' = RemoveAt(pendingUser, i)
      /\ active' = t /\ UNCHANGED <<pendingAgent, pendingBackground>>
  BY DEF PumpUser, BeginRun
<1>3. /\ IsInjective(pendingUser')
      /\ ToSet(pendingUser') = ToSet(pendingUser) \ {t}
  BY <1>1, <1>2, RemoveAtDistinct DEF QueuedOnce
<1>4. t.source = "group-member" =>
          \A u \in ToSet(pendingUser) : u.source = "group-member"
  BY <1>1, TakeNextPrefers
<1> HIDE DEF i, t
<1>5. t.lane = "user"
  BY <1>1 DEF LanesAreSorted
<1>6. \A u \in Pending : Class(t) <= Class(u)
  <2> SUFFICES ASSUME NEW u \in Pending PROVE Class(t) <= Class(u)
    OBVIOUS
  <2>1. u \in Task
    BY PendingTasks
  <2>2. CASE u \in ToSet(pendingUser)
    BY <1>1, <1>4, <1>5, <2>1, <2>2, ClassOfLane DEF LanesAreSorted
  <2>3. CASE u \notin ToSet(pendingUser)
    BY <1>1, <1>5, <2>1, <2>3, ClassOfLane DEF LanesAreSorted, Pending
  <2> QED
    BY <2>2, <2>3
<1>7. Pending' = Pending \ {t}
  <2>1. t \notin ToSet(pendingAgent) /\ t \notin ToSet(pendingBackground)
    BY <1>5 DEF LanesAreSorted
  <2> QED
    BY <1>2, <1>3, <2>1 DEF Pending
<1>8. HandsTo(t) /\ t \in Pending
  BY <1>1, <1>2, <1>5, <1>6, <1>7 DEF HandsTo, Foremost, Pending
<1> QED
  BY <1>2, <1>3, <1>8 DEF LanesAreSorted, QueuedOnce

LEMMA PumpAgentHands ==
    ASSUME QueueInv, PumpAgent
    PROVE  /\ \E t \in Pending : HandsTo(t)
           /\ LanesAreSorted' /\ QueuedOnce'
<1> USE DEF QueueInv
<1> DEFINE t == Head(pendingAgent)
<1>1. /\ ~disposed /\ pendingAgent' = Tail(pendingAgent)
      /\ pendingUser = <<>> /\ ToSet(pendingUser) = {}
      /\ active' = t /\ UNCHANGED <<pendingUser, pendingBackground>>
  BY ToSetEmpty DEF PumpAgent, BeginRun
<1>2. /\ t \in ToSet(pendingAgent) /\ IsInjective(pendingAgent')
      /\ ToSet(pendingAgent') = ToSet(pendingAgent) \ {t}
  BY <1>1, TailDistinct DEF PumpAgent, TypeOK, QueuedOnce
<1> HIDE DEF t
<1>3. t \in Pending /\ t \in Task /\ t.lane = "agent"
  BY <1>2, PendingTasks DEF LanesAreSorted, Pending
<1>4. \A u \in Pending : Class(t) <= Class(u)
  <2> SUFFICES ASSUME NEW u \in Pending PROVE Class(t) <= Class(u)
    OBVIOUS
  <2>1. u \in Task /\ (u.lane = "agent" \/ u.lane = "background")
    BY <1>1, PendingTasks DEF LanesAreSorted, Pending
  <2> QED
    BY <1>3, <2>1, ClassOfLane
<1>5. Pending' = Pending \ {t}
  <2>1. t \notin ToSet(pendingUser) /\ t \notin ToSet(pendingBackground)
    BY <1>3 DEF LanesAreSorted
  <2> QED
    BY <1>1, <1>2, <2>1 DEF Pending
<1>6. HandsTo(t)
  BY <1>1, <1>3, <1>4, <1>5 DEF HandsTo, Foremost
<1> QED
  BY <1>1, <1>2, <1>3, <1>6 DEF LanesAreSorted, QueuedOnce

LEMMA PumpBackgroundHands ==
    ASSUME QueueInv, PumpBackground
    PROVE  /\ \E t \in Pending : HandsTo(t)
           /\ LanesAreSorted' /\ QueuedOnce'
<1> USE DEF QueueInv
<1> DEFINE t == Head(pendingBackground)
<1>1. /\ ~disposed /\ pendingBackground' = Tail(pendingBackground)
      /\ pendingUser = <<>> /\ ToSet(pendingUser) = {}
      /\ pendingAgent = <<>> /\ ToSet(pendingAgent) = {}
      /\ active' = t /\ UNCHANGED <<pendingUser, pendingAgent>>
  BY ToSetEmpty DEF PumpBackground, BeginRun
<1>2. /\ t \in ToSet(pendingBackground) /\ IsInjective(pendingBackground')
      /\ ToSet(pendingBackground') = ToSet(pendingBackground) \ {t}
  BY <1>1, TailDistinct DEF PumpBackground, TypeOK, QueuedOnce
<1> HIDE DEF t
<1>3. t \in Pending /\ t \in Task /\ t.lane = "background"
  BY <1>2, PendingTasks DEF LanesAreSorted, Pending
<1>4. \A u \in Pending : Class(t) <= Class(u)
  <2> SUFFICES ASSUME NEW u \in Pending PROVE Class(t) <= Class(u)
    OBVIOUS
  <2>1. u \in Task /\ u.lane = "background"
    BY <1>1, PendingTasks DEF LanesAreSorted, Pending
  <2> QED
    BY <1>3, <2>1, ClassOfLane
<1>5. Pending' = Pending \ {t}
  BY <1>1, <1>2 DEF Pending
<1>6. HandsTo(t)
  BY <1>1, <1>3, <1>4, <1>5 DEF HandsTo, Foremost
<1> QED
  BY <1>1, <1>2, <1>3, <1>6 DEF LanesAreSorted, QueuedOnce

LEMMA PumpIdleHands ==
    ASSUME QueueInv, PumpIdle
    PROVE  /\ (\E t \in Pending : HandsTo(t)) \/ LeavesIdle
           /\ LanesAreSorted' /\ QueuedOnce'
<1>1. CASE PumpNothing
  BY <1>1 DEF PumpNothing, LeaveIdle, LeavesIdle, queueVars, Pending,
     LanesAreSorted, QueuedOnce, QueueInv
<1> QED
  BY <1>1, PumpUserHands, PumpAgentHands, PumpBackgroundHands DEF PumpIdle

(***************************************************************************)
(* pump takes over from a run that has just been settled or given up, or   *)
(* from no run at all: only the caller of that run is released.            *)
(***************************************************************************)
LEMMA PumpKeepsQueue ==
    ASSUME QueueInv, TypeOK', PumpIdle, UNCHANGED disposed,
           \A u \in Task : u # active => promise'[u] = promise[u],
           active \in Task => promise'[active] \in {"resolved", "rejected"},
           zombies' \subseteq zombies \cup ({active} \cap Task)
    PROVE  QueueInv'
<1>1. /\ (\E t \in Pending : HandsTo(t)) \/ LeavesIdle
      /\ LanesAreSorted' /\ QueuedOnce'
  BY PumpIdleHands
<1>2. /\ Pending \subseteq Task /\ NoTask \notin Pending /\ NoTask \notin Task
      /\ active \notin Pending /\ zombies \subseteq Task
      /\ active \in Task \cup {NoTask}
  BY PendingTasks, TaskAssumption DEF QueueInv, TypeOK
<1>3. \A u \in Task : promise[u] = "pending" <=> u \in Pending \cup {active}
  BY DEF QueueInv, CallersMatchQueue
<1>4. \A t \in zombies' : promise'[t] \in {"resolved", "rejected"}
  BY <1>2 DEF QueueInv, CallersMatchQueue
<1>5. CASE LeavesIdle
  <2>1. active' \notin Pending' /\ NoLostWakeup'
    BY <1>2, <1>5 DEF LeavesIdle, NoLostWakeup
  <2>2. CallersMatchQueue'
    BY <1>2, <1>3, <1>4, <1>5 DEF LeavesIdle, CallersMatchQueue
  <2> QED
    BY <1>1, <2>1, <2>2 DEF QueueInv
<1>6. CASE \E t \in Pending : HandsTo(t)
  <2>1. PICK t \in Pending : HandsTo(t)
    BY <1>6
  <2>2. active' = t /\ Pending' = Pending \ {t} /\ t # NoTask
    BY <1>2, <2>1 DEF HandsTo
  <2>3. active' \notin Pending' /\ NoLostWakeup'
    BY <2>2 DEF NoLostWakeup
  <2>4. CallersMatchQueue'
    BY <1>2, <1>3, <1>4, <2>2 DEF CallersMatchQueue
  <2> QED
    BY <1>1, <2>3, <2>4 DEF QueueInv
<1> QED
  BY <1>1, <1>5, <1>6

LEMMA EnqueueKeepsQueue ==
    ASSUME QueueInv, TypeOK', NEW t \in Task, Enqueue(t)
    PROVE  /\ QueueInv' /\ Pending' = Pending \cup {t} /\ t \notin Pending
           /\ t # active /\ t \notin zombies
<1> USE DEF QueueInv
<1>1. /\ PushToLane(t) /\ promise[t] = "none" /\ pumpDue' = TRUE
      /\ promise' = [promise EXCEPT ![t] = "pending"]
      /\ UNCHANGED <<active, zombies, disposed>>
  BY DEF Enqueue
<1>2. t \notin Pending /\ t # active /\ t \notin zombies
  BY <1>1 DEF CallersMatchQueue
<1>3. /\ t \notin ToSet(pendingUser) /\ t \notin ToSet(pendingAgent)
      /\ t \notin ToSet(pendingBackground)
  BY <1>2 DEF Pending
<1>4. /\ pendingUser \in Seq(Task) /\ pendingAgent \in Seq(Task)
      /\ pendingBackground \in Seq(Task)
  BY DEF TypeOK
<1>5. Pending' = Pending \cup {t} /\ LanesAreSorted' /\ QueuedOnce'
  <2>1. CASE t.lane = "user" /\ pendingUser' = Append(pendingUser, t)
               /\ UNCHANGED <<pendingAgent, pendingBackground>>
    <3>1. ToSet(pendingUser') = ToSet(pendingUser) \cup {t}
      BY <1>4, <2>1, ToSetAppend
    <3>2. IsInjective(pendingUser')
      BY <1>3, <1>4, <2>1, AppendDistinct DEF QueuedOnce
    <3> QED
      BY <2>1, <3>1, <3>2 DEF Pending, LanesAreSorted, QueuedOnce
  <2>2. CASE t.lane = "agent" /\ pendingAgent' = Append(pendingAgent, t)
               /\ UNCHANGED <<pendingUser, pendingBackground>>
    <3>1. ToSet(pendingAgent') = ToSet(pendingAgent) \cup {t}
      BY <1>4, <2>2, ToSetAppend
    <3>2. IsInjective(pendingAgent')
      BY <1>3, <1>4, <2>2, AppendDistinct DEF QueuedOnce
    <3> QED
      BY <2>2, <3>1, <3>2 DEF Pending, LanesAreSorted, QueuedOnce
  <2>3. CASE t.lane = "background"
               /\ pendingBackground' = Append(pendingBackground, t)
               /\ UNCHANGED <<pendingUser, pendingAgent>>
    <3>1. ToSet(pendingBackground') = ToSet(pendingBackground) \cup {t}
      BY <1>4, <2>3, ToSetAppend
    <3>2. IsInjective(pendingBackground')
      BY <1>3, <1>4, <2>3, AppendDistinct DEF QueuedOnce
    <3> QED
      BY <2>3, <3>1, <3>2 DEF Pending, LanesAreSorted, QueuedOnce
  <2> QED
    BY <1>1, <2>1, <2>2, <2>3 DEF PushToLane
<1>6. active' \notin Pending'
  BY <1>1, <1>2, <1>5
<1>7. CallersMatchQueue'
  <2>1. \A u \in Task : promise'[u] = IF u = t THEN "pending" ELSE promise[u]
    BY <1>1 DEF TypeOK
  <2>2. zombies \subseteq Task
    BY DEF TypeOK
  <2> QED
    BY <1>1, <1>2, <1>5, <2>1, <2>2 DEF CallersMatchQueue
<1>8. NoLostWakeup'
  BY <1>1 DEF NoLostWakeup
<1> QED
  BY <1>2, <1>5, <1>6, <1>7, <1>8

(***************************************************************************)
(* Steps that leave the queues, their run and its callers alone.           *)
(***************************************************************************)
LEMMA PassiveQueue ==
    ASSUME QueueInv, TypeOK', zombies' \subseteq zombies,
           disposed => disposed', pumpDue => pumpDue',
           UNCHANGED <<queueVars, active, promise>>
    PROVE  QueueInv' /\ Pending' = Pending
<1>1. /\ pendingUser' = pendingUser /\ pendingAgent' = pendingAgent
      /\ pendingBackground' = pendingBackground /\ Pending' = Pending
  BY DEF queueVars, Pending
<1> QED
  BY <1>1 DEF QueueInv, LanesAreSorted, QueuedOnce, CallersMatchQueue, NoLostWakeup

LEMMA QueueInvInit == Init => QueueInv
<1> SUFFICES ASSUME Init PROVE QueueInv
  OBVIOUS
<1>1. TypeOK
  BY TimerInvInit DEF TimerInv
<1>2. Pending = {} /\ LanesAreSorted /\ QueuedOnce
  BY ToSetEmpty DEF Init, Pending, LanesAreSorted, QueuedOnce, IsInjective
<1>3. CallersMatchQueue /\ NoLostWakeup
  BY <1>2, TaskAssumption DEF Init, CallersMatchQueue, NoLostWakeup
<1> QED
  BY <1>1, <1>2, <1>3 DEF QueueInv

(***************************************************************************)
(* The grace timer is due only behind a user task that waits for the run   *)
(* it was armed for, so escapeWedgedRun does give that run up.             *)
(***************************************************************************)
LEMMA GraceGivesUp ==
    ASSUME TimerInv, GraceFires
    PROVE  /\ ~disposed /\ pendingUser # <<>> /\ active \in Task /\ PumpIdle
           /\ promise' = [promise EXCEPT ![active] = "resolved"]
           /\ zombies' = zombies \cup {active}
           /\ UNCHANGED <<pumpDue, drainVars, disposed>>
<1>1. WaitingUser /\ active = graceRun
  BY DEF GraceFires, TimerInv, WatchdogCovers, GraceTargetsActive, Off
<1> QED
  BY <1>1 DEF WaitingUser, GraceFires, GiveUpActive, TimerInv, TypeOK

LEMMA QueueInvNext == TimerInv /\ TimerInv' /\ QueueInv /\ [Next]_vars => QueueInv'
<1> SUFFICES ASSUME TimerInv, TypeOK', QueueInv, [Next]_vars PROVE QueueInv'
  BY DEF TimerInv
<1>0. promise \in PromiseType
  BY DEF QueueInv, TypeOK, PromiseType
<1>1. ASSUME NEW t \in Task, Enqueue(t) PROVE QueueInv'
  BY <1>1, EnqueueKeepsQueue
<1>2. CASE Pump
  <2>1. CASE active = NoTask /\ PumpIdle
    <3>1. UNCHANGED <<zombies, promise, disposed>> /\ active \notin Task
      BY <1>2, <2>1, TaskAssumption DEF Pump
    <3> QED
      BY <2>1, <3>1, PumpKeepsQueue
  <2>2. CASE ~(active = NoTask /\ PumpIdle)
    BY <1>2, <2>2 DEF Pump, QueueInv, LanesAreSorted, QueuedOnce,
       CallersMatchQueue, NoLostWakeup, queueVars, Pending
  <2> QED
    BY <2>1, <2>2
<1>3. ASSUME NEW o \in {"resolved", "rejected"}, SettleActive(o) PROVE QueueInv'
  <2>1. /\ active \in Task /\ PumpIdle /\ UNCHANGED <<zombies, disposed>>
        /\ promise' = [promise EXCEPT ![active] = o]
    BY <1>3 DEF SettleActive, QueueInv, TypeOK
  <2> QED
    BY <1>0, <2>1, PumpKeepsQueue DEF PromiseType
<1>4. ASSUME NEW t \in Task, SettleZombie(t) PROVE QueueInv'
  BY <1>4, PassiveQueue DEF SettleZombie
<1>5. CASE WatchdogFires
  BY <1>5, PassiveQueue DEF WatchdogFires
<1>6. CASE GraceFires
  BY <1>0, <1>6, GraceGivesUp, PumpKeepsQueue DEF PromiseType
<1>7. CASE Drain
  BY <1>7, PassiveQueue DEF Drain
<1>8. CASE DrainReturns
  BY <1>8, PassiveQueue DEF DrainReturns
<1>9. CASE Dispose
  BY <1>9, PassiveQueue DEF Dispose
<1>10. CASE Tick
  BY <1>10, PassiveQueue DEF Tick
<1>11. ASSUME NEW d \in {-1, 1}, ClockStep(d) PROVE QueueInv'
  BY <1>11, PassiveQueue DEF ClockStep
<1>12. CASE UNCHANGED vars
  BY <1>12, PassiveQueue DEF vars
<1> QED
  BY <1>1, <1>2, <1>3, <1>4, <1>5, <1>6, <1>7, <1>8, <1>9, <1>10, <1>11, <1>12
     DEF Next
-----------------------------------------------------------------------------
(***************************************************************************)
(* The inductive invariant behind the theorems below.                      *)
(***************************************************************************)
THEOREM QueueInvariant == Spec => []QueueInv
<1>1. Init => QueueInv
  BY QueueInvInit
<1>2. TimerInv /\ TimerInv' /\ QueueInv /\ [Next]_vars => QueueInv'
  BY QueueInvNext
<1> QED
  BY <1>1, <1>2, TimerInvariant, PTL DEF Spec

(***************************************************************************)
(* pump, onTaskSettled and escapeWedgedRun lose no task, run none twice    *)
(* and leave no caller behind, and a queue with work has a run or a pump   *)
(* on its way, for every set of tasks.                                     *)
(***************************************************************************)
THEOREM QueueAlwaysSound == Spec => []QueueIsSound
<1>1. QueueInv => QueueIsSound
  BY DEF QueueInv, QueueIsSound
<1> QED
  BY <1>1, QueueInvariant, PTL

\* What drain owes its caller when it returns.
BarrierStep ==
    draining /\ ~draining' =>
      /\ drainRuns \cap (Pending \cup zombies \cup {active}) = {}
      /\ drainItems \cap (Pending \cup {active}) = {}

(***************************************************************************)
(* drain is a barrier for what was queued or running when it was called,   *)
(* runs that the watchdog has given up included.                           *)
(***************************************************************************)
THEOREM DrainAlwaysBarrier == Spec => DrainIsBarrier
<1>1. QueueInv /\ [Next]_vars => [BarrierStep]_vars
  <2> SUFFICES ASSUME QueueInv, [Next]_vars, draining, ~draining'
               PROVE  BarrierStep
    BY DEF BarrierStep
  <2>1. DrainReturns
    BY DEF Next, vars, drainVars, Enqueue, Pump, SettleActive, SettleZombie,
       WatchdogFires, GraceFires, Drain, Dispose, Tick, ClockStep
  <2>2. drainRuns \cap (Pending \cup zombies \cup {active}) = {}
    BY <2>1 DEF DrainReturns, RunsSettled, Settled
  <2>3. drainItems \cap (Pending \cup {active}) = {}
    BY <2>1 DEF DrainReturns, QueueInv, CallersMatchQueue, TypeOK
  <2> QED
    BY <2>2, <2>3 DEF BarrierStep
<1> QED
  BY <1>1, QueueInvariant, PTL DEF Spec, DrainIsBarrier, BarrierStep
-----------------------------------------------------------------------------
(***************************************************************************)
(* The refinement of ExclusiveRuns, one lemma per kind of step.  A task is *)
(* finished there when it has settled here.                                *)
(***************************************************************************)
Finished == {t \in Task : Settled(t)}

\* What a task's state says about it, by the invariant.
FinishedByPromise ==
    /\ Finished = {t \in Task : promise[t] \in {"resolved", "rejected"}
                                  /\ t \notin zombies}
    /\ \A t \in Task : t \in Pending \cup {active} =>
           promise[t] = "pending" /\ t \notin zombies
    /\ \A t \in zombies : promise[t] \in {"resolved", "rejected"}

LEMMA FinishedFacts == QueueInv => FinishedByPromise
<1> SUFFICES ASSUME QueueInv PROVE FinishedByPromise
  OBVIOUS
<1>1. /\ \A t \in Task : promise[t] = "pending" <=> t \in Pending \cup {active}
      /\ \A t \in zombies : promise[t] \in {"resolved", "rejected"}
      /\ zombies \subseteq Task
  BY DEF QueueInv, CallersMatchQueue, TypeOK
<1>2. \A t \in Task : promise[t] \in {"none", "pending", "resolved", "rejected"}
  BY DEF QueueInv, TypeOK
<1> QED
  BY <1>1, <1>2 DEF FinishedByPromise, Finished, Settled

LEMMA FinishedNext == QueueInv' => FinishedByPromise'
BY FinishedFacts, PTL

\* Handing the agent over here is handing it over there.
LEMMA HandsToRefines ==
    ASSUME NEW t, HandsTo(t)
    PROVE  Exclusive!HandTo(t)
<1>1. \A u : Exclusive!Class(u) = Class(u)
  BY DEF Exclusive!Class, Class
<1> QED
  BY <1>1 DEF HandsTo, Foremost, Exclusive!HandTo, Exclusive!Foremost

LEMMA RefinesInit == Init => Exclusive!AbsInit
<1> SUFFICES ASSUME Init PROVE Exclusive!AbsInit
  OBVIOUS
<1>1. Pending = {}
  BY ToSetEmpty DEF Init, Pending
<1>2. {t \in Task : Settled(t)} = {}
  BY DEF Init, Settled
<1> QED
  BY <1>1, <1>2 DEF Init, Exclusive!AbsInit

(***************************************************************************)
(* enqueue submits the task.                                               *)
(***************************************************************************)
LEMMA EnqueueRefines ==
    ASSUME QueueInv, QueueInv', NEW t \in Task, Enqueue(t)
    PROVE  Exclusive!Submit(t)
<1>1. /\ Pending' = Pending \cup {t} /\ t \notin Pending
      /\ t # active /\ t \notin zombies
  BY EnqueueKeepsQueue DEF QueueInv
<1>2. /\ promise[t] = "none" /\ promise' = [promise EXCEPT ![t] = "pending"]
      /\ promise \in PromiseType /\ UNCHANGED <<active, zombies, disposed>>
  BY DEF Enqueue, QueueInv, TypeOK, PromiseType
<1>3. t \notin Finished
  BY <1>2 DEF Finished, Settled
<1>4. Finished' = Finished
  BY <1>2, FinishedFacts, FinishedNext DEF FinishedByPromise, PromiseType
<1> QED
  BY <1>1, <1>2, <1>3, <1>4 DEF Exclusive!Submit, Finished

(***************************************************************************)
(* The microtask starts the foremost task or finds nothing to do.          *)
(***************************************************************************)
LEMMA PumpRefines ==
    ASSUME QueueInv, QueueInv', Pump
    PROVE  (\E t \in Task : Exclusive!Start(t)) \/ UNCHANGED Exclusive!absVars
<1>1. UNCHANGED <<zombies, promise, disposed>>
  BY DEF Pump
<1>2. Finished' = Finished
  BY <1>1, FinishedFacts, FinishedNext DEF FinishedByPromise
<1>3. CASE active = NoTask /\ PumpIdle
  <2>1. CASE LeavesIdle
    BY <1>1, <1>2, <1>3, <2>1 DEF LeavesIdle, Exclusive!absVars, Finished
  <2>2. CASE \E t \in Pending : HandsTo(t)
    <3>1. PICK t \in Pending : HandsTo(t)
      BY <2>2
    <3>2. Exclusive!HandTo(t) /\ t \in Task
      BY <3>1, HandsToRefines, PendingTasks DEF QueueInv
    <3>3. Exclusive!Start(t)
      BY <1>1, <1>2, <1>3, <3>2 DEF Exclusive!Start, Finished
    <3> QED
      BY <3>2, <3>3
  <2> QED
    BY <1>3, <2>1, <2>2, PumpIdleHands
<1>4. CASE ~(active = NoTask /\ PumpIdle)
  <2>1. UNCHANGED <<queueVars, active>>
    BY <1>4 DEF Pump
  <2>2. Pending' = Pending
    BY <2>1 DEF queueVars, Pending
  <2> QED
    BY <1>1, <1>2, <2>1, <2>2 DEF Exclusive!absVars, Finished
<1> QED
  BY <1>3, <1>4

(***************************************************************************)
(* A run that settles hands the agent over in the same step.               *)
(***************************************************************************)
LEMMA SettleRefines ==
    ASSUME QueueInv, QueueInv', NEW o \in {"resolved", "rejected"},
           SettleActive(o)
    PROVE  Exclusive!Finish
<1>1. /\ active # NoTask /\ active \in Task /\ PumpIdle
      /\ promise' = [promise EXCEPT ![active] = o] /\ promise \in PromiseType
      /\ UNCHANGED <<zombies, disposed>>
  BY DEF SettleActive, QueueInv, TypeOK, PromiseType
<1>2. Finished' = Finished \cup {active}
  BY <1>1, FinishedFacts, FinishedNext DEF FinishedByPromise, PromiseType
<1>3. (\E t \in Pending : HandsTo(t)) \/ LeavesIdle
  BY <1>1, PumpIdleHands
<1>4. \/ \E t \in Pending : Exclusive!HandTo(t)
      \/ (Pending = {} \/ disposed) /\ active' = NoTask /\ Pending' = Pending
  BY <1>3, HandsToRefines DEF LeavesIdle
<1> QED
  BY <1>1, <1>2, <1>4 DEF Exclusive!Finish, Finished

(***************************************************************************)
(* The watchdog gives the run up for a user task that starts at once.      *)
(***************************************************************************)
LEMMA GraceRefines ==
    ASSUME TimerInv, QueueInv, QueueInv', GraceFires
    PROVE  \E t \in Task : Exclusive!Abandon(t)
<1>0. active # NoTask /\ promise \in PromiseType
  BY GraceGivesUp, TaskAssumption DEF QueueInv, TypeOK, PromiseType
<1>1. /\ ~disposed /\ pendingUser # <<>> /\ active \in Task /\ PumpIdle
      /\ promise' = [promise EXCEPT ![active] = "resolved"]
      /\ zombies' = zombies \cup {active} /\ UNCHANGED disposed
  BY GraceGivesUp
<1>2. Finished' = Finished
  BY <1>0, <1>1, FinishedFacts, FinishedNext DEF FinishedByPromise, PromiseType
<1>3. Head(pendingUser) \in Pending
  BY <1>1 DEF QueueInv, TypeOK, Pending, ToSet
<1>4. PICK t \in Pending : HandsTo(t)
  BY <1>1, <1>3, PumpIdleHands DEF LeavesIdle
<1>5. t.lane = "user" /\ Exclusive!HandTo(t) /\ t \in Task
  BY <1>1, <1>4, HandsToRefines, PendingTasks DEF HandsTo, QueueInv
<1>6. Exclusive!Abandon(t)
  BY <1>0, <1>1, <1>2, <1>5 DEF Exclusive!Abandon, Finished
<1> QED
  BY <1>5, <1>6

LEMMA SettleZombieRefines ==
    ASSUME QueueInv, QueueInv', NEW t \in Task, SettleZombie(t)
    PROVE  Exclusive!FinishAbandoned(t)
<1>1. /\ t \in zombies /\ zombies' = zombies \ {t}
      /\ UNCHANGED <<active, promise, disposed>> /\ Pending' = Pending
  BY DEF SettleZombie, queueVars, Pending
<1>2. Finished' = Finished \cup {t}
  BY <1>1, FinishedFacts, FinishedNext DEF FinishedByPromise
<1> QED
  BY <1>1, <1>2 DEF Exclusive!FinishAbandoned, Finished

LEMMA DisposeRefines ==
    ASSUME QueueInv, QueueInv', Dispose
    PROVE  Exclusive!Close
<1>1. /\ ~disposed /\ disposed' = TRUE
      /\ UNCHANGED <<active, zombies, promise>> /\ Pending' = Pending
  BY DEF Dispose, queueVars, Pending
<1>2. Finished' = Finished
  BY <1>1, FinishedFacts, FinishedNext DEF FinishedByPromise
<1> QED
  BY <1>1, <1>2 DEF Exclusive!Close, Finished

LEMMA StutterRefines ==
    ASSUME QueueInv, QueueInv',
           UNCHANGED <<queueVars, active, zombies, promise, disposed>>
    PROVE  UNCHANGED Exclusive!absVars
<1>1. UNCHANGED <<active, zombies, promise, disposed>> /\ Pending' = Pending
  BY DEF queueVars, Pending
<1>2. Finished' = Finished
  BY <1>1, FinishedFacts, FinishedNext DEF FinishedByPromise
<1> QED
  BY <1>1, <1>2 DEF Exclusive!absVars, Finished

LEMMA RefinesNext ==
    TimerInv /\ QueueInv /\ QueueInv' /\ [Next]_vars
        => [Exclusive!AbsNext]_(Exclusive!absVars)
<1> SUFFICES ASSUME TimerInv, QueueInv, QueueInv', [Next]_vars
             PROVE  Exclusive!AbsNext \/ UNCHANGED Exclusive!absVars
  OBVIOUS
<1> USE DEF Exclusive!AbsNext
<1>1. ASSUME NEW t \in Task, Enqueue(t) PROVE Exclusive!AbsNext
  BY <1>1, EnqueueRefines
<1>2. CASE Pump
  BY <1>2, PumpRefines
<1>3. ASSUME NEW o \in {"resolved", "rejected"}, SettleActive(o)
      PROVE  Exclusive!AbsNext
  BY <1>3, SettleRefines
<1>4. ASSUME NEW t \in Task, SettleZombie(t) PROVE Exclusive!AbsNext
  BY <1>4, SettleZombieRefines
<1>5. CASE WatchdogFires
  BY <1>5, StutterRefines DEF WatchdogFires
<1>6. CASE GraceFires
  BY <1>6, GraceRefines
<1>7. CASE Drain
  BY <1>7, StutterRefines DEF Drain
<1>8. CASE DrainReturns
  BY <1>8, StutterRefines DEF DrainReturns
<1>9. CASE Dispose
  BY <1>9, DisposeRefines
<1>10. CASE Tick
  BY <1>10, StutterRefines DEF Tick
<1>11. ASSUME NEW d \in {-1, 1}, ClockStep(d)
       PROVE  UNCHANGED Exclusive!absVars
  BY <1>11, StutterRefines DEF ClockStep
<1>12. CASE UNCHANGED vars
  BY <1>12, StutterRefines DEF vars
<1> HIDE DEF Exclusive!AbsNext
<1> QED
  BY <1>1, <1>2, <1>3, <1>4, <1>5, <1>6, <1>7, <1>8, <1>9, <1>10, <1>11, <1>12
     DEF Next

(***************************************************************************)
(* The queue with its lanes, timers, microtasks and zombies implements     *)
(* ExclusiveRuns, for every set of tasks and all times: one run at a time, *)
(* in the order of the lanes, given up only for a user task that starts in *)
(* the same step.                                                          *)
(***************************************************************************)
THEOREM SchedulerImplementsExclusiveRuns == Spec => ImplementsExclusiveRuns
<1>1. Init => Exclusive!AbsInit
  BY RefinesInit
<1>2. TimerInv /\ QueueInv /\ QueueInv' /\ [Next]_vars
        => [Exclusive!AbsNext]_(Exclusive!absVars)
  BY RefinesNext
<1> QED
  BY <1>1, <1>2, TimerInvariant, QueueInvariant, PTL
     DEF Spec, ImplementsExclusiveRuns, Exclusive!AbsSpec
=============================================================================
