------------------------- MODULE LocalCronScheduler -------------------------
(***************************************************************************)
(* host/extensions/automations/local-cron-scheduler.ts: the timer that     *)
(* fires the cron automations of a host without cloud credentials.  A map  *)
(* from automations to the time each is due next (nextByAutomationId) is   *)
(* kept in memory and written to a file; a tick lists the automations,     *)
(* fires those that are due one after the other, and awaits each run.      *)
(*                                                                         *)
(* An automation stands for its key `${agentId}:${id}`.  One that is       *)
(* disabled, removed or without a cron trigger has no schedules.  Time is  *)
(* a counter: a unit is a step of the clock that some schedule tells apart *)
(* from the next.                                                          *)
(***************************************************************************)
EXTENDS Naturals, Sequences, FiniteSets

CONSTANTS
    Automation,
    Agent,
    AgentOf,       \* the agent of each automation
    Rank,          \* the order in which listAutomations gives them
    Definition,    \* the sequences of schedules an automation may be given
    None,
    MaxTime,       \* bound: the clock
    MaxEdits,      \* bound: changes of definitions by the user
    MaxFaults      \* bound: crashes, stops, and lists and writes that fail

\* "every 5m" is due that long after it was last looked at; a cron
\* expression is due at certain times.
Schedule == [every : Nat \ {0}] \cup [cron : SUBSET Nat]

ASSUME CronAssumption ==
    /\ AgentOf \in [Automation -> Agent]
    /\ Rank \in [Automation -> Nat]
    /\ \A a, b \in Automation : Rank[a] = Rank[b] => a = b
    /\ Definition \subseteq Seq(Schedule)
    /\ <<>> \in Definition
    /\ None \notin Nat
    /\ MaxTime \in Nat /\ MaxEdits \in Nat /\ MaxFaults \in Nat

VARIABLES
    now,           \* clock.now()
    ready,         \* isReady()
    timer,         \* is the interval timer armed (start .. stop)
    tickPhase,     \* where the tick under way is; "idle" is ~busy
    at,            \* the tick's now
    listed,        \* the schedules it has not looked at, of each automation
    seen,          \* the automations it has seen
    next,          \* nextByAutomationId
    file,          \* the map in the state file
    up,            \* is the process running
    schedules,     \* the cron schedules of each enabled automation
    deleted,       \* agents deleted
    edits, faults, \* how often the bounded actions were taken
    \* history
    forgotten,     \* agents whose firing state was dropped
    lastTick,      \* the now of the tick that fired each automation last
    unsaved,       \* did the last write of the state file fail
    reverted       \* was a file loaded that a failed write had left behind

tickVars == <<tickPhase, at, listed, seen>>
cursors == <<next, file, unsaved>>
environment == <<now, ready, schedules, deleted, edits>>
cronHistory == <<forgotten, lastTick, reverted>>
cronVars == <<tickVars, cursors, environment, cronHistory, timer, up, faults>>

Cursor == Nat \cup {None}
TickPhase == {"idle", "listing", "walking", "firing"}
NoCursors == [a \in Automation |-> None]
NoSchedules == [a \in Automation |-> <<>>]

\* Number.MAX_SAFE_INTEGER: no clock gets there.
Never == MaxTime + 1

CronTypeOK ==
    /\ now \in 0..MaxTime
    /\ ready \in BOOLEAN /\ timer \in BOOLEAN /\ up \in BOOLEAN
    /\ tickPhase \in TickPhase
    /\ at \in 0..now
    /\ listed \in [Automation -> Seq(Schedule)]
    /\ seen \subseteq Automation
    /\ next \in [Automation -> Cursor]
    /\ file \in [Automation -> Cursor]
    /\ schedules \in [Automation -> Definition]
    /\ deleted \subseteq Agent
    /\ forgotten \subseteq deleted
    /\ edits \in 0..MaxEdits /\ faults \in 0..MaxFaults
    /\ lastTick \in [Automation -> Cursor]
    /\ unsaved \in BOOLEAN /\ reverted \in BOOLEAN

CronInit ==
    /\ now = 0 /\ at = 0
    /\ ready = FALSE /\ timer = FALSE /\ up = FALSE
    /\ tickPhase = "idle" /\ listed = NoSchedules /\ seen = {}
    /\ next = NoCursors /\ file = NoCursors
    /\ schedules \in [Automation -> Definition]
    /\ deleted = {} /\ forgotten = {}
    /\ edits = 0 /\ faults = 0
    /\ lastTick = NoCursors
    /\ unsaved = FALSE /\ reverted = FALSE

-----------------------------------------------------------------------------
(* Schedules.                                                              *)

\* computeNextRunAt: strictly after t, or None if there is no such time.
NextRun(s, t) ==
    LET later == {x \in s.cron : x > t}
    IN  IF "every" \in DOMAIN s THEN t + s.every
        ELSE IF later = {} THEN None
        ELSE CHOOSE x \in later : \A y \in later : x <= y

\* A cursor that has come due, however long ago.
DueExactly(cursor, t) == cursor # None /\ cursor = t
Due(cursor, t) == cursor # None /\ cursor <= t

-----------------------------------------------------------------------------
(* The state file.                                                         *)

\* saveState, which only logs when the write fails.
saveState(m) ==
    \/ file' = m /\ unsaved' = FALSE /\ UNCHANGED faults
    \/ /\ faults < MaxFaults /\ faults' = faults + 1
       /\ unsaved' = TRUE
       /\ UNCHANGED file

\* forgetAgent and the end of a tick write only if they removed something.
saveNever(before, m) == UNCHANGED <<file, unsaved, faults>>
saveIfMutated(before, m) ==
    \/ m # before /\ saveState(m)
    \/ m = before /\ UNCHANGED <<file, unsaved, faults>>

\* loadState: what the file holds is put over what is in memory.
Loaded == [a \in Automation |-> IF file[a] # None THEN file[a] ELSE next[a]]

-----------------------------------------------------------------------------
(* A tick.                                                                 *)

MayTick == up /\ timer /\ ready /\ tickPhase = "idle"

\* The tick reads the clock, then awaits the list.
BeginTick == tickPhase' = "listing" /\ at' = now /\ UNCHANGED <<listed, seen>>

\* The timer, requestReconcile.
Tick ==
    /\ MayTick
    /\ BeginTick
    /\ UNCHANGED <<cursors, environment, cronHistory, timer, up, faults>>

Enabled(a) == schedules[a] # <<>>

\* The list arrives: the tick works from this snapshot, at the time it took
\* before it asked for it.  (A list that fails ends the tick.)
List ==
    /\ tickPhase = "listing"
    /\ tickPhase' = "walking"
    /\ listed' = schedules
    /\ seen' = {a \in Automation : Enabled(a)}
    /\ UNCHANGED <<at, cursors, environment, cronHistory, timer, up, faults>>

EndTick == tickPhase' = "idle" /\ listed' = NoSchedules /\ seen' = {} /\ UNCHANGED at

ListFails ==
    /\ tickPhase = "listing"
    /\ faults < MaxFaults /\ faults' = faults + 1
    /\ EndTick
    /\ UNCHANGED <<cursors, environment, cronHistory, timer, up>>

\* The automations of the list that are due.
Fireable == {a \in Automation : listed[a] # <<>> /\ Due(next[a], at)}

\* On first sight an automation gets a cursor and is not fired: the first of
\* its schedules that has a next run decides.
FirstSight(a) ==
    LET runs == {i \in DOMAIN listed[a] : NextRun(listed[a][i], at) # None}
    IN  IF runs = {} THEN None
        ELSE NextRun(listed[a][CHOOSE i \in runs : \A j \in runs : i <= j], at)

\* The map after the tick has looked at the automations in A.
Sighted(A) ==
    [a \in Automation |->
        IF a \in A /\ listed[a] # <<>> /\ next[a] = None THEN FirstSight(a) ELSE next[a]]

\* The cursor of a fired automation moves past the tick's now.
AdvancedFromDue(a, s) == [Sighted({b \in Automation : Rank[b] < Rank[a]})
                             EXCEPT ![a] = IF NextRun(s, next[a]) = None THEN Never
                                                                        ELSE NextRun(s, next[a])]
Advanced(a, s) == [Sighted({b \in Automation : Rank[b] < Rank[a]})
                      EXCEPT ![a] = IF NextRun(s, at) = None THEN Never ELSE NextRun(s, at)]

\* The tick goes through the list up to the first automation that is due:
\* its cursor is advanced and saved, then its run is started and awaited.
Fire(a) ==
    /\ tickPhase = "walking"
    /\ a \in Fireable
    /\ \A b \in Fireable : Rank[a] <= Rank[b]
    /\ next' = Advanced(a, Head(listed[a]))
    /\ saveState(next')
    /\ lastTick' = [lastTick EXCEPT ![a] = at]
    /\ listed' = [b \in Automation |-> IF Rank[b] < Rank[a] THEN <<>>
                                       ELSE IF b = a THEN Tail(listed[a]) ELSE listed[b]]
    /\ tickPhase' = "firing"
    /\ UNCHANGED <<at, seen, environment, forgotten, reverted, timer, up>>

\* The run has ended, or was refused, or failed.
RunEnds ==
    /\ tickPhase = "firing"
    /\ tickPhase' = "walking"
    /\ UNCHANGED <<at, listed, seen, cursors, environment, cronHistory, timer,
                   up, faults>>

\* Nothing more is due: the tick looks at the rest and drops the cursors of
\* the automations that were not listed.
FinishTick ==
    LET walked == Sighted(Automation)
        kept == [a \in Automation |-> IF a \in seen THEN walked[a] ELSE None]
    IN  /\ tickPhase = "walking"
        /\ Fireable = {}
        /\ next' = kept
        /\ saveIfMutated(walked, kept)
        /\ EndTick
        /\ UNCHANGED <<environment, cronHistory, timer, up>>

-----------------------------------------------------------------------------
(* The host.                                                               *)

\* start(): at boot, and by resumeWakes after a stop, when a tick from before
\* the stop may still be under way.
Start ==
    /\ up /\ ~timer
    /\ next' = Loaded
    /\ timer' = TRUE
    /\ reverted' = (reverted \/ unsaved)
    /\ IF ready /\ tickPhase = "idle" THEN BeginTick ELSE UNCHANGED tickVars
    /\ UNCHANGED <<file, unsaved, environment, forgotten, lastTick, up, faults>>

\* stop(): suspendWakes.  It does not interrupt a tick.
Stop ==
    /\ up /\ timer
    /\ faults < MaxFaults /\ faults' = faults + 1
    /\ timer' = FALSE
    /\ UNCHANGED <<tickVars, cursors, environment, cronHistory, up>>

Boot ==
    /\ ~up
    /\ up' = TRUE
    /\ UNCHANGED <<tickVars, cursors, environment, cronHistory, timer, faults>>

Crash ==
    /\ up
    /\ faults < MaxFaults /\ faults' = faults + 1
    /\ up' = FALSE /\ timer' = FALSE /\ ready' = FALSE
    /\ next' = NoCursors
    /\ EndTick
    /\ UNCHANGED <<file, unsaved, now, schedules, deleted, edits, cronHistory>>

\* isRunReady becomes true once the host has booted.
BecomeReady ==
    /\ up /\ ~ready
    /\ ready' = TRUE
    /\ UNCHANGED <<tickVars, cursors, now, schedules, deleted, edits,
                   cronHistory, timer, up, faults>>

\* The user edits, disables or enables an automation.
Edit(a, d) ==
    /\ up /\ edits < MaxEdits /\ edits' = edits + 1
    /\ AgentOf[a] \notin deleted
    /\ d # schedules[a]
    /\ schedules' = [schedules EXCEPT ![a] = d]
    /\ UNCHANGED <<tickVars, cursors, now, ready, deleted, cronHistory, timer,
                   up, faults>>

\* deleteAgent removes the agent and its automations ...
CronDeleteAgent(g) ==
    /\ up /\ edits < MaxEdits /\ edits' = edits + 1
    /\ g \notin deleted
    /\ deleted' = deleted \cup {g}
    /\ schedules' = [a \in Automation |-> IF AgentOf[a] = g THEN <<>> ELSE schedules[a]]
    /\ UNCHANGED <<tickVars, cursors, now, ready, cronHistory, timer, up, faults>>

\* ... and then has the scheduler drop their cursors.
KeptAll(g) == next
Kept(g) == [a \in Automation |-> IF AgentOf[a] = g THEN None ELSE next[a]]
ForgetAgent(g) ==
    /\ up
    /\ g \in deleted \ forgotten
    /\ forgotten' = forgotten \cup {g}
    /\ next' = Kept(g)
    /\ saveIfMutated(next, next')
    /\ UNCHANGED <<tickVars, environment, lastTick, reverted, timer, up>>

Advance ==
    /\ now < MaxTime
    /\ now' = now + 1
    /\ UNCHANGED <<tickVars, cursors, ready, schedules, deleted, edits,
                   cronHistory, timer, up, faults>>

-----------------------------------------------------------------------------
CronNext ==
    \/ Tick \/ List \/ ListFails \/ RunEnds \/ FinishTick
    \/ \E a \in Automation : Fire(a)
    \/ Start \/ Stop \/ Boot \/ Crash \/ BecomeReady \/ Advance
    \/ \E a \in Automation, d \in Definition : Edit(a, d)
    \/ \E g \in Agent : CronDeleteAgent(g) \/ ForgetAgent(g)

CronSpec == CronInit /\ [][CronNext]_cronVars

\* Time passes, the timer fires, lists are answered, runs end, and a host
\* that is down or suspended comes back.
CronFairSpec ==
    /\ CronSpec
    /\ WF_cronVars(Advance) /\ WF_cronVars(Boot)
    /\ WF_cronVars(BecomeReady) /\ WF_cronVars(Start)
    /\ WF_cronVars(Tick) /\ WF_cronVars(List)
    /\ WF_cronVars(RunEnds) /\ WF_cronVars(FinishTick)
    /\ WF_cronVars(\E a \in Automation : Fire(a))

-----------------------------------------------------------------------------
Fires(a) ==
    /\ tickPhase = "walking" /\ tickPhase' = "firing"
    /\ next'[a] # next[a] /\ Due(next[a], at)

(***************************************************************************)
(* An occurrence is fired at most once and missed ones are not replayed in *)
(* a burst: what is fired was due after the tick that fired the automation *)
(* last, whatever happens between the two (crash and restart, stop and     *)
(* start under a running tick, edits of the schedule).  The exception is a *)
(* state file that could not be written and was read back.                 *)
(***************************************************************************)
NoReplay ==
    [][\A a \in Automation :
          Fires(a) => reverted \/ lastTick[a] = None \/ next[a] > lastTick[a]]_cronVars

(***************************************************************************)
(* Once forgetAgent has returned, nothing of a deleted agent is fired, not *)
(* even by a tick that listed its automations before.                      *)
(***************************************************************************)
ForgottenStays ==
    [][\A a \in Automation :
          Fires(a) => reverted \/ AgentOf[a] \notin forgotten]_cronVars

(***************************************************************************)
(* Memory and file agree on every cursor that was ever saved: a restart,   *)
(* or a start that loads the file over the memory of a tick under way,     *)
(* brings back nothing that was fired, forgotten or dropped since.         *)
(***************************************************************************)
FileAgrees ==
    up /\ ~unsaved /\ ~reverted =>
        \A a \in Automation : file[a] # None /\ timer => next[a] = file[a]

(***************************************************************************)
(* The cursors in memory and in the file are well formed and agree.        *)
(***************************************************************************)
CursorsAgree == CronTypeOK /\ FileAgrees

(***************************************************************************)
(* A cursor that has come due is served, or its automation is disabled or  *)
(* removed, across crashes as far as the cursor was saved: a tick that     *)
(* fails or is refused never leaves the scheduler busy.                    *)
(***************************************************************************)
Owed(a) ==
    LET cursor == IF up THEN next[a] ELSE file[a]
    IN  Enabled(a) /\ cursor # None /\ cursor <= now
DueIsServed == \A a \in Automation : Owed(a) ~> ~Owed(a)
=============================================================================
