--------------------------- MODULE ExclusiveRuns ---------------------------
(***************************************************************************)
(* What the scheduler promises the rest of the host about one agent: at    *)
(* most one task holds the agent; a task that is started is one that no    *)
(* waiting task outranks; a run is given up only for a user task, which    *)
(* takes the agent in the same step; and the agent is left idle with work  *)
(* waiting only before the first start or after the host has closed it.    *)
(***************************************************************************)
EXTENDS RunTasks

VARIABLES waiting,   \* submitted, not started
          running,   \* the task that holds the agent
          abandoned, \* given up, still executing
          finished,  \* settled
          closed     \* the host is shutting down

absVars == <<waiting, running, abandoned, finished, closed>>

AbsInit ==
    /\ waiting = {} /\ running = NoTask /\ abandoned = {} /\ finished = {}
    /\ closed = FALSE

Foremost(t) == t \in waiting /\ \A u \in waiting : Class(t) <= Class(u)

Submit(t) ==
    /\ t \notin waiting \cup abandoned \cup finished \cup {running}
    /\ waiting' = waiting \cup {t}
    /\ UNCHANGED <<running, abandoned, finished, closed>>

HandTo(t) ==
    /\ ~closed /\ Foremost(t)
    /\ running' = t /\ waiting' = waiting \ {t}

Start(t) ==
    /\ running = NoTask /\ HandTo(t)
    /\ UNCHANGED <<abandoned, finished, closed>>

Finish ==
    /\ running # NoTask
    /\ finished' = finished \cup {running}
    /\ \/ \E t \in waiting : HandTo(t)
       \/ (waiting = {} \/ closed) /\ running' = NoTask /\ UNCHANGED waiting
    /\ UNCHANGED <<abandoned, closed>>

Abandon(t) ==
    /\ running # NoTask /\ t.lane = "user" /\ HandTo(t)
    /\ abandoned' = abandoned \cup {running}
    /\ UNCHANGED <<finished, closed>>

FinishAbandoned(t) ==
    /\ t \in abandoned
    /\ abandoned' = abandoned \ {t}
    /\ finished' = finished \cup {t}
    /\ UNCHANGED <<waiting, running, closed>>

Close ==
    /\ ~closed /\ closed' = TRUE
    /\ UNCHANGED <<waiting, running, abandoned, finished>>

AbsNext ==
    \/ \E t \in Task : Submit(t) \/ Start(t) \/ Abandon(t) \/ FinishAbandoned(t)
    \/ Finish
    \/ Close

AbsSpec == AbsInit /\ [][AbsNext]_absVars
=============================================================================
