------------------------------ MODULE RunTasks ------------------------------
(***************************************************************************)
(* The tasks that the host queues for one agent: a turn started by a user  *)
(* message, a member turn of a group room, a message from another agent,   *)
(* background work.  A task carries the lane it is queued on and the name  *)
(* of its source; the closure it runs is abstracted to its identity.       *)
(***************************************************************************)
EXTENDS Integers

CONSTANTS Task,    \* the tasks a model may enqueue
          NoTask   \* no task, the null of queue.active

Lane == {"user", "agent", "background"}
Source == {"turn", "group-member", "other"}

ASSUME TaskAssumption ==
    /\ Task \subseteq [lane : Lane, source : Source, id : Nat]
    /\ NoTask \notin Task

(***************************************************************************)
(* The order in which lanes are served: user turns, then group-member      *)
(* turns of the user lane, then the agent lane, then the background lane.  *)
(***************************************************************************)
Class(t) ==
    CASE t.lane = "user" /\ t.source # "group-member" -> 0
      [] t.lane = "user" /\ t.source = "group-member" -> 1
      [] t.lane = "agent"                             -> 2
      [] OTHER                                        -> 3
=============================================================================
