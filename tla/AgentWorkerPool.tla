-------------------------- MODULE AgentWorkerPool --------------------------
(***************************************************************************)
(* host/agent-isolation/agent-worker-pool.ts: one worker thread per        *)
(* conversation store, spawned on first use, shared by the calls on that   *)
(* store, and closed when it is idle, when the pool is full, or by its     *)
(* owner.  A call is one operation of the pool (setBlob, getBlob,          *)
(* collectConversationGarbage, ...): they differ in what they ask the      *)
(* worker, not in what they do to the pool.                                *)
(*                                                                         *)
(* A request posted to a worker is named by the call that waits for it     *)
(* (its init or its operation: the call's stage tells which), or Close.    *)
(* Which unretained worker is the least recently active, and which has     *)
(* been idle for long enough, is left open.                                *)
(***************************************************************************)
EXTENDS Naturals, Sequences, FiniteSets

CONSTANTS
    Store,         \* blobDbPath of each conversation store
    Call,          \* the operations asked of the pool
    StoreOf,       \* the store of each operation
    Close,         \* the request of AgentWorkerConnection.close
    None,          \* no connection
    maxWorkers,
    MaxSpawns      \* bound: workers spawned in a behaviour

ASSUME PoolAssumption ==
    /\ StoreOf \in [Call -> Store]
    /\ IsFiniteSet(Call) /\ IsFiniteSet(Store)
    /\ Close \notin Call
    /\ maxWorkers \in Nat \ {0}
    /\ MaxSpawns \in Nat
    /\ None \notin Nat

VARIABLES
    \* AgentWorkerPool
    connections,   \* the connection of each store
    activeOps,     \* operations begun and not ended, per store
    sweepTimer,    \* is the idle sweep armed
    \* AgentWorkerConnection
    spawned,       \* connections made so far; they are numbered from 1
    isDead,
    pending,       \* requests without an answer
    \* the worker thread
    worker,
    inbox,         \* requests posted to the worker
    \* the callers
    stage,
    bound,         \* the connection a call was given
    \* history
    closedBy,      \* who closed a connection
    peak           \* most stores retained at once

thread == <<worker, inbox>>
caller == <<stage, bound>>
vars == <<connections, activeOps, sweepTimer, spawned, isDead, pending,
          worker, inbox, stage, bound, closedBy, peak>>

Conn == 1..MaxSpawns
Request == Call \cup {Close}
WorkerState == {"none", "opening", "serving", "gone"}
Stage == {"idle", "init", "ready", "op", "done", "failed"}
Waiting == {"init", "ready", "op"}

TypeOK ==
    /\ connections \in [Store -> Conn \cup {None}]
    /\ activeOps \in [Store -> Nat]
    /\ sweepTimer \in BOOLEAN
    /\ spawned \in 0..MaxSpawns
    /\ isDead \in [Conn -> BOOLEAN]
    /\ pending \in [Conn -> SUBSET Request]
    /\ worker \in [Conn -> WorkerState]
    /\ inbox \in [Conn -> Seq(Request)]
    /\ stage \in [Call -> Stage]
    /\ bound \in [Call -> Conn \cup {None}]
    /\ closedBy \in [Conn -> {"nobody", "housekeeping", "owner"}]
    /\ peak \in Nat

Init ==
    /\ connections = [s \in Store |-> None]
    /\ activeOps = [s \in Store |-> 0]
    /\ sweepTimer = FALSE
    /\ spawned = 0
    /\ isDead = [c \in Conn |-> FALSE]
    /\ pending = [c \in Conn |-> {}]
    /\ worker = [c \in Conn |-> "none"]
    /\ inbox = [c \in Conn |-> <<>>]
    /\ stage = [k \in Call |-> "idle"]
    /\ bound = [k \in Call |-> None]
    /\ closedBy = [c \in Conn |-> "nobody"]
    /\ peak = 0

-----------------------------------------------------------------------------
(* The pool's own bookkeeping.                                             *)

Open == {s \in Store : connections[s] # None}
isRetained(s) == activeOps[s] > 0
Retained(ops) == {s \in Store : ops[s] > 0}
Highest(ops) == IF Cardinality(Retained(ops)) > peak THEN Cardinality(Retained(ops)) ELSE peak

\* retain, and release of every call in K.
retain(k) == [activeOps EXCEPT ![StoreOf[k]] = @ + 1]
releaseNever(K) == activeOps
release(K) ==
    [s \in Store |->
        LET ended == Cardinality({k \in K : StoreOf[k] = s})
        IN  IF ended >= activeOps[s] THEN 0 ELSE activeOps[s] - ended]

\* The connections of the stores in S leave the map; a new one enters.
Without(S) == [s \in Store |-> IF s \in S THEN None ELSE connections[s]]

Registered(S, s, c) == [Without(S) EXCEPT ![s] = c]

\* postMessage: a thread that has ended reads no more.
Reads(c) == worker[c] \in {"opening", "serving"}
PostedNever(c, r) == inbox[c]
Posted(c, r) == IF Reads(c) THEN Append(inbox[c], r) ELSE <<>>

\* close(): every connection of C that is not dead is sent Close.
Closing(C) == {c \in C : ~isDead[c]}
PostClose(C) == [c \in Conn |-> IF c \in Closing(C) THEN Posted(c, Close) ELSE inbox[c]]
AwaitClose(C) == [c \in Conn |-> IF c \in Closing(C) THEN pending[c] \cup {Close}
                                                     ELSE pending[c]]
ClosedBy(C, who) == [c \in Conn |-> IF c \in C THEN who ELSE closedBy[c]]

VictimsRetainedToo(ops) ==
    IF Cardinality(Open) < maxWorkers THEN {{}} ELSE {{s} : s \in Open}

VictimsNever(ops) == {{}}

\* evictForCapacity: when the pool is full, one store that no call retains.
Victims(ops) ==
    LET idle == {s \in Open : ops[s] = 0}
    IN  IF Cardinality(Open) < maxWorkers \/ idle = {}
        THEN {{}}
        ELSE {{s} : s \in idle}

-----------------------------------------------------------------------------
(* A call of the pool.                                                     *)

\* ensure: the store has a connection, whatever state its init is in.
Join(k) ==
    /\ stage[k] = "idle"
    /\ connections[StoreOf[k]] # None
    /\ activeOps' = retain(k)
    /\ peak' = Highest(activeOps')
    /\ bound' = [bound EXCEPT ![k] = connections[StoreOf[k]]]
    /\ stage' = [stage EXCEPT ![k] = "ready"]
    /\ UNCHANGED <<connections, sweepTimer, spawned, isDead, pending, thread, closedBy>>

\* ensure: make room, spawn a worker, register it, and await its init.
Spawn(k) ==
    LET s == StoreOf[k]
        c == spawned + 1
    IN  /\ stage[k] = "idle"
        /\ connections[s] = None
        /\ spawned < MaxSpawns
        /\ activeOps' = retain(k)
        /\ peak' = Highest(activeOps')
        /\ \E V \in Victims(activeOps') :
              LET out == {connections[v] : v \in V}
              IN  /\ connections' = Registered(V, s, c)
                  /\ inbox' = [PostClose(out) EXCEPT ![c] = <<k>>]
                  /\ pending' = [AwaitClose(out) EXCEPT ![c] = {k}]
                  /\ closedBy' = ClosedBy(out, "housekeeping")
        /\ spawned' = c
        /\ worker' = [worker EXCEPT ![c] = "opening"]
        /\ bound' = [bound EXCEPT ![k] = c]
        /\ stage' = [stage EXCEPT ![k] = "init"]
        /\ sweepTimer' = TRUE
        /\ UNCHANGED isDead

Accepts(c) == ~isDead[c]

\* The call goes on after ensure, in a later microtask: send, which refuses
\* a dead connection.
Send(k) ==
    LET c == bound[k]
    IN  /\ stage[k] = "ready"
        /\ \/ /\ Accepts(c)
              /\ pending' = [pending EXCEPT ![c] = @ \cup {k}]
              /\ inbox' = [inbox EXCEPT ![c] = Posted(c, k)]
              /\ stage' = [stage EXCEPT ![k] = "op"]
              /\ UNCHANGED activeOps
           \/ /\ ~Accepts(c)
              /\ stage' = [stage EXCEPT ![k] = "failed"]
              /\ activeOps' = release({k})
              /\ UNCHANGED <<pending, inbox>>
        /\ UNCHANGED <<connections, sweepTimer, spawned, isDead, worker,
                       bound, closedBy, peak>>

-----------------------------------------------------------------------------
(* The worker thread (agent-store-worker.ts) and the events of its         *)
(* connection.  The host sees of a worker only its answers and its end, so *)
(* the worker handles a request when its answer arrives.                   *)

\* The blob database is opened before the port is read.
OpenDb(c) ==
    /\ worker[c] = "opening"
    /\ worker' = [worker EXCEPT ![c] = "serving"]
    /\ UNCHANGED <<connections, activeOps, sweepTimer, spawned, isDead, pending,
                   inbox, caller, closedBy, peak>>

\* The thread ends: the database does not open, or an error escapes.
Crash(c) ==
    /\ Reads(c)
    /\ worker' = [worker EXCEPT ![c] = "gone"]
    /\ inbox' = [inbox EXCEPT ![c] = <<>>]
    /\ UNCHANGED <<connections, activeOps, sweepTimer, spawned, isDead, pending,
                   caller, closedBy, peak>>

\* The worker's handler of an operation posts its result or its error.
Outcome == {"done", "failed"}

\* worker.on("message") for the worker's next request.  The init of a call
\* lets it send its operation; an operation succeeds or throws, and ends its
\* call; close shuts the port, and its answer has the thread terminated.
Answer(c) ==
    /\ worker[c] = "serving"
    /\ inbox[c] # <<>>
    /\ LET r == Head(inbox[c])
           ended == {k \in Call : k = r /\ stage[k] = "op"}
       IN  /\ pending' = [pending EXCEPT ![c] = @ \ {r}]
           /\ \E result \in Outcome :
                 stage' = [k \in Call |-> IF k \in ended THEN result
                                          ELSE IF k = r THEN "ready" ELSE stage[k]]
           /\ activeOps' = release(ended)
           /\ worker' = [worker EXCEPT ![c] = IF r = Close THEN "gone" ELSE @]
           /\ inbox' = [inbox EXCEPT ![c] = IF r = Close THEN <<>> ELSE Tail(@)]
    /\ UNCHANGED <<connections, sweepTimer, spawned, isDead, bound, closedBy, peak>>

\* worker.on("exit"), after the thread's last answer: die rejects what is
\* pending, and onExit takes the connection out of the map.
Die(c) ==
    LET gone == {s \in Store : connections[s] = c}
        failed == pending[c] \cap Call
    IN  /\ worker[c] = "gone"
        /\ ~isDead[c]
        /\ isDead' = [isDead EXCEPT ![c] = TRUE]
        /\ pending' = [pending EXCEPT ![c] = {}]
        /\ stage' = [k \in Call |-> IF k \in failed THEN "failed" ELSE stage[k]]
        /\ activeOps' = release(failed)
        /\ connections' = Without(gone)
        /\ sweepTimer' = (sweepTimer /\ ~(gone # {} /\ Open \subseteq gone))
        /\ UNCHANGED <<spawned, thread, bound, closedBy, peak>>

-----------------------------------------------------------------------------
(* Closing connections.                                                    *)

\* The stores of S leave the map and their connections are closed.
CloseThem(S, who) ==
    LET out == {connections[s] : s \in S}
    IN  /\ connections' = Without(S)
        /\ inbox' = PostClose(out)
        /\ pending' = AwaitClose(out)
        /\ closedBy' = ClosedBy(out, who)
        /\ sweepTimer' = (sweepTimer /\ ~(Open \subseteq S))
        /\ UNCHANGED <<activeOps, spawned, isDead, worker, caller, peak>>

\* The owner of the pool closes one store, or all of them.
closeStore(s) == connections[s] # None /\ CloseThem({s}, "owner")
closeAll == CloseThem(Open, "owner")

\* The timer closes stores that no call retains.
Idle == {s \in Open : ~isRetained(s)}
sweepIdle ==
    /\ sweepTimer
    /\ \E S \in SUBSET Idle \ {{}} : CloseThem(S, "housekeeping")

-----------------------------------------------------------------------------
Next ==
    \/ \E k \in Call : Join(k) \/ Spawn(k) \/ Send(k)
    \/ \E c \in Conn : OpenDb(c) \/ Crash(c) \/ Answer(c) \/ Die(c)
    \/ \E s \in Store : closeStore(s)
    \/ closeAll
    \/ sweepIdle

Spec == Init /\ [][Next]_vars

\* Microtasks run, worker threads make progress, and the events they cause
\* are delivered.
FairSpec ==
    /\ Spec
    /\ \A k \in Call : WF_vars(Send(k))
    /\ \A c \in Conn : WF_vars(OpenDb(c)) /\ WF_vars(Answer(c)) /\ WF_vars(Die(c))

-----------------------------------------------------------------------------
(***************************************************************************)
(* The retain count of a store is the number of its calls under way,       *)
(* whether they wait for an init, run their next microtask or wait for an  *)
(* answer, and however they end: no path through ensure, send or die       *)
(* leaves a count behind or takes one twice.                               *)
(***************************************************************************)
RetainsAreExact ==
    \A s \in Store :
        activeOps[s] = Cardinality({k \in Call : StoreOf[k] = s /\ stage[k] \in Waiting})

(***************************************************************************)
(* Making room and sweeping never take the worker of a call under way:     *)
(* only its owner closes a connection that a call was given and still      *)
(* needs.  ensure suspends between choosing a connection and using it.     *)
(***************************************************************************)
BusyIsSpared ==
    \A k \in Call : stage[k] \in Waiting => closedBy[bound[k]] # "housekeeping"

(***************************************************************************)
(* No call waits for ever: a call that waits for an answer is one its      *)
(* connection will settle, because the connection lives and knows of it.   *)
(***************************************************************************)
WaitersAreKnown ==
    \A k \in Call : stage[k] \in {"init", "op"} =>
        ~isDead[bound[k]] /\ k \in pending[bound[k]]

(***************************************************************************)
(* Two workers hold the same store open for calls at once only if the      *)
(* owner closed one of them or its thread has ended: eviction and sweep    *)
(* never leave two of them writing to one database.                        *)
(***************************************************************************)
OneWorkerServes ==
    \A j, k \in Call :
        /\ stage[j] \in Waiting /\ stage[k] \in Waiting
        /\ StoreOf[j] = StoreOf[k] /\ bound[j] < bound[k]
        => closedBy[bound[j]] = "owner" \/ isDead[bound[j]]

(***************************************************************************)
(* A connection in the map is alive and nobody has closed it, so a worker  *)
(* that could not open its database fails its callers and not the next     *)
(* ones; and while there is a connection, the sweep that would close it is *)
(* armed.                                                                  *)
(***************************************************************************)
MapIsLive ==
    \A s \in Open : /\ ~isDead[connections[s]]
                    /\ closedBy[connections[s]] = "nobody"
                    /\ sweepTimer

(***************************************************************************)
(* The pool exceeds maxWorkers only as far as calls once needed more       *)
(* stores at the same time (evictForCapacity closes one worker for each it *)
(* lets in, and none that is retained).                                    *)
(***************************************************************************)
PoolBounded == Cardinality(Open) <= maxWorkers \/ Cardinality(Open) <= peak

(***************************************************************************)
(* The books of the pool agree with its callers and workers: retain counts *)
(* are exact, whoever waits is known to a live connection, and the map     *)
(* holds only connections that nobody has closed.                          *)
(***************************************************************************)
PoolIsSound == TypeOK /\ RetainsAreExact /\ WaitersAreKnown /\ MapIsLive

(***************************************************************************)
(* Housekeeping disturbs no call: the worker of a call under way is        *)
(* neither evicted nor swept, and so no second worker serves its store.    *)
(***************************************************************************)
HousekeepingSpares == BusyIsSpared /\ OneWorkerServes

(***************************************************************************)
(* Every call ends, however workers fail, are closed or are evicted.       *)
(***************************************************************************)
CallsEnd == \A k \in Call : stage[k] \in Waiting ~> stage[k] \in {"done", "failed"}
=============================================================================
