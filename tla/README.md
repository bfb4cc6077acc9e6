# A formal model of the sdk-bots host

sdk-bots is a headless host for chat agents: clients (an SDK, a gateway over HTTP) send
user messages to agents, the host runs the agents' turns on a model provider, and replies
appear in a transcript. Agents also message each other, sit together in group rooms, and
are woken by background work, timers and restarts. This directory models the part of the
host that must get concurrency, failure and ordering right: the extension
`src/src/host/extensions/transcript` with the pieces of the runner it depends on, the pool of
store workers below it and the cron scheduler beside it.

Paths below are relative to `src/src/host/extensions/transcript/` unless they start with `src/`.

## 1. Inventory

### 1.1 Components, their state and their operations

| Component | State | Operations | What makes it correct |
|---|---|---|---|
| Exclusive run scheduler (`run-scheduler.ts`) | per agent: three pending queues, the active run, runs given up (zombies), a watchdog timer, a grace timer | `enqueue`, `pump`, settling of a run, `onWatchdogFired`, `escapeWedgedRun`, `drain`, `dispose` | one run at a time, by priority; no task lost or run twice; a hung run delays a user message by a bounded time; `drain` is a barrier |
| Prompt acceptance ledger (`prompt-acceptance-ledger.ts`) | records by nonce and gaps, in memory and in a file; a marker file | `lookup`, `admitSend`, `recordPending`, `markAccepted`, `markRejected`, `clearUnlessAccepted`, `load`, `persist` | a retried send is not run twice; what the ledger forgot, it knows to have forgotten, and when |
| Send pipeline (`send-pipeline.ts`, `send-turn-dispatch.ts`) | attempts in flight by nonce, turn epochs, the newest message that carries recovery | `sendPrompt`, `sendPromptOnce`, `dispatchUserTurn` | a message that was accepted gets its turn, or the client is told |
| Acknowledgement obligations (`ack-obligations.ts`, `sand-ack-obligation-store.ts`) | one obligation per agent on disk, run tokens, redrive timers | record, confirm, fulfil, redrive, give up, redrive at start-up | the user gets a visible reply or the loss is reported |
| Turn execution (`turn-runtime.ts`, `run-lifecycle.ts`) | run counts per session, tokens, the run's phase | `runTurn`, `beginSessionRun`, `endSessionRun`, `onWatchdog` | counts neither leak nor go below the live runs |
| Recovery of overtaken messages (`src/src/host/runner/conversation-state.ts`, `shell-terminal-watch.ts`, `turn-run-shell.ts`) | the last confirmed user message, the transcript | `interrupt`, the skip in `runTurn`, `selectUnconfirmedUserMessages` | an overtaken message's text still reaches the agent |
| Group chat (`group-chat-orchestrator.ts`, `group-chat-glue.ts`, `send-group-fanout.ts`, `src/src/host/groups/group-chat.ts`) | the room's history, its turn epoch, the rounds and sweeps of a room turn, attempts of a member turn | `run`, `resolveResponders`, relay and closing sweeps, `runGroupMemberTurn` | the right members are woken and shown what they were called with; a room falls silent |
| Durable pending wakes (`pending-wake-rearm.ts`, `sand-pending-wake-store.ts`, `async-task-union.ts`) | markers on disk, watchers in memory | arm, disarm, complete, re-arm at start-up, prune | what an agent started is reported to it, across restarts, and not twice |
| Completion revivals (`completion-revivals.ts`) | two queues of completions, one reviver each | enqueue, drain, revive | no completion is dropped between two revivals |
| Agent-to-agent messaging and connector wakes (`agent-to-agent-messaging.ts`, `background-wakes.ts`) | a queue and a reviver for each, the preemption flag, flags of messages | send, take a batch, preempt, defer, redeliver once | order is kept; an interrupted message is run again, once; nothing is shown twice |
| Agent store workers (`src/src/host/agent-isolation/agent-worker-pool.ts`, `agent-store-worker.ts`) | connections and retain counts by store, requests pending with a worker | ensure, send, answer, die, evict, sweep, close | no worker is closed under a call; no call waits for ever; the pool stays small |
| Local cron scheduler (`src/src/host/extensions/automations/local-cron-scheduler.ts`) | the time each automation is due next, in memory and in a file; the tick under way | start, stop, tick, fire, forget | nothing is fired twice or replayed; what is due is served |
| Upgrade and handoff resume (`upgrade-recreate-resume.ts`, `box-handoff-resume.ts`) | resume markers on disk, a quiescing flag | quiesce, abort, resume | interrupted work continues after the restart |
| Session runtime (`session-runtime.ts`, `agent-lifecycle.ts`) | open sessions, pins, deletions under way | open, pin, retire, delete | no session is retired under a run |
| Conversation blobs (`src/src/host/agent-isolation/`) | blobs and roots | mark and sweep | no live blob is collected |
| Host lock (`src/src/host/host-lock.ts`) | one lock file | acquire, take over, release | one host at a time |
| Box store synchronisation, tool stream execution | packs and manifests, tool calls of one run | see `PROJECT.json` | see section 7 |

The remaining parts (gateway, SDK client, providers, settings, secrets, media, telemetry,
generated code ...) are listed in `PROJECT.json` with the reason why they are not modelled.

### 1.2 How the components interact

`sendPrompt` asks the ledger whether a nonce is known; `sendPromptOnce` appends the echo to
the transcript, calls `recordPending` and `recordAckObligationSend`, awaits, and dispatches:
it takes a turn epoch, interrupts the running turn through the runner, counts a session run,
mints a token and enqueues `runTurn` with the scheduler. `runTurn` may skip an overtaken
turn; otherwise it runs the agent, whose `SendMessage` tool fulfils the obligation. When the
last run of a session ends with an obligation open, a timer leads to a redrive on the
background lane. The scheduler's watchdog interrupts and then gives up a hung run if a user
turn waits behind it; the hook `onWatchdog` retires the run's token. A group message
instead enqueues a room turn, which runs member turns on the members' own queues
(source `group-member`, user lane). A subagent, shell or cloud agent that an agent started leaves
a marker on disk; its end queues a completion, whose revival is a run on the background lane.
Messages of other agents and of connectors queue likewise, and yield to a user's message, which
interrupts them through the same runner. A due automation is a run too. All of this is one Node.js process: code between two
awaits is atomic, and everything that shares state does so across awaits, timers and files.

### 1.3 What is hard

Runs that never settle, or settle after they were given up; timers armed for a run that is
gone; sends that overtake each other between echo and dispatch; an obligation cleared by a
late reply of an older run; writes that fail one by one; a process that ends between two
writes; three nested limits on a room that could otherwise feed itself; one flag per agent that says
why a run was interrupted, shared by every kind of run; a marker cleared in one task and written again
in another; a worker chosen before an await and used after it; a tick that outlives the timer that
started it. `PROJECT.json`
lists each hazard with its line and the properties that cover it.

## 2. Modules

| Module | Models | Role |
|---|---|---|
| `RunTasks` | `RunTask`, lanes | shared vocabulary of the next two |
| `ExclusiveRuns` | - | abstract specification: what the scheduler promises |
| `RunScheduler` | `run-scheduler.ts` | one agent's queue |
| `PromptAcceptanceLedger` | `prompt-acceptance-ledger.ts` | memory, file, marker |
| `SendDelivery` | send pipeline, obligations, run counts | one agent, from send to reply |
| `TurnRecovery` | interruption, skipping, prepending | which texts reach the agent |
| `GroupChat` | orchestrator, member turns | one room |
| `PendingWakes` | markers, re-arming, completion revivals | one agent's background work |
| `AgentInbox` | messages of agents and connectors, preemption | one recipient |
| `AgentWorkerPool` | pool, connections, worker threads | a host's stores |
| `LocalCronScheduler` | tick, cursors, state file | a host's automations |
| `Subsequences` | filters, removal of duplicates | parts of a sequence, by the positions they keep |
| `SequenceLemmas` | - | lemmas about sequences that the proofs share |
| `RunSchedulerProofs`, `PromptAcceptanceLedgerProofs`, `SendDeliveryProofs`, `TurnRecoveryProofs`, `GroupChatProofs`, `AgentWorkerPoolProofs` | - | theorems about the module of that name |
| `WakeProofs` | - | theorems about `AgentInbox`, `LocalCronScheduler` and `PendingWakes` |
| `MC*` | - | instances for TLC |

`SendDelivery`, `TurnRecovery`, `GroupChat`, `PendingWakes` and `AgentInbox` each use an interface of the
components below: a queue that behaves as `ExclusiveRuns` says (one run at a time, user turns first, a
run given up only for a waiting user turn) and, in `SendDelivery`, a ledger reduced to a
status per nonce. `SendDelivery`, `GroupChat` and `AgentInbox` have the run that is given up and ends late as
steps of its own; `TurnRecovery` leaves it out; in `PendingWakes`, a revival that is given up is one of those that are lost.

### RunScheduler

`pendingUser`, `pendingAgent`, `pendingBackground`, `active`, `zombies`, `watchdogTimer` and
`graceTimer` are the fields of `RunQueue`; `phase` is `interrupted` once `onWatchdogFired` has
called the interrupt hook; `pumpDue` is the microtask that `enqueue` queues; `promise` is the
state of the promise that `enqueue` returned. Times count from the present: a timer holds
what is left, `age` how long ago a task was enqueued or started, up to `AgeCap`, so that the
state space is finite without a bound on time. `Tick` lets a unit of time pass and does so only
when no timer is overdue. `ClockStep` is a jump of `Date.now()`, which `waitedBehindActiveMs`
reads and `setTimeout` does not. A run may settle at any time or never; one that was given
up may settle later (`SettleZombie`). `Drain` takes the snapshot that `drain` awaits and
`DrainReturns` is its return. `Exclusive` is the refinement mapping to `ExclusiveRuns`.

### PromptAcceptanceLedger

One action per method; each ends in `Persist`, in which the write of the file, of the marker
and the removal of the marker fail independently. `Load` is the first use after a start, with a
torn, missing or unreadable file; `Restart` ends the process, also with a torn file. Callers
follow `send-pipeline.ts`: one attempt in flight per nonce, completed by `markAccepted`,
`markRejected` or `clearUnlessAccepted`. The history variable `owed` is the set of accepted
sends with their times. It is excused from what the code knowingly forgets: a file that exists
and cannot be read counts as absent (`load`, line 342), and acceptances that a process kept only
in memory because neither file could be written die with it.

### SendDelivery

On disk: the echo, the nonce's status, the obligation (its count of redrives). In the process:
attempts by stage, the run count, the queue, the active run, zombies, tokens, the redrive timer
and redrives that await their session. Stages end where the code awaits. `AttemptThrows` is the
guard of `armSendGuard` and the `finally`; `CrashInAcceptance` ends the process between the echo,
`recordPending` and `recordAckObligationSend`. Whether an overtaken turn may be skipped is a
choice here. `answered`, `lost`, `dispatched` and `torn` (messages of a process that ended within their
acceptance) are history; `AnswersDuplicate` is the answer `sendPrompt` gives to a nonce it knows.

### TurnRecovery

Messages have a shape, because the code decides by it: `plain` (text), `rich` (attachments,
reply context: cannot be prepended), `fork`, `bare` (no user message in the transcript).
Sends may overtake each other between `Echo` and `Dispatch`, so turn epochs and places in the
transcript differ. `watermark` is the user message of the last confirmed turn as
`findConfirmedUserTurnWatermark` reports it; `known` is what the confirmed conversation holds.

### GroupChat

The orchestrator's loops are a program counter (`phase`, `round`, `sweep`, `speakers`): one step
goes from the end of a member's run to the start of the next, through `NextSpeaker` and `NextPhase`,
which contain the loops' tests in the code's order. A message is its author, the members it names
and whether it says everyone. A direct message may interrupt the running member, which is tried
up to three times; the watchdog may give a room turn up, whose member still posts when it ends. `shown` and `during` are
history: what each member has been shown, and what was posted while it ran.

### PendingWakes

`markers` is the file, `watched` the work whose end this process will hear of, `completions` and `reviving` the two
lanes of `completion-revivals.ts` (subagents and cloud agents share one). `Settle` is the end of the work:
it queues a completion or, if no revival is under way, clears the marker and starts one. `RevivalEnds` is
the loop of the reviver, which takes the whole queue, clears the markers of what it takes and runs it. `BootAndRearm`
lists the file, and `RearmWatch`, `RearmLost` and `RearmFails` are the later task in which each marker is
armed again, reported lost (a subagent died with its process), or put back because the session did not open. None of them
looks at the agent again: the code asks `isAgentGone` before it awaits the session, so a re-arming may end after the deletion.
`deletion` follows `deleteAgents`: `WakesDeleteAgent` drops the queues and the watches of re-armed shells, then
`EraseAgent` and `clearAgent`, or `WakesDeletionFails`, which takes the agent back without what was dropped; a restart forgets a
deletion that had not erased the directory. A revival ends with the agent told or with the report lost, because the session did not
open or the run failed, was interrupted, given up or quiesced; the code tries none of these again, and the model counts each
as a fault. Each step that writes the file may fail to. `excused` and `leftover` name the work whose report or whose marker a fault
has cost, so that the properties can say that nothing else does, and `ExcusesCost` that nobody gets in there without a
fault, a follow-up or a deletion. `unresolved` is the work whose marker waits for the next restart.

### AgentInbox

Two lanes, `agent` and `channel`, differ as the code does: agent messages run one at a time, priority first, and
what is left of a batch goes back to the queue when a priority message arrives; envelopes run as one batch.
A reviver goes through `resolving` (the session), `waiting` (for the slot), `loading` (the slot is
held, no run started, so that nothing can interrupt it) and `running`. `Preempt` is `interrupt` with the flag
`dmPreemptedWakeAgentIds`; `StopRun` interrupts without it. `RunAborted` consumes the flag and puts back what
has not been redriven before. `why` records why the run was interrupted: `cancelRun` keeps the first cause, so a run that was
stopped and then preempted is `overtaken`, not `preempted`.

`Trip` and `GiveUp` are the watchdog: the reviver goes on as if the task had ended, and the task joins `late` with its batch and
goes on too (`LateRunStarts`, `LateRunOk`, `LateRunAborted`, `LateRunFails`), with the same flag and the same queue, but
without a reviver that waits for it. `active` is the runner's `activeRun`, which a late run may be, so that it is the one a
message interrupts. User turns and other wakes that are given up are `lateTurns`. What a late run puts back is `returned`. `unchecked` are
sends that passed their look at a deletion before it came and queue a message after it.

### AgentWorkerPool

`connections` and `activeOps` are the pool's maps, `isDead` and `pending` the fields of a connection, `inbox` and
`worker` the thread's port and state. A call goes from `ensure` (`Join` an open connection or `Spawn` one) over
`Send`, in a later microtask, to the answer; `Crash` ends a thread at any point, and `Die` is the `exit` event, which
rejects what is pending. Which idle store is evicted or swept is left open, which covers every clock and
every order of use. `peak` records how many stores were needed at once.

### LocalCronScheduler

`next` is `nextByAutomationId`, `file` its saved form. A tick is `Tick`, `List` (the await of the list), `Fire` for each
automation that is due, in the order of the list, `RunEnds` (the await of the run) and `FinishTick`, which drops what is
no longer listed and saves. A schedule is its next-run function: an interval, or a set of times. `Stop` does not end a tick
under way, as in the code; `Start` while it runs finds `busy` set.

## 3. Runs

| Run | Question | Result |
|---|---|---|
| `scheduler_safety` | Is a task ever lost, run twice, left uncovered by a timer, or held up beyond the watchdog; is `drain` a barrier; is the queue an `ExclusiveRuns`? | holds |
| `scheduler_liveness` | Does a user task start although runs hang? Are all callers released if runs settle? | holds |
| `ledger` | Does the ledger know what it lost, in memory and as seen from disk? Is a nonce accepted once? Does eviction spare running attempts? | holds |
| `delivery` | Is a dispatched message answered, owed or reported lost; is a message that is answered as a duplicate owed a reply, unless its process ended while it was being accepted; are runs counted and tokens retired exactly; does every obligation settle? | holds |
| `recovery_texts` | Does every text reach the agent, by its own turn or a prepend? | holds |
| `recovery_bare` | Is a skipped turn's text recovered when a turn without a message id was confirmed last? | violated, finding 1 |
| `group` | Are only called members woken, and shown what they were called with; is every handoff heard; do posts stay bounded and does every member's run bring the turn closer to its end, with overlapping, interrupted and given-up turns? | holds |
| `group_missed` | Is a running member shown every user message? | violated, finding 2 |
| `wakes` | Is every result on disk until it is on its way to the agent; does the agent hear of everything it started unless a fault, a lost revival or its deletion has cost it; is nothing told again by a restart; does a re-arming that outlives a deletion start nothing? | holds |
| `inbox` | Are messages kept in order, shown once, run at most twice and never lost to an interruption, a run given up or its late end; does a reviver that stops leave none behind; does the shared flag tell a run the truth while no given-up run is alive? | holds |
| `worker_pool` | Does housekeeping ever take a worker in use; does every call end; is the pool bounded? | holds |
| `cron` | Is an occurrence fired twice or replayed; does a forgotten agent stay silent; do file and memory agree; is what is due served? | holds |

Several invariants are conjunctions of named parts, each with a comment of its own in its module: `QueueIsSound`
(`CallersMatchQueue`, `NoLostWakeup`), `TimersCover` (`WatchdogCovers`, `GraceTargetsActive`), `RunsAreAccounted`
(`RunsAreCounted`, `TokensAreLive`), `AgentKnows` (`NothingPassedOver`, `AllKnownAtRest`), `HeardByThoseCalled`
(`NothingMissed`, `CalledAreShown`, `HandoffHeard`), `PoolIsSound` (`RetainsAreExact`, `WaitersAreKnown`,
`MapIsLive`), `HousekeepingSpares` (`BusyIsSpared`, `OneWorkerServes`), `MarkersAreRight` (`NeverForgotten`,
`ReportedIsCleared`, `ExcusesCost`), `QueuesAreSound` (`OnePlace`, `KeepsOrder`, `NoneLeft`); the type invariant of a module is one of the parts where
it has no entry of its own.

### Findings

1. A confirmed turn without a user-message id makes `selectUnconfirmedUserMessages` return nothing
   (`src/src/host/runner/conversation-state.ts:12`), so the text of a turn skipped as "recoverable" is not prepended.
2. A user message that arrives while a member runs stands before the message that the member then
   posts, and `messagesSinceMemberLastSpoke` (`src/src/host/groups/group-chat.ts:124`) never shows it to that member.

### Observations

Consequences of the code that the models contain, and that the properties are stated around:

* `sendPrompt` answers a nonce left `pending` by a process that ended before it recorded the obligation as "already
  accepted" (`send-pipeline.ts:325-338`). `DuplicateIsKept` says that this is the only way to lose a duplicate.
* The relay sweep wakes whomever any member names, a second hop of delegation, while the test of `resolveResponders`
  (`src/test/unit/group-addressing.test.ts:75`) describes one hop within the rounds.
* The prepend keeps five messages while any number of turns may be skipped (`user-message-action-handler.ts:147`); ten posts
  per room turn and two per member let five talkative members exhaust a turn that called everyone.
* Cron: a host that restarts after a saved due time fires once, late; of two cron schedules of one automation the second
  never fires on its own, as both share one cursor; an edited schedule keeps the old cursor; a cursor set at first sight is
  not saved until something fires, so a host that restarts often never gets there; a run that hangs blocks every other
  automation; `stop()` does not stop a tick under way. `DueIsServed` speaks of saved or remembered cursors for that reason.
* Wakes: between the clearing of a marker and the end of the run that reports it, and between clearing and re-arming at
  start-up, only memory holds the report (`excused`); the completion of a cloud agent also clears the marker that a
  follow-up armed under the same name, and the follow-up's completion is dropped if the first still waits in the queue; re-arming
  that fails for a deleted agent writes its marker again until it is pruned. A revival that fails, is interrupted or quiesced,
  or whose session does not open, is not tried again, though its markers are gone. A deletion that fails leaves
  the queues dropped and the re-armed shells unwatched until the next restart, and what was dispatched meanwhile without a marker.
  `MarkersAreRight` names these losses, it does not catch them: a marker cleared only after the agent had heard would need no excuse.
* Group chat: a prompt holds the last 24 messages of the room (`GROUP_PROMPT_HISTORY_LIMIT`). A room turn posts ten at most,
  but a turn that was given up posts as well and messages of the user come in between, so that a member can be woken for
  a message that its prompt no longer holds. `NothingMissed`, `CalledAreShown` and `HandoffHeard` except what is
  `BeyondPrompts`; without the exception they are false when the limit is small, which the attempt to prove them showed.
* Inbox: priority messages that arrive one by one run in reverse order of arrival; a run stopped for any reason other than a
  direct or priority message drops its message, but one that was stopped and then overtaken by such a message is put back.
  A run that was given up and ends aborted puts its batch back behind or before newer messages as the queue stands then,
  and if the reviver has stopped meanwhile, the messages wait for the next one to arrive; it also reads, and clears, the flag of
  the run that has the slot by then, whose own interruption is then taken for a stop. The properties except
  exactly these (`returned`, `exact`, `GivenUp`).
* Scheduler: a task whose run is given up while `drain` waits is released although it is still running. `DrainIsBarrier`
  excepts the tasks that were queued when `drain` began.

### Bounds, and why they are enough

* Scheduler: one task of each of the four priority classes, `watchdogMs` 2 and `watchdogGraceMs` 1
  (values that differ, so that swapping them shows), `AgeCap` 4, one more than their sum. Each
  ordering of two classes, a run given up while all others wait, and two zombies occur. One clock
  step in the safety run; the liveness run has none, as a clock that keeps being set back would
  postpone the watchdog for ever.
* Ledger: room for two records and one window, three nonces, two digests, three recorded attempts, two
  restarts and two time stamps: eviction, the merge of windows, a marker that outlives its failure
  and a failure that spans a restart all occur. Nonces and digests are symmetric.
  Three time stamps give the same results on a state space six times as large.
* Delivery: two messages and two redrive runs, the code's limit of three redrives, two crashes, one throw. Two
  messages are what coalescing, interrupting and skipping need; the second crash may hit the
  recovery from the first.
* Recovery: four messages: an overtaken one, a break, a carrier, and one that overtakes the carrier;
  one failing turn. Four stays below the prepend's limit of five; `AgentKnowsFewTexts` covers six, and
  `AgentKnowsWithinReach` any number of messages.
* Group chat: the limits are constants. `group` has three members (the one called, the one handed to, a bystander),
  two user messages, two rounds, four turns of members, two messages of a member and a prompt of six, so that every limit is met; the
  constraint `ShortOverlap` stops rooms in which the second user message has come from growing past four messages.
  `group_missed` uses two members and the code's own 3, 10, 2, 24.
* Wakes: one piece of work of each kind (two of them share a lane), two faults (a crash and a failed write, or a crash in the
  recovery from another; a deletion that fails and a lost revival are faults too) and one follow-up: 405,182 states.
* Inbox: three messages (one running, one deferred, one that arrives in between), one user turn or other wake, one stop, deletion or
  failure: 375,339 states. One turn is enough for a run given up, and its run ends late beside that of the next message.
* Worker pool: a pool of one worker, two calls that share a store and one on another store, three spawns: joining an init that
  fails, eviction, exceeding the limit and returning below it, and a store opened again while its old worker closes.
* Cron: two automations of two agents, an interval and a pair of cron schedules, four units of time, one edit, two faults.

`CHECK_DEADLOCK FALSE` is set where a model comes to rest once its bounded inputs have been handled: `SendDelivery`,
`TurnRecovery`, `GroupChat`, `PendingWakes`, `AgentInbox`, `AgentWorkerPool`, `LocalCronScheduler`. The scheduler and the ledger
never stop.

### Fairness

* `RunScheduler!FairSpec`: microtasks run, timers fire, time passes. Nothing is assumed of runs, which may
  hang; `CallersReleased` has the settling of active runs as its premise (`RunsSettle`).
* `SendDelivery!FairSpec`: also, attempts and runs settle and a supervisor restarts the host. Provider calls
  have deadlines, and an attempt awaits only local work. Clients are not assumed to send. Without settling,
  `ObligationSettles` would fail by design: a run that was given up and never ends keeps its session's count
  above zero, and the redrive timer waits for zero.
* `GroupChat` needs none: that a room turn ends is stated as an action property, a measure of what the turn may still do
  that every end of a member's run lowers.
* `PendingWakes!WakesFairSpec`: the host is started again, background work and revivals end (told or lost), re-arming tasks
  run. Nothing is assumed of deletions, which may stay half done.
* `AgentInbox!FairSpec`: sessions settle, a run that has the slot ends or is given up, and the slot is strongly fair to the lanes: the
  scheduler starts waiting tasks in turn (`CallersReleased`), though user turns may take the slot in between. Nothing is
  assumed of runs that were given up, which may hang for ever.
* `AgentWorkerPool!FairSpec`: microtasks run, a worker opens its database, answers and its exit is delivered. Nothing is
  assumed of housekeeping, crashes and owners.
* `LocalCronScheduler!CronFairSpec`: time passes, the host is started and becomes ready, timers tick, and runs end.

## 4. Proofs

TLAPS checks the following for every value of the constants, under the named assumptions
(`TaskAssumption`, `TimeAssumption`, `LedgerAssumption`, `DeliveryAssumption`, `PoolAssumption`, `CronAssumption`,
`WakesAssumption`, `RecoveryAssumption`, `GroupAssumption`, `InboxAssumption`), which TLC evaluates in the runs of the same module. They fix the types of constants, that marks such as
`None` are no members of the sets they stand beside, that the limits of lists and pools are not zero, that the work of a store or an
agent is finite, and that `AgeCap` exceeds the times it must tell apart. Every part of an inductive invariant was checked by TLC on
the run's instance before it was proved. Every invariant and every action property that a run checks, and the refinement of
`ExclusiveRuns`, is stated by a theorem (`AgentKnows` under a hypothesis, see `TurnRecoveryProofs`); liveness is what remains to TLC.

**`RunSchedulerProofs`**: `TypeCorrect`, `TimersAlwaysCover`, `WaitAlwaysBounded`.
The inductive invariant `TimerInv` is `TypeOK`, `KnownTasks` (a waiting user task was enqueued), `WatchdogCovers`,
`GraceTargetsActive` and `TimersTrackWait`. The last is the point: the bound on the wait is no invariant of
its own, as it needs to know how the remaining time of whichever timer runs relates to the wait so far. While
the clock is steady, the time left on the watchdog and the wait add up to `watchdogMs`, those of the grace timer to
`watchdogMs + watchdogGraceMs`. `WatchdogCovers` says that one of them runs, and the time left is never negative.

For the queue, `QueueAlwaysSound`, `DrainAlwaysBarrier` and `SchedulerImplementsExclusiveRuns`. `QueueIsSound` relates promises to
the tasks that wait or run; it is not inductive, as a task that stood in two places would still wait after its start, and one in
another lane's queue would be overtaken. `QueueInv` adds `LanesAreSorted` (a task stands in the queue of its
lane) and `QueuedOnce` (in one place, and the active run has left the queues). The refinement takes one lemma per action:
`enqueue` is an arrival, a `pump` that starts a run is an abstract start of the task that `takeNextUserTask` chose, a settle
hands the agent on in the same step in both, `escapeWedgedRun` is giving up for a waiting user task, and timers, ticks and `drain` are stutters.

**`PromptAcceptanceLedgerProofs`**: `LossesAlwaysDated`, `DiskAlwaysAccounts`, `LedgerTypeCorrect`, `NeverNotFound`
(`lookup` never says `not-found` of an accepted send). `LedgerInv` adds to the two properties: `Unloaded` (nothing in
flight or in memory before the load), `StampsPast` (no stamp lies in the future), `MarkerTracked` (`markerMayExist` is
right, and a marker is no younger than the failure it reports), `NoneLost` (the memory's half, attempts in flight
included) and `NoncePassed` (an attempt is alone with its nonce, and what the nonce was accepted for before is lost and dated). The lemmas follow the code: gaps only grow
(`HorizonCovers`, `ResetCovers`, `WindowCovers`), `persist` preserves what memory and disk account for together
(`PersistAccounts`, `PersistStep`), and `load` turns what the disk says into gaps (`LoadKeeps`).

A second invariant, `RecordsInv`, gives `NonceAlwaysAcceptedOnce` and `EvictionAlwaysSparesPending`: a nonce has one record, in
memory and in the file (`OneRecordEach`), and the record of an attempt in flight is pending (`FlightIsPending`). `recordPending` is reached only
for a nonce without a record, and eviction passes over those that are pending; what was accepted twice would be two records, or one
and a gap.

**`SendDeliveryProofs`**: `NeverLostInSilence`, `DeliveryTypeCorrect`. `DeliveryInv` is `TypeOK`, `EchoedFirst` (whatever
was dispatched, or is about to be, is in the transcript) and `NoSilentLoss`. `EchoedFirst` is needed because giving an
obligation up reports the echoed messages without an answer, and a visible message answers the echoed ones.

`RunsAlwaysAccounted`, `RedriveAlwaysCovered` and `DuplicateAlwaysKept` come from `AccountInv`. The count of a session equals a sum over
five places only if a run is in one of them at a time (`RunsInOnePlace`), and a message's turn is queued once only because the ledger
knows the stages of its attempt (`StagesAgree`); `CountInv` is the sum, as cardinalities that a step changes by one.
`RedriveCovered` follows from the count: a step that disarms the timer leaves a run counted, a redrive being resolved or no
obligation, and `endSessionRun`, a failed redrive and the start-up redrive arm it. `KnownIsKept` is `DuplicateIsKept` for every nonce that the ledger knows.

**`AgentWorkerPoolProofs`**: `PoolAlwaysSound`, `HousekeepingAlwaysSpares`, `PoolAlwaysBounded`, for any number of stores, calls
and workers. `PoolInv` adds to the properties what links the four views of a connection, those of the map, the callers, the
connection and the thread: connections are handed out once made and new ones are clean (`Numbered`, `Fresh`); one is in the map for
one store and its callers are on that store (`OneStoreEach`, `Home`), so that an unretained store has no caller to disturb; requests are
those of the calls that wait, each posted once, and an ended thread holds none (`PendingIsOwn`, `InboxIsOwn`,
`EndedReadsNothing`), so that an answer or an exit settles a call once and releases it once. `Anchored` (the connection of a call is still the one in the map,
or its owner closed it, or it is dead) and `Newest` (the map never goes back) give `OneWorkerServes`. The size of the pool
needs only that a full pool without an idle store is a pool of retained ones.

**`WakeProofs`, local cron scheduler**: `CursorsAlwaysAgree`, `NeverReplays`, `ForgottenAlwaysStays`, for any automations, schedules and times.
That an occurrence is not fired again depends on what a restart goes back to: `CronInv` says that firing moves
a cursor past its tick in memory and, unless a write was lost, in the file (`FiredIsPast`). A tick outlives `stop()`, so memory and file must
agree under such a tick although no timer runs (`AgreesUnderTick`), or the `start()` after it would load an old cursor under it. A
forgotten agent may still be on the list of that tick; its cursors, if any, are not due (`ForgottenIsQuiet`), and a deleted agent is on no
later list (`DeletedHasNone`). `NextRunIsLater` is the fact about `computeNextRunAt` all of this rests on.

**`WakeProofs`, pending wakes**: `MarkersAlwaysRight`, `GoneAlwaysQuiet`, for any amount of work and any number of faults and
follow-ups. `WakesInv` adds to the property what each holder of a completion knows: a process that is down holds nothing
(`DownForgets`) and what is new is unknown (`NewIsUnknown`); a lane holds the work of its kinds, queued only behind a revival (`LanesSeparate`), and a
queued completion is not one that waits for a restart (`HeldOnce`); a revival has cleared the markers of what
it reports (`ReportingIsCleared`), except of a follow-up (`FollowedIsMarked`); what waits for re-arming is known in no other way
(`RearmingIsAlone`), so that a failed re-arming does not put back the marker of work the agent is being told of; and a
deleted agent's queues are empty (`GoneIsEmpty`). `NotForgotten` and `ToldIsCleared` are the two parts of the property for one piece
of work. All of this is asked until the directory is erased, not only until the deletion begins, as the deletion may be taken back. `GoneAlwaysQuiet` then rests on the one look at the agent that
every completion passes (`Accepts`), also that of a re-arming which began before the deletion. `Spotless` is what makes `ExcusesCost` inductive.

**`TurnRecoveryProofs`**: `SkipsAlwaysCarried`, from `RecoveryInv`: entries and dispatches are unique, what waits was
dispatched, and the turn that a check relies on is the last in the queue and still there (`CheckedIsCarried`). `AgentKnows` does
not follow from the code alone. A confirmed turn without a user message hides the messages before it (finding 1), and the
prepend carries `MaxPrependedUserMessages`, five, while any number of turns may be skipped. `AgentKnowsWithinReach` therefore states it under
`PrependSuffices`: whenever a turn is confirmed, the last confirmed turn had a user message and at most five entries stand between the two.
Under this hypothesis the two gaps named are the only ones, for every order of dispatch, interruption, skip and failure.
`AgentKnowsFewTexts` discharges the hypothesis for conversations of at most six messages that all have an id, among them the instance of
`recovery_texts`. `KnowledgeInv` adds: every confirmed turn, not only the last, leaves nothing unknown before it, as the
watermark may go back (`HandledKnowsAll`), and an overtaken message is known, exempt, or stands before one whose turn is still to
come (`OvertakenIsCovered`).

**`GroupChatProofs`**, for any roster, any limits and whatever members write:

* `TurnAlwaysBounded` and `NoBystanderEverWoken`, from `RoomInv`. The bound on posts is on the messages of one epoch in the
  history, while the code counts in a variable of the turn: `PostsCounted` says that a running turn and a turn given up have
  posted no more than they have counted, `EpochsAdvance` that no two turns share an epoch, so
  that the member of a turn given up, which posts without another look at the epoch, is still within the limit of its own turn.
  `NoBystanderWoken` is about the history that the phase was planned from, a prefix of the room's (`PlannedBefore`); that
  `ResolveResponders`, `PendingMentionTargets` and `ClosingAuthors` elect only members that were
  called is a lemma about each. They need a message of the user to start from (`UserHasWritten`).
* `RoomTurnAlwaysEnds`: every end of a member's run lowers `Remaining` in the lexicographic order, through every branch of
  `NextPhase`. It is an action property and needs `RoomInv` for the ranges of the counters.
* `AlwaysHeardByThoseCalled`, from `HearInv`. What a member was told is a matter of the prompts of the past, so the
  invariant follows the turn: a member that runs, one that has spoken later and one that was shown something later have been
  told what the user wrote (`RunnersTold`, `SpeakersTold`, `ShownTold`). Whom the last message of the user calls is told or still among
  the speakers of its turn (`CalledAreTold`), which is the last one queued or running (`LastIsQueued`). Whom a message of the turn
  names has heard it or is still to run in the relay, from the relay on (`HandoffsHeard`); a phase that ends without posts has added
  nothing to be heard (`SilentSoFar`, `UserIsNoTurn`), which is why the relay may be left then.

**`WakeProofs`, inbox**, for any number of messages, turns and stops:

* `QueuesAlwaysSound`, from `LineInv`. `OnePlace` and `KeepsOrder` speak of queues and batches that are partitioned, merged,
  cut and put back, by the lane's own task or by one that was given up. `SoundIn` says of a line that no message is in it twice and that
  those outside a set are in the order they were sent; the lemmas say when a concatenation, a part, a batch taken and a
  batch put back are sound. `LaneSound` has this for batch and queue of a lane together, with the idle reviver's empty batch;
  `LateSound` for the batches of given-up tasks; `LanesApart` says that none of these share a message, `HeldIsPending` and
  `FateOpen` that what waits is what has no fate.
  The order excepts priority messages and `returned`; `NoneLeft` excepts `returned`.
* `FlagAlwaysExact`, from `FlagInv`. One flag serves every run of the agent, so its truth needs that a run holds the
  slot while it is under way (`SlotHeld`), that no given-up run is alive beside an exact one (`ExactAlone`), that the run of an exact task
  is the one an interruption hits (`ActiveKnown`), and that the flag is down before a run can be interrupted (`FlagUnset`).
* `AlwaysShownOnceRunTwice`, from `ShowInv`. The counts are bounded because the marks on a message say what happened to it:
  what was put back as displayed was shown once (`DisplayedShown`), what waits without that mark was not shown before its session
  was resolved, and what a lane holds was run as often as it was put back, not counting the run under way (`LaneShown`, and `TaskShown` for a given-up task); a message
  not sent yet has neither been shown nor run (`NewUnshown`).

The three components of `WakeProofs` share a module because they are what wakes an agent; no step of one mentions
a variable of another. Names that `LocalCronScheduler` and `PendingWakes` would share with `AgentInbox` carry a prefix for that reason (`CronSpec`, `WakesSpec`).

`SequenceLemmas` has the facts that these proofs share: least and greatest elements of sets of naturals, what
`Append`, `Tail`, `RemoveAt` and concatenation do to the type, length and elements of a sequence, that they
keep a sequence free of duplicates, the elements of a flattened sequence, and what a subsequence is: its elements are those at the positions
chosen, in their order (`SubsequenceKeeps`, `SubsequenceElements`, `DistinctElements`). The provers cannot instantiate the
library's induction theorems; where a fact needs induction over data, the lemma takes the least counterexample
instead (`LeastNatural`), which is first-order. `Subsequences` defines filters by the positions they keep rather than by
recursion, as `SelectSeq` does, so that such arguments are possible; it computes the same sequence.

**Only model-checked**: all liveness (`UserTaskStarts`, `CallersReleased`, `ObligationSettles`, `Reported`, `EveryMessageEnds`,
`DueIsServed`, `CallsEnd`), since liveness under fairness is beyond the prover used here. The two properties that a run refutes
(findings 1 and 2) have no theorem, as they are false.

## 5. Conventions

Definitions keep the source's names. Each property is preceded by what it says about the code. Definitions
named for a slip (`BeginUncovered`, `KeepToken`, `releaseNever` ...) are faulty variants of the definition
that follows them; `PROJECT.json` pairs each with the property that notices it. Run a model with
`tlc -config X.cfg M`, check proofs with `tlapm M.tla`.

## 6. Abstractions to keep in mind

* One agent, one room, one recipient. Agents share only files, which are modelled as always written in `SendDelivery`.
* A send's canonical form and hash are the set `Digest`; equality of digests is equality of contents.
* `parseGroupMentions` is the set of contents the user and members may write; how names are matched in a text is not modelled.
* Provider, tools and prompts: a run replies, stays silent, fails or hangs.
* Schedules are next-run functions; the parsing of cron expressions and time zones is not modelled.
* The writes of one step of `PendingWakes` succeed or fail together. The removal of an agent's directory is one step. A revival that
  had taken its completions when the agent was deleted may still run.
* `AgentInbox`: a message's priority is chosen at the start. A run that was given up may end aborted at any time, as it was
  interrupted before; late turns are one boolean, as nothing tells them apart. A turn of the slot may start several runs. The slot may
  be held by an automation at the start, which is one more run than the bound on turns allows. A deletion shares the bound of stops, and may be
  taken back at any later time. `EveryMessageEnds` speaks of messages after the last one was sent.
* Left out of otherwise modelled parts: deletion of an agent and quiescing for an upgrade (obligations), the nudges of
  `ensureUserReply` (inside a run), remote members and changes of a group's configuration, the watermark's cache, the
  wakes carried to a recreated box, shells that a recreation interrupted, re-arming for group sessions, posts of agents to a group and their outbound entries, failed deliveries and event wakes,
  which queue and run as connector messages do.

### Not modelled

`PROJECT.json` gives the reason part by part. Most of the repository is generated protocol code (more than half of its
lines), presentation, wiring, or I/O against services that are not part of it; these hold no state of their own that two steps
could disagree about. Of the parts that do, upgrade and handoff resume, session runtime, blob collection, the host lock,
box store synchronisation and the tool stream executor remain.

## 7. Plan

1. `UpgradeResume`, composed with `SendDelivery`'s obligations: quiesce, abandon, restart.
2. `SessionRuntime`: no session is retired or deleted under a user of it.
3. `HostLock`, `BlobGc`, the tool stream executor.
4. Failing writes of the obligations file as an option of `SendDelivery`.
