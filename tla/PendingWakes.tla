---------------------------- MODULE PendingWakes ----------------------------
(***************************************************************************)
(* What an agent started in the background, and how it hears of the end of *)
(* it: the markers on disk (sand-pending-wake-store.ts), their arming,     *)
(* clearing and re-arming at a restart (pending-wake-rearm.ts), and the    *)
(* two lanes in which completions wait for the agent to be woken           *)
(* (completion-revivals.ts).  Subagents run inside the host and die with   *)
(* it; shells and cloud agents run elsewhere and are watched again.        *)
(*                                                                         *)
(* Queues, lanes and markers are per agent, so the module follows one,     *)
(* from its start to its deletion, which may fail and be taken back.       *)
(* Writes of the marker file in one step succeed or fail together.         *)
(***************************************************************************)
EXTENDS Naturals, Sequences, FiniteSets, Subsequences

CONSTANTS
    Work,          \* pieces of background work
    KindOf,        \* "subagent", "shell" or "cloud"
    MaxWakeFaults, \* bound: crashes, failed writes, sessions, revivals and
                   \* deletions, old markers
    MaxFollowups   \* bound: cloud agents asked for more after they ended

ASSUME WakesAssumption ==
    /\ KindOf \in [Work -> {"subagent", "shell", "cloud"}]
    /\ IsFiniteSet(Work)
    /\ MaxWakeFaults \in Nat /\ MaxFollowups \in Nat

VARIABLES
    hostUp,        \* is the host running
    deletion,      \* how far the agent's deletion has come
    work,          \* the work itself
    watched,       \* work whose end this process will hear of
    markers,       \* DurablePendingWakeMarker file
    rearming,      \* rearmPendingWake calls that await the session
    completions,   \* pendingSubagentCompletions, pendingShellCompletions
    reviving,      \* the completions of the revival under way, per lane
    wakeFaults, followups,
    \* history
    report,        \* what the agent heard of the work it last asked for
    excused,       \* work whose report a known fault may have cost
    leftover,      \* work whose marker a known fault may have left behind
    unresolved     \* work whose marker waits for the next restart

memory == <<watched, rearming, completions, reviving>>
wakesHistory == <<report, excused, leftover, unresolved>>
wakesVars ==
    <<hostUp, deletion, work, memory, markers, wakeFaults, followups, wakesHistory>>

\* isAgentGone: deletedAgentIds has the agent, in this process, or its
\* directory is gone.
agentGone == deletion # "none"

\* Its directory is there, so that it runs, or will again if its deletion
\* fails.
Alive == deletion \in {"none", "asked"}

RevivalLane == {"subagent", "shell"}
LaneOf(w) == IF KindOf[w] = "shell" THEN "shell" ELSE "subagent"

WakesTypeOK ==
    /\ hostUp \in BOOLEAN /\ deletion \in {"none", "asked", "erased", "done"}
    /\ work \in [Work -> {"new", "running", "dead", "outlived", "settled"}]
    /\ watched \subseteq Work /\ markers \subseteq Work
    /\ rearming \subseteq Work /\ unresolved \subseteq Work
    /\ excused \subseteq Work /\ leftover \subseteq Work
    /\ completions \in [RevivalLane -> Seq(Work)]
    /\ reviving \in [RevivalLane -> Seq(Work)]
    /\ report \in [Work -> {"none", "delivered", "aborted"}]
    /\ wakeFaults \in 0..MaxWakeFaults /\ followups \in 0..MaxFollowups

WakesInit ==
    /\ hostUp = TRUE /\ deletion = "none"
    /\ work = [w \in Work |-> "new"]
    /\ watched = {} /\ markers = {} /\ rearming = {}
    /\ excused = {} /\ leftover = {} /\ unresolved = {}
    /\ completions = [l \in RevivalLane |-> <<>>]
    /\ reviving = [l \in RevivalLane |-> <<>>]
    /\ report = [w \in Work |-> "none"]
    /\ wakeFaults = 0 /\ followups = 0

-----------------------------------------------------------------------------
(* The marker file.                                                        *)

\* Do the writes of this step succeed?
Cost(ok) == IF ok THEN 0 ELSE 1
Faults(n) == wakeFaults + n <= MaxWakeFaults /\ wakeFaults' = wakeFaults + n

\* History: a persist, or a clear, that fails.
Lost(ok, W) == excused' = IF ok THEN excused ELSE excused \cup W
Left(ok, W) == leftover' = IF ok THEN leftover ELSE leftover \cup W

\* persistPendingWake, which a deleted agent is refused; clearOne.
Persisted(ok, w) == IF ok /\ ~agentGone THEN markers \cup {w} ELSE markers
Cleared(ok, M, W) == IF ok THEN M \ W ELSE M

-----------------------------------------------------------------------------
(* Completions and revivals.                                               *)

Unqueued(w) == \A l \in RevivalLane : w \notin Items(completions[l])

\* handleBackgroundSubagentCompletion drops a second completion of the same
\* work from its queue; handleBackgroundShellCompletion does not.
Enqueues(w) == LaneOf(w) = "shell" \/ Unqueued(w)

AcceptsGone == TRUE
Accepts == ~agentGone

\* A completion of w reaches its lane, with the markers M on disk: it is
\* refused, waits there, or starts a revival that takes the whole queue and
\* clears the markers of what it took before it awaits anything.  The second
\* completion of work already queued, a follow-up's, is excused.
Complete(ok, w, M, persisted) ==
    LET l == LaneOf(w)
        q == IF Enqueues(w) THEN Append(completions[l], w) ELSE completions[l]
    IN  /\ excused' = IF persisted /\ Enqueues(w) THEN excused ELSE excused \cup {w}
        /\ \/ /\ ~Accepts
              /\ markers' = M
              /\ unresolved' = unresolved \cup {w}
              /\ UNCHANGED <<completions, reviving, leftover>>
           \/ /\ Accepts /\ reviving[l] # <<>>
              /\ completions' = [completions EXCEPT ![l] = q]
              /\ markers' = M
              /\ unresolved' = unresolved \ {w}
              /\ UNCHANGED <<reviving, leftover>>
           \/ /\ Accepts /\ reviving[l] = <<>>
              /\ reviving' = [reviving EXCEPT ![l] = q]
              /\ completions' = [completions EXCEPT ![l] = <<>>]
              /\ markers' = Cleared(ok, M, Items(q)) /\ Left(ok, Items(q))
              /\ unresolved' = unresolved \ {w}

\* What became of a revival: the agent was told, or it was lost, because
\* the session could not be resolved, the run failed, was interrupted, given
\* up or quiesced.  Nothing tries again.
Outcome == {"delivered", "lost"}

\* The loop goes on with what has been queued meanwhile.
NextBatchNone(l) == <<>>
NextBatch(l) == completions[l]

\* After a follow-up: its end is still to be reported, or was refused.
Again(w) == w \in watched \cup unresolved \/ ~Unqueued(w)

RevivalEnds(l) ==
    /\ hostUp
    /\ reviving[l] # <<>>
    /\ \E ok \in BOOLEAN, outcome \in Outcome :
          LET ended == {w \in Items(reviving[l]) : ~Again(w)}
          IN  /\ Faults(Cost(ok) + Cost(outcome = "delivered"))
              /\ report' = [w \in Work |-> IF w \in ended /\ outcome = "delivered"
                                          THEN "delivered" ELSE report[w]]
              /\ reviving' = [reviving EXCEPT ![l] = NextBatch(l)]
              /\ completions' = [completions EXCEPT ![l] = SubSeq(@, Len(NextBatch(l)) + 1, Len(@))]
              /\ markers' = Cleared(ok, markers, Items(NextBatch(l)))
              /\ Left(ok, Items(NextBatch(l)))
              \* a follow-up's marker has the name of the completion's
              /\ excused' = excused \cup (Items(NextBatch(l)) \cap watched)
                            \cup (IF outcome = "lost" THEN ended ELSE {})
    /\ UNCHANGED <<hostUp, deletion, work, watched, rearming, followups,
                   unresolved>>

-----------------------------------------------------------------------------
(* The work.                                                               *)

\* dispatchBackgroundSubagent, onShellWorkRegistered, watchCloudAgent, by a
\* run of the agent.
Dispatch(w) ==
    /\ hostUp /\ Alive
    /\ work[w] = "new"
    /\ work' = [work EXCEPT ![w] = "running"]
    /\ watched' = watched \cup {w}
    /\ \E ok \in BOOLEAN :
          /\ Faults(Cost(ok))
          /\ markers' = Persisted(ok, w) /\ Lost(ok /\ ~agentGone, {w})
    /\ UNCHANGED <<hostUp, deletion, rearming, completions, reviving,
                   followups, report, leftover, unresolved>>

\* watchCloudAgent for a cloud agent that was given a follow-up: from now on
\* the agent waits for the end of that.
Followup(w) ==
    /\ hostUp /\ Alive /\ followups < MaxFollowups
    /\ KindOf[w] = "cloud"
    /\ work[w] # "new" /\ w \notin watched
    /\ followups' = followups + 1
    /\ work' = [work EXCEPT ![w] = "running"]
    /\ watched' = watched \cup {w}
    /\ report' = [report EXCEPT ![w] = "none"]
    /\ \E ok \in BOOLEAN :
          /\ Faults(Cost(ok))
          /\ markers' = Persisted(ok, w)
          /\ excused' = IF ok /\ ~agentGone THEN excused \ {w} ELSE excused \cup {w}
    \* its re-arming is still to come and will watch it once more
    /\ leftover' = leftover \cup ({w} \cap rearming)
    /\ unresolved' = unresolved \ {w}
    /\ UNCHANGED <<hostUp, deletion, rearming, completions, reviving>>

\* The work ends and its watch reports it.
Settle(w) ==
    /\ hostUp
    /\ w \in watched
    /\ watched' = watched \ {w}
    /\ work' = [work EXCEPT ![w] = "settled"]
    /\ \E ok \in BOOLEAN :
          Faults(Cost(ok)) /\ Complete(ok, w, markers, TRUE)
    /\ UNCHANGED <<hostUp, deletion, rearming, followups, report>>

\* abortSubagent, or the interruption of all of a deleted agent's turns, and
\* the settling of the aborted turn: no completion.
Abort(w) ==
    /\ hostUp
    /\ w \in watched /\ KindOf[w] = "subagent"
    /\ watched' = watched \ {w}
    /\ work' = [work EXCEPT ![w] = "settled"]
    /\ report' = [report EXCEPT ![w] = "aborted"]
    /\ \E ok \in BOOLEAN :
          /\ Faults(Cost(ok))
          /\ markers' = Cleared(ok, markers, {w}) /\ Left(ok, {w})
    /\ UNCHANGED <<hostUp, deletion, rearming, completions, reviving,
                   followups, excused, unresolved>>

-----------------------------------------------------------------------------
(* Restart.                                                                *)

\* Memory is lost, deletedAgentIds with it: an agent whose directory is
\* still there is deleted no more.
HostCrash ==
    /\ hostUp
    /\ Faults(1)
    /\ hostUp' = FALSE
    /\ deletion' = IF Alive THEN "none" ELSE "done"
    /\ watched' = {} /\ rearming' = {}
    /\ completions' = [l \in RevivalLane |-> <<>>]
    /\ reviving' = [l \in RevivalLane |-> <<>>]
    /\ work' = [w \in Work |-> IF work[w] # "running" THEN work[w]
                               ELSE IF KindOf[w] = "subagent" THEN "dead" ELSE "outlived"]
    /\ excused' = excused \cup
          ((rearming \cup UNION {Items(reviving[l]) : l \in RevivalLane}) \ markers)
    /\ unresolved' = {}
    /\ UNCHANGED <<markers, followups, report, leftover>>

\* rearmPendingWakes: markers older than 48 hours are pruned, and those of an
\* agent that is gone stay; every other one is cleared and re-armed once the
\* session is resolved.
BootAndRearm ==
    /\ ~hostUp
    /\ hostUp' = TRUE
    /\ \E ok \in BOOLEAN, stale \in SUBSET markers :
          /\ ok \/ stale = {}
          /\ Faults(Cost(ok) + Cost(stale = {}))
          /\ markers' = IF agentGone THEN markers \ stale ELSE Cleared(ok, markers, markers)
          /\ rearming' = IF agentGone THEN {} ELSE markers \ stale
          /\ excused' = excused \cup stale
          /\ Left(ok, markers)
    /\ UNCHANGED <<deletion, work, watched, completions, reviving, followups,
                   report, unresolved>>

\* report("rearm_failed"): the marker is put back, for the next restart,
\* whether the agent is deleted by now or not.
RemarkedNever(ok, w) == markers
Remarked(ok, w) == IF ok THEN markers \cup {w} ELSE markers

\* rearmPendingWake, when the session cannot be resolved or the watch cannot
\* be armed.
RearmFails(w) ==
    /\ hostUp
    /\ w \in rearming
    /\ rearming' = rearming \ {w}
    /\ \E ok \in BOOLEAN :
          /\ Faults(1 + Cost(ok))
          /\ markers' = Remarked(ok, w) /\ Lost(ok, {w})
    /\ unresolved' = IF Again(w) THEN unresolved ELSE unresolved \cup {w}
    /\ UNCHANGED <<hostUp, deletion, work, watched, completions, reviving,
                   followups, report, leftover>>

\* rearmCloudAgentWake and rearmShellWake: persist and watch, unless it is
\* watched already.  The agent was there when its session began to be
\* resolved and may be deleted by now.
RearmWatch(w) ==
    /\ hostUp
    /\ w \in rearming /\ KindOf[w] # "subagent"
    /\ rearming' = rearming \ {w}
    /\ watched' = watched \cup {w}
    /\ \E ok \in BOOLEAN :
          /\ Faults(Cost(ok))
          /\ markers' = Persisted(ok, w) /\ Lost(ok /\ ~agentGone, {w})
    /\ UNCHANGED <<hostUp, deletion, work, completions, reviving, followups,
                   report, leftover, unresolved>>

\* reviveParentForLostSubagentWake: the subagent died with the host, and its
\* agent is told so.
RearmLost(w) ==
    /\ hostUp
    /\ w \in rearming /\ KindOf[w] = "subagent"
    /\ rearming' = rearming \ {w}
    /\ \E ok \in BOOLEAN :
          /\ Faults(Cost(ok))
          /\ Complete(ok, w, Persisted(ok, w), ok /\ ~agentGone)
    /\ UNCHANGED <<hostUp, deletion, work, watched, followups, report>>

-----------------------------------------------------------------------------
(* Deletion of the agent: first its queues and the watches of shells that  *)
(* were armed at a restart, then its directory, then its markers.          *)

WakesDeleteAgent ==
    LET rewatched == {w \in watched : KindOf[w] = "shell" /\ work[w] = "outlived"}
    IN  /\ hostUp /\ deletion = "none"
        /\ deletion' = "asked"
        /\ completions' = [l \in RevivalLane |-> <<>>]
        /\ watched' = watched \ rewatched
        /\ unresolved' = unresolved \cup rewatched
                           \cup UNION {Items(completions[l]) : l \in RevivalLane}
        /\ UNCHANGED <<hostUp, work, rearming, reviving, markers, wakeFaults,
                       followups, report, excused, leftover>>

\* deleteAgents takes the agent back; its queues stay dropped.
WakesDeletionFails ==
    /\ hostUp /\ deletion = "asked"
    /\ Faults(1)
    /\ deletion' = "none"
    /\ UNCHANGED <<hostUp, work, memory, markers, followups, wakesHistory>>

EraseAgent ==
    /\ hostUp /\ deletion = "asked"
    /\ deletion' = "erased"
    /\ UNCHANGED <<hostUp, work, memory, markers, wakeFaults, followups,
                   wakesHistory>>

clearAgent ==
    /\ hostUp /\ deletion = "erased"
    /\ deletion' = "done"
    /\ \E ok \in BOOLEAN :
          Faults(Cost(ok)) /\ markers' = Cleared(ok, markers, markers)
    /\ UNCHANGED <<hostUp, work, memory, followups, wakesHistory>>

-----------------------------------------------------------------------------
WakesNext ==
    \/ \E w \in Work :
          \/ Dispatch(w) \/ Followup(w) \/ Settle(w) \/ Abort(w)
          \/ RearmFails(w) \/ RearmWatch(w) \/ RearmLost(w)
    \/ \E l \in RevivalLane : RevivalEnds(l)
    \/ HostCrash \/ BootAndRearm
    \/ WakesDeleteAgent \/ WakesDeletionFails \/ EraseAgent \/ clearAgent

WakesSpec == WakesInit /\ [][WakesNext]_wakesVars

\* Work ends, sessions are resolved or fail, runs end, and a host that went
\* down is started again.
WakesFairSpec ==
    /\ WakesSpec
    /\ WF_wakesVars(BootAndRearm)
    /\ \A l \in RevivalLane : WF_wakesVars(RevivalEnds(l))
    /\ \A w \in Work : /\ WF_wakesVars(Settle(w))
                        /\ WF_wakesVars(RearmWatch(w)) /\ WF_wakesVars(RearmLost(w))

-----------------------------------------------------------------------------
Unreported(w) == work[w] # "new" /\ report[w] = "none" /\ w \notin excused

(***************************************************************************)
(* Whatever the agent last asked for and has not heard of has a marker on  *)
(* disk, from its dispatch or follow-up through its completion's wait in   *)
(* the queue, so that a crash at any point brings it back, and so does one *)
(* after a deletion that failed.  Only a report already on its way to the  *)
(* agent, and a marker being re-armed, are held by memory alone.           *)
(***************************************************************************)
NeverForgotten ==
    Alive => \A w \in Work : Unreported(w) =>
        \/ w \in markers
        \/ hostUp /\ w \in rearming \cup UNION {Items(reviving[l]) : l \in RevivalLane}

(***************************************************************************)
(* What the agent was told of leaves no marker, so that a restart does not *)
(* tell it again, unless the marker could not be removed or a follow-up    *)
(* ran while it was being re-armed.                                        *)
(***************************************************************************)
ReportedIsCleared ==
    Alive => \A w \in markers : report[w] = "none" \/ w \in leftover

(***************************************************************************)
(* Nothing is excused for free: without a fault, a follow-up or a          *)
(* deletion, no report is lost and no marker is left behind.               *)
(***************************************************************************)
ExcusesCost ==
    wakeFaults = 0 /\ followups = 0 /\ deletion = "none"
        => excused = {} /\ leftover = {} /\ unresolved = {}

(***************************************************************************)
(* The markers on disk are right for a crash at any point: what the agent  *)
(* has not heard of has one, and what it was told of has none.             *)
(***************************************************************************)
MarkersAreRight == WakesTypeOK /\ NeverForgotten /\ ReportedIsCleared /\ ExcusesCost

(***************************************************************************)
(* From the moment a deletion is asked for, no lane takes up a completion  *)
(* of that agent: not from its queues, not from a watch that still ends,   *)
(* and not from a re-arming that was awaiting the session at the time.     *)
(***************************************************************************)
GoneStaysQuiet ==
    [][agentGone => \A l \in RevivalLane : reviving'[l] \in {reviving[l], <<>>}]_wakesVars

(***************************************************************************)
(* The agent hears of everything it started, across crashes and deletions  *)
(* that fail, except: its deletion has been asked for; the marker waits    *)
(* for the next restart; or a fault named by "excused" cost the report --  *)
(* a failed write, a crash under way, a marker too old, a follow-up's      *)
(* marker cleared with its predecessor's, or a revival that was lost,      *)
(* which the code does not try again.  ExcusesCost bounds these.           *)
(***************************************************************************)
Reported ==
    \A w \in Work : Unreported(w) ~> ~Unreported(w) \/ agentGone \/ w \in unresolved
=============================================================================
