------------------------------ MODULE GroupChat ------------------------------
(***************************************************************************)
(* Who speaks in a group chat, and when it falls silent.  A user message   *)
(* queues a room turn; GroupChatOrchestrator.run wakes members one after   *)
(* the other, in up to three rounds and two wind-down sweeps; and          *)
(* runGroupMemberTurn runs one member, again if a direct message           *)
(* interrupted it before it said anything.                                 *)
(*                                                                         *)
(* One room on one host, whose members do not change.  Of a message only   *)
(* its author and its @-mentions matter (parseGroupMentions is taken as    *)
(* the constant sets of contents), and of a member's run only what it      *)
(* said.  Between two awaits the orchestrator is one step: what it does    *)
(* from the end of one member's run to the start of the next.              *)
(***************************************************************************)
EXTENDS Integers, Sequences, SequencesExt, FiniteSets, Subsequences

CONSTANTS
    Roster,        \* the members, in the order of the group's configuration
    User,
    Pass,          \* what a member sends to say nothing
    UserContent,   \* what the user may write: [to, everyone]
    Output,        \* what one run of a member may send: contents and passes
    GROUP_MAX_ROUNDS, GROUP_MAX_MEMBER_TURNS, GROUP_MAX_MESSAGES_PER_TURN,
    GROUP_PROMPT_HISTORY_LIMIT,
    MaxSends       \* bound on the user's messages

Member == ToSet(Roster)
Content == [to : Seq(Member), everyone : BOOLEAN]
Attempts == 3      \* of one member turn
Sweeps == 2        \* wind-down sweeps of a room turn

ASSUME GroupAssumption ==
    /\ Roster \in Seq(Member) /\ IsInjective(Roster) /\ Roster # <<>>
    /\ User \notin Member /\ UserContent \subseteq Content
    /\ \A out \in Output : out \in Seq(Content \cup {Pass})
    /\ GROUP_MAX_ROUNDS \in Nat \ {0} /\ GROUP_MAX_MEMBER_TURNS \in Nat \ {0}
    /\ GROUP_MAX_MESSAGES_PER_TURN \in Nat \ {0}
    /\ GROUP_PROMPT_HISTORY_LIMIT \in Nat \ {0} /\ MaxSends \in Nat

VARIABLES
    history,     \* the room's messages; epoch is that of the turn they are from
    undispatched,\* user messages in the transcript whose send awaits something
    epoch,       \* the room's turn epoch
    queue,       \* epochs of the room turns that wait
    turn,        \* the room turn that runs
    abandoned,   \* room turns given up by the watchdog whose member still runs
    dmPreempted, \* a direct message has interrupted the running member
    shown,       \* per member, the messages its prompts have contained
    during       \* per member, the user messages that came while it ran

vars == <<history, undispatched, epoch, queue, turn, abandoned, dmPreempted,
          shown, during>>

Message(author, content, e) ==
    [by |-> author, to |-> content.to, everyone |-> content.everyone,
     epoch |-> e]
-----------------------------------------------------------------------------
(***************************************************************************)
(* The exchange: the last user message and what follows it.                *)
(***************************************************************************)
LastBy(h, who) == SelectLastInSeq(h, LAMBDA msg : msg.by = who)
Exchange(h) == LastBy(h, User) .. Len(h)

\* resolveResponders: a delegation counts only from a member the user named.
Addressed(h) == ToSet(h[LastBy(h, User)].to)
Delegated(h) == UNION {ToSet(h[i].to) :
                          i \in {j \in Exchange(h) : h[j].by \in Addressed(h)}}
CallsEveryone(h) == h[LastBy(h, User)].everyone

Elects(h, everyone, m) ==
    LET elected == Addressed(h) \cup Delegated(h)
    IN  everyone \/ elected = {} \/ m \in elected
RosterOf(M) == Subsequence(Roster, {i \in DOMAIN Roster : Roster[i] \in M})
ResolveAnyEveryone(h) ==
    LET everyone == \E i \in Exchange(h) : h[i].everyone
    IN  RosterOf({m \in Member : Elects(h, everyone, m)})
ResolveResponders(h) ==
    RosterOf({m \in Member : Elects(h, CallsEveryone(h), m)})

OrderRoundSpeakers(s, round) ==
    LET offset == round % Len(s)
    IN  SubSeq(s, offset + 1, Len(s)) \o SubSeq(s, 1, offset)

\* Members named by a member of the exchange who have not spoken after it.
PendingMentionTargets(h) ==
    LET unanswered(i) ==
            Subsequence(h[i].to, {k \in DOMAIN h[i].to : LastBy(h, h[i].to[k]) <= i})
    IN  Distinct(FlattenSeq([k \in 1 .. Len(h) - LastBy(h, User) |->
                                unanswered(LastBy(h, User) + k)]))

ClosingAuthors(h) ==
    Distinct(Reverse([k \in 1 .. Len(h) - LastBy(h, User) |->
                         h[LastBy(h, User) + k].by]))

\* messagesSinceMemberLastSpoke, and the limit of formatGroupHistory.
NewMessages(h, m) ==
    {i \in DOMAIN h : i > LastBy(h, m)
                      /\ i > Len(h) - GROUP_PROMPT_HISTORY_LIMIT}
-----------------------------------------------------------------------------
(***************************************************************************)
(* A room turn.  In a phase it wakes `speakers' in order, the first of     *)
(* which runs; `posts' counts the messages of the phase and `total' those  *)
(* of the turn; `basis' is the history the speakers were chosen from.      *)
(***************************************************************************)
Ended(e, how, basis) ==
    [epoch |-> e, phase |-> "idle", how |-> how, basis |-> basis]

WakeAll(e, phase, round, sweep, speakers, total, h) ==
    [epoch |-> e, phase |-> phase, round |-> round, sweep |-> sweep,
     speakers |-> speakers, posts |-> 0, total |-> total, basis |-> Len(h),
     attempt |-> 1]

Running == turn.phase # "idle"
Speaker == Head(turn.speakers)

Round(e, round, total, h) ==
    WakeAll(e, "round", round, 0,
            OrderRoundSpeakers(ResolveResponders(h), round), total, h)

CloseWith(t, sweep, h) ==
    IF ClosingAuthors(h) = <<>> THEN Ended(t.epoch, "quiet", t.basis)
    ELSE WakeAll(t.epoch, "closing", t.round, sweep, ClosingAuthors(h),
                 t.total, h)

Relay(t, sweep, h) ==
    IF PendingMentionTargets(h) = <<>> THEN CloseWith(t, sweep, h)
    ELSE WakeAll(t.epoch, "relay", t.round, sweep, PendingMentionTargets(h),
                 t.total, h)

\* All speakers of a phase have run.
RelayAgain(t, h) ==
    CASE t.phase = "round" ->
             IF t.posts > 0 /\ t.round + 1 < GROUP_MAX_ROUNDS
             THEN Round(t.epoch, t.round + 1, t.total, h)
             ELSE Relay(t, 0, h)
      [] t.phase = "relay" -> Relay(t, t.sweep, h)
      [] t.phase = "closing" ->
             IF t.posts > 0 /\ t.sweep + 1 < Sweeps
             THEN Relay(t, t.sweep + 1, h)
             ELSE Ended(t.epoch, "quiet", t.basis)
CloseWithoutRelay(t, h) ==
    CASE t.phase = "round" ->
             IF t.posts > 0 /\ t.round + 1 < GROUP_MAX_ROUNDS
             THEN Round(t.epoch, t.round + 1, t.total, h)
             ELSE CloseWith(t, 0, h)
      [] t.phase = "closing" -> Ended(t.epoch, "quiet", t.basis)
NextPhase(t, h) ==
    CASE t.phase = "round" ->
             IF t.posts > 0 /\ t.round + 1 < GROUP_MAX_ROUNDS
             THEN Round(t.epoch, t.round + 1, t.total, h)
             ELSE Relay(t, 0, h)
      [] t.phase = "relay" ->
             IF t.posts > 0 THEN Relay(t, t.sweep, h)
             ELSE CloseWith(t, t.sweep, h)
      [] t.phase = "closing" ->
             IF t.posts > 0 /\ t.sweep + 1 < Sweeps
             THEN Relay(t, t.sweep + 1, h)
             ELSE Ended(t.epoch, "quiet", t.basis)

\* The limit and the epoch are looked at before every member is woken.
NextSpeaker(t, h) ==
    CASE t.total >= GROUP_MAX_MEMBER_TURNS -> Ended(t.epoch, "limit", t.basis)
      [] t.epoch # epoch -> Ended(t.epoch, "superseded", t.basis)
      [] OTHER -> IF Len(t.speakers) > 1
                  THEN [t EXCEPT !.speakers = Tail(@), !.attempt = 1]
                  ELSE NextPhase(t, h)

\* The prompt of the member that is woken.
Prompt(t, h) ==
    /\ shown' = IF t.phase = "idle" THEN shown
                ELSE [shown EXCEPT ![Head(t.speakers)] =
                                       @ \cup NewMessages(h, Head(t.speakers))]
    /\ dmPreempted' = FALSE

Init ==
    /\ history = <<>> /\ undispatched = 0 /\ epoch = 0 /\ queue = <<>>
    /\ turn = Ended(0, "never", 0) /\ abandoned = {} /\ dmPreempted = FALSE
    /\ shown = [m \in Member |-> {}] /\ during = [m \in Member |-> {}]
-----------------------------------------------------------------------------
(***************************************************************************)
(* A send to the room: the message is in the transcript before the send's  *)
(* awaits, the epoch and the queue change after them.                      *)
(***************************************************************************)
RunningMembers ==
    {Head(t.speakers) : t \in abandoned} \cup (IF Running THEN {Speaker} ELSE {})

EchoSend(c) ==
    /\ epoch + undispatched < MaxSends
    /\ history' = Append(history, Message(User, c, 0))
    /\ undispatched' = undispatched + 1
    /\ during' = [m \in Member |-> IF m \in RunningMembers
                                   THEN during[m] \cup {Len(history')}
                                   ELSE during[m]]
    /\ UNCHANGED <<epoch, queue, turn, abandoned, dmPreempted, shown>>

DispatchSend ==
    /\ undispatched > 0
    /\ undispatched' = undispatched - 1
    /\ epoch' = epoch + 1
    /\ queue' = Append(queue, epoch + 1)
    /\ UNCHANGED <<history, turn, abandoned, dmPreempted, shown, during>>

StartRoomTurn ==
    /\ ~Running /\ queue # <<>>
    /\ queue' = Tail(queue)
    /\ turn' = IF Head(queue) # epoch
               THEN Ended(Head(queue), "superseded", Len(history))
               ELSE Round(epoch, 0, 0, history)
    /\ Prompt(turn', history)
    /\ UNCHANGED <<history, undispatched, epoch, abandoned, during>>

(***************************************************************************)
(* The run of the woken member ends, having sent `out' in this attempt.    *)
(* What it said is posted whether or not the turn is still current.        *)
(***************************************************************************)
Said(sent) == Subsequence(sent, {i \in DOMAIN sent : sent[i] # Pass})
PostsPastLimit(t, sent) ==
    LET said == Said(sent)
        kept == Min({Len(said), GROUP_MAX_MESSAGES_PER_TURN})
    IN  [i \in 1 .. kept |-> Message(Head(t.speakers), said[i], t.epoch)]
Posts(t, sent) ==
    LET said == Said(sent)
        room == GROUP_MAX_MEMBER_TURNS - t.total
        kept == Min({Len(said), GROUP_MAX_MESSAGES_PER_TURN, room})
    IN  [i \in 1 .. kept |-> Message(Head(t.speakers), said[i], t.epoch)]

Retries(t, sent, reacted) ==
    /\ dmPreempted /\ sent = <<>> /\ ~reacted
    /\ t.attempt < Attempts /\ t.epoch = epoch

MemberRunEnds(out, reacted) ==
    LET said == Posts(turn, out)
        after == [turn EXCEPT !.posts = @ + Len(said), !.total = @ + Len(said)]
    IN  /\ Running
        /\ IF Retries(turn, out, reacted)
           THEN /\ turn' = [turn EXCEPT !.attempt = @ + 1]
                /\ dmPreempted' = FALSE
                /\ UNCHANGED <<history, shown>>
           ELSE /\ history' = history \o said
                /\ turn' = NextSpeaker(after, history')
                /\ Prompt(turn', history')
        /\ UNCHANGED <<undispatched, epoch, queue, abandoned, during>>

\* A direct message to the running member interrupts its run.
DirectMessage ==
    /\ Running /\ ~dmPreempted
    /\ dmPreempted' = TRUE
    /\ UNCHANGED <<history, undispatched, epoch, queue, turn, abandoned, shown,
                   during>>

(***************************************************************************)
(* The watchdog of the room's queue gives the turn up for a newer one; its *)
(* member runs on, and what it says is posted.                             *)
(***************************************************************************)
GiveUpRoomTurn ==
    /\ Running /\ queue # <<>>
    /\ abandoned' = abandoned \cup {turn}
    /\ turn' = Ended(turn.epoch, "superseded", turn.basis)
    /\ dmPreempted' = FALSE
    /\ UNCHANGED <<history, undispatched, epoch, queue, shown, during>>

AbandonedRunEnds(t, out) ==
    /\ t \in abandoned
    /\ abandoned' = abandoned \ {t}
    /\ history' = history \o Posts(t, out)
    /\ UNCHANGED <<undispatched, epoch, queue, turn, dmPreempted, shown, during>>

Next ==
    \/ \E c \in UserContent : EchoSend(c)
    \/ DispatchSend \/ StartRoomTurn \/ DirectMessage \/ GiveUpRoomTurn
    \/ \E out \in Output : \/ \E reacted \in BOOLEAN : MemberRunEnds(out, reacted)
                           \/ \E t \in abandoned : AbandonedRunEnds(t, out)

Spec == Init /\ [][Next]_vars
-----------------------------------------------------------------------------
(***************************************************************************)
(* Type invariant.                                                         *)
(***************************************************************************)
RunningTurn ==
    [epoch : 1 .. epoch, phase : {"round", "relay", "closing"},
     round : 0 .. GROUP_MAX_ROUNDS - 1, sweep : 0 .. Sweeps - 1,
     speakers : Seq(Member) \ {<<>>}, posts : Nat,
     total : 0 .. GROUP_MAX_MEMBER_TURNS - 1, basis : Nat,
     attempt : 1 .. Attempts]

EndedTurn ==
    [epoch : 0 .. epoch, phase : {"idle"},
     how : {"never", "quiet", "limit", "superseded"}, basis : Nat]

TypeOK ==
    /\ history \in Seq([by : Member \cup {User}, to : Seq(Member),
                        everyone : BOOLEAN, epoch : 0 .. epoch])
    /\ undispatched \in Nat /\ epoch \in Nat /\ queue \in Seq(1 .. epoch)
    /\ turn \in RunningTurn \/ turn \in EndedTurn
    /\ \A t \in abandoned : t \in RunningTurn
    /\ dmPreempted \in BOOLEAN
    /\ shown \in [Member -> SUBSET DOMAIN history]
    /\ during \in [Member -> SUBSET DOMAIN history]

(***************************************************************************)
(* Whatever its members send, and through rounds, relays, closing sweeps   *)
(* and a late end after the watchdog, one room turn posts at most          *)
(* GROUP_MAX_MEMBER_TURNS messages (totalMessages in run).                 *)
(***************************************************************************)
PostsBounded ==
    \A e \in 1 .. epoch :
        Cardinality({i \in DOMAIN history : history[i].epoch = e})
            <= GROUP_MAX_MEMBER_TURNS

(***************************************************************************)
(* No bystander is woken: a member runs only if, in the history its phase  *)
(* was planned from, the user named it, named everyone or named nobody, or *)
(* a member named it or it had spoken since.  In particular a member's     *)
(* "@everyone" wakes nobody (resolveResponders, pendingMentionTargets,     *)
(* closingAuthors).                                                        *)
(***************************************************************************)
Known(h, m) ==
    \/ CallsEveryone(h) \/ Addressed(h) = {}
    \/ \E i \in Exchange(h) : h[i].by = m \/ m \in ToSet(h[i].to)

NoBystanderWoken ==
    Running => \A i \in DOMAIN turn.speakers :
                   Known(SubSeq(history, 1, turn.basis), turn.speakers[i])

(***************************************************************************)
(* A member that runs has been shown every user message that was in the    *)
(* room when it was last woken, but the ones that came during a run of its *)
(* own or are beyond the prompt's limit (messagesSinceMemberLastSpoke).    *)
(***************************************************************************)
UserMessages == {i \in DOMAIN history : history[i].by = User}
BeyondPrompts(i) == i <= Len(history) - GROUP_PROMPT_HISTORY_LIMIT
Told(m, i) == i \in shown[m] \cup during[m] \/ BeyondPrompts(i)
Missed(m) == {i \in UserMessages : /\ i \notin shown[m]
                                   /\ shown[m] # {} /\ i < Max(shown[m])}

NothingMissed == \A m \in Member : \A i \in Missed(m) : Told(m, i)

(***************************************************************************)
(* A handoff does not die with the room turn: when the turn ends in quiet, *)
(* every other member that one of the turn's messages names has spoken     *)
(* after it or has been woken and shown it; only what is posted in the     *)
(* last closing sweep goes unheard, and what is beyond the prompt's limit  *)
(* (the relay sweep of run).                                               *)
(***************************************************************************)
Heard(m, i) == LastBy(history, m) > i \/ i \in shown[m] \/ BeyondPrompts(i)

HandoffHeard ==
    turn.phase = "idle" /\ turn.how = "quiet" =>
        \A i \in Exchange(history) \cap 1 .. turn.basis :
            history[i].epoch = turn.epoch =>
                \A m \in ToSet(history[i].to) \ {history[i].by} : Heard(m, i)

(***************************************************************************)
(* At rest after a turn that ended in quiet, every member the user's last  *)
(* message called has been shown it, if it did not come during the         *)
(* member's own run and is not beyond the prompt's limit.                  *)
(***************************************************************************)
AtRest == queue = <<>> /\ undispatched = 0 /\ abandoned = {} /\ ~Running
Called(m) ==
    \/ CallsEveryone(history) \/ Addressed(history) = {}
    \/ m \in Addressed(history)

CalledAreShown ==
    AtRest /\ turn.how = "quiet" =>
        \A m \in Member : Called(m) => Told(m, LastBy(history, User))

(***************************************************************************)
(* A room turn stays within its limits: of rounds, sweeps and attempts     *)
(* (the ranges in TypeOK) and of posts.                                    *)
(***************************************************************************)
TurnIsBounded == TypeOK /\ PostsBounded

(***************************************************************************)
(* What is said to a member reaches it: user messages, calls of the user   *)
(* and handoffs of other members.                                          *)
(***************************************************************************)
HeardByThoseCalled == NothingMissed /\ CalledAreShown /\ HandoffHeard

(***************************************************************************)
(* Every room turn ends, although members may name each other for ever and *)
(* direct messages may interrupt every run: each run of a member brings    *)
(* the turn strictly closer to its end.  A post uses up the limit, a phase *)
(* with posts is followed by one without any so far, and a phase in which  *)
(* all pass by a later kind of phase.                                      *)
(***************************************************************************)
Remaining(t) ==
    <<GROUP_MAX_MEMBER_TURNS - t.total,
      IF t.posts > 0 THEN 1 ELSE 0,
      CASE t.phase = "round" -> 2 [] t.phase = "relay" -> 1 [] OTHER -> 0,
      Len(t.speakers),
      Attempts - t.attempt>>
Closer(r, s) == \E i \in 1 .. 5 : r[i] < s[i] /\ \A j \in 1 .. i - 1 : r[j] = s[j]
RoomTurnEnds ==
    [][\A out \in Output, reacted \in BOOLEAN :
           MemberRunEnds(out, reacted) /\ Running' =>
               Closer(Remaining(turn'), Remaining(turn))]_vars

(***************************************************************************)
(* What buildGroupTurnPrompt says to a member that is shown nothing ("No   *)
(* new messages in the room since your last turn"): no user message is     *)
(* missing from what the member that runs has been shown.                  *)
(***************************************************************************)
RunsKnowingAll ==
    Running /\ turn.attempt = 1 =>
        \A i \in UserMessages \cap 1 .. turn.basis : i \in shown[Speaker]
=============================================================================
