------------------------- MODULE SendDeliveryProofs -------------------------
(***************************************************************************)
(* Proofs about SendDelivery, for any sets of messages and redrive names   *)
(* and any bounds: an accepted message is never lost in silence.           *)
(***************************************************************************)
EXTENDS SendDelivery, SequenceLemmas, FiniteSetTheorems

(***************************************************************************)
(* The echo precedes the dispatch.                                         *)
(***************************************************************************)
EchoedFirst ==
    /\ dispatched \subseteq echoed
    /\ \A m \in Send : attempt[m] \in {"recorded", "dispatched"} => m \in echoed

DeliveryInv == TypeOK /\ EchoedFirst /\ NoSilentLoss

(***************************************************************************)
(* Recording a send and counting a redrive keep an obligation well-formed. *)
(***************************************************************************)
Obligations == {None} \cup 0 .. MAX_ACK_REDRIVES

LEMMA RecordSendType ==
    \A o \in Obligations : RecordSend(o) \in Obligations /\ RecordSend(o) # None
BY DeliveryAssumption DEF Obligations, RecordSend, None

LEMMA RedriveType ==
    \A o \in Obligations : o # None /\ MayRedrive(o)
                            => /\ RecordRedriveAttempt(o) \in Obligations
                               /\ RecordRedriveAttempt(o) # None
BY DeliveryAssumption DEF Obligations, MayRedrive, RecordRedriveAttempt, None

(***************************************************************************)
(* Every action of the host, of its clients and of the environment keeps   *)
(* the types.                                                              *)
(***************************************************************************)
LEMMA TypePreserved ==
    ASSUME TypeOK, [Next]_vars
    PROVE  TypeOK'
<1> USE DeliveryAssumption
<1>1. ASSUME NEW m \in Send, StartAttempt(m) PROVE TypeOK'
  BY <1>1 DEF StartAttempt, BeginSessionRun, TypeOK, None, Run, disk, runs,
              timers, history, failures
<1>2. ASSUME NEW m \in Send, RecordAcceptance(m) PROVE TypeOK'
  <2>1. obligation' \in Obligations
    BY <1>2, RecordSendType DEF RecordAcceptance, TypeOK, Obligations
  <2> QED
    BY <1>2, <2>1 DEF RecordAcceptance, TypeOK, Obligations, Run, disk, runs,
                      timers, history, failures
<1>3. ASSUME NEW m \in Send, Dispatch(m) PROVE TypeOK'
  <2>1. obligation' \in Obligations
    BY <1>3, RecordSendType
       DEF Dispatch, ConfirmObligation, TypeOK, Obligations
  <2>2. queue' \in Seq(Send)
    BY <1>3 DEF Dispatch, TypeOK
  <2>3. inFlight' \in Nat
    BY <1>3 DEF Dispatch, BeginSessionRun, TypeOK
  <2> QED
    BY <1>3, <2>1, <2>2, <2>3
       DEF Dispatch, TypeOK, Obligations, Run, disk, runs, timers, history,
           failures
<1>4. ASSUME NEW m \in Send, AttemptReturns(m) PROVE TypeOK'
  BY <1>4 DEF AttemptReturns, EndSessionRun, TypeOK, None, Run, disk, runs,
              timers, history, failures
<1>5. ASSUME NEW m \in Send, AttemptThrows(m) PROVE TypeOK'
  BY <1>5 DEF AttemptThrows, EndSessionRun, RecordSend, TypeOK, None, Run,
              disk, runs, timers, history, failures
<1>6. ASSUME NEW m \in Send, CrashInAcceptance(m) PROVE TypeOK'
  <2>1. /\ ledger' \in [Send -> {"none", "pending", "accepted"}]
        /\ echoed' \subseteq Send
    BY <1>6 DEF CrashInAcceptance, TypeOK
  <2>2. queue' \in Seq(Send)
    BY <1>6 DEF CrashInAcceptance, EndProcess
  <2>3. obligation' = obligation
    BY <1>6 DEF CrashInAcceptance
  <2>4. crashes' \in Nat
    BY <1>6 DEF CrashInAcceptance, EndProcess, TypeOK
  <2>5. attempt' \in [Send -> {"none", "pinned", "recorded", "dispatched"}]
    BY <1>6 DEF CrashInAcceptance, EndProcess
  <2> HIDE DeliveryAssumption
  <2> QED
    BY <1>6, <2>1, <2>2, <2>3, <2>4, <2>5
       DEF CrashInAcceptance, EndProcess, TypeOK, history
<1>7. ASSUME StartTurn PROVE TypeOK'
  BY <1>7 DEF StartTurn, TypeOK, None, Run, disk, runs, timers, history,
              failures
<1>8. ASSUME RunCheckedTurn PROVE TypeOK'
  BY <1>8 DEF RunCheckedTurn, TypeOK, None, Run, disk, runs, timers, history,
              failures
<1>9. ASSUME SkipTurn PROVE TypeOK'
  BY <1>9 DEF SkipTurn, EndSessionRun, TypeOK, None, Run, disk, runs, timers,
               history, failures
<1>10. ASSUME GiveUpRun PROVE TypeOK'
  BY <1>10 DEF GiveUpRun, RetireAckRunToken, TypeOK, None, Run, disk, runs,
               timers, history, failures
<1>11. ASSUME NEW r \in Run, SendMessage(r) PROVE TypeOK'
  BY <1>11 DEF SendMessage, FulfillAckObligation, TypeOK, None, Run, disk,
               runs, timers, history, failures
<1>12. ASSUME NEW r \in Run, SettleRun(r) PROVE TypeOK'
  BY <1>12 DEF SettleRun, EndSessionRun, TypeOK, None, Run, disk, runs,
               timers, history, failures
<1>13. ASSUME TimerFires PROVE TypeOK'
  <2>1. obligation' \in Obligations
    BY <1>13, RedriveType DEF TimerFires, TypeOK, Obligations
  <2>2. resolving' \in Nat /\ lost' \subseteq Send
    BY <1>13 DEF TimerFires, TypeOK
  <2> QED
    BY <1>13, <2>1, <2>2
       DEF TimerFires, TypeOK, Obligations, runs, failures
<1>14. ASSUME ResolveFails PROVE TypeOK'
  BY <1>14 DEF ResolveFails, RearmAfterFailure, TypeOK, None, Run, disk, runs,
               timers, history, failures
<1>15. ASSUME NEW r \in Redrive, QueueRedrive(r) PROVE TypeOK'
  BY <1>15 DEF QueueRedrive, BeginSessionRun, TypeOK, None, Run, disk, runs,
               timers, history, failures
<1>16. ASSUME NEW r \in Redrive, StartRedrive(r) PROVE TypeOK'
  BY <1>16 DEF StartRedrive, EndSessionRun, RetireAckRunToken, TypeOK, None,
               Run, disk, runs, timers, history, failures
<1>17. ASSUME Crash PROVE TypeOK'
  <2>1. queue' \in Seq(Send)
    BY <1>17 DEF Crash, EndProcess
  <2>2. crashes' \in Nat
    BY <1>17 DEF Crash, EndProcess, TypeOK
  <2>3. attempt' \in [Send -> {"none", "pinned", "recorded", "dispatched"}]
    BY <1>17 DEF Crash, EndProcess
  <2> HIDE DeliveryAssumption
  <2> QED
    BY <1>17, <2>1, <2>2, <2>3 DEF Crash, EndProcess, TypeOK, disk, history
<1>18. ASSUME Boot PROVE TypeOK'
  BY <1>18 DEF Boot, TypeOK, None, Run, disk, runs, timers, history, failures
<1>19. ASSUME BootRedrives PROVE TypeOK'
  BY <1>19 DEF BootRedrives, TypeOK, None, Run, disk, runs, timers, history,
               failures
<1>20. ASSUME UNCHANGED vars PROVE TypeOK'
  BY <1>20 DEF vars, TypeOK, None, Run, disk, runs, timers, history, failures
<1> QED
  BY <1>1, <1>2, <1>3, <1>4, <1>5, <1>6, <1>7, <1>8, <1>9,
     <1>10, <1>11, <1>12, <1>13, <1>14, <1>15, <1>16, <1>17, <1>18,
     <1>19, <1>20
     DEF Next

(***************************************************************************)
(* No message is dispatched before its echo is in the transcript.          *)
(***************************************************************************)
LEMMA EchoPreserved ==
    ASSUME TypeOK, EchoedFirst, [Next]_vars
    PROVE  EchoedFirst'
<1> USE DeliveryAssumption
<1>1. ASSUME NEW m \in Send, StartAttempt(m) PROVE EchoedFirst'
  BY <1>1 DEF StartAttempt, BeginSessionRun, TypeOK, EchoedFirst, None, Run,
              disk, runs, timers, history, failures
<1>2. ASSUME NEW m \in Send, RecordAcceptance(m) PROVE EchoedFirst'
  BY <1>2 DEF RecordAcceptance, RecordSend, TypeOK, EchoedFirst, None, Run,
              disk, runs, timers, history, failures
<1>3. ASSUME NEW m \in Send, Dispatch(m) PROVE EchoedFirst'
  BY <1>3 DEF Dispatch, BeginSessionRun, ConfirmObligation, RecordSend,
              TypeOK, EchoedFirst, None, Run, disk, runs, timers, history,
              failures
<1>4. ASSUME NEW m \in Send, AttemptReturns(m) PROVE EchoedFirst'
  BY <1>4 DEF AttemptReturns, EndSessionRun, TypeOK, EchoedFirst, None, Run,
              disk, runs, timers, history, failures
<1>5. ASSUME NEW m \in Send, AttemptThrows(m) PROVE EchoedFirst'
  BY <1>5 DEF AttemptThrows, EndSessionRun, RecordSend, TypeOK, EchoedFirst,
              None, Run, disk, runs, timers, history, failures
<1>6. ASSUME NEW m \in Send, CrashInAcceptance(m) PROVE EchoedFirst'
  BY <1>6 DEF CrashInAcceptance, EndProcess, TypeOK, EchoedFirst, None, Run,
              disk, runs, timers, history, failures
<1>7. ASSUME StartTurn PROVE EchoedFirst'
  BY <1>7 DEF StartTurn, TypeOK, EchoedFirst, None, Run, disk, runs, timers,
              history, failures
<1>8. ASSUME RunCheckedTurn PROVE EchoedFirst'
  BY <1>8 DEF RunCheckedTurn, TypeOK, EchoedFirst, None, Run, disk, runs,
              timers, history, failures
<1>9. ASSUME SkipTurn PROVE EchoedFirst'
  BY <1>9 DEF SkipTurn, EndSessionRun, TypeOK, EchoedFirst, None, Run, disk,
               runs, timers, history, failures
<1>10. ASSUME GiveUpRun PROVE EchoedFirst'
  BY <1>10 DEF GiveUpRun, RetireAckRunToken, TypeOK, EchoedFirst, None, Run,
               disk, runs, timers, history, failures
<1>11. ASSUME NEW r \in Run, SendMessage(r) PROVE EchoedFirst'
  BY <1>11 DEF SendMessage, FulfillAckObligation, TypeOK, EchoedFirst, None,
               Run, disk, runs, timers, history, failures
<1>12. ASSUME NEW r \in Run, SettleRun(r) PROVE EchoedFirst'
  BY <1>12 DEF SettleRun, EndSessionRun, TypeOK, EchoedFirst, None, Run, disk,
               runs, timers, history, failures
<1>13. ASSUME TimerFires PROVE EchoedFirst'
  BY <1>13 DEF TimerFires, MayRedrive, RecordRedriveAttempt, TypeOK,
               EchoedFirst, None, Run, disk, runs, timers, history, failures
<1>14. ASSUME ResolveFails PROVE EchoedFirst'
  BY <1>14 DEF ResolveFails, RearmAfterFailure, TypeOK, EchoedFirst, None,
               Run, disk, runs, timers, history, failures
<1>15. ASSUME NEW r \in Redrive, QueueRedrive(r) PROVE EchoedFirst'
  BY <1>15 DEF QueueRedrive, BeginSessionRun, TypeOK, EchoedFirst, None, Run,
               disk, runs, timers, history, failures
<1>16. ASSUME NEW r \in Redrive, StartRedrive(r) PROVE EchoedFirst'
  BY <1>16 DEF StartRedrive, EndSessionRun, RetireAckRunToken, TypeOK,
               EchoedFirst, None, Run, disk, runs, timers, history, failures
<1>17. ASSUME Crash PROVE EchoedFirst'
  BY <1>17 DEF Crash, EndProcess, TypeOK, EchoedFirst, None, Run, disk, runs,
               timers, history, failures
<1>18. ASSUME Boot PROVE EchoedFirst'
  BY <1>18 DEF Boot, TypeOK, EchoedFirst, None, Run, disk, runs, timers,
               history, failures
<1>19. ASSUME BootRedrives PROVE EchoedFirst'
  BY <1>19 DEF BootRedrives, TypeOK, EchoedFirst, None, Run, disk, runs,
               timers, history, failures
<1>20. ASSUME UNCHANGED vars PROVE EchoedFirst'
  BY <1>20 DEF vars, TypeOK, EchoedFirst, None, Run, disk, runs, timers,
               history, failures
<1> QED
  BY <1>1, <1>2, <1>3, <1>4, <1>5, <1>6, <1>7, <1>8, <1>9,
     <1>10, <1>11, <1>12, <1>13, <1>14, <1>15, <1>16, <1>17, <1>18,
     <1>19, <1>20
     DEF Next

(***************************************************************************)
(* Every step that takes the obligation away follows a visible message or  *)
(* reports the loss; a dispatch leaves one behind.                         *)
(***************************************************************************)
LEMMA SilencePreserved ==
    ASSUME TypeOK, EchoedFirst, NoSilentLoss, [Next]_vars
    PROVE  NoSilentLoss'
<1> USE DeliveryAssumption
<1>1. ASSUME NEW m \in Send, StartAttempt(m) PROVE NoSilentLoss'
  BY <1>1 DEF StartAttempt, BeginSessionRun, TypeOK, EchoedFirst,
              NoSilentLoss, None, Run, disk, runs, timers, history, failures
<1>2. ASSUME NEW m \in Send, RecordAcceptance(m) PROVE NoSilentLoss'
  BY <1>2 DEF RecordAcceptance, RecordSend, TypeOK, EchoedFirst, NoSilentLoss,
              None, Run, disk, runs, timers, history, failures
<1>3. ASSUME NEW m \in Send, Dispatch(m) PROVE NoSilentLoss'
  BY <1>3 DEF Dispatch, BeginSessionRun, ConfirmObligation, RecordSend,
              TypeOK, EchoedFirst, NoSilentLoss, None, Run, disk, runs,
              timers, history, failures
<1>4. ASSUME NEW m \in Send, AttemptReturns(m) PROVE NoSilentLoss'
  BY <1>4 DEF AttemptReturns, EndSessionRun, TypeOK, EchoedFirst,
              NoSilentLoss, None, Run, disk, runs, timers, history, failures
<1>5. ASSUME NEW m \in Send, AttemptThrows(m) PROVE NoSilentLoss'
  BY <1>5 DEF AttemptThrows, EndSessionRun, RecordSend, TypeOK, EchoedFirst,
              NoSilentLoss, None, Run, disk, runs, timers, history, failures
<1>6. ASSUME NEW m \in Send, CrashInAcceptance(m) PROVE NoSilentLoss'
  BY <1>6 DEF CrashInAcceptance, EndProcess, TypeOK, EchoedFirst,
              NoSilentLoss, None, Run, disk, runs, timers, history, failures
<1>7. ASSUME StartTurn PROVE NoSilentLoss'
  BY <1>7 DEF StartTurn, TypeOK, EchoedFirst, NoSilentLoss, None, Run, disk,
              runs, timers, history, failures
<1>8. ASSUME RunCheckedTurn PROVE NoSilentLoss'
  BY <1>8 DEF RunCheckedTurn, TypeOK, EchoedFirst, NoSilentLoss, None, Run,
              disk, runs, timers, history, failures
<1>9. ASSUME SkipTurn PROVE NoSilentLoss'
  BY <1>9 DEF SkipTurn, EndSessionRun, TypeOK, EchoedFirst, NoSilentLoss,
               None, Run, disk, runs, timers, history, failures
<1>10. ASSUME GiveUpRun PROVE NoSilentLoss'
  BY <1>10 DEF GiveUpRun, RetireAckRunToken, TypeOK, EchoedFirst,
               NoSilentLoss, None, Run, disk, runs, timers, history, failures
<1>11. ASSUME NEW r \in Run, SendMessage(r) PROVE NoSilentLoss'
  BY <1>11 DEF SendMessage, FulfillAckObligation, TypeOK, EchoedFirst,
               NoSilentLoss, None, Run, disk, runs, timers, history, failures
<1>12. ASSUME NEW r \in Run, SettleRun(r) PROVE NoSilentLoss'
  BY <1>12 DEF SettleRun, EndSessionRun, TypeOK, EchoedFirst, NoSilentLoss,
               None, Run, disk, runs, timers, history, failures
<1>13. ASSUME TimerFires PROVE NoSilentLoss'
  BY <1>13 DEF TimerFires, MayRedrive, RecordRedriveAttempt, TypeOK,
               EchoedFirst, NoSilentLoss, None, Run, disk, runs, timers, history, failures
<1>14. ASSUME ResolveFails PROVE NoSilentLoss'
  BY <1>14 DEF ResolveFails, RearmAfterFailure, TypeOK, EchoedFirst,
               NoSilentLoss, None, Run, disk, runs, timers, history, failures
<1>15. ASSUME NEW r \in Redrive, QueueRedrive(r) PROVE NoSilentLoss'
  BY <1>15 DEF QueueRedrive, BeginSessionRun, TypeOK, EchoedFirst,
               NoSilentLoss, None, Run, disk, runs, timers, history, failures
<1>16. ASSUME NEW r \in Redrive, StartRedrive(r) PROVE NoSilentLoss'
  BY <1>16 DEF StartRedrive, EndSessionRun, RetireAckRunToken, TypeOK,
               EchoedFirst, NoSilentLoss, None, Run, disk, runs, timers,
               history, failures
<1>17. ASSUME Crash PROVE NoSilentLoss'
  BY <1>17 DEF Crash, EndProcess, TypeOK, EchoedFirst, NoSilentLoss, None,
               Run, disk, runs, timers, history, failures
<1>18. ASSUME Boot PROVE NoSilentLoss'
  BY <1>18 DEF Boot, TypeOK, EchoedFirst, NoSilentLoss, None, Run, disk, runs,
               timers, history, failures
<1>19. ASSUME BootRedrives PROVE NoSilentLoss'
  BY <1>19 DEF BootRedrives, TypeOK, EchoedFirst, NoSilentLoss, None, Run,
               disk, runs, timers, history, failures
<1>20. ASSUME UNCHANGED vars PROVE NoSilentLoss'
  BY <1>20 DEF vars, TypeOK, EchoedFirst, NoSilentLoss, None, Run, disk, runs,
               timers, history, failures
<1> QED
  BY <1>1, <1>2, <1>3, <1>4, <1>5, <1>6, <1>7, <1>8, <1>9,
     <1>10, <1>11, <1>12, <1>13, <1>14, <1>15, <1>16, <1>17, <1>18,
     <1>19, <1>20
     DEF Next

(***************************************************************************)
(* The inductive invariant holds in every reachable state.                 *)
(***************************************************************************)
THEOREM DeliveryInvariant == Spec => []DeliveryInv
<1>1. Init => DeliveryInv
  <2> SUFFICES ASSUME Init PROVE DeliveryInv
    OBVIOUS
  <2>1. queue \in Seq(Send)
    BY DEF Init
  <2>2. TypeOK
    BY <2>1, DeliveryAssumption DEF Init, TypeOK
  <2> QED
    BY <2>2 DEF Init, DeliveryInv, EchoedFirst, NoSilentLoss
<1>2. DeliveryInv /\ [Next]_vars => DeliveryInv'
  BY TypePreserved, EchoPreserved, SilencePreserved DEF DeliveryInv
<1> QED
  BY <1>1, <1>2, PTL DEF Spec

(***************************************************************************)
(* The variables keep their types; in particular an obligation is never    *)
(* redriven more than MAX_ACK_REDRIVES times (redriveAckObligation).       *)
(***************************************************************************)
THEOREM DeliveryTypeCorrect == Spec => []TypeOK
BY DeliveryInvariant, PTL DEF DeliveryInv

(***************************************************************************)
(* A dispatched message is answered, reported lost or still owed, in every *)
(* state of every execution, across failed attempts, given-up runs and     *)
(* restarts (confirmAckObligationAfterInterrupt, fulfillAckObligation).    *)
(***************************************************************************)
THEOREM NeverLostInSilence == Spec => []NoSilentLoss
BY DeliveryInvariant, PTL DEF DeliveryInv
-----------------------------------------------------------------------------
(***************************************************************************)
(* Where a message's attempt and its turn can be.  A turn is queued once:  *)
(* the ledger answers every later send of its nonce as a duplicate.        *)
(***************************************************************************)
StagesAgree ==
    \A m \in Send :
        /\ attempt[m] = "pinned" => ledger[m] = "none"
        /\ attempt[m] = "recorded" => ledger[m] = "pending"
        /\ ledger[m] # "none" => m \in echoed
        /\ m \in ToSet(queue) \cup {active} \cup zombies => ledger[m] = "accepted"

\* A run is in one place.
RunsInOnePlace ==
    /\ IsInjective(queue)
    /\ active \notin ToSet(queue) \cup redrives \cup zombies
    /\ zombies \cap (ToSet(queue) \cup redrives) = {}

PlacesInv == StagesAgree /\ RunsInOnePlace /\ TokensAreLive

\* What the queue holds.
LEMMA QueueFacts ==
    ASSUME TypeOK
    PROVE  /\ ToSet(queue) \subseteq Send /\ NoRun \notin Send
           /\ redrives \cap ToSet(queue) = {} /\ NoRun \notin Run
           /\ NoRun \notin ToSet(queue) /\ NoRun \notin redrives
           /\ NoRun \notin zombies
BY DeliveryAssumption DEF TypeOK, ToSet, Run

LEMMA PassivePlaces ==
    ASSUME PlacesInv, UNCHANGED <<echoed, ledger, attempt, queue, redrives,
                                  active, zombies, ackRunTokens>>
    PROVE  PlacesInv'
<1>1. ToSet(queue') = ToSet(queue) /\ IsInjective(queue') = IsInjective(queue)
  OBVIOUS
<1> QED
  BY <1>1 DEF PlacesInv, StagesAgree, RunsInOnePlace, TokensAreLive

\* The end of the process leaves no run, no token and no attempt.
LEMMA EndProcessPlaces ==
    ASSUME StagesAgree, EndProcess,
           \A m \in Send : ledger'[m] # "none" => m \in echoed'
    PROVE  PlacesInv'
<1>1. /\ attempt' = [m \in Send |-> "none"] /\ queue' = <<>> /\ redrives' = {}
      /\ active' = NoRun /\ zombies' = {} /\ ackRunTokens' = {}
  BY DEF EndProcess
<1>2. ToSet(queue') = {} /\ IsInjective(queue')
  BY <1>1, ToSetEmpty DEF IsInjective
<1> QED
  BY <1>1, <1>2, DeliveryAssumption
     DEF PlacesInv, StagesAgree, RunsInOnePlace, TokensAreLive, Run

LEMMA DispatchPlaces ==
    ASSUME TypeOK, PlacesInv, NEW m \in Send, Dispatch(m)
    PROVE  PlacesInv' /\ ToSet(queue') = ToSet(queue) \cup {m}
<1>1. /\ attempt[m] = "recorded" /\ queue' = Append(queue, m)
      /\ attempt' = [attempt EXCEPT ![m] = "dispatched"]
      /\ ledger' = [ledger EXCEPT ![m] = "accepted"]
      /\ ackRunTokens' = ackRunTokens \cup {m}
      /\ UNCHANGED <<echoed, active, zombies, redrives>>
  BY DEF Dispatch
<1>2. /\ m \notin ToSet(queue) /\ m # active /\ m \notin zombies
      /\ m \notin redrives /\ m # NoRun /\ m \in echoed
  BY <1>1, DeliveryAssumption DEF PlacesInv, StagesAgree, TypeOK
<1>3. ToSet(queue') = ToSet(queue) \cup {m} /\ IsInjective(queue')
  BY <1>1, <1>2, ToSetAppend, AppendDistinct DEF TypeOK, PlacesInv, RunsInOnePlace
<1>4. StagesAgree'
  BY <1>1, <1>2, <1>3 DEF PlacesInv, StagesAgree, TypeOK
<1>5. RunsInOnePlace' /\ TokensAreLive'
  BY <1>1, <1>2, <1>3 DEF PlacesInv, RunsInOnePlace, TokensAreLive
<1> QED
  BY <1>3, <1>4, <1>5 DEF PlacesInv

LEMMA StartTurnPlaces ==
    ASSUME TypeOK, PlacesInv, StartTurn
    PROVE  PlacesInv' /\ active' \in ToSet(queue)
<1>1. /\ active = NoRun /\ queue # <<>> /\ active' = Head(queue)
      /\ queue' = Tail(queue)
      /\ UNCHANGED <<echoed, ledger, attempt, redrives, zombies, ackRunTokens>>
  BY DEF StartTurn, disk
<1>2. /\ IsInjective(queue') /\ ToSet(queue') = ToSet(queue) \ {active'}
      /\ active' \in ToSet(queue)
  BY <1>1, TailDistinct DEF TypeOK, PlacesInv, RunsInOnePlace
<1>3. StagesAgree'
  BY <1>1, <1>2 DEF PlacesInv, StagesAgree
<1>4. RunsInOnePlace' /\ TokensAreLive'
  BY <1>1, <1>2, QueueFacts DEF PlacesInv, RunsInOnePlace, TokensAreLive
<1> QED
  BY <1>2, <1>3, <1>4 DEF PlacesInv

(***************************************************************************)
(* Every step moves a run, with its token, to one other place.             *)
(***************************************************************************)
LEMMA PlacesPreserved ==
    ASSUME TypeOK, PlacesInv, [Next]_vars
    PROVE  PlacesInv'
<1> USE QueueFacts
<1>1. ASSUME NEW m \in Send, StartAttempt(m) PROVE PlacesInv'
  <2>1. /\ ledger[m] = "none" /\ attempt' = [attempt EXCEPT ![m] = "pinned"]
        /\ UNCHANGED <<echoed, ledger, queue, redrives, active, zombies,
                       ackRunTokens>>
    BY <1>1 DEF StartAttempt, disk, runs
  <2> QED
    BY <2>1 DEF PlacesInv, StagesAgree, RunsInOnePlace, TokensAreLive, TypeOK
<1>2. ASSUME NEW m \in Send, RecordAcceptance(m) PROVE PlacesInv'
  <2>1. /\ attempt[m] = "pinned" /\ echoed' = echoed \cup {m}
        /\ ledger' = [ledger EXCEPT ![m] = "pending"]
        /\ attempt' = [attempt EXCEPT ![m] = "recorded"]
        /\ UNCHANGED <<queue, redrives, active, zombies, ackRunTokens>>
    BY <1>2 DEF RecordAcceptance, runs
  <2> QED
    BY <2>1 DEF PlacesInv, StagesAgree, RunsInOnePlace, TokensAreLive, TypeOK
<1>3. ASSUME NEW m \in Send, Dispatch(m) PROVE PlacesInv'
  BY <1>3, DispatchPlaces
<1>4. ASSUME NEW m \in Send, AttemptReturns(m) PROVE PlacesInv'
  <2>1. /\ attempt' = [attempt EXCEPT ![m] = "none"]
        /\ UNCHANGED <<echoed, ledger, queue, redrives, active, zombies,
                       ackRunTokens>>
    BY <1>4 DEF AttemptReturns, disk, runs
  <2> QED
    BY <2>1 DEF PlacesInv, StagesAgree, RunsInOnePlace, TokensAreLive, TypeOK
<1>5. ASSUME NEW m \in Send, AttemptThrows(m) PROVE PlacesInv'
  <2>1. /\ attempt[m] \in {"pinned", "recorded"}
        /\ attempt' = [attempt EXCEPT ![m] = "none"]
        /\ ledger' = [ledger EXCEPT ![m] = "none"]
        /\ UNCHANGED <<echoed, queue, redrives, active, zombies, ackRunTokens>>
    BY <1>5 DEF AttemptThrows, runs
  <2> QED
    BY <2>1 DEF PlacesInv, StagesAgree, RunsInOnePlace, TokensAreLive, TypeOK
<1>6. ASSUME NEW m \in Send, CrashInAcceptance(m) PROVE PlacesInv'
  <2>1. \A u \in Send : ledger'[u] # "none" => u \in echoed'
    BY <1>6 DEF CrashInAcceptance, PlacesInv, StagesAgree, TypeOK
  <2> QED
    BY <1>6, <2>1, EndProcessPlaces DEF CrashInAcceptance, PlacesInv
<1>7. CASE StartTurn
  BY <1>7, StartTurnPlaces
<1>8. CASE SkipTurn
  <2>1. /\ active' = NoRun /\ active \in Run
        /\ ackRunTokens' = ackRunTokens \ {active}
        /\ UNCHANGED <<echoed, ledger, attempt, queue, redrives, zombies>>
    BY <1>8 DEF SkipTurn, disk, TypeOK
  <2> QED
    BY <2>1 DEF PlacesInv, StagesAgree, RunsInOnePlace, TokensAreLive
<1>9. CASE GiveUpRun
  <2>1. /\ active' = NoRun /\ active \in Run /\ zombies' = zombies \cup {active}
        /\ ackRunTokens' = ackRunTokens \ {active}
        /\ UNCHANGED <<echoed, ledger, attempt, queue, redrives>>
    BY <1>9 DEF GiveUpRun, RetireAckRunToken, disk, TypeOK
  <2> QED
    BY <2>1 DEF PlacesInv, StagesAgree, RunsInOnePlace, TokensAreLive
<1>10. ASSUME NEW r \in Run, SettleRun(r) PROVE PlacesInv'
  <2>1. /\ r \in zombies \/ r = active
        /\ IF r = active THEN active' = NoRun /\ UNCHANGED zombies
           ELSE zombies' = zombies \ {r} /\ UNCHANGED active
        /\ ackRunTokens' = ackRunTokens \ {r}
        /\ UNCHANGED <<echoed, ledger, attempt, queue, redrives>>
    BY <1>10 DEF SettleRun, disk
  <2> QED
    BY <2>1 DEF PlacesInv, StagesAgree, RunsInOnePlace, TokensAreLive
<1>11. ASSUME NEW r \in Redrive, QueueRedrive(r) PROVE PlacesInv'
  <2>1. /\ r \notin redrives /\ r # active /\ r \notin zombies
        /\ ackRunTokens' = ackRunTokens \cup {r} /\ redrives' = redrives \cup {r}
        /\ UNCHANGED <<echoed, ledger, attempt, queue, active, zombies>>
    BY <1>11 DEF QueueRedrive, LiveRedrives, disk
  <2>2. r \notin ToSet(queue)
    BY DeliveryAssumption
  <2> QED
    BY <2>1, <2>2 DEF PlacesInv, StagesAgree, RunsInOnePlace, TokensAreLive
<1>12. ASSUME NEW r \in Redrive, StartRedrive(r) PROVE PlacesInv'
  <2>1. /\ active = NoRun /\ r \in redrives /\ redrives' = redrives \ {r}
        /\ \/ active' = r /\ UNCHANGED ackRunTokens
           \/ active' = active /\ ackRunTokens' = ackRunTokens \ {r}
        /\ UNCHANGED <<echoed, ledger, attempt, queue, zombies>>
    BY <1>12 DEF StartRedrive, RetireAckRunToken, disk
  <2>2. r \notin Send /\ r # NoRun
    BY DeliveryAssumption
  <2> QED
    BY <2>1, <2>2 DEF PlacesInv, StagesAgree, RunsInOnePlace, TokensAreLive
<1>13. CASE Crash
  <2>1. \A u \in Send : ledger'[u] # "none" => u \in echoed'
    BY <1>13 DEF Crash, disk, PlacesInv, StagesAgree
  <2> QED
    BY <1>13, <2>1, EndProcessPlaces DEF Crash, PlacesInv
<1>14. CASE RunCheckedTurn \/ TimerFires \/ ResolveFails \/ Boot \/ BootRedrives
  BY <1>14, PassivePlaces DEF RunCheckedTurn, TimerFires, ResolveFails, Boot,
     BootRedrives, disk, runs
<1>15. ASSUME NEW r \in Run, SendMessage(r) PROVE PlacesInv'
  BY <1>15, PassivePlaces DEF SendMessage, runs
<1>16. CASE UNCHANGED vars
  BY <1>16, PassivePlaces DEF vars, disk, runs
<1> QED
  BY <1>1, <1>2, <1>3, <1>4, <1>5, <1>6, <1>7, <1>8, <1>9, <1>10, <1>11, <1>12,
     <1>13, <1>14, <1>15, <1>16 DEF Next
-----------------------------------------------------------------------------
(***************************************************************************)
(* The count of the session's runs, part by part.                          *)
(***************************************************************************)
Attempts == {m \in Send : attempt[m] # "none"}
Held == IF active = NoRun THEN 0 ELSE 1

CountInv ==
    /\ IsFiniteSet(Attempts) /\ IsFiniteSet(redrives) /\ IsFiniteSet(zombies)
    /\ inFlight = Cardinality(Attempts) + Len(queue) + Cardinality(redrives)
                    + Held + Cardinality(zombies)

LEMMA HeldCount == Cardinality({active} \ {NoRun}) = Held
<1>1. CASE active = NoRun
  <2>1. {active} \ {NoRun} = {}
    BY <1>1
  <2> QED
    BY <1>1, <2>1, FS_EmptySet DEF Held
<1>2. CASE active # NoRun
  <2>1. {active} \ {NoRun} = {active}
    BY <1>2
  <2>2. Cardinality({active}) = 1
    BY FS_Singleton
  <2> QED
    BY <1>2, <2>1, <2>2 DEF Held
<1> QED
  BY <1>1, <1>2

LEMMA CountedIsAccounted == CountInv => RunsAreCounted
BY HeldCount DEF CountInv, RunsAreCounted, Holders, Attempts

\* The sizes are naturals, and one element more or less changes one by one.
Sizes == /\ Cardinality(Attempts) \in Nat /\ Len(queue) \in Nat
         /\ Cardinality(redrives) \in Nat /\ Cardinality(zombies) \in Nat
         /\ Held \in {0, 1}

LEMMA SizesType == TypeOK /\ CountInv => Sizes
<1> SUFFICES ASSUME TypeOK, CountInv PROVE Sizes
  OBVIOUS
<1>1. Len(queue) \in Nat
  BY DEF TypeOK
<1>2. Held \in {0, 1}
  BY DEF Held
<1> QED
  BY <1>1, <1>2, FS_CardinalityType DEF CountInv, Sizes

LEMMA OneMore ==
    ASSUME NEW S, NEW x, IsFiniteSet(S), x \notin S
    PROVE  IsFiniteSet(S \cup {x}) /\ Cardinality(S \cup {x}) = Cardinality(S) + 1
BY FS_AddElement

LEMMA OneLess ==
    ASSUME NEW S, NEW x \in S, IsFiniteSet(S)
    PROVE  /\ IsFiniteSet(S \ {x}) /\ Cardinality(S \ {x}) = Cardinality(S) - 1
           /\ Cardinality(S) >= 1
<1>1. IsFiniteSet(S \ {x}) /\ Cardinality(S \ {x}) = Cardinality(S) - 1
  BY FS_RemoveElement
<1>2. Cardinality(S) \in Nat /\ Cardinality(S \ {x}) \in Nat
  BY <1>1, FS_CardinalityType
<1> QED
  BY <1>1, <1>2

LEMMA PassiveCount ==
    ASSUME CountInv, Attempts' = Attempts,
           UNCHANGED <<inFlight, queue, redrives, active, zombies>>
    PROVE  CountInv'
BY DEF CountInv, Held

LEMMA EndProcessCount ==
    ASSUME EndProcess
    PROVE  CountInv'
<1>1. /\ Attempts' = {} /\ queue' = <<>> /\ redrives' = {} /\ active' = NoRun
      /\ zombies' = {} /\ inFlight' = 0
  BY DEF EndProcess, Attempts
<1>2. IsFiniteSet({}) /\ Cardinality({}) = 0 /\ Len(<<>>) = 0
  BY FS_EmptySet
<1> QED
  BY <1>1, <1>2 DEF CountInv, Held

(***************************************************************************)
(* Every begin has its end: endSessionRun is called by whoever leaves one  *)
(* of the places that are counted, and finds a count above zero.           *)
(***************************************************************************)
LEMMA CountPreserved ==
    ASSUME TypeOK, PlacesInv, CountInv, [Next]_vars
    PROVE  CountInv'
<1>0. Sizes
  BY SizesType
<1> USE <1>0 DEF Sizes
<1>1. ASSUME NEW m \in Send, StartAttempt(m) PROVE CountInv'
  <2>1. /\ Attempts' = Attempts \cup {m} /\ m \notin Attempts
        /\ inFlight' = inFlight + 1 /\ Held' = Held
        /\ UNCHANGED <<queue, redrives, zombies>>
    BY <1>1 DEF StartAttempt, BeginSessionRun, Attempts, TypeOK, runs, Held
  <2>2. /\ IsFiniteSet(Attempts')
        /\ Cardinality(Attempts') = Cardinality(Attempts) + 1
    BY <2>1, OneMore DEF CountInv
  <2> QED
    BY <2>1, <2>2 DEF CountInv
<1>2. ASSUME NEW m \in Send, RecordAcceptance(m) PROVE CountInv'
  <2>1. /\ Attempts' = Attempts
        /\ UNCHANGED <<inFlight, queue, redrives, active, zombies>>
    BY <1>2 DEF RecordAcceptance, Attempts, TypeOK, runs
  <2> QED
    BY <2>1, PassiveCount
<1>3. ASSUME NEW m \in Send, Dispatch(m) PROVE CountInv'
  <2>1. /\ Attempts' = Attempts /\ inFlight' = inFlight + 1 /\ Held' = Held
        /\ UNCHANGED <<redrives, zombies>>
    BY <1>3 DEF Dispatch, BeginSessionRun, Attempts, TypeOK, Held
  <2>2. Len(queue') = Len(queue) + 1
    BY <1>3 DEF Dispatch, TypeOK
  <2> QED
    BY <2>1, <2>2 DEF CountInv
<1>4. ASSUME NEW m \in Send, AttemptReturns(m) \/ AttemptThrows(m)
      PROVE  CountInv'
  <2>1. /\ Attempts' = Attempts \ {m} /\ m \in Attempts /\ Held' = Held
        /\ inFlight' = IF inFlight > 1 THEN inFlight - 1 ELSE 0
        /\ UNCHANGED <<queue, redrives, zombies>>
    BY <1>4 DEF AttemptReturns, AttemptThrows, EndSessionRun, Attempts, TypeOK,
       runs, Held
  <2>2. /\ IsFiniteSet(Attempts') /\ Cardinality(Attempts) >= 1
        /\ Cardinality(Attempts') = Cardinality(Attempts) - 1
    BY <2>1, OneLess DEF CountInv
  <2> QED
    BY <2>1, <2>2 DEF CountInv
<1>5. ASSUME NEW m \in Send, CrashInAcceptance(m) PROVE CountInv'
  BY <1>5, EndProcessCount DEF CrashInAcceptance
<1>6. CASE StartTurn
  <2>1. /\ Attempts' = Attempts /\ UNCHANGED <<inFlight, redrives, zombies>>
    BY <1>6 DEF StartTurn, Attempts
  <2>2. Len(queue') = Len(queue) - 1
    BY <1>6 DEF StartTurn, TypeOK
  <2>3. Held = 0 /\ Held' = 1
    BY <1>6, StartTurnPlaces, QueueFacts DEF StartTurn, Held
  <2> QED
    BY <2>1, <2>2, <2>3 DEF CountInv
<1>7. CASE SkipTurn
  <2>1. /\ Attempts' = Attempts /\ Held = 1 /\ Held' = 0
        /\ inFlight' = IF inFlight > 1 THEN inFlight - 1 ELSE 0
        /\ UNCHANGED <<queue, redrives, zombies>>
    BY <1>7 DEF SkipTurn, EndSessionRun, Attempts, TypeOK, Held
  <2> QED
    BY <2>1 DEF CountInv
<1>8. CASE GiveUpRun
  <2>1. /\ Attempts' = Attempts /\ Held = 1 /\ Held' = 0
        /\ zombies' = zombies \cup {active}
        /\ UNCHANGED <<inFlight, queue, redrives>>
    BY <1>8 DEF GiveUpRun, Attempts, TypeOK, Held
  <2>2. active \notin zombies
    BY DEF PlacesInv, RunsInOnePlace
  <2>3. /\ IsFiniteSet(zombies')
        /\ Cardinality(zombies') = Cardinality(zombies) + 1
    BY <2>1, <2>2, OneMore DEF CountInv
  <2> QED
    BY <2>1, <2>3 DEF CountInv
<1>9. ASSUME NEW r \in Run, SettleRun(r) PROVE CountInv'
  <2>1. /\ Attempts' = Attempts
        /\ inFlight' = IF inFlight > 1 THEN inFlight - 1 ELSE 0
        /\ UNCHANGED <<queue, redrives>>
    BY <1>9 DEF SettleRun, EndSessionRun, Attempts
  <2>2. CASE r = active
    <3>1. Held = 1 /\ Held' = 0 /\ UNCHANGED zombies
      BY <1>9, <2>2, QueueFacts DEF SettleRun, Held
    <3> QED
      BY <2>1, <3>1 DEF CountInv
  <2>3. CASE r # active
    <3>1. r \in zombies /\ zombies' = zombies \ {r} /\ Held' = Held
      BY <1>9, <2>3 DEF SettleRun, Held
    <3>2. /\ IsFiniteSet(zombies') /\ Cardinality(zombies) >= 1
          /\ Cardinality(zombies') = Cardinality(zombies) - 1
      BY <3>1, OneLess DEF CountInv
    <3> QED
      BY <2>1, <3>1, <3>2 DEF CountInv
  <2> QED
    BY <2>2, <2>3
<1>10. ASSUME NEW r \in Redrive, QueueRedrive(r) PROVE CountInv'
  <2>1. /\ Attempts' = Attempts /\ inFlight' = inFlight + 1 /\ Held' = Held
        /\ r \notin redrives /\ redrives' = redrives \cup {r}
        /\ UNCHANGED <<queue, zombies>>
    BY <1>10 DEF QueueRedrive, BeginSessionRun, LiveRedrives, Attempts, Held
  <2>2. /\ IsFiniteSet(redrives')
        /\ Cardinality(redrives') = Cardinality(redrives) + 1
    BY <2>1, OneMore DEF CountInv
  <2> QED
    BY <2>1, <2>2 DEF CountInv
<1>11. ASSUME NEW r \in Redrive, StartRedrive(r) PROVE CountInv'
  <2>1. /\ Attempts' = Attempts /\ Held = 0
        /\ r \in redrives /\ redrives' = redrives \ {r}
        /\ \/ Held' = 1 /\ UNCHANGED inFlight
           \/ /\ Held' = 0
              /\ inFlight' = IF inFlight > 1 THEN inFlight - 1 ELSE 0
        /\ UNCHANGED <<queue, zombies>>
    BY <1>11, DeliveryAssumption DEF StartRedrive, EndSessionRun, Attempts, Held
  <2>2. /\ IsFiniteSet(redrives') /\ Cardinality(redrives) >= 1
        /\ Cardinality(redrives') = Cardinality(redrives) - 1
    BY <2>1, OneLess DEF CountInv
  <2> QED
    BY <2>1, <2>2 DEF CountInv
<1>12. CASE Crash
  BY <1>12, EndProcessCount DEF Crash
<1>13. CASE RunCheckedTurn \/ TimerFires \/ ResolveFails \/ Boot \/ BootRedrives
  BY <1>13, PassiveCount DEF RunCheckedTurn, TimerFires, ResolveFails, Boot,
     BootRedrives, runs, Attempts
<1>14. ASSUME NEW r \in Run, SendMessage(r) PROVE CountInv'
  BY <1>14, PassiveCount DEF SendMessage, runs, Attempts
<1>15. CASE UNCHANGED vars
  BY <1>15, PassiveCount DEF vars, runs, Attempts
<1> QED
  BY <1>1, <1>2, <1>3, <1>4, <1>5, <1>6, <1>7, <1>8, <1>9, <1>10, <1>11, <1>12,
     <1>13, <1>14, <1>15 DEF Next
-----------------------------------------------------------------------------
(***************************************************************************)
(* An attempt that is about to record an obligation is itself counted, so  *)
(* clearing the redrive timer there uncovers nothing.                      *)
(***************************************************************************)
LEMMA AttemptIsCounted ==
    ASSUME TypeOK, CountInv, NEW m \in Send, attempt[m] # "none"
    PROVE  inFlight > 0
<1>1. m \in Attempts
  BY DEF Attempts
<1>2. Cardinality(Attempts) >= 1
  BY <1>1, OneLess DEF CountInv
<1> QED
  BY <1>2, SizesType DEF Sizes, CountInv

\* endSessionRun arms the timer when it ends the last run.
LEMMA EndRunCovers ==
    ASSUME TypeOK, NEW owed, NEW timer \in BOOLEAN, EndSessionRun(owed, timer),
           obligation' = owed
    PROVE  RedriveCovered'
<1>1. CASE inFlight > 1
  BY <1>1 DEF EndSessionRun, RedriveCovered, TypeOK
<1>2. CASE ~(inFlight > 1)
  <2>1. inFlight <= 1
    BY <1>2 DEF TypeOK
  <2>2. owed # None => ackRedriveTimer'
    BY <2>1, Zenon DEF EndSessionRun
  <2> QED
    BY <2>2 DEF RedriveCovered
<1> QED
  BY <1>1, <1>2

LEMMA PassiveCovered ==
    ASSUME RedriveCovered,
           UNCHANGED <<up, obligation, inFlight, resolving, bootRedrive,
                       ackRedriveTimer>>
    PROVE  RedriveCovered'
BY DEF RedriveCovered

LEMMA CoveredPreserved ==
    ASSUME TypeOK, CountInv, RedriveCovered, [Next]_vars
    PROVE  RedriveCovered'
<1>0. ackRedriveTimer \in BOOLEAN
  BY DEF TypeOK
<1>1. ASSUME NEW m \in Send, StartAttempt(m) \/ Dispatch(m)
      PROVE  RedriveCovered'
  <2>1. inFlight' > 0
    BY <1>1 DEF StartAttempt, Dispatch, BeginSessionRun, TypeOK
  <2> QED
    BY <2>1 DEF RedriveCovered
<1>2. ASSUME NEW m \in Send, RecordAcceptance(m) PROVE RedriveCovered'
  <2>1. inFlight' = inFlight /\ inFlight > 0
    BY <1>2, AttemptIsCounted DEF RecordAcceptance
  <2> QED
    BY <2>1 DEF RedriveCovered
<1>3. ASSUME NEW m \in Send, AttemptReturns(m) PROVE RedriveCovered'
  <2>1. EndSessionRun(obligation, ackRedriveTimer) /\ obligation' = obligation
    BY <1>3 DEF AttemptReturns, disk
  <2> QED
    BY <1>0, <2>1, EndRunCovers
<1>4. ASSUME NEW m \in Send, AttemptThrows(m) PROVE RedriveCovered'
  <2> DEFINE owed == IF attempt[m] = "recorded" THEN RecordSend(obligation)
                     ELSE obligation
             timer == ackRedriveTimer /\ owed = obligation
  <2>1. EndSessionRun(owed, timer) /\ obligation' = owed
    BY <1>4 DEF AttemptThrows
  <2>2. timer \in BOOLEAN
    OBVIOUS
  <2> HIDE DEF owed, timer
  <2> QED
    BY <2>1, <2>2, EndRunCovers
<1>5. ASSUME NEW m \in Send, CrashInAcceptance(m) PROVE RedriveCovered'
  BY <1>5 DEF CrashInAcceptance, EndProcess, RedriveCovered
<1>6. CASE StartTurn \/ RunCheckedTurn \/ GiveUpRun
  BY <1>6, PassiveCovered DEF StartTurn, RunCheckedTurn, GiveUpRun, disk, timers
<1>7. CASE SkipTurn
  <2>1. EndSessionRun(obligation, ackRedriveTimer) /\ obligation' = obligation
    BY <1>7 DEF SkipTurn, disk
  <2> QED
    BY <1>0, <2>1, EndRunCovers
<1>8. ASSUME NEW r \in Run, SendMessage(r) PROVE RedriveCovered'
  BY <1>8 DEF SendMessage, FulfillAckObligation, RedriveCovered
<1>9. ASSUME NEW r \in Run, SettleRun(r) PROVE RedriveCovered'
  <2>1. EndSessionRun(obligation, ackRedriveTimer) /\ obligation' = obligation
    BY <1>9 DEF SettleRun, disk
  <2> QED
    BY <1>0, <2>1, EndRunCovers
<1>10. CASE TimerFires
  BY <1>10 DEF TimerFires, RedriveCovered, TypeOK
<1>11. CASE ResolveFails
  BY <1>11 DEF ResolveFails, RearmAfterFailure, disk, RedriveCovered, TypeOK
<1>12. ASSUME NEW r \in Redrive, QueueRedrive(r) PROVE RedriveCovered'
  <2>1. inFlight' > 0
    BY <1>12 DEF QueueRedrive, BeginSessionRun, TypeOK
  <2> QED
    BY <2>1 DEF RedriveCovered
<1>13. ASSUME NEW r \in Redrive, StartRedrive(r) PROVE RedriveCovered'
  <2>1. CASE obligation # None
    BY <1>13, <2>1, PassiveCovered DEF StartRedrive, disk
  <2>2. CASE obligation = None
    BY <1>13, <2>2 DEF StartRedrive, disk, RedriveCovered
  <2> QED
    BY <2>1, <2>2
<1>14. CASE Crash
  BY <1>14 DEF Crash, EndProcess, RedriveCovered
<1>15. CASE Boot
  BY <1>15 DEF Boot, RedriveCovered
<1>16. CASE BootRedrives
  BY <1>16 DEF BootRedrives, disk, RedriveCovered, TypeOK
<1>17. CASE UNCHANGED vars
  BY <1>17, PassiveCovered DEF vars, disk, timers
<1> QED
  BY <1>1, <1>2, <1>3, <1>4, <1>5, <1>6, <1>7, <1>8, <1>9, <1>10, <1>11, <1>12,
     <1>13, <1>14, <1>15, <1>16, <1>17 DEF Next

(***************************************************************************)
(* What a message that the ledger knows can rely on, whether or not its    *)
(* attempt has returned.                                                   *)
(***************************************************************************)
KnownIsKept ==
    \A m \in Send : ledger[m] # "none" =>
        \/ m \in dispatched \cup answered \cup lost \cup torn
        \/ obligation # None

LEMMA PassiveKept ==
    ASSUME KnownIsKept,
           UNCHANGED <<ledger, obligation, dispatched, answered, lost, torn>>
    PROVE  KnownIsKept'
BY DEF KnownIsKept

LEMMA KeptPreserved ==
    ASSUME TypeOK, StagesAgree, KnownIsKept, [Next]_vars
    PROVE  KnownIsKept'
<1>0. obligation \in Obligations
  BY DEF TypeOK, Obligations
<1>1. ASSUME NEW m \in Send, StartAttempt(m) PROVE KnownIsKept'
  BY <1>1, PassiveKept DEF StartAttempt, disk, history, failures
<1>2. ASSUME NEW m \in Send, RecordAcceptance(m) PROVE KnownIsKept'
  <2>1. obligation' # None
    BY <1>0, <1>2, RecordSendType DEF RecordAcceptance
  <2> QED
    BY <2>1 DEF KnownIsKept
<1>3. ASSUME NEW m \in Send, Dispatch(m) PROVE KnownIsKept'
  <2>1. obligation' # None
    BY <1>0, <1>3, RecordSendType DEF Dispatch, ConfirmObligation
  <2> QED
    BY <2>1 DEF KnownIsKept
<1>4. ASSUME NEW m \in Send, AttemptReturns(m) PROVE KnownIsKept'
  BY <1>4, PassiveKept DEF AttemptReturns, disk, history, failures
<1>5. ASSUME NEW m \in Send, AttemptThrows(m) PROVE KnownIsKept'
  <2>1. obligation' # None \/ obligation' = obligation
    BY <1>0, <1>5, RecordSendType DEF AttemptThrows
  <2>2. /\ ledger' = [ledger EXCEPT ![m] = "none"]
        /\ UNCHANGED <<dispatched, answered, lost, torn>>
    BY <1>5 DEF AttemptThrows, history
  <2> QED
    BY <2>1, <2>2 DEF KnownIsKept, TypeOK
<1>6. ASSUME NEW m \in Send, CrashInAcceptance(m) PROVE KnownIsKept'
  BY <1>6 DEF CrashInAcceptance, EndProcess, history, KnownIsKept, TypeOK
<1>7. CASE StartTurn \/ RunCheckedTurn \/ SkipTurn \/ GiveUpRun
  BY <1>7, PassiveKept DEF StartTurn, RunCheckedTurn, SkipTurn, GiveUpRun,
     disk, history, failures
<1>8. ASSUME NEW r \in Run, SendMessage(r) PROVE KnownIsKept'
  BY <1>8 DEF SendMessage, StagesAgree, KnownIsKept
<1>9. ASSUME NEW r \in Run, SettleRun(r) PROVE KnownIsKept'
  BY <1>9, PassiveKept DEF SettleRun, disk, history, failures
<1>10. CASE TimerFires
  <2>1. /\ UNCHANGED <<ledger, dispatched, answered, torn>>
        /\ lost \subseteq lost'
        /\ obligation # None /\ obligation' = None => echoed \ answered \subseteq lost'
        /\ obligation = None => obligation' = None
    BY <1>0, <1>10, RedriveType DEF TimerFires, failures
  <2> QED
    BY <2>1 DEF StagesAgree, KnownIsKept
<1>11. CASE ResolveFails
  BY <1>11, PassiveKept DEF ResolveFails, disk, history
<1>12. ASSUME NEW r \in Redrive, QueueRedrive(r) \/ StartRedrive(r)
       PROVE  KnownIsKept'
  BY <1>12, PassiveKept DEF QueueRedrive, StartRedrive, disk, history, failures
<1>13. CASE Crash
  BY <1>13, PassiveKept DEF Crash, EndProcess, disk, history
<1>14. CASE Boot \/ BootRedrives
  BY <1>14, PassiveKept DEF Boot, BootRedrives, disk, history, failures
<1>15. CASE UNCHANGED vars
  BY <1>15, PassiveKept DEF vars, disk, history, failures
<1> QED
  BY <1>1, <1>2, <1>3, <1>4, <1>5, <1>6, <1>7, <1>8, <1>9, <1>10, <1>11, <1>12,
     <1>13, <1>14, <1>15 DEF Next

AccountInv == PlacesInv /\ CountInv /\ RedriveCovered /\ KnownIsKept

(***************************************************************************)
(* The second inductive invariant, over the first: places and counts of    *)
(* the runs, the cover of the obligation, and the ledger's promise, across *)
(* every path of sendPromptOnce, runTurn and a redrive.                    *)
(***************************************************************************)
THEOREM AccountInvariant == Spec => []AccountInv
<1>1. Init => AccountInv
  <2> SUFFICES ASSUME Init PROVE AccountInv
    OBVIOUS
  <2>1. ToSet(queue) = {} /\ IsInjective(queue)
    BY ToSetEmpty DEF Init, IsInjective
  <2>2. PlacesInv
    BY <2>1, DeliveryAssumption
       DEF Init, PlacesInv, StagesAgree, RunsInOnePlace, TokensAreLive
  <2>3. Attempts = {} /\ redrives = {} /\ zombies = {} /\ queue = <<>> /\ Held = 0
    BY DEF Init, Attempts, Held
  <2>4. IsFiniteSet({}) /\ Cardinality({}) = 0 /\ Len(<<>>) = 0
    BY FS_EmptySet
  <2>5. CountInv
    BY <2>3, <2>4 DEF Init, CountInv
  <2>6. RedriveCovered /\ KnownIsKept
    BY DEF Init, RedriveCovered, KnownIsKept
  <2> QED
    BY <2>2, <2>5, <2>6 DEF AccountInv
<1>2. DeliveryInv /\ AccountInv /\ [Next]_vars => AccountInv'
  BY PlacesPreserved, CountPreserved, CoveredPreserved, KeptPreserved
     DEF DeliveryInv, AccountInv, PlacesInv
<1> QED
  BY <1>1, <1>2, DeliveryInvariant, PTL DEF Spec

(***************************************************************************)
(* The session's run count equals the attempts and runs that will still    *)
(* end it, and a token is live exactly while its run is queued or holds    *)
(* the queue (beginSessionRun, endSessionRun, retireAckRunToken), for any  *)
(* number of messages, redrives and crashes.                               *)
(***************************************************************************)
THEOREM RunsAlwaysAccounted == Spec => []RunsAreAccounted
<1>1. AccountInv => RunsAreAccounted
  BY CountedIsAccounted DEF AccountInv, PlacesInv, RunsAreAccounted
<1> QED
  BY <1>1, AccountInvariant, PTL

(***************************************************************************)
(* An idle host that owes a reply has the redrive timer armed              *)
(* (endSessionRun, redriveAckObligation, start-up).                        *)
(***************************************************************************)
THEOREM RedriveAlwaysCovered == Spec => []RedriveCovered
<1>1. AccountInv => RedriveCovered
  BY DEF AccountInv
<1> QED
  BY <1>1, AccountInvariant, PTL

(***************************************************************************)
(* A send that is answered as a duplicate was dispatched, is owed a reply  *)
(* or got one, or was cut by a crash after its nonce was written.          *)
(***************************************************************************)
THEOREM DuplicateAlwaysKept == Spec => []DuplicateIsKept
<1>1. AccountInv => DuplicateIsKept
  BY DEF AccountInv, KnownIsKept, DuplicateIsKept, AnswersDuplicate
<1> QED
  BY <1>1, AccountInvariant, PTL
=============================================================================
