----------------------- MODULE TurnOrchestratorProofs -----------------------
(***************************************************************************)
(* Proofs about TurnOrchestrator, for every set of turns, slots, clients   *)
(* and messages, every retry bound and every adapter: the locks and the    *)
(* attempts, the bot at rest, and what is counted about a turn.            *)
(***************************************************************************)
EXTENDS TurnOrchestrator, TLAPS, SequenceTheorems, FiniteSetTheorems

(* What the operations of TurnFSM do to a snapshot. *)
LEMMA TransitionFacts ==
    ASSUME NEW snap \in TurnSnapshot, NEW t \in Turns,
           NEW next \in TurnState, NEW error \in LastError
    PROVE  /\ Transition(snap, t, next, error) \in TurnSnapshot
           /\ Transition(snap, t, next, error).turn_id = snap.turn_id
  <1> DEFINE illegal == [snap EXCEPT !.state = "ERROR", !.error = "illegal", !.aged = FALSE]
             legal   == [snap EXCEPT !.state = next, !.aged = FALSE,
                                     !.error = IF error = "none" THEN @ ELSE error]
  <1>1. illegal \in TurnSnapshot /\ illegal.turn_id = snap.turn_id
    BY DEF TurnSnapshot, TurnState, LastError
  <1>2. legal \in TurnSnapshot /\ legal.turn_id = snap.turn_id
    BY DEF TurnSnapshot
  <1>3. Transition(snap, t, next, error) \in {snap, illegal, legal}
    BY DEF Transition
  <1>4. QED BY <1>1, <1>2, <1>3

LEMMA TouchFacts ==
    ASSUME NEW snap \in TurnSnapshot, NEW t \in Turns
    PROVE  /\ Touch(snap, t) \in TurnSnapshot
           /\ Touch(snap, t).turn_id = snap.turn_id
           /\ Touch(snap, t).state = snap.state
  BY DEF Touch, TurnSnapshot

LEMMA IdleFacts ==
    /\ IdleSnapshot \in TurnSnapshot
    /\ IdleSnapshot.state = "IDLE"
    /\ IdleSnapshot.turn_id = NoTurn
  BY DEF IdleSnapshot, TurnSnapshot, TurnState, LastError

LEMMA BeginFacts ==
    ASSUME NEW t \in Turns
    PROVE  BeginTurn(t) \in TurnSnapshot /\ BeginTurn(t).turn_id = t
  BY DEF BeginTurn, TurnSnapshot, TurnState, LastError

LEMMA FinishFacts ==
    ASSUME NEW snap \in TurnSnapshot, NEW t \in Turns
    PROVE  /\ FinishTurn(snap, t) \in TurnSnapshot
           /\ snap.turn_id \in {NoTurn, t} => FinishTurn(snap, t) = IdleSnapshot
           /\ snap.turn_id \notin {NoTurn, t} => FinishTurn(snap, t) = snap
  BY IdleFacts DEF FinishTurn, Stale

LEMMA RecoverFacts ==
    ASSUME NEW snap \in TurnSnapshot
    PROVE  /\ RecoverStale(snap) \in TurnSnapshot
           /\ \/ RecoverStale(snap) = snap
              \/ /\ RecoverStale(snap).state = "IDLE"
                 /\ RecoverStale(snap).turn_id = NoTurn
  BY DEF RecoverStale, IdleSnapshot, TurnSnapshot, TurnState, LastError

LEMMA AgedFacts ==
    ASSUME NEW snap \in TurnSnapshot
    PROVE  /\ [snap EXCEPT !.aged = TRUE] \in TurnSnapshot
           /\ [snap EXCEPT !.aged = TRUE].turn_id = snap.turn_id
           /\ [snap EXCEPT !.aged = TRUE].state = snap.state
  BY DEF TurnSnapshot

LEMMA RemoveType ==
    ASSUME NEW S, NEW s \in Seq(S), NEW i \in DOMAIN s
    PROVE  RemoveAt(s, i) \in Seq(S)
  <1>1. i \in 1..Len(s)
    OBVIOUS
  <1>2. SubSeq(s, 1, i - 1) \in Seq(S) /\ SubSeq(s, i + 1, Len(s)) \in Seq(S)
    BY <1>1, SubSeqProperties
  <1>3. QED BY <1>2 DEF RemoveAt

-----------------------------------------------------------------------------
(* A call of request_cancel that is under way names a turn. *)
CancelNamesTurn ==
    \A c \in Clients : canceller[c].pc # "idle" => canceller[c].turn \in Turns

TypeInv == TypeOK /\ CancelNamesTurn

LEMMA TypeInit == Init => TypeInv
  <1> SUFFICES ASSUME Init PROVE TypeInv
    OBVIOUS
  <1>1. recoveryDone \in BOOLEAN
    BY DEF Init
  <1>2. CancelNamesTurn
    BY DEF Init, CancelNamesTurn, NoCall
  <1>3. fsm \in [Bots -> TurnSnapshot]
    BY IdleFacts DEF Init
  <1>4. canceller \in [Clients -> CancelCall]
    BY DEF Init, CancelCall, NoCall
  <1>5. QED
    BY <1>1, <1>2, <1>3, <1>4 DEF Init, TypeInv, TypeOK, StarterPC, ExecutorPC

LEMMA StarterType ==
    ASSUME TypeInv, NEW t \in Turns, StarterStep(t) \/ CancelWatching(t)
    PROVE  TypeInv'
  <1> USE ConstantsAssumption DEF TypeInv, TypeOK, CancelNamesTurn, StarterPC,
          starterVars, executorVars, statusVars, history, Goto
  <1>1. CASE StartTurn(t)
    <2> DEFINE recovered == [b \in Bots |-> RecoverStale(fsm[b])]
    <2>1. recovered \in [Bots -> TurnSnapshot]
      BY RecoverFacts
    <2>2. fsm' = recovered \/ fsm' = [recovered EXCEPT ![BotOf[t]] = BeginTurn(t)]
      BY <1>1 DEF StartTurn
    <2>3. fsm' \in [Bots -> TurnSnapshot]
      BY <2>1, <2>2, BeginFacts
    <2>4. seen' \subseteq Bots \X Msgs
      BY <1>1 DEF StartTurn, TurnKey
    <2>5. pc' \in [Turns -> StarterPC] /\ latest' \in [Bots -> Turns \cup {NoTurn}]
      <3>1. pc' = [pc EXCEPT ![t] = "begun"] \/ pc' = [pc EXCEPT ![t] = "rejected"]
        BY <1>1 DEF StartTurn
      <3>2. latest' = latest \/ latest' = [latest EXCEPT ![BotOf[t]] = t]
        BY <1>1 DEF StartTurn
      <3>3. pc' \in [Turns -> StarterPC]
        BY <3>1
      <3>4. latest' \in [Bots -> Turns \cup {NoTurn}]
        BY <3>2
      <3>5. QED BY <3>3, <3>4
    <2>6. /\ UNCHANGED <<attempt, active, kill, ex, exkill, lock, waiters, refs, shown>>
          /\ UNCHANGED <<mark, canceller, recoveryDone, sent, cancelled>>
      BY <1>1 DEF StartTurn
    <2>7. QED BY <2>3, <2>4, <2>5, <2>6
  <1>2. CASE Transcribe(t)
    BY <1>2, TransitionFacts DEF Transcribe, FSMTransition, TurnState, LastError
  <1>3. CASE Stream(t)
    BY <1>3, TransitionFacts DEF Stream, FSMTransition, TurnState, LastError
  <1>4. CASE Register(t)
    BY <1>4, TouchFacts DEF Register
  <1>5. CASE Spawn(t)
    BY <1>5 DEF Spawn, ExecutorPC
  <1>6. CASE Heartbeat(t)
    BY <1>6, TouchFacts DEF Heartbeat
  <1>7. CASE Succeed(t)
    BY <1>7, TransitionFacts DEF Succeed, FSMTransition, TurnState, LastError
  <1>8. ASSUME AfterFailure(t)
        PROVE  fsm' \in [Bots -> TurnSnapshot] /\ pc' \in [Turns -> StarterPC]
    <2>1. CASE attempt[t] <= RetryMax
      BY <1>8, <2>1 DEF AfterFailure
    <2>2. CASE ~(attempt[t] <= RetryMax)
      <3>1. pc' \in [Turns -> StarterPC]
        BY <1>8, <2>2 DEF AfterFailure
      <3>2. fsm' = [fsm EXCEPT ![BotOf[t]] = Transition(@, t, "ERROR", "reported")]
        BY <1>8, <2>2 DEF AfterFailure, FSMTransition
      <3>3. QED BY <3>1, <3>2, TransitionFacts DEF TurnState, LastError
    <2>3. QED BY <2>1, <2>2
  <1>9. CASE ExecutorRaised(t)
    BY <1>8, <1>9 DEF ExecutorRaised
  <1>10. CASE Timeout(t)
    BY <1>10 DEF Timeout
  <1>11. CASE TimeoutAfterFinish(t)
    BY <1>8, <1>11 DEF TimeoutAfterFinish
  <1>12. CASE Reap(t)
    BY <1>8, <1>12 DEF Reap
  <1>13. CASE Retry(t)
    <2>1. attempt' \in [Turns -> Nat]
      BY <1>13 DEF Retry
    <2>2. fsm' \in [Bots -> TurnSnapshot] /\ pc' \in [Turns -> StarterPC]
      BY <1>13, TouchFacts DEF Retry
    <2>3. /\ UNCHANGED <<active, kill, ex, exkill, lock, waiters, refs, shown, mark>>
          /\ UNCHANGED <<canceller, seen, recoveryDone, latest, sent, cancelled>>
      BY <1>13 DEF Retry
    <2>4. QED BY <2>1, <2>2, <2>3
  <1>14. CASE CancelWatching(t)
    BY <1>14, TransitionFacts DEF CancelWatching, FSMTransition, TurnState, LastError
  <1>15. CASE FinishStarter(t)
    BY <1>15, FinishFacts DEF FinishStarter
  <1>16. QED
    BY <1>1, <1>2, <1>3, <1>4, <1>5, <1>6, <1>7, <1>9, <1>10, <1>11, <1>12, <1>13,
       <1>14, <1>15 DEF StarterStep

LEMMA ExecutorType ==
    ASSUME TypeInv, NEW t \in Turns, ExecutorStep(t)
    PROVE  TypeInv'
  <1> USE ConstantsAssumption DEF TypeInv, TypeOK, CancelNamesTurn, ExecutorPC,
          starterVars, executorVars, statusVars, history, ExecutorGoto, ExecutorAt,
          Acquire, Release
  <1>1. ASSUME NEW b \in Bots, ClearProcessing(b)
        PROVE  refs' \in [Bots -> Nat] /\ shown' \subseteq Bots
    <2>1. refs' \in [Bots -> Nat]
      BY <1>1 DEF ClearProcessing
    <2>2. QED BY <1>1, <2>1 DEF ClearProcessing
  <1>2. CASE Announce(t)
    BY <1>2 DEF Announce, SetProcessing
  <1>3. CASE SlotGone(t)
    BY <1>3 DEF SlotGone
  <1>4. CASE QueueForLock(t)
    <2>1. CASE /\ lock' = [lock EXCEPT ![BotOf[t]] = t]
               /\ ex' = [ex EXCEPT ![t] = "locked"]
               /\ UNCHANGED waiters
      <3>1. lock' \in [Bots -> Turns \cup {NoTurn}] /\ ex' \in [Turns -> ExecutorPC]
        BY <2>1
      <3>2. QED BY <1>4, <2>1, <3>1 DEF QueueForLock
    <2>2. CASE /\ waiters' = [waiters EXCEPT ![BotOf[t]] = Append(@, t)]
               /\ ex' = [ex EXCEPT ![t] = "waiting"]
               /\ UNCHANGED lock
      <3>1. waiters' \in [Bots -> Seq(Turns)]
        BY <2>2
      <3>2. QED BY <1>4, <2>2, <3>1 DEF QueueForLock
    <2>3. QED BY <1>4, <2>1, <2>2 DEF QueueForLock
  <1>5. CASE WakeFirst(t)
    <2>1. Tail(waiters[BotOf[t]]) \in Seq(Turns)
      BY <1>5 DEF WakeFirst
    <2>2. waiters' \in [Bots -> Seq(Turns)]
      BY <1>5, <2>1 DEF WakeFirst
    <2>3. QED BY <1>5, <2>2 DEF WakeFirst
  <1>6. CASE Submit(t)
    BY <1>6 DEF Submit
  <1>7. CASE ReplySpoken(t)
    BY <1>7 DEF ReplySpoken
  <1>8. CASE Complete(t)
    BY <1>1, <1>8 DEF Complete
  <1>9. CASE AgentRaises(t)
    BY <1>9 DEF AgentRaises
  <1>10. CASE Unwind(t)
    BY <1>1, <1>10 DEF Unwind
  <1>11. CASE AbortUnguarded(t)
    BY <1>11 DEF AbortUnguarded
  <1>12. CASE AbortWaiting(t)
    <2>1. waiters' \in [Bots -> Seq(Turns)]
      <3>1. PICK i \in DOMAIN waiters[BotOf[t]] :
                waiters' = [waiters EXCEPT ![BotOf[t]] = RemoveAt(@, i)]
        BY <1>12 DEF AbortWaiting
      <3>2. RemoveAt(waiters[BotOf[t]], i) \in Seq(Turns)
        BY RemoveType
      <3>3. QED BY <3>1, <3>2
    <2>2. QED BY <1>12, <2>1 DEF AbortWaiting
  <1>13. CASE AbortHolding(t)
    BY <1>1, <1>13 DEF AbortHolding
  <1>14. QED
    BY <1>2, <1>3, <1>4, <1>5, <1>6, <1>7, <1>8, <1>9, <1>10, <1>11, <1>12, <1>13
       DEF ExecutorStep

LEMMA OtherType ==
    ASSUME TypeInv,
           \/ \E t \in Turns : PollRecovered(t)
           \/ \E c \in Clients : CancelStep(c)
           \/ \E key \in seen : ForgetTurn(key)
           \/ \E found \in SUBSET Orphaned : RecoverActiveTurns(found)
           \/ \E b \in Bots : AgeSnapshot(b) \/ ExpireStatus(b)
    PROVE  TypeInv'
  <1> USE ConstantsAssumption DEF TypeInv, TypeOK, CancelNamesTurn, StarterPC,
          starterVars, executorVars, statusVars, history, Goto, FSMTransition,
          CancelCall, NoCall
  <1>1. CASE \E t \in Turns : PollRecovered(t)
    BY <1>1 DEF PollRecovered
  <1>2. ASSUME NEW c \in Clients, NEW t \in Turns, RequestCancel(c, t)
        PROVE  TypeInv'
    <2>1. fsm' \in [Bots -> TurnSnapshot]
      <3>1. \/ fsm' = fsm
            \/ fsm' = [fsm EXCEPT ![BotOf[t]] = Transition(@, t, "INTERRUPTED", "reported")]
        BY <1>2 DEF RequestCancel
      <3>2. Transition(fsm[BotOf[t]], t, "INTERRUPTED", "reported") \in TurnSnapshot
        BY TransitionFacts DEF TurnState, LastError
      <3>3. QED BY <3>1, <3>2
    <2>2. \E label \in {"adapter", "closing"} :
              canceller' = [canceller EXCEPT ![c] = [pc |-> label, turn |-> t, ok |-> FALSE]]
      BY <1>2 DEF RequestCancel
    <2>3. canceller' \in [Clients -> CancelCall] /\ CancelNamesTurn'
      BY <2>2
    <2>4. mark' \subseteq Bots
      BY <1>2 DEF RequestCancel
    <2>5. QED BY <1>2, <2>1, <2>3, <2>4 DEF RequestCancel
  <1>3. ASSUME NEW c \in Clients, AdapterCancelled(c)
        PROVE  TypeInv'
    <2>1. canceller[c].turn \in Turns
      BY <1>3 DEF AdapterCancelled
    <2>2. fsm' \in [Bots -> TurnSnapshot]
      BY <1>3, <2>1, TransitionFacts DEF AdapterCancelled, TurnState, LastError
    <2>3. kill' \subseteq Turns /\ exkill' \subseteq Turns
      BY <1>3, <2>1 DEF AdapterCancelled, CancelTask
    <2>4. PICK ok \in BOOLEAN :
              canceller' = [canceller EXCEPT ![c] =
                               [pc |-> "closing", turn |-> canceller[c].turn, ok |-> ok]]
      BY <1>3 DEF AdapterCancelled
    <2>5. canceller' \in [Clients -> CancelCall] /\ CancelNamesTurn'
      BY <2>1, <2>4
    <2>6. QED BY <1>3, <2>2, <2>3, <2>5 DEF AdapterCancelled
  <1>4. ASSUME NEW c \in Clients, AdapterCancelRaises(c)
        PROVE  TypeInv'
    BY <1>4 DEF AdapterCancelRaises
  <1>5. ASSUME NEW c \in Clients, FinishCancel(c)
        PROVE  TypeInv'
    <2>1. canceller[c].turn \in Turns
      BY <1>5 DEF FinishCancel
    <2>2. fsm' \in [Bots -> TurnSnapshot]
      BY <1>5, <2>1, FinishFacts DEF FinishCancel
    <2>3. QED BY <1>5, <2>1, <2>2 DEF FinishCancel
  <1>6. CASE \E key \in seen : ForgetTurn(key)
    BY <1>6 DEF ForgetTurn
  <1>7. CASE \E found \in SUBSET Orphaned : RecoverActiveTurns(found)
    BY <1>7 DEF RecoverActiveTurns
  <1>8. CASE \E b \in Bots : AgeSnapshot(b) \/ ExpireStatus(b)
    <2>1. PICK b \in Bots : AgeSnapshot(b) \/ ExpireStatus(b)
      BY <1>8
    <2>2. CASE AgeSnapshot(b)
      <3>1. [fsm[b] EXCEPT !.aged = TRUE] \in TurnSnapshot
        BY AgedFacts
      <3>2. fsm' \in [Bots -> TurnSnapshot]
        BY <2>2, <3>1 DEF AgeSnapshot
      <3>3. QED BY <2>2, <3>2 DEF AgeSnapshot
    <2>3. CASE ExpireStatus(b)
      BY <2>3 DEF ExpireStatus
    <2>4. QED BY <2>1, <2>2, <2>3
  <1>9. QED
    BY <1>1, <1>2, <1>3, <1>4, <1>5, <1>6, <1>7, <1>8 DEF CancelStep

LEMMA TypeStep ==
    ASSUME TypeInv, [Next]_vars
    PROVE  TypeInv'
  <1>1. CASE UNCHANGED vars
    BY <1>1 DEF vars, starterVars, executorVars, statusVars, history, TypeInv,
                TypeOK, CancelNamesTurn
  <1>2. CASE Next
    BY <1>1, <1>2, StarterType, ExecutorType, OtherType,
       ConstantsAssumption DEF Next
  <1>3. QED BY <1>1, <1>2

(* Every reachable state has the shape TypeOK gives it. *)
THEOREM TypeCorrect == Spec => []TypeOK
  <1>1. TypeInv /\ [Next]_vars => TypeInv'
    BY TypeStep
  <1>2. TypeInv => TypeOK
    BY DEF TypeInv
  <1>3. QED BY TypeInit, <1>1, <1>2, PTL DEF Spec

-----------------------------------------------------------------------------
(* The send lock.  An executor is spawned only over one that has ended, so the
   only way into and out of the critical section is through the lock. *)

LockInv == LockDiscipline /\ RetryAfterReap

LEMMA LockInit == Init => LockInv
  BY ConstantsAssumption, NoTurnAssumption
     DEF Init, LockInv, LockDiscipline, RetryAfterReap, Holding, Finished

LEMMA StarterLock ==
    ASSUME TypeInv, LockInv, NEW t \in Turns, StarterStep(t) \/ CancelWatching(t)
    PROVE  LockInv'
  <1> USE DEF TypeInv, TypeOK, LockInv, executorVars, Goto
  <1>1. CASE Spawn(t)
    <2>1. ex[t] \in Finished \cup {"none"}
      BY <1>1 DEF Spawn, RetryAfterReap
    <2>2. lock' = lock /\ ex' = [ex EXCEPT ![t] = "start"] /\ pc' = [pc EXCEPT ![t] = "watch"]
      BY <1>1 DEF Spawn
    <2>3. LockDiscipline'
      BY <2>1, <2>2 DEF LockDiscipline, Holding, Finished
    <2>4. RetryAfterReap'
      BY <2>2 DEF RetryAfterReap
    <2>5. QED BY <2>3, <2>4
  <1>2. CASE Timeout(t)
    BY <1>2 DEF Timeout, LockDiscipline, RetryAfterReap
  <1>3. CASE ~Spawn(t) /\ ~Timeout(t)
    <2>1. ex' = ex /\ lock' = lock
      BY <1>3 DEF StarterStep, StartTurn, Transcribe, Stream, Register, Heartbeat,
                  Succeed, ExecutorRaised, TimeoutAfterFinish, Reap, Retry,
                  CancelWatching, FinishStarter
    <2>2. \/ pc' = pc
          \/ \E label \in StarterPC :
                /\ pc' = [pc EXCEPT ![t] = label]
                /\ \/ ex[t] \in Finished \cup {"none"}
                   \/ label \in {"closing", "done", "rejected"}
      <3>1. CASE StartTurn(t)
        BY <3>1 DEF StartTurn, RetryAfterReap, StarterPC
      <3>2. CASE Transcribe(t) \/ Stream(t) \/ Register(t) \/ Retry(t)
        BY <3>2 DEF Transcribe, Stream, Register, Retry, RetryAfterReap, StarterPC
      <3>3. CASE Heartbeat(t)
        BY <3>3 DEF Heartbeat, starterVars
      <3>4. CASE Succeed(t) \/ CancelWatching(t) \/ FinishStarter(t)
        BY <3>4 DEF Succeed, CancelWatching, FinishStarter, StarterPC
      <3>5. CASE ExecutorRaised(t) \/ TimeoutAfterFinish(t) \/ Reap(t)
        BY <3>5 DEF ExecutorRaised, TimeoutAfterFinish, Reap, AfterFailure, Finished,
                    StarterPC
      <3>6. QED BY <1>3, <3>1, <3>2, <3>3, <3>4, <3>5 DEF StarterStep
    <2>3. LockDiscipline'
      BY <2>1 DEF LockDiscipline
    <2>4. RetryAfterReap'
      BY <2>1, <2>2 DEF RetryAfterReap
    <2>5. QED BY <2>3, <2>4
  <1>4. QED BY <1>1, <1>2, <1>3

LEMMA ExecutorLock ==
    ASSUME TypeInv, LockInv, NEW t \in Turns, ExecutorStep(t)
    PROVE  LockInv'
  <1> USE ConstantsAssumption, NoTurnAssumption
      DEF TypeInv, TypeOK, LockInv, executorVars, starterVars, ExecutorAt, ExecutorGoto
  <1>1. pc' = pc /\ ex[t] \notin Finished \cup {"none"}
        /\ \E label \in ExecutorPC : ex' = [ex EXCEPT ![t] = label]
    BY DEF ExecutorStep, Announce, SlotGone, QueueForLock, WakeFirst, Submit,
           ReplySpoken, Complete, AgentRaises, Unwind, AbortUnguarded, AbortWaiting,
           AbortHolding, Finished, Holding, ExecutorPC
  <1>2. RetryAfterReap'
    BY <1>1 DEF RetryAfterReap
  <1>3. LockDiscipline'
    <2>1. CASE /\ lock' = lock
               /\ \E label \in ExecutorPC :
                     /\ ex' = [ex EXCEPT ![t] = label]
                     /\ ex[t] \in Holding <=> label \in Holding
      BY <2>1 DEF LockDiscipline
    <2>2. CASE /\ lock[BotOf[t]] = NoTurn
               /\ lock' = [lock EXCEPT ![BotOf[t]] = t]
               /\ ex' = [ex EXCEPT ![t] = "locked"]
      BY <2>2 DEF LockDiscipline, Holding
    <2>3. CASE /\ ex[t] \in Holding
               /\ lock' = [lock EXCEPT ![BotOf[t]] = NoTurn]
               /\ \E label \in ExecutorPC \ Holding : ex' = [ex EXCEPT ![t] = label]
      BY <2>3 DEF LockDiscipline
    <2>4. CASE Announce(t) \/ SlotGone(t) \/ Submit(t) \/ ReplySpoken(t) \/ Unwind(t)
               \/ AbortUnguarded(t) \/ AbortWaiting(t)
      BY <2>1, <2>4 DEF Announce, SlotGone, Submit, ReplySpoken, Unwind, AbortUnguarded,
                        AbortWaiting, Holding, ExecutorPC
    <2>5. CASE QueueForLock(t)
      <3>1. CASE ex' = [ex EXCEPT ![t] = "waiting"] /\ lock' = lock
        BY <2>1, <2>5, <3>1 DEF QueueForLock, Holding, ExecutorPC
      <3>2. QED BY <2>2, <2>5, <3>1 DEF QueueForLock, Acquire
    <2>6. CASE WakeFirst(t)
      BY <2>2, <2>6 DEF WakeFirst, Acquire
    <2>7. ASSUME Release(BotOf[t]), ex[t] \in Holding,
                 NEW label \in {"ok", "unwind"}, ExecutorGoto(t, label)
          PROVE  LockDiscipline'
      BY <2>3, <2>7 DEF Release, Holding, ExecutorPC
    <2>8. CASE Complete(t)
      BY <2>7, <2>8 DEF Complete, Holding
    <2>9. CASE AgentRaises(t)
      BY <2>7, <2>9 DEF AgentRaises, Holding
    <2>10. CASE AbortHolding(t)
      BY <2>7, <2>10 DEF AbortHolding
    <2>11. QED BY <2>4, <2>5, <2>6, <2>8, <2>9, <2>10 DEF ExecutorStep
  <1>4. QED BY <1>2, <1>3

LEMMA OtherLock ==
    ASSUME TypeInv, LockInv,
           \/ \E t \in Turns : PollRecovered(t)
           \/ \E c \in Clients : CancelStep(c)
           \/ \E key \in seen : ForgetTurn(key)
           \/ \E found \in SUBSET Orphaned : RecoverActiveTurns(found)
           \/ \E b \in Bots : AgeSnapshot(b) \/ ExpireStatus(b)
    PROVE  LockInv'
  <1>1. ex' = ex /\ lock' = lock
    BY DEF PollRecovered, CancelStep, RequestCancel, AdapterCancelled,
           AdapterCancelRaises, FinishCancel, ForgetTurn, RecoverActiveTurns,
           AgeSnapshot, ExpireStatus, executorVars
  <1>2. \A t \in Turns : pc'[t] # pc[t] => pc'[t] \in {"recovered", "done"}
    BY DEF TypeInv, TypeOK, PollRecovered, CancelStep, RequestCancel, AdapterCancelled,
           AdapterCancelRaises, FinishCancel, ForgetTurn, RecoverActiveTurns,
           AgeSnapshot, ExpireStatus, starterVars, Goto
  <1>3. LockDiscipline'
    BY <1>1 DEF LockInv, LockDiscipline
  <1>4. RetryAfterReap'
    BY <1>1, <1>2 DEF LockInv, RetryAfterReap
  <1>5. QED BY <1>3, <1>4 DEF LockInv

LEMMA LockInvariance == Spec => [](TypeInv /\ LockInv)
  <1>1. TypeInv /\ LockInv /\ [Next]_vars => (TypeInv /\ LockInv)'
    <2> SUFFICES ASSUME TypeInv, LockInv, [Next]_vars PROVE TypeInv' /\ LockInv'
      OBVIOUS
    <2>1. TypeInv'
      BY TypeStep
    <2>2. CASE UNCHANGED vars
      <3>1. pc' = pc /\ ex' = ex /\ lock' = lock
        BY <2>2 DEF vars, starterVars, executorVars
      <3>2. LockDiscipline'
        BY <3>1 DEF LockInv, LockDiscipline
      <3>3. RetryAfterReap'
        BY <3>1 DEF LockInv, RetryAfterReap
      <3>4. QED BY <2>1, <3>2, <3>3 DEF LockInv
    <2>3. CASE \E t \in Turns : StarterStep(t) \/ CancelWatching(t)
      BY <2>1, <2>3, StarterLock
    <2>4. CASE \E t \in Turns : ExecutorStep(t)
      BY <2>1, <2>4, ExecutorLock
    <2>5. CASE \/ \E t \in Turns : PollRecovered(t)
               \/ \E c \in Clients : CancelStep(c)
               \/ \E key \in seen : ForgetTurn(key)
               \/ \E found \in SUBSET Orphaned : RecoverActiveTurns(found)
               \/ \E b \in Bots : AgeSnapshot(b) \/ ExpireStatus(b)
      BY <2>1, <2>5, OtherLock
    <2>6. CASE Quiescent /\ UNCHANGED vars
      BY <2>2, <2>6
    <2>7. QED BY <2>2, <2>3, <2>4, <2>5, <2>6, ConstantsAssumption DEF Next
  <1>2. QED BY TypeInit, LockInit, <1>1, PTL DEF Spec

(* The lock of a bot is held exactly by the executor inside its critical section. *)
THEOREM LockHeldByHolder == Spec => []LockDiscipline
  <1>1. TypeInv /\ LockInv => LockDiscipline
    BY DEF LockInv
  <1>2. QED BY LockInvariance, <1>1, PTL

(* Two turns of one bot never talk to the agent at the same time. *)
THEOREM MutualExclusion == Spec => []AgentExclusive
  <1>1. TypeInv /\ LockInv => AgentExclusive
    BY DEF LockInv, LockDiscipline, AgentExclusive
  <1>2. QED BY LockInvariance, <1>1, PTL

(* A retry never overlaps the attempt it replaces. *)
THEOREM NoOverlappingAttempts == Spec => []RetryAfterReap
  <1>1. TypeInv /\ LockInv => RetryAfterReap
    BY DEF LockInv
  <1>2. QED BY LockInvariance, <1>1, PTL

-----------------------------------------------------------------------------
(* The bot at rest: whatever stale, late or cancelled calls came before, the *)
(* TurnFSM of a bot without a live turn is IDLE and unowned.                 *)

\* Somebody is left who will still call finish_turn for bot b.
Actor(b) ==
    \/ \E t \in Turns : BotOf[t] = b /\ pc[t] \in Live
    \/ \E c \in Clients : canceller[c].pc = "closing" /\ BotOf[canceller[c].turn] = b

\* A recovered turn never runs the steps of start_turn.
OrphanedOutside ==
    \A t \in Orphaned : pc[t] \in {"new", "recovered", "done"}

\* The turn that owns a snapshot is a live turn of that bot, and a snapshot that
\* is not at rest has an actor.
OwnedBot(b) ==
    /\ fsm[b].turn_id # NoTurn
         => BotOf[fsm[b].turn_id] = b /\ pc[fsm[b].turn_id] \in Live
    /\ fsm[b].state # "IDLE" => Actor(b)

Owned == \A b \in Bots : OwnedBot(b)

OwnerInv == OrphanedOutside /\ Owned

\* What the steps that do not belong to a starter touch.
OtherStep ==
    \/ \E t \in Turns : ExecutorStep(t) \/ PollRecovered(t)
    \/ \E c \in Clients : CancelStep(c)
    \/ \E key \in seen : ForgetTurn(key)
    \/ \E found \in SUBSET Orphaned : RecoverActiveTurns(found)
    \/ \E b \in Bots : AgeSnapshot(b) \/ ExpireStatus(b)
    \/ Quiescent /\ UNCHANGED vars

LEMMA OwnerInit == Init => OwnerInv
  BY ConstantsAssumption, IdleFacts DEF Init, OwnerInv, OrphanedOutside, Owned, OwnedBot

(* Nothing that acts for b leaves in a step. *)
ActorsStay(b) ==
    /\ \A t \in Turns : BotOf[t] = b /\ pc[t] \in Live => pc'[t] \in Live
    /\ \A c \in Clients : canceller[c].pc = "closing" => canceller'[c] = canceller[c]

LEMMA StayFacts ==
    ASSUME NEW b \in Bots, ActorsStay(b), Actor(b)
    PROVE  Actor(b)'
  BY DEF ActorsStay, Actor

(* A step under which the actors of b stay, and that leaves its snapshot's owner
   and either its state or somebody who acts for it. *)
LEMMA KeepBot ==
    ASSUME TypeInv, Owned, NEW b \in Bots, ActorsStay(b),
           fsm'[b].turn_id = fsm[b].turn_id,
           fsm'[b].state = fsm[b].state \/ Actor(b)'
    PROVE  OwnedBot(b)'
  <1>1. OwnedBot(b)
    BY DEF Owned
  <1>2. fsm[b].turn_id # NoTurn => fsm[b].turn_id \in Turns
    BY DEF TypeInv, TypeOK, TurnSnapshot
  <1>3. (fsm[b].turn_id # NoTurn
            => BotOf[fsm[b].turn_id] = b /\ pc[fsm[b].turn_id] \in Live)'
    BY <1>1, <1>2 DEF OwnedBot, ActorsStay
  <1>4. (fsm[b].state # "IDLE" => Actor(b))'
    BY <1>1, StayFacts DEF OwnedBot
  <1>5. QED BY <1>3, <1>4 DEF OwnedBot

LEMMA RestBot ==
    ASSUME NEW b \in Bots, fsm'[b].state = "IDLE", fsm'[b].turn_id = NoTurn
    PROVE  OwnedBot(b)'
  BY DEF OwnedBot

(* finish_turn(t) when t is the only actor that leaves. *)
LEMMA FinishBot ==
    ASSUME TypeInv, Owned, NEW t \in Turns, NEW b \in Bots, b = BotOf[t],
           fsm'[b] = FinishTurn(fsm[b], t),
           \A u \in Turns \ {t} : pc[u] \in Live => pc'[u] \in Live
    PROVE  OwnedBot(b)'
  <1>1. fsm[b] \in TurnSnapshot
    BY DEF TypeInv, TypeOK
  <1>2. CASE fsm[b].turn_id \in {NoTurn, t}
    <2>1. fsm'[b] = IdleSnapshot
      BY <1>1, <1>2, FinishFacts
    <2>2. QED BY <2>1, IdleFacts, RestBot
  <1>3. CASE fsm[b].turn_id \notin {NoTurn, t}
    <2>1. fsm'[b] = fsm[b]
      BY <1>1, <1>3, FinishFacts
    <2> DEFINE u == fsm[b].turn_id
    <2>2. u \in Turns \ {t}
      BY <1>1, <1>3 DEF TurnSnapshot
    <2>3. BotOf[u] = b /\ pc[u] \in Live
      BY <1>3 DEF Owned, OwnedBot
    <2>4. pc'[u] \in Live /\ Actor(b)'
      BY <2>2, <2>3 DEF Actor
    <2>5. QED BY <2>1, <2>3, <2>4 DEF OwnedBot
  <1>4. QED BY <1>2, <1>3
-----------------------------------------------------------------------------
(* The starter. *)

(* A step that moves t from one live label to another. *)
LEMMA LiveMove ==
    ASSUME TypeInv, NEW t \in Turns, NEW label \in Live, pc[t] \in Live,
           pc' = [pc EXCEPT ![t] = label], canceller' = canceller
    PROVE  /\ \A b \in Bots : ActorsStay(b)
           /\ Actor(BotOf[t])'
  BY DEF TypeInv, TypeOK, ActorsStay, Actor

LEMMA StarterOwned ==
    ASSUME TypeInv, OwnerInv, NEW t \in Turns, StarterStep(t) \/ CancelWatching(t)
    PROVE  Owned'
  <1> DEFINE k == BotOf[t]
  <1> USE DEF OwnerInv
  <1>1. k \in Bots /\ fsm \in [Bots -> TurnSnapshot] /\ pc \in [Turns -> StarterPC]
    BY ConstantsAssumption DEF TypeInv, TypeOK
  <1>2. \A next \in TurnState, error \in LastError :
            Transition(fsm[k], t, next, error).turn_id = fsm[k].turn_id
    BY <1>1, TransitionFacts
  \* A transition or a touch while t stays live.
  <1>3. ASSUME NEW label \in Live, pc[t] \in Live, pc' = [pc EXCEPT ![t] = label],
               canceller' = canceller, NEW snap,
               snap.turn_id = fsm[k].turn_id, fsm' = [fsm EXCEPT ![k] = snap]
        PROVE  Owned'
    <2>1. (\A b \in Bots : ActorsStay(b)) /\ Actor(k)'
      BY <1>3, LiveMove
    <2>2. ASSUME NEW b \in Bots PROVE OwnedBot(b)'
      <3>1. fsm'[b].turn_id = fsm[b].turn_id /\ (fsm'[b].state = fsm[b].state \/ b = k)
        BY <1>1, <1>3
      <3>2. QED BY <2>1, <3>1, KeepBot
    <2>3. QED BY <2>2 DEF Owned
  <1>4. ASSUME NEW next \in TurnState, NEW error \in LastError, FSMTransition(t, next, error),
               NEW label \in Live, pc[t] \in Live, Goto(t, label), canceller' = canceller
        PROVE  Owned'
    BY <1>2, <1>3, <1>4 DEF FSMTransition, Goto
  <1>5. ASSUME fsm' = [fsm EXCEPT ![k] = Touch(@, t)],
               NEW label \in Live, pc[t] \in Live, pc' = [pc EXCEPT ![t] = label],
               canceller' = canceller
        PROVE  Owned'
    BY <1>1, <1>3, <1>5, TouchFacts
  <1>6. ASSUME NEW label \in Live, pc[t] \in Live, pc' = [pc EXCEPT ![t] = label],
               canceller' = canceller, fsm' = fsm
        PROVE  Owned'
    <2>1. \A b \in Bots : ActorsStay(b)
      BY <1>6, LiveMove
    <2>2. QED BY <1>6, <2>1, KeepBot DEF Owned
  <1>7. CASE StartTurn(t)
    <2> DEFINE recovered == [b \in Bots |-> RecoverStale(fsm[b])]
    <2>1. canceller' = canceller /\ pc[t] = "new"
          /\ \E label \in {"rejected", "begun"} : pc' = [pc EXCEPT ![t] = label]
      BY <1>7 DEF StartTurn, Goto
    <2>2. \A b \in Bots : ActorsStay(b)
      BY <1>1, <2>1 DEF ActorsStay, Live, Registered
    <2>3. ASSUME NEW b \in Bots, fsm'[b] = RecoverStale(fsm[b])
          PROVE  OwnedBot(b)'
      BY <1>1, <2>2, <2>3, RecoverFacts, KeepBot, RestBot
    <2>4. ASSUME fsm'[k] = BeginTurn(t), pc' = [pc EXCEPT ![t] = "begun"]
          PROVE  OwnedBot(k)'
      BY <1>1, <2>4, BeginFacts DEF OwnedBot, Actor, Live
    <2>5. CASE fsm' = recovered
      BY <2>3, <2>5 DEF Owned
    <2>6. CASE fsm' = [recovered EXCEPT ![k] = BeginTurn(t)]
               /\ pc' = [pc EXCEPT ![t] = "begun"]
      <3>1. fsm'[k] = BeginTurn(t) /\ \A b \in Bots \ {k} : fsm'[b] = RecoverStale(fsm[b])
        BY <1>1, <2>6
      <3>2. QED BY <2>3, <2>4, <2>6, <3>1 DEF Owned
    <2>7. QED BY <1>7, <2>5, <2>6 DEF StartTurn, Goto
  <1>8. CASE Transcribe(t)
    BY <1>4, <1>8 DEF Transcribe, Live, TurnState, LastError
  <1>9. CASE Stream(t)
    BY <1>4, <1>9 DEF Stream, Live, TurnState, LastError
  <1>10. CASE Register(t) \/ Retry(t)
    BY <1>5, <1>10 DEF Register, Retry, Goto, Live, Registered
  <1>11. CASE Heartbeat(t)
    <2>1. pc' = [pc EXCEPT ![t] = "watch"]
      BY <1>1, <1>11 DEF Heartbeat, starterVars
    <2>2. QED BY <1>5, <1>11, <2>1 DEF Heartbeat, Live, Registered
  <1>12. CASE Spawn(t) \/ Timeout(t)
    BY <1>6, <1>12 DEF Spawn, Timeout, Goto, Live, Registered
  <1>13. CASE Succeed(t) \/ CancelWatching(t)
    BY <1>4, <1>13 DEF Succeed, CancelWatching, Live, Registered, TurnState, LastError
  <1>14. ASSUME AfterFailure(t), pc[t] \in Live, canceller' = canceller
         PROVE  Owned'
    <2>1. CASE attempt[t] <= RetryMax
      BY <1>6, <1>14, <2>1 DEF AfterFailure, Goto, Live, Registered
    <2>2. CASE ~(attempt[t] <= RetryMax)
      BY <1>4, <1>14, <2>2 DEF AfterFailure, Live, Registered, TurnState, LastError
    <2>3. QED BY <2>1, <2>2
  <1>15. CASE ExecutorRaised(t) \/ TimeoutAfterFinish(t) \/ Reap(t)
    BY <1>14, <1>15 DEF ExecutorRaised, TimeoutAfterFinish, Reap, Live, Registered
  <1>16. CASE FinishStarter(t)
    <2>1. fsm'[k] = FinishTurn(fsm[k], t) /\ \A b \in Bots \ {k} : fsm'[b] = fsm[b]
      BY <1>1, <1>16 DEF FinishStarter
    <2>2. canceller' = canceller /\ \A u \in Turns \ {t} : pc'[u] = pc[u]
      BY <1>1, <1>16 DEF FinishStarter, Goto
    <2>3. OwnedBot(k)'
      BY <1>1, <2>1, <2>2, FinishBot
    <2>4. \A b \in Bots \ {k} : OwnedBot(b)'
      BY <2>1, <2>2, KeepBot DEF ActorsStay
    <2>5. QED BY <2>3, <2>4 DEF Owned
  <1>17. QED
    BY <1>7, <1>8, <1>9, <1>10, <1>11, <1>12, <1>13, <1>15, <1>16 DEF StarterStep

LEMMA StarterOrphaned ==
    ASSUME TypeInv, OwnerInv, NEW t \in Turns, StarterStep(t) \/ CancelWatching(t)
    PROVE  OrphanedOutside'
  <1>1. t \notin Orphaned
    BY DEF OwnerInv, OrphanedOutside, StarterStep, StartTurn, Transcribe, Stream, Register,
           Spawn, Heartbeat, Succeed, ExecutorRaised, Timeout, TimeoutAfterFinish, Reap,
           Retry, CancelWatching, FinishStarter
  <1>2. \A u \in Turns \ {t} : pc'[u] = pc[u]
    BY DEF TypeInv, TypeOK, StarterStep, StartTurn, Transcribe, Stream, Register, Spawn,
           Heartbeat, Succeed, ExecutorRaised, AfterFailure, Timeout, TimeoutAfterFinish,
           Reap, Retry, CancelWatching, FinishStarter, Goto, starterVars
  <1>3. QED BY <1>1, <1>2, ConstantsAssumption DEF OwnerInv, OrphanedOutside

-----------------------------------------------------------------------------
(* Everything else. *)

LEMMA QuietStep ==
    ASSUME TypeInv, OwnerInv, fsm' = fsm, canceller' = canceller,
           \A t \in Turns : \/ pc'[t] = pc[t]
                            \/ /\ pc[t] \notin Live
                               /\ pc'[t] \in {"recovered", "done"}
    PROVE  OwnerInv'
  <1>1. OrphanedOutside'
    BY ConstantsAssumption DEF OwnerInv, OrphanedOutside
  <1>2. \A b \in Bots : ActorsStay(b)
    BY DEF ActorsStay, Live, Registered
  <1>3. Owned'
    BY <1>2, KeepBot DEF OwnerInv, Owned
  <1>4. QED BY <1>1, <1>3 DEF OwnerInv

LEMMA CancelOwned ==
    ASSUME TypeInv, OwnerInv, NEW c \in Clients, CancelStep(c)
    PROVE  OwnerInv'
  <1>1. pc' = pc
    BY DEF CancelStep, RequestCancel, AdapterCancelled, AdapterCancelRaises, FinishCancel,
           starterVars
  <1>2. OrphanedOutside'
    BY <1>1 DEF OwnerInv, OrphanedOutside
  <1>3. fsm \in [Bots -> TurnSnapshot] /\ canceller \in [Clients -> CancelCall]
    BY DEF TypeInv, TypeOK
  \* The call moves to "closing" and reports INTERRUPTED for its turn.
  <1>4. ASSUME NEW t \in Turns, FSMTransition(t, "INTERRUPTED", "reported"),
               canceller[c].pc # "closing", canceller'[c].pc = "closing",
               canceller'[c].turn = t, \A d \in Clients \ {c} : canceller'[d] = canceller[d]
        PROVE  Owned'
    <2>1. BotOf[t] \in Bots
      BY ConstantsAssumption
    <2>2. Transition(fsm[BotOf[t]], t, "INTERRUPTED", "reported").turn_id = fsm[BotOf[t]].turn_id
      BY <1>3, <2>1, TransitionFacts DEF TurnState, LastError
    <2>3. \A b \in Bots : ActorsStay(b)
      BY <1>1, <1>4 DEF ActorsStay
    <2>4. Actor(BotOf[t])'
      BY <1>4 DEF Actor
    <2>5. ASSUME NEW b \in Bots PROVE OwnedBot(b)'
      <3>1. fsm'[b].turn_id = fsm[b].turn_id /\ (fsm'[b].state = fsm[b].state \/ b = BotOf[t])
        BY <1>3, <1>4, <2>1, <2>2 DEF FSMTransition
      <3>2. QED BY <2>3, <2>4, <3>1, KeepBot DEF OwnerInv
    <2>6. QED BY <2>5 DEF Owned
  \* The call neither leaves "closing" nor touches the snapshots.
  <1>5. ASSUME fsm' = fsm, canceller[c].pc # "closing",
               \A d \in Clients \ {c} : canceller'[d] = canceller[d]
        PROVE  Owned'
    <2>1. \A b \in Bots : ActorsStay(b)
      BY <1>1, <1>5 DEF ActorsStay
    <2>2. QED BY <1>5, <2>1, KeepBot DEF OwnerInv, Owned
  <1>6. ASSUME NEW t \in Turns, RequestCancel(c, t) PROVE Owned'
    <2>1. canceller[c].pc = "idle" /\ \A d \in Clients \ {c} : canceller'[d] = canceller[d]
      BY <1>3, <1>6 DEF RequestCancel
    <2>2. CASE SupportsCancel
      BY <1>5, <1>6, <2>1, <2>2 DEF RequestCancel
    <2>3. CASE ~SupportsCancel
      <3>1. canceller'[c].pc = "closing" /\ canceller'[c].turn = t
        BY <1>3, <1>6, <2>3 DEF RequestCancel
      <3>2. QED BY <1>4, <1>6, <2>1, <2>3, <3>1 DEF RequestCancel
    <2>4. QED BY <2>2, <2>3
  <1>7. ASSUME AdapterCancelled(c) PROVE Owned'
    <2>1. PICK t \in Turns : t = canceller[c].turn /\ canceller[c].pc = "adapter"
      BY <1>7 DEF AdapterCancelled, TypeInv, CancelNamesTurn
    <2>2. canceller'[c].pc = "closing" /\ canceller'[c].turn = t
      BY <1>3, <1>7, <2>1 DEF AdapterCancelled
    <2>3. \A d \in Clients \ {c} : canceller'[d] = canceller[d]
      BY <1>3, <1>7 DEF AdapterCancelled
    <2>4. FSMTransition(t, "INTERRUPTED", "reported")
      BY <1>7, <2>1 DEF AdapterCancelled
    <2>5. QED BY <1>4, <2>1, <2>2, <2>3, <2>4
  <1>8. ASSUME AdapterCancelRaises(c) PROVE Owned'
    <2>1. canceller[c].pc = "adapter" /\ fsm' = fsm
      BY <1>8 DEF AdapterCancelRaises
    <2>2. \A d \in Clients \ {c} : canceller'[d] = canceller[d]
      BY <1>3, <1>8 DEF AdapterCancelRaises
    <2>3. QED BY <1>5, <2>1, <2>2
  <1>9. ASSUME FinishCancel(c) PROVE Owned'
    <2>0. PICK t \in Turns : t = canceller[c].turn
      BY <1>9 DEF FinishCancel, TypeInv, CancelNamesTurn
    <2> DEFINE k == BotOf[t]
    <2>1. k \in Bots
      BY ConstantsAssumption
    <2>2. fsm'[k] = FinishTurn(fsm[k], t) /\ \A b \in Bots \ {k} : fsm'[b] = fsm[b]
      BY <1>3, <1>9, <2>0, <2>1 DEF FinishCancel
    <2>3. OwnedBot(k)'
      BY <1>1, <2>1, <2>2, FinishBot DEF OwnerInv
    <2>4. ASSUME NEW b \in Bots \ {k} PROVE OwnedBot(b)'
      <3>1. Actor(b) => Actor(b)'
        BY <1>1, <1>3, <1>9, <2>0 DEF Actor, FinishCancel
      <3>2. OwnedBot(b)
        BY DEF OwnerInv, Owned
      <3>3. QED BY <1>1, <2>2, <3>1, <3>2 DEF OwnedBot
    <2>5. QED BY <2>3, <2>4 DEF Owned
  <1>10. Owned'
    BY <1>6, <1>7, <1>8, <1>9 DEF CancelStep
  <1>11. QED BY <1>2, <1>10 DEF OwnerInv

LEMMA OtherOwned ==
    ASSUME TypeInv, OwnerInv, OtherStep
    PROVE  OwnerInv'
  <1> USE DEF starterVars
  <1>1. CASE \E t \in Turns : ExecutorStep(t)
    <2>1. fsm' = fsm /\ pc' = pc /\ canceller' = canceller
      BY <1>1 DEF ExecutorStep, Announce, SlotGone, QueueForLock, WakeFirst, Submit,
             ReplySpoken, Complete, AgentRaises, Unwind, AbortUnguarded, AbortWaiting,
             AbortHolding
    <2>2. QED BY <2>1, QuietStep
  <1>2. CASE \E t \in Turns : PollRecovered(t)
    <2>1. PICK t \in Turns : PollRecovered(t)
      BY <1>2
    <2>2. \A u \in Turns : pc'[u] = pc[u] \/ (pc[u] = "recovered" /\ pc'[u] = "done")
      BY <2>1 DEF PollRecovered, Goto, TypeInv, TypeOK
    <2>3. fsm' = fsm /\ canceller' = canceller
      BY <2>1 DEF PollRecovered
    <2>4. QED BY <2>2, <2>3, QuietStep DEF Live, Registered
  <1>3. CASE \E key \in seen : ForgetTurn(key)
    BY <1>3, QuietStep DEF ForgetTurn
  <1>4. CASE \E found \in SUBSET Orphaned : RecoverActiveTurns(found)
    <2>1. PICK found \in SUBSET Orphaned :
              pc' = [t \in Turns |-> IF t \in found THEN "recovered" ELSE pc[t]]
      BY <1>4 DEF RecoverActiveTurns
    <2>2. \A t \in Orphaned : pc[t] \notin Live
      BY DEF OwnerInv, OrphanedOutside, Live, Registered
    <2>3. \A t \in Turns : pc'[t] = pc[t] \/ (pc[t] \notin Live /\ pc'[t] = "recovered")
      BY <2>1, <2>2
    <2>4. fsm' = fsm /\ canceller' = canceller
      BY <1>4 DEF RecoverActiveTurns
    <2>5. QED BY <2>3, <2>4, QuietStep
  <1>5. CASE \E b \in Bots : ExpireStatus(b)
    BY <1>5, QuietStep DEF ExpireStatus
  <1>6. ASSUME NEW k \in Bots, AgeSnapshot(k) PROVE OwnerInv'
    <2>1. pc' = pc /\ canceller' = canceller
      BY <1>6 DEF AgeSnapshot
    <2>2. ASSUME NEW b \in Bots
          PROVE  fsm'[b].turn_id = fsm[b].turn_id /\ fsm'[b].state = fsm[b].state
      BY <1>6, AgedFacts DEF AgeSnapshot, TypeInv, TypeOK
    <2>3. \A b \in Bots : ActorsStay(b)
      BY <2>1 DEF ActorsStay
    <2>4. Owned'
      BY <2>2, <2>3, KeepBot DEF OwnerInv, Owned
    <2>5. QED BY <2>1, <2>4 DEF OwnerInv, OrphanedOutside
  <1>7. CASE UNCHANGED vars
    BY <1>7, QuietStep DEF vars
  <1>8. QED
    BY <1>1, <1>2, <1>3, <1>4, <1>5, <1>6, <1>7, CancelOwned DEF OtherStep

LEMMA OwnerInvariance == Spec => [](TypeInv /\ OwnerInv)
  <1>1. TypeInv /\ OwnerInv /\ [Next]_vars => (TypeInv /\ OwnerInv)'
    <2> SUFFICES ASSUME TypeInv, OwnerInv, [Next]_vars PROVE TypeInv' /\ OwnerInv'
      OBVIOUS
    <2>1. TypeInv'
      BY TypeStep
    <2>2. CASE UNCHANGED vars
      BY <2>1, <2>2, QuietStep DEF vars, starterVars
    <2>3. CASE \E t \in Turns : StarterStep(t) \/ CancelWatching(t)
      BY <2>1, <2>3, StarterOwned, StarterOrphaned DEF OwnerInv
    <2>4. CASE OtherStep
      BY <2>1, <2>4, OtherOwned
    <2>5. QED BY <2>2, <2>3, <2>4, ConstantsAssumption DEF Next, OtherStep
  <1>2. QED BY TypeInit, OwnerInit, <1>1, PTL DEF Spec

(* The snapshot of a bot never names a turn whose start_turn has returned. *)
THEOREM OwnerIsLive == Spec => []OwnerLive
  <1>1. TypeInv /\ OwnerInv => OwnerLive
    BY DEF OwnerInv, Owned, OwnedBot, OwnerLive
  <1>2. QED BY OwnerInvariance, <1>1, PTL

(* A bot with no live turn, and no cancellation under way for it, is IDLE and
   unowned. *)
THEOREM QuietBotIsIdle == Spec => []IdleWhenQuiet
  <1>1. TypeInv /\ OwnerInv => IdleWhenQuiet
    <2> SUFFICES ASSUME TypeInv, OwnerInv, NEW b \in Bots,
                        \A t \in Turns : BotOf[t] = b => pc[t] \notin Live,
                        \A c \in Clients : canceller[c].pc = "closing"
                                            => BotOf[canceller[c].turn] # b
                 PROVE  fsm[b].state = "IDLE" /\ fsm[b].turn_id = NoTurn
      BY DEF IdleWhenQuiet
    <2>1. OwnedBot(b) /\ ~Actor(b)
      BY DEF OwnerInv, Owned, Actor
    <2>2. fsm[b].turn_id \in Turns \cup {NoTurn}
      BY DEF TypeInv, TypeOK, TurnSnapshot
    <2>3. QED BY <2>1, <2>2 DEF OwnedBot
  <1>2. QED BY OwnerInvariance, <1>1, PTL

-----------------------------------------------------------------------------
(* What is counted about turns: how often a text reaches the agent, and, as  *)
(* long as no watchdog cancels, the executors behind what is shown.          *)

-----------------------------------------------------------------------------
(* Attempts *)

\* The current attempt has not handed its text to the agent yet.
Unsubmitted == {"start", "announced", "waiting", "locked"}

BoundedTurn(t) ==
    /\ sent[t] <= attempt[t] /\ attempt[t] <= RetryMax + 1
    /\ pc[t] = "retry" => attempt[t] <= RetryMax
    /\ pc[t] = "attempt" \/ ex[t] \in Unsubmitted => sent[t] < attempt[t]
    /\ pc[t] \in {"new", "begun", "transcribing", "streaming"} => sent[t] = 0

SubmitInv == \A t \in Turns : BoundedTurn(t)

LEMMA SubmitInit == Init => SubmitInv
  <1> SUFFICES ASSUME Init, NEW t \in Turns PROVE BoundedTurn(t)
    BY DEF SubmitInv
  <1>1. pc[t] = "new" /\ ex[t] = "none" /\ sent[t] = 0 /\ attempt[t] = 0
    BY DEF Init
  <1>2. RetryMax \in Nat
    BY ConstantsAssumption
  <1>3. QED BY <1>1, <1>2 DEF BoundedTurn, Unsubmitted

\* A step of start_turn leaves the other turns alone.
LEMMA StarterAlone ==
    ASSUME TypeInv, NEW t \in Turns, StarterStep(t) \/ CancelWatching(t), NEW u \in Turns \ {t}
    PROVE  pc'[u] = pc[u] /\ attempt'[u] = attempt[u] /\ ex'[u] = ex[u]
  BY DEF TypeInv, TypeOK, StarterStep, StartTurn, Transcribe, Stream, Register, Spawn,
         Heartbeat, Succeed, ExecutorRaised, AfterFailure, Timeout, TimeoutAfterFinish,
         Reap, Retry, CancelWatching, FinishStarter, Goto, starterVars, executorVars

LEMMA StarterSubmit ==
    ASSUME TypeInv, LockInv, SubmitInv, NEW t \in Turns, StarterStep(t) \/ CancelWatching(t)
    PROVE  SubmitInv'
  <1>0. /\ pc \in [Turns -> StarterPC] /\ attempt \in [Turns -> Nat] /\ RetryMax \in Nat
        /\ ex \in [Turns -> ExecutorPC] /\ sent \in [Turns -> Nat] /\ BoundedTurn(t)
    BY ConstantsAssumption DEF TypeInv, TypeOK, SubmitInv
  <1>1. sent' = sent
    BY DEF StarterStep, StartTurn, Transcribe, Stream, Register, Spawn, Heartbeat, Succeed,
           ExecutorRaised, Timeout, TimeoutAfterFinish, Reap, Retry, CancelWatching,
           FinishStarter, history
  <1>2. ASSUME NEW u \in Turns \ {t} PROVE BoundedTurn(u)'
    BY <1>1, StarterAlone DEF SubmitInv, BoundedTurn
  <1>3. ASSUME NEW label, pc'[t] = label, UNCHANGED <<attempt, ex>>,
               label \notin {"attempt", "retry"},
               label \in {"new", "begun", "transcribing", "streaming"}
                  => pc[t] \in {"new", "begun", "transcribing", "streaming"}
        PROVE  BoundedTurn(t)'
    BY <1>0, <1>1, <1>3 DEF BoundedTurn
  <1>4. ASSUME StartTurn(t) \/ Transcribe(t) \/ Stream(t) PROVE BoundedTurn(t)'
    BY <1>0, <1>3, <1>4 DEF StartTurn, Transcribe, Stream, Goto, executorVars
  <1>5. ASSUME Succeed(t) \/ Timeout(t) \/ CancelWatching(t) \/ FinishStarter(t)
        PROVE  BoundedTurn(t)'
    BY <1>0, <1>3, <1>5 DEF Succeed, Timeout, CancelWatching, FinishStarter, Goto,
                            executorVars
  <1>6. ASSUME Heartbeat(t) PROVE BoundedTurn(t)'
    BY <1>1, <1>0, <1>6 DEF Heartbeat, starterVars, executorVars, BoundedTurn
  <1>7. ASSUME Register(t) PROVE BoundedTurn(t)'
    <2>1. /\ pc[t] = "streaming" /\ pc'[t] = "attempt"
          /\ attempt'[t] = 1 /\ ex'[t] = ex[t]
      BY <1>0, <1>7 DEF Register, Goto, executorVars
    <2>2. sent[t] = 0 /\ sent'[t] = 0
      BY <1>0, <1>1, <2>1 DEF BoundedTurn
    <2>3. QED BY <1>0, <2>1, <2>2 DEF BoundedTurn
  <1>8. ASSUME Retry(t) PROVE BoundedTurn(t)'
    <2>1. /\ pc[t] = "retry" /\ pc'[t] = "attempt" /\ attempt'[t] = attempt[t] + 1
          /\ ex'[t] = ex[t] /\ sent'[t] = sent[t]
      BY <1>0, <1>1, <1>8 DEF Retry, Goto, executorVars
    <2>2. sent[t] <= attempt[t] /\ attempt[t] <= RetryMax
      BY <1>0, <2>1 DEF BoundedTurn
    <2>3. attempt[t] \in Nat /\ sent[t] \in Nat
      BY <1>0
    <2>4. QED BY <1>0, <2>1, <2>2, <2>3 DEF BoundedTurn
  <1>9. ASSUME Spawn(t) PROVE BoundedTurn(t)'
    <2>1. /\ pc[t] = "attempt" /\ pc'[t] = "watch" /\ attempt'[t] = attempt[t]
          /\ sent'[t] = sent[t]
      BY <1>0, <1>1, <1>9 DEF Spawn, Goto
    <2>2. QED BY <1>0, <2>1 DEF BoundedTurn
  <1>10. ASSUME ExecutorRaised(t) \/ TimeoutAfterFinish(t) \/ Reap(t)
         PROVE  BoundedTurn(t)'
    <2>1. UNCHANGED <<attempt, ex>> /\ AfterFailure(t) /\ ex[t] \in Finished
      BY <1>10 DEF ExecutorRaised, TimeoutAfterFinish, Reap, executorVars, Finished
    <2>2. CASE attempt[t] <= RetryMax
      <3>1. pc'[t] = "retry"
        BY <1>0, <2>1, <2>2 DEF AfterFailure, Goto
      <3>2. ex[t] \notin Unsubmitted
        BY <2>1 DEF Finished, Unsubmitted
      <3>3. QED BY <1>0, <1>1, <2>1, <2>2, <3>1, <3>2 DEF BoundedTurn
    <2>3. CASE ~(attempt[t] <= RetryMax)
      BY <1>0, <1>3, <2>1, <2>3 DEF AfterFailure, Goto
    <2>4. QED BY <2>2, <2>3
  <1>11. BoundedTurn(t)'
    BY <1>4, <1>5, <1>6, <1>7, <1>8, <1>9, <1>10 DEF StarterStep
  <1>12. QED BY <1>2, <1>11 DEF SubmitInv

LEMMA ExecutorSubmit ==
    ASSUME TypeInv, LockInv, SubmitInv, NEW t \in Turns, ExecutorStep(t)
    PROVE  SubmitInv'
  <1>0. /\ ex \in [Turns -> ExecutorPC] /\ sent \in [Turns -> Nat]
        /\ attempt \in [Turns -> Nat] /\ BoundedTurn(t)
    BY DEF TypeInv, TypeOK, SubmitInv
  <1>1. pc' = pc /\ attempt' = attempt
    BY DEF ExecutorStep, Announce, SlotGone, QueueForLock, WakeFirst, Submit, ReplySpoken,
           Complete, AgentRaises, Unwind, AbortUnguarded, AbortWaiting, AbortHolding,
           starterVars
  <1>2. \A u \in Turns \ {t} : ex'[u] = ex[u]
    BY <1>0 DEF ExecutorStep, Announce, SlotGone, QueueForLock, WakeFirst, Submit,
           ReplySpoken, Complete, AgentRaises, Unwind, AbortUnguarded, AbortWaiting,
           AbortHolding, ExecutorGoto
  <1>3. CASE Submit(t)
    <2>1. ex[t] = "locked" /\ ex'[t] = "sending" /\ sent'[t] = sent[t] + 1
          /\ \A u \in Turns \ {t} : sent'[u] = sent[u]
      BY <1>0, <1>3 DEF Submit, ExecutorAt, ExecutorGoto
    <2>2. pc[t] \notin {"new", "begun", "transcribing", "streaming", "attempt"}
      BY <2>1 DEF LockInv, RetryAfterReap, Finished
    <2>3. sent[t] < attempt[t] /\ sent[t] \in Nat /\ attempt[t] \in Nat
      BY <1>0, <2>1 DEF BoundedTurn, Unsubmitted
    <2>4. BoundedTurn(t)'
      BY <1>0, <1>1, <2>1, <2>2, <2>3 DEF BoundedTurn, Unsubmitted
    <2>5. QED BY <1>1, <1>2, <2>1, <2>4 DEF SubmitInv, BoundedTurn
  <1>4. CASE ~Submit(t)
    <2>1. sent' = sent
      BY <1>4 DEF ExecutorStep, Announce, SlotGone, QueueForLock, WakeFirst, ReplySpoken,
             Complete, AgentRaises, Unwind, AbortUnguarded, AbortWaiting, AbortHolding,
             history
    <2>2. ex'[t] \in Unsubmitted => ex[t] \in Unsubmitted
      BY <1>0, <1>4 DEF ExecutorStep, Announce, SlotGone, QueueForLock, WakeFirst,
             ReplySpoken, Complete, AgentRaises, Unwind, AbortUnguarded, AbortWaiting,
             AbortHolding, ExecutorAt, ExecutorGoto, Unsubmitted
    <2>3. QED BY <1>1, <1>2, <2>1, <2>2 DEF SubmitInv, BoundedTurn
  <1>5. QED BY <1>3, <1>4

LEMMA OtherSubmit ==
    ASSUME TypeInv, SubmitInv,
           \/ \E t \in Turns : PollRecovered(t)
           \/ \E c \in Clients : CancelStep(c)
           \/ \E key \in seen : ForgetTurn(key)
           \/ \E found \in SUBSET Orphaned : RecoverActiveTurns(found)
           \/ \E b \in Bots : AgeSnapshot(b) \/ ExpireStatus(b)
           \/ UNCHANGED vars
    PROVE  SubmitInv'
  <1>1. ex' = ex /\ sent' = sent /\ attempt' = attempt
    BY DEF PollRecovered, CancelStep, RequestCancel, AdapterCancelled,
           AdapterCancelRaises, FinishCancel, ForgetTurn, RecoverActiveTurns,
           AgeSnapshot, ExpireStatus, executorVars, starterVars, history, vars
  <1>2. \A t \in Turns : pc'[t] # pc[t] => pc'[t] \in {"recovered", "done"}
    BY DEF TypeInv, TypeOK, PollRecovered, CancelStep, RequestCancel, AdapterCancelled,
           AdapterCancelRaises, FinishCancel, ForgetTurn, RecoverActiveTurns,
           AgeSnapshot, ExpireStatus, starterVars, Goto, vars
  <1>3. QED BY <1>1, <1>2 DEF SubmitInv, BoundedTurn

LEMMA SubmitStep == TypeInv /\ LockInv /\ SubmitInv /\ [Next]_vars => SubmitInv'
  BY StarterSubmit, ExecutorSubmit, OtherSubmit, ConstantsAssumption DEF Next

\* However often the watchdog, an error or the user interrupts it, the text of one
\* accepted message reaches the agent at most once per attempt, and there are at most
\* RetryMax + 1 attempts (runtime_orchestrator.py:215).
THEOREM SubmittedOncePerAttempt == Spec => []SubmitBounded
  <1>1. SubmitInv => SubmitBounded
    BY DEF SubmitInv, BoundedTurn, SubmitBounded
  <1>2. QED BY <1>1, SubmitInit, SubmitStep, LockInvariance, PTL DEF Spec

-----------------------------------------------------------------------------
(* What is shown.  Without a watchdog no executor is ever owed a              *)
(* CancelledError, so that each of them clears the status it set exactly once. *)

CountedOf(b) == {t \in Turns : BotOf[t] = b /\ ex[t] \in Counted}

NothingReaped == exkill = {} /\ \A t \in Turns : pc[t] # "reap"

CountInv == NothingReaped /\ RefcountExact

LEMMA CountInit == Init => CountInv
  <1> SUFFICES ASSUME Init PROVE CountInv
    OBVIOUS
  <1>1. NothingReaped
    BY DEF Init, NothingReaped
  <1>2. ASSUME NEW b \in Bots
        PROVE  refs[b] = Cardinality({t \in Turns : BotOf[t] = b /\ ex[t] \in Counted})
    <2>1. {t \in Turns : BotOf[t] = b /\ ex[t] \in Counted} = {}
      BY DEF Init, Counted
    <2>2. refs[b] = 0
      BY <1>2 DEF Init
    <2>3. QED BY <2>1, <2>2, FS_EmptySet
  <1>3. QED BY <1>1, <1>2 DEF CountInv, RefcountExact

\* Without a watchdog no step reaps or cancels an executor.
LEMMA NoWatchdog ==
    ASSUME ~WatchdogFires, TypeInv, NothingReaped, [Next]_vars
    PROVE  NothingReaped'
  <1> USE DEF NothingReaped, TypeInv, TypeOK, starterVars, executorVars, Goto
  <1>1. ASSUME NEW t \in Turns, StarterStep(t) \/ CancelWatching(t) PROVE NothingReaped'
    BY <1>1 DEF StarterStep, StartTurn, Transcribe, Stream, Register, Spawn, Heartbeat,
                Succeed, ExecutorRaised, AfterFailure, Timeout, TimeoutAfterFinish, Reap,
                Retry, CancelWatching, FinishStarter
  <1>2. ASSUME NEW t \in Turns, ExecutorStep(t) PROVE NothingReaped'
    BY <1>2 DEF ExecutorStep, Announce, SlotGone, QueueForLock, WakeFirst, Submit,
                ReplySpoken, Complete, AgentRaises, Unwind, AbortUnguarded, AbortWaiting,
                AbortHolding
  <1>3. ASSUME NEW c \in Clients, CancelStep(c) PROVE NothingReaped'
    <2>1. CASE AdapterCancelled(c)
      <3>1. canceller[c].turn \in Turns
        BY <2>1 DEF AdapterCancelled, CancelNamesTurn
      <3>2. QED BY <2>1, <3>1 DEF AdapterCancelled, CancelTask
    <2>2. CASE ~AdapterCancelled(c)
      BY <1>3, <2>2 DEF CancelStep, RequestCancel, AdapterCancelRaises, FinishCancel
    <2>3. QED BY <2>1, <2>2
  <1>4. ASSUME NEW key \in seen, ForgetTurn(key) PROVE NothingReaped'
    BY <1>4 DEF ForgetTurn
  <1>5. ASSUME NEW found \in SUBSET Orphaned, RecoverActiveTurns(found) PROVE NothingReaped'
    BY <1>5 DEF RecoverActiveTurns
  <1>6. ASSUME NEW t \in Turns, PollRecovered(t) PROVE NothingReaped'
    BY <1>6 DEF PollRecovered
  <1>7. ASSUME NEW b \in Bots, AgeSnapshot(b) \/ ExpireStatus(b) PROVE NothingReaped'
    BY <1>7 DEF AgeSnapshot, ExpireStatus
  <1>8. ASSUME UNCHANGED vars PROVE NothingReaped'
    BY <1>8 DEF vars
  <1>9. QED
    BY <1>1, <1>2, <1>3, <1>4, <1>5, <1>6, <1>7, <1>8, ConstantsAssumption DEF Next

\* An executor that no CancelledError reaches announces itself once and clears once;
\* the rest of its steps, and everybody else's, leave the counts alone.
CountKept ==
    /\ refs' = refs /\ shown' = shown
    /\ \A t \in Turns : ex'[t] \in Counted <=> ex[t] \in Counted
    /\ \A t \in Turns : ex'[t] \in Counted \ {"unwind"} => ex[t] \in Counted \ {"unwind"}

CountUp(t) ==
    /\ SetProcessing(BotOf[t])
    /\ ex[t] \notin Counted /\ ex' = [ex EXCEPT ![t] = "announced"]

CountDown(t) ==
    /\ ClearProcessing(BotOf[t])
    /\ ex[t] \in Counted /\ ex' = [ex EXCEPT ![t] = "ok"]

StatusExpired ==
    StatusExpires /\ refs' = refs /\ ex' = ex /\ shown' \subseteq shown

LEMMA CountStep ==
    ASSUME TypeInv, LockInv, NothingReaped, [Next]_vars
    PROVE  \/ CountKept
           \/ \E t \in Turns : CountUp(t) \/ CountDown(t)
           \/ StatusExpired
  <1> USE DEF TypeInv, TypeOK, executorVars, statusVars
  <1>1. ASSUME NEW t \in Turns, StarterStep(t) \/ CancelWatching(t) PROVE CountKept
    <2>1. CASE Spawn(t)
      BY <2>1 DEF Spawn, LockInv, RetryAfterReap, Finished, Counted, CountKept
    <2>2. CASE ~Spawn(t)
      <3>1. UNCHANGED <<refs, shown, ex>>
        BY <1>1, <2>2
           DEF StarterStep, StartTurn, Transcribe, Stream, Register, Heartbeat, Succeed,
               ExecutorRaised, Timeout, TimeoutAfterFinish, Reap, Retry, CancelWatching,
               FinishStarter
      <3>2. QED BY <3>1 DEF CountKept
    <2>3. QED BY <2>1, <2>2
  <1>2. ASSUME NEW t \in Turns, ExecutorStep(t)
        PROVE  CountKept \/ CountUp(t) \/ CountDown(t)
    <2> USE <1>2 DEF ExecutorAt, ExecutorGoto
    <2>1. CASE Announce(t)
      BY <2>1 DEF Announce, CountUp, Counted
    <2>2. CASE Complete(t) \/ Unwind(t)
      BY <2>2 DEF Complete, Unwind, CountDown, Counted
    <2>3. CASE SlotGone(t) \/ WakeFirst(t) \/ Submit(t) \/ ReplySpoken(t) \/ AgentRaises(t)
      BY <2>3 DEF SlotGone, WakeFirst, Submit, ReplySpoken, AgentRaises, CountKept, Counted
    <2>4. CASE QueueForLock(t)
      <3>1. \E label \in {"locked", "waiting"} : ex' = [ex EXCEPT ![t] = label]
        BY <2>4 DEF QueueForLock
      <3>2. ex[t] = "announced" /\ UNCHANGED <<refs, shown>>
        BY <2>4 DEF QueueForLock
      <3>3. QED BY <3>1, <3>2 DEF CountKept, Counted
    <2>5. ~AbortUnguarded(t) /\ ~AbortWaiting(t) /\ ~AbortHolding(t)
      BY DEF NothingReaped, AbortUnguarded, AbortWaiting, AbortHolding
    <2>6. QED BY <2>1, <2>2, <2>3, <2>4, <2>5 DEF ExecutorStep
  <1>3. ASSUME \/ \E c \in Clients : CancelStep(c)
               \/ \E t \in Turns : PollRecovered(t)
               \/ \E key \in seen : ForgetTurn(key)
               \/ \E found \in SUBSET Orphaned : RecoverActiveTurns(found)
               \/ \E b \in Bots : AgeSnapshot(b)
               \/ UNCHANGED vars
        PROVE  CountKept
    <2>1. UNCHANGED <<refs, shown, ex>>
      BY <1>3 DEF CancelStep, RequestCancel, AdapterCancelled, AdapterCancelRaises,
                  FinishCancel, PollRecovered, ForgetTurn, RecoverActiveTurns, AgeSnapshot,
                  vars
    <2>2. QED BY <2>1 DEF CountKept
  <1>4. ASSUME NEW b \in Bots, ExpireStatus(b) PROVE StatusExpired
    BY <1>4 DEF ExpireStatus, StatusExpired
  <1>5. QED BY <1>1, <1>2, <1>3, <1>4, ConstantsAssumption DEF Next

LEMMA CountUpExact ==
    ASSUME TypeInv, IsFiniteSet(Turns), RefcountExact, NEW t \in Turns, CountUp(t)
    PROVE  RefcountExact'
  <1>0. /\ refs \in [Bots -> Nat] /\ ex \in [Turns -> ExecutorPC]
        /\ refs' = [refs EXCEPT ![BotOf[t]] = @ + 1] /\ BotOf[t] \in Bots
    BY ConstantsAssumption DEF TypeInv, TypeOK, CountUp, SetProcessing
  <1>1. ASSUME NEW b \in Bots PROVE refs'[b] = Cardinality(CountedOf(b)')
    <2>1. IsFiniteSet(CountedOf(b)) /\ refs[b] = Cardinality(CountedOf(b))
      BY FS_Subset DEF CountedOf, RefcountExact
    <2>2. CASE b = BotOf[t]
      <3>1. CountedOf(b)' = CountedOf(b) \cup {t} /\ t \notin CountedOf(b)
        BY <1>0, <2>2 DEF CountUp, CountedOf, Counted
      <3>2. refs'[b] = refs[b] + 1
        BY <1>0, <2>2
      <3>3. QED BY <2>1, <3>1, <3>2, FS_AddElement
    <2>3. CASE b # BotOf[t]
      <3>1. CountedOf(b)' = CountedOf(b)
        BY <1>0, <2>3 DEF CountUp, CountedOf
      <3>2. refs'[b] = refs[b]
        BY <1>0, <2>3
      <3>3. QED BY <2>1, <3>1, <3>2
    <2>4. QED BY <2>2, <2>3
  <1>2. QED BY <1>1 DEF RefcountExact, CountedOf

LEMMA CountDownExact ==
    ASSUME TypeInv, IsFiniteSet(Turns), RefcountExact, NEW t \in Turns, CountDown(t)
    PROVE  RefcountExact'
  <1>0. /\ refs \in [Bots -> Nat] /\ ex \in [Turns -> ExecutorPC] /\ BotOf[t] \in Bots
        /\ refs' = [refs EXCEPT ![BotOf[t]] = IF @ > 0 THEN @ - 1 ELSE 0]
    BY ConstantsAssumption DEF TypeInv, TypeOK, CountDown, ClearProcessing
  <1>1. ASSUME NEW b \in Bots PROVE refs'[b] = Cardinality(CountedOf(b)')
    <2>1. IsFiniteSet(CountedOf(b)) /\ refs[b] = Cardinality(CountedOf(b))
      BY FS_Subset DEF CountedOf, RefcountExact
    <2>2. CASE b = BotOf[t]
      <3>1. CountedOf(b)' = CountedOf(b) \ {t} /\ t \in CountedOf(b)
        BY <1>0, <2>2 DEF CountDown, CountedOf, Counted
      <3>2. refs[b] > 0
        BY <1>0, <2>1, <3>1, FS_EmptySet
      <3>3. refs'[b] = refs[b] - 1
        BY <1>0, <2>2, <3>2
      <3>4. QED BY <2>1, <3>1, <3>3, FS_RemoveElement
    <2>3. CASE b # BotOf[t]
      <3>1. CountedOf(b)' = CountedOf(b)
        BY <1>0, <2>3 DEF CountDown, CountedOf
      <3>2. refs'[b] = refs[b]
        BY <1>0, <2>3
      <3>3. QED BY <2>1, <3>1, <3>2
    <2>4. QED BY <2>2, <2>3
  <1>2. QED BY <1>1 DEF RefcountExact, CountedOf

LEMMA ExactStep ==
    ASSUME IsFiniteSet(Turns), ~WatchdogFires, TypeInv, LockInv, CountInv, [Next]_vars
    PROVE  CountInv'
  <1>1. NothingReaped'
    BY NoWatchdog DEF CountInv
  <1>2. CASE CountKept
    <2>1. \A b \in Bots : CountedOf(b)' = CountedOf(b)
      BY <1>2 DEF CountKept, CountedOf
    <2>2. RefcountExact'
      BY <1>2, <2>1 DEF CountInv, RefcountExact, CountedOf, CountKept
    <2>3. QED BY <1>1, <2>2 DEF CountInv
  <1>3. CASE StatusExpired
    BY <1>1, <1>3 DEF CountInv, RefcountExact, StatusExpired
  <1>4. ASSUME NEW t \in Turns, CountUp(t) \/ CountDown(t) PROVE CountInv'
    BY <1>1, <1>4, CountUpExact, CountDownExact DEF CountInv
  <1>5. QED BY <1>2, <1>3, <1>4, CountStep DEF CountInv

\* As long as no watchdog cancels, the reference count of a bot's status is exactly the
\* number of its executors between their announcement and their end, for any number of
\* concurrent turns, cancellations and retries (runtime/state.py:21-42).
THEOREM RefcountIsExact ==
    ASSUME IsFiniteSet(Turns), ~WatchdogFires
    PROVE  Spec => []RefcountExact
  <1>1. TypeInv /\ LockInv /\ CountInv /\ [Next]_vars => CountInv'
    BY ExactStep
  <1>2. CountInv => RefcountExact
    BY DEF CountInv
  <1>3. QED BY <1>1, <1>2, CountInit, LockInvariance, PTL DEF Spec

\* The status of a bot is dropped by a turn that ends only if no other turn of the bot
\* is being processed: the count says so.
LEMMA ShownStep ==
    ASSUME IsFiniteSet(Turns), ~WatchdogFires, ~StatusExpires,
           TypeInv, LockInv, CountInv, ShownWhileProcessing, [Next]_vars
    PROVE  ShownWhileProcessing'
  <1>0. /\ ex \in [Turns -> ExecutorPC] /\ refs \in [Bots -> Nat] /\ shown \subseteq Bots
        /\ BotOf \in [Turns -> Bots]
    BY ConstantsAssumption DEF TypeInv, TypeOK
  <1>1. CASE CountKept
    BY <1>1 DEF CountKept, ShownWhileProcessing
  <1>2. ASSUME NEW t \in Turns, CountUp(t) PROVE ShownWhileProcessing'
    BY <1>0, <1>2 DEF CountUp, SetProcessing, ShownWhileProcessing
  <1>3. ASSUME NEW t \in Turns, CountDown(t) PROVE ShownWhileProcessing'
    <2> SUFFICES ASSUME NEW u \in Turns, ex'[u] \in Counted \ {"unwind"}
                 PROVE  BotOf[u] \in shown'
      BY DEF ShownWhileProcessing
    <2>1. u # t /\ ex[u] = ex'[u]
      BY <1>0, <1>3 DEF CountDown, Counted
    <2>2. BotOf[u] \in shown
      BY <2>1 DEF ShownWhileProcessing
    <2>3. CASE BotOf[u] = BotOf[t]
      <3>1. {t, u} \subseteq CountedOf(BotOf[t])
        BY <1>3, <2>1, <2>3 DEF CountedOf, CountDown
      <3>2. Cardinality({t, u}) = 2
        <4>1. IsFiniteSet({t}) /\ Cardinality({t}) = 1
          BY FS_Singleton
        <4>2. Cardinality({t} \cup {u}) = 1 + 1
          BY <2>1, <4>1, FS_AddElement
        <4>3. {t, u} = {t} \cup {u}
          OBVIOUS
        <4>4. QED BY <4>2, <4>3
      <3>3. /\ IsFiniteSet(CountedOf(BotOf[t]))
            /\ Cardinality(CountedOf(BotOf[t])) = refs[BotOf[t]]
        BY <1>0, FS_Subset DEF CountedOf, CountInv, RefcountExact
      <3>4. 2 <= refs[BotOf[t]]
        BY <3>1, <3>2, <3>3, FS_Subset
      <3>5. refs[BotOf[t]] > 1
        BY <1>0, <3>4
      <3>6. QED BY <1>3, <2>2, <2>3, <3>5 DEF CountDown, ClearProcessing
    <2>4. CASE BotOf[u] # BotOf[t]
      BY <1>3, <2>2, <2>4 DEF CountDown, ClearProcessing
    <2>5. QED BY <2>3, <2>4
  <1>4. ~StatusExpired
    BY DEF StatusExpired
  <1>5. QED BY <1>1, <1>2, <1>3, <1>4, CountStep DEF CountInv

\* Without a watchdog and an expiry, a bot stays visibly busy as long as one of its
\* turns has announced itself and not ended, however its other turns end
\* (runtime/state.py:24).
THEOREM ShownUntilTheLastEnds ==
    ASSUME IsFiniteSet(Turns), ~WatchdogFires, ~StatusExpires
    PROVE  Spec => []ShownWhileProcessing
  <1>1. Init => ShownWhileProcessing
    BY DEF Init, ShownWhileProcessing, Counted
  <1>2. TypeInv /\ LockInv /\ CountInv /\ [Next]_vars => CountInv'
    BY ExactStep
  <1>3. TypeInv /\ LockInv /\ CountInv /\ ShownWhileProcessing /\ [Next]_vars
            => ShownWhileProcessing'
    BY ShownStep
  <1>4. QED BY <1>1, <1>2, <1>3, CountInit, LockInvariance, PTL DEF Spec
=============================================================================
