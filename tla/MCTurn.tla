-------------------------------- MODULE MCTurn --------------------------------
(* Three instances of TurnOrchestrator for TLC, each with its own variables, of *)
(* which one runs and the others rest in their initial state.                   *)
(*   "retry":  one bot and a message sent twice, perhaps after the duplicate    *)
(*             filter forgot it, one retry and the watchdog                     *)
(*   "cancel": one bot, two messages, a client that cancels, and the watchdog   *)
(*   "bots":   two bots, a duplicated message, an adapter without cancel, a     *)
(*             turn recovered after a restart, and no watchdog                  *)
EXTENDS TurnOrchestrator, TLC

CONSTANTS t1, t2, t3, b1, b2, m1, m2, c1

OneBot  == [t \in Turns |-> b1]
SameMsg == [t \in Turns |-> m1]

VARIABLES running,
          fsm1, pc1, attempt1, active1, kill1, ex1, exkill1, lock1, waiters1,
          refs1, shown1, mark1, canceller1, seen1, recovered1, latest1, sent1, cancelled1,
          fsm2, pc2, attempt2, active2, kill2, ex2, exkill2, lock2, waiters2,
          refs2, shown2, mark2, canceller2, seen2, recovered2, latest2, sent2, cancelled2

C == INSTANCE TurnOrchestrator WITH
       Turns <- {t1, t2}, Bots <- {b1}, Clients <- {c1}, Orphaned <- {},
       BotOf <- t1 :> b1 @@ t2 :> b1, MsgOf <- t1 :> m1 @@ t2 :> m2,
       RetryMax <- 0, StatusExpires <- FALSE,
       fsm <- fsm1, pc <- pc1, attempt <- attempt1, active <- active1, kill <- kill1,
       ex <- ex1, exkill <- exkill1, lock <- lock1, waiters <- waiters1, refs <- refs1,
       shown <- shown1, mark <- mark1, canceller <- canceller1, seen <- seen1,
       recoveryDone <- recovered1, latest <- latest1, sent <- sent1,
       cancelled <- cancelled1

B == INSTANCE TurnOrchestrator WITH
       Turns <- {t1, t2, t3}, Bots <- {b1, b2}, Clients <- {c1}, Orphaned <- {t3},
       BotOf <- t1 :> b1 @@ t2 :> b1 @@ t3 :> b2,
       MsgOf <- [t \in {t1, t2, t3} |-> m1],
       RetryMax <- 0, StatusExpires <- FALSE,
       SupportsCancel <- FALSE, WatchdogFires <- FALSE,
       fsm <- fsm2, pc <- pc2, attempt <- attempt2, active <- active2, kill <- kill2,
       ex <- ex2, exkill <- exkill2, lock <- lock2, waiters <- waiters2, refs <- refs2,
       shown <- shown2, mark <- mark2, canceller <- canceller2, seen <- seen2,
       recoveryDone <- recovered2, latest <- latest2, sent <- sent2,
       cancelled <- cancelled2

vars1 == <<fsm1, pc1, attempt1, active1, kill1, ex1, exkill1, lock1, waiters1, refs1, shown1,
           mark1, canceller1, seen1, recovered1, latest1, sent1, cancelled1>>
vars2 == <<fsm2, pc2, attempt2, active2, kill2, ex2, exkill2, lock2, waiters2, refs2, shown2,
           mark2, canceller2, seen2, recovered2, latest2, sent2, cancelled2>>

TurnInit == running \in {"retry", "cancel", "bots"} /\ Init /\ C!Init /\ B!Init
TurnNext ==
    /\ UNCHANGED running
    /\ \/ running = "retry" /\ Next /\ UNCHANGED <<vars1, vars2>>
       \/ running = "cancel" /\ C!Next /\ UNCHANGED <<vars, vars2>>
       \/ running = "bots" /\ B!Next /\ UNCHANGED <<vars, vars1>>

\* The Fairness of the first, while it runs.
TurnSpec ==
    /\ TurnInit /\ [][TurnNext]_<<running, vars, vars1, vars2>>
    /\ WF_vars(running = "retry" /\ System)

-----------------------------------------------------------------------------

\* With a client that cancels, and with two bots, a duplicate, a recovered turn and no
\* watchdog: the snapshot of a bot belongs to a live turn and a bot without one is at
\* rest (runtime_orchestrator.py:325-329); without a watchdog, its processing count is
\* the number of its executors between announcement and end, and what they announced
\* is shown as long (runtime/state.py:21-42).
CancelledAndApart ==
    C!OwnerLive /\ C!IdleWhenQuiet /\ B!IdleWhenQuiet /\ B!RefcountExact /\ B!ShownWhileProcessing
=============================================================================
