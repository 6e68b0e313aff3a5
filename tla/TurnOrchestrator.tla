--------------------------- MODULE TurnOrchestrator ---------------------------
(***************************************************************************)
(* How one user message becomes one agent turn.                            *)
(*                                                                         *)
(* RuntimeSessionOrchestrator.start_turn (the starter) runs as a           *)
(* background task of a websocket handler, drives the bot's TurnFSM, and   *)
(* spawns process_bot_message (the executor), which queues for the bot's   *)
(* send lock and calls the agent.  A watchdog in the starter may cancel    *)
(* the executor and retry; request_cancel, run by any connection, may      *)
(* cancel the starter.  Several turns of one bot are live at once.         *)
(*                                                                         *)
(* A step of the model is the code between two awaits that can suspend.    *)
(* asyncio delivers a CancelledError at the next step of the task it was   *)
(* sent to: "kill" and "exkill" hold the deliveries still owed.            *)
(***************************************************************************)
EXTENDS TurnFSM, FiniteSets, Sequences, SequencesExt

CONSTANTS
    Bots,            \* agent slots
    Clients,         \* websocket connections that may send CANCEL_TURN
    Msgs,            \* client message ids
    BotOf,           \* Turns -> Bots: the slot a start_turn call is for
    MsgOf,           \* Turns -> Msgs: the client_msg_id of a start_turn call
    Orphaned,        \* turns the agent was still running at the last restart
    RetryMax,        \* TURN_RETRY_MAX
    SupportsCancel,  \* the adapter reports supports_cancel
    WatchdogFires,   \* idle or hard timeouts are reached in this environment
    HardLimit,       \* the adapter sets turn_max_timeout_seconds
    StatusExpires    \* a status outlives _BOT_PROCESSING_STALE_SEC

ASSUME ConstantsAssumption ==
    /\ BotOf \in [Turns -> Bots]
    /\ MsgOf \in [Turns -> Msgs]
    /\ Orphaned \subseteq Turns
    /\ RetryMax \in Nat
    /\ {SupportsCancel, WatchdogFires, HardLimit, StatusExpires} \subseteq BOOLEAN

VARIABLES
    fsm,        \* TurnFSM._state: [Bots -> TurnSnapshot]
    pc,         \* where each start_turn call is suspended
    attempt,    \* its loop variable
    active,     \* keys of _active_turns
    kill,       \* starters owed a CancelledError
    ex,         \* where each turn's current process_bot_message task is
    exkill,     \* executors owed a CancelledError
    lock,       \* _bot_send_locks[b]: the turn holding it, or NoTurn
    waiters,    \* its FIFO of waiting executors
    refs,       \* _bot_processing_refcount
    shown,      \* bots with an entry in _bot_processing_state
    mark,       \* bots with an adapter cancel mark
    canceller,  \* where each connection's request_cancel is suspended
    seen,       \* keys of _turn_seen still within their TTL
    recoveryDone,
    \* History, read by properties only.
    latest,     \* the turn that last called begin_turn for each bot
    sent,       \* how many times a turn's text was handed to the agent
    cancelled   \* turns whose cancellation was answered "generation_cancelled"

starterVars  == <<pc, attempt, active, kill>>
executorVars == <<ex, exkill, lock, waiters>>
statusVars   == <<refs, shown>>
history      == <<latest, sent, cancelled>>
vars == <<fsm, starterVars, executorVars, statusVars, mark, canceller, seen,
          recoveryDone, history>>

StarterPC == {"new", "begun", "transcribing", "streaming", "attempt", "watch",
              "reap", "retry", "closing", "done", "rejected", "recovered"}

Registered == {"attempt", "watch", "reap", "retry", "closing"}
Live       == {"begun", "transcribing", "streaming"} \cup Registered

ExecutorPC == {"none", "start", "announced", "waiting", "locked", "sending",
               "speaking", "unwind", "ok", "failed", "aborted"}

Finished == {"ok", "failed", "aborted"}    \* turn_task.done()
Holding  == {"locked", "sending", "speaking"}
Counted  == {"announced", "waiting", "locked", "sending", "speaking", "unwind"}

NoCall == [pc |-> "idle", turn |-> NoTurn, ok |-> FALSE]
CancelCall == [pc : {"idle", "adapter", "closing"}, turn : Turns \cup {NoTurn},
               ok : BOOLEAN]

Init ==
    /\ fsm = [b \in Bots |-> IdleSnapshot]
    /\ pc = [t \in Turns |-> "new"]
    /\ attempt = [t \in Turns |-> 0]
    /\ active = {}
    /\ kill = {}
    /\ ex = [t \in Turns |-> "none"]
    /\ exkill = {}
    /\ lock = [b \in Bots |-> NoTurn]
    /\ waiters = [b \in Bots |-> <<>>]
    /\ refs = [b \in Bots |-> 0]
    /\ shown = {}
    /\ mark = {}
    /\ canceller = [c \in Clients |-> NoCall]
    /\ seen = {}
    /\ recoveryDone = FALSE
    /\ latest = [b \in Bots |-> NoTurn]
    /\ sent = [t \in Turns |-> 0]
    /\ cancelled = {}

-----------------------------------------------------------------------------
(* Helpers *)

Goto(t, label) == pc' = [pc EXCEPT ![t] = label]

FSMTransition(t, next, error) ==
    fsm' = [fsm EXCEPT ![BotOf[t]] = Transition(@, t, next, error)]

\* _mark_or_reject_duplicate_turn keys on bot and message.
TurnKey(t) == <<BotOf[t], MsgOf[t]>>

\* set_bot_processing(bot, status) and set_bot_processing(bot, "").
SetProcessing(b) ==
    /\ refs' = [refs EXCEPT ![b] = @ + 1]
    /\ shown' = shown \cup {b}

\* Faulty variant: the count has no floor.
ClearProcessingNoFloor(b) ==
    /\ refs' = [refs EXCEPT ![b] = @ - 1]
    /\ shown' = IF refs[b] > 1 THEN shown ELSE shown \ {b}

\* Faulty variant: the entry is dropped whatever the count.
ClearProcessingAlways(b) ==
    /\ refs' = [refs EXCEPT ![b] = IF @ > 0 THEN @ - 1 ELSE 0]
    /\ shown' = shown \ {b}

ClearProcessing(b) ==
    /\ refs' = [refs EXCEPT ![b] = IF @ > 0 THEN @ - 1 ELSE 0]
    /\ shown' = IF refs[b] > 1 THEN shown ELSE shown \ {b}

Acquire(b, t) == lock' = [lock EXCEPT ![b] = t]
Release(b)    == lock' = [lock EXCEPT ![b] = NoTurn]

-----------------------------------------------------------------------------
(* The starter: RuntimeSessionOrchestrator.start_turn *)

\* The TTL (or the size cap) of _turn_seen drops a key.  It is left out when no
\* call to come would look the key up.
ForgetTurn(key) ==
    /\ key \in seen
    /\ \E t \in Turns \ Orphaned : pc[t] = "new" /\ TurnKey(t) = key
    /\ seen' = seen \ {key}
    /\ UNCHANGED <<fsm, starterVars, executorVars, statusVars, mark, canceller,
                   recoveryDone, history>>

\* recover_stale, then the duplicate check, then begin_turn.
StartTurn(t) ==
    /\ pc[t] = "new" /\ t \notin Orphaned
    /\ LET recovered == [b \in Bots |-> RecoverStale(fsm[b])]
       IN \/ /\ TurnKey(t) \in seen
             /\ fsm' = recovered
             /\ Goto(t, "rejected")
             /\ UNCHANGED <<seen, latest>>
          \/ /\ TurnKey(t) \notin seen
             /\ fsm' = [recovered EXCEPT ![BotOf[t]] = BeginTurn(t)]
             /\ Goto(t, "begun")
             /\ seen' = seen \cup {TurnKey(t)}
             /\ latest' = [latest EXCEPT ![BotOf[t]] = t]
    /\ UNCHANGED <<attempt, active, kill, executorVars, statusVars, mark,
                   canceller, recoveryDone, sent, cancelled>>

\* Only turns that come from audio pass through TRANSCRIBING.
Transcribe(t) ==
    /\ pc[t] = "begun"
    /\ FSMTransition(t, "TRANSCRIBING", "none")
    /\ Goto(t, "transcribing")
    /\ UNCHANGED <<attempt, active, kill, executorVars, statusVars, mark,
                   canceller, seen, recoveryDone, history>>

Stream(t) ==
    /\ pc[t] \in {"begun", "transcribing"}
    /\ FSMTransition(t, "STREAMING", "none")
    /\ Goto(t, "streaming")
    /\ UNCHANGED <<attempt, active, kill, executorVars, statusVars, mark,
                   canceller, seen, recoveryDone, history>>

\* Entry in _active_turns, adapter.clear_cancel(bot), first set_attempts.
Register(t) ==
    /\ pc[t] = "streaming"
    /\ active' = active \cup {t}
    /\ mark' = mark \ {BotOf[t]}
    /\ attempt' = [attempt EXCEPT ![t] = 1]
    /\ fsm' = [fsm EXCEPT ![BotOf[t]] = Touch(@, t)]
    /\ Goto(t, "attempt")
    /\ UNCHANGED <<kill, executorVars, statusVars, canceller, seen,
                   recoveryDone, history>>

Spawn(t) ==
    /\ pc[t] = "attempt" /\ t \notin kill
    /\ ex' = [ex EXCEPT ![t] = "start"]
    /\ Goto(t, "watch")
    /\ UNCHANGED <<fsm, attempt, active, kill, exkill, lock, waiters, statusVars,
                   mark, canceller, seen, recoveryDone, history>>

\* The watchdog's heartbeat, sent when the executor has been silent for 15 s.
Heartbeat(t) ==
    /\ pc[t] = "watch" /\ t \notin kill
    /\ fsm' = [fsm EXCEPT ![BotOf[t]] = Touch(@, t)]
    /\ UNCHANGED <<starterVars, executorVars, statusVars, mark, canceller, seen,
                   recoveryDone, history>>

\* The executor returned: SPEAKING.
Succeed(t) ==
    /\ pc[t] = "watch" /\ t \notin kill
    /\ ex[t] = "ok"
    /\ FSMTransition(t, "SPEAKING", "none")
    /\ Goto(t, "closing")
    /\ UNCHANGED <<attempt, active, kill, executorVars, statusVars, mark,
                   canceller, seen, recoveryDone, history>>

\* Faulty variant: one attempt too many.
AfterFailureOneMore(t) ==
    IF attempt[t] <= RetryMax + 1
    THEN /\ Goto(t, "retry")
         /\ UNCHANGED fsm
    ELSE /\ Goto(t, "closing")
         /\ FSMTransition(t, "ERROR", "reported")

\* What follows a TimeoutError or an Exception: another attempt, or ERROR.
AfterFailure(t) ==
    IF attempt[t] <= RetryMax
    THEN /\ Goto(t, "retry")
         /\ UNCHANGED fsm
    ELSE /\ Goto(t, "closing")
         /\ FSMTransition(t, "ERROR", "reported")

ExecutorRaised(t) ==
    /\ pc[t] = "watch" /\ t \notin kill
    /\ ex[t] = "failed"
    /\ AfterFailure(t)
    /\ UNCHANGED <<attempt, active, kill, executorVars, statusVars, mark,
                   canceller, seen, recoveryDone, history>>

\* Faulty variant: the executor is cancelled but not awaited.
TimeoutNoReap(t) ==
    /\ WatchdogFires
    /\ pc[t] = "watch" /\ t \notin kill
    /\ ex[t] \notin Finished
    /\ exkill' = exkill \cup {t}
    /\ AfterFailure(t)
    /\ UNCHANGED <<attempt, active, kill, ex, lock, waiters, statusVars, mark,
                   canceller, seen, recoveryDone, history>>

\* Faulty variant: the executor is awaited but not cancelled.
TimeoutNoCancel(t) ==
    /\ WatchdogFires
    /\ pc[t] = "watch" /\ t \notin kill
    /\ ex[t] \notin Finished
    /\ Goto(t, "reap")
    /\ UNCHANGED <<fsm, attempt, active, kill, executorVars, statusVars, mark,
                   canceller, seen, recoveryDone, history>>

\* The idle timeout or the hard limit cancels the executor and waits for it.
Timeout(t) ==
    /\ WatchdogFires
    /\ pc[t] = "watch" /\ t \notin kill
    /\ ex[t] \notin Finished
    /\ exkill' = exkill \cup {t}
    /\ Goto(t, "reap")
    /\ UNCHANGED <<fsm, attempt, active, kill, ex, lock, waiters, statusVars, mark,
                   canceller, seen, recoveryDone, history>>

\* The executor finished while the watchdog slept, and the hard limit is checked
\* before turn_task.done() is: the finished turn counts as timed out.
TimeoutAfterFinish(t) ==
    /\ WatchdogFires /\ HardLimit
    /\ pc[t] = "watch" /\ t \notin kill
    /\ ex[t] \in Finished
    /\ AfterFailure(t)
    /\ UNCHANGED <<attempt, active, kill, executorVars, statusVars, mark,
                   canceller, seen, recoveryDone, history>>

\* "await turn_task" ends, whatever it raises is swallowed, TimeoutError follows.
Reap(t) ==
    /\ pc[t] = "reap"
    /\ ex[t] \in Finished
    /\ AfterFailure(t)
    /\ UNCHANGED <<attempt, active, kill, executorVars, statusVars, mark,
                   canceller, seen, recoveryDone, history>>

Retry(t) ==
    /\ pc[t] = "retry" /\ t \notin kill
    /\ attempt' = [attempt EXCEPT ![t] = @ + 1]
    /\ fsm' = [fsm EXCEPT ![BotOf[t]] = Touch(@, t)]
    /\ Goto(t, "attempt")
    /\ UNCHANGED <<active, kill, executorVars, statusVars, mark, canceller, seen,
                   recoveryDone, history>>

\* A CancelledError thrown into the watchdog's sleep: INTERRUPTED.  The executor
\* task is left running.
CancelWatching(t) ==
    /\ pc[t] = "watch" /\ t \in kill
    /\ kill' = kill \ {t}
    /\ FSMTransition(t, "INTERRUPTED", "reported")
    /\ Goto(t, "closing")
    /\ UNCHANGED <<attempt, active, executorVars, statusVars, mark, canceller,
                   seen, recoveryDone, history>>

\* Faulty variant: the finally block forgets finish_turn.
FinishStarterNoFinish(t) ==
    /\ \/ pc[t] = "closing"
       \/ pc[t] \in {"attempt", "retry"} /\ t \in kill
    /\ kill' = kill \ {t}
    /\ active' = active \ {t}
    /\ Goto(t, "done")
    /\ UNCHANGED <<fsm, attempt, executorVars, statusVars, mark, canceller, seen,
                   recoveryDone, history>>

\* The finally block, reached normally from "closing", and by a CancelledError
\* from the sends that the inner try does not cover.
FinishStarter(t) ==
    /\ \/ pc[t] = "closing"
       \/ pc[t] \in {"attempt", "retry"} /\ t \in kill
    /\ kill' = kill \ {t}
    /\ active' = active \ {t}
    /\ fsm' = [fsm EXCEPT ![BotOf[t]] = FinishTurn(@, t)]
    /\ Goto(t, "done")
    /\ UNCHANGED <<attempt, executorVars, statusVars, mark, canceller, seen,
                   recoveryDone, history>>

-----------------------------------------------------------------------------
(* The executor: process_bot_message *)

\* A step of the executor needs that no CancelledError is owed to it.
ExecutorAt(t, label) == ex[t] = label /\ t \notin exkill
ExecutorGoto(t, label) == ex' = [ex EXCEPT ![t] = label]

\* The transcript is out: set_bot_processing(bot, "thinking").
Announce(t) ==
    /\ ExecutorAt(t, "start")
    /\ SetProcessing(BotOf[t])
    /\ ExecutorGoto(t, "announced")
    /\ UNCHANGED <<fsm, starterVars, exkill, lock, waiters, mark, canceller, seen,
                   recoveryDone, history>>

\* require_slot raises: the slot was removed after the message was accepted.
SlotGone(t) ==
    /\ ExecutorAt(t, "start")
    /\ ExecutorGoto(t, "failed")
    /\ UNCHANGED <<fsm, starterVars, exkill, lock, waiters, statusVars, mark,
                   canceller, seen, recoveryDone, history>>

\* Faulty variant: the fast path looks at the queue only.
QueueForLockBarging(t) ==
    LET b == BotOf[t] IN
    /\ ExecutorAt(t, "announced")
    /\ waiters[b] = <<>>
    /\ Acquire(b, t)
    /\ ExecutorGoto(t, "locked")
    /\ UNCHANGED <<fsm, starterVars, exkill, waiters, statusVars, mark, canceller, seen,
                   recoveryDone, history>>

\* asyncio.Lock.acquire: the fast path needs a free lock and no waiter.
QueueForLock(t) ==
    LET b == BotOf[t] IN
    /\ ExecutorAt(t, "announced")
    /\ \/ /\ lock[b] = NoTurn /\ waiters[b] = <<>>
          /\ Acquire(b, t)
          /\ ExecutorGoto(t, "locked")
          /\ UNCHANGED waiters
       \/ /\ lock[b] # NoTurn \/ waiters[b] # <<>>
          /\ waiters' = [waiters EXCEPT ![b] = Append(@, t)]
          /\ ExecutorGoto(t, "waiting")
          /\ UNCHANGED lock
    /\ UNCHANGED <<fsm, starterVars, exkill, statusVars, mark, canceller, seen,
                   recoveryDone, history>>

WakeFirst(t) ==
    LET b == BotOf[t] IN
    /\ ExecutorAt(t, "waiting")
    /\ lock[b] = NoTurn
    /\ waiters[b] # <<>> /\ Head(waiters[b]) = t
    /\ waiters' = [waiters EXCEPT ![b] = Tail(@)]
    /\ Acquire(b, t)
    /\ ExecutorGoto(t, "locked")
    /\ UNCHANGED <<fsm, starterVars, exkill, statusVars, mark, canceller, seen,
                   recoveryDone, history>>

\* AGENT_STARTED is out; send_user_turn / stream_user_turn first clears the mark.
Submit(t) ==
    /\ ExecutorAt(t, "locked")
    /\ sent' = [sent EXCEPT ![t] = @ + 1]
    /\ mark' = mark \ {BotOf[t]}
    /\ ExecutorGoto(t, "sending")
    /\ UNCHANGED <<fsm, starterVars, exkill, lock, waiters, statusVars, canceller,
                   seen, recoveryDone, latest, cancelled>>

\* A reply that the server synthesises itself (non-streaming turn).
ReplySpoken(t) ==
    /\ ExecutorAt(t, "sending")
    /\ BotOf[t] \notin mark
    /\ ExecutorGoto(t, "speaking")
    /\ UNCHANGED <<fsm, starterVars, exkill, lock, waiters, statusVars, mark,
                   canceller, seen, recoveryDone, history>>

\* Every other normal end: a streamed turn, an empty or a cancelled reply, a
\* reply spoken by the client, or the end of the synthesis.
Complete(t) ==
    /\ ExecutorAt(t, "sending") \/ ExecutorAt(t, "speaking")
    /\ ClearProcessing(BotOf[t])
    /\ Release(BotOf[t])
    /\ ExecutorGoto(t, "ok")
    /\ UNCHANGED <<fsm, starterVars, exkill, waiters, mark, canceller, seen,
                   recoveryDone, history>>

\* The agent call raises: the lock is released before the handler's first await.
AgentRaises(t) ==
    /\ ExecutorAt(t, "sending")
    /\ Release(BotOf[t])
    /\ ExecutorGoto(t, "unwind")
    /\ UNCHANGED <<fsm, starterVars, exkill, waiters, statusVars, mark, canceller,
                   seen, recoveryDone, history>>

\* Faulty variant: the except handlers leave the status set.
UnwindNoClear(t) ==
    /\ ExecutorAt(t, "unwind")
    /\ ExecutorGoto(t, "ok")
    /\ UNCHANGED <<fsm, starterVars, exkill, lock, waiters, statusVars, mark,
                   canceller, seen, recoveryDone, history>>

\* The except handlers have sent TURN_CANCELLED or RESPONSE; the exception ends
\* here and the task returns normally.
Unwind(t) ==
    /\ ExecutorAt(t, "unwind")
    /\ ClearProcessing(BotOf[t])
    /\ ExecutorGoto(t, "ok")
    /\ UNCHANGED <<fsm, starterVars, exkill, lock, waiters, mark, canceller, seen,
                   recoveryDone, history>>

\* A CancelledError outside the try, or inside one of its handlers, ends the task.
AbortUnguarded(t) ==
    /\ t \in exkill /\ ex[t] \in {"start", "announced", "unwind"}
    /\ exkill' = exkill \ {t}
    /\ ExecutorGoto(t, "aborted")
    /\ UNCHANGED <<fsm, starterVars, lock, waiters, statusVars, mark, canceller,
                   seen, recoveryDone, history>>

AbortWaiting(t) ==
    LET b == BotOf[t] IN
    /\ t \in exkill /\ ex[t] = "waiting"
    /\ exkill' = exkill \ {t}
    /\ \E i \in DOMAIN waiters[b] :
          waiters[b][i] = t /\ waiters' = [waiters EXCEPT ![b] = RemoveAt(@, i)]
    /\ ExecutorGoto(t, "unwind")
    /\ UNCHANGED <<fsm, starterVars, lock, statusVars, mark, canceller, seen,
                   recoveryDone, history>>

\* Faulty variant: a cancelled executor leaves without releasing the lock.
AbortHoldingKeepsLock(t) ==
    /\ t \in exkill /\ ex[t] \in Holding
    /\ exkill' = exkill \ {t}
    /\ ExecutorGoto(t, "unwind")
    /\ UNCHANGED <<fsm, starterVars, lock, waiters, statusVars, mark, canceller,
                   seen, recoveryDone, history>>

\* Cancelled under the lock.  The synthesis has a finally block that clears the
\* processing state, and the CancelledError handler will clear it once more.
AbortHolding(t) ==
    /\ t \in exkill /\ ex[t] \in Holding
    /\ exkill' = exkill \ {t}
    /\ Release(BotOf[t])
    /\ IF ex[t] = "speaking" THEN ClearProcessing(BotOf[t]) ELSE UNCHANGED statusVars
    /\ ExecutorGoto(t, "unwind")
    /\ UNCHANGED <<fsm, starterVars, waiters, mark, canceller, seen, recoveryDone,
                   history>>

-----------------------------------------------------------------------------
(* request_cancel, run by the handler of connection c *)

\* The lookup in _active_turns; an adapter that can cancel marks the bot first.
RequestCancel(c, t) ==
    /\ canceller[c].pc = "idle"
    /\ t \in active
    /\ IF SupportsCancel
       THEN /\ canceller' = [canceller EXCEPT ![c] =
                                [pc |-> "adapter", turn |-> t, ok |-> FALSE]]
            /\ mark' = mark \cup {BotOf[t]}
            /\ UNCHANGED fsm
       ELSE /\ canceller' = [canceller EXCEPT ![c] =
                                [pc |-> "closing", turn |-> t, ok |-> FALSE]]
            /\ FSMTransition(t, "INTERRUPTED", "reported")
            /\ UNCHANGED mark
    /\ UNCHANGED <<starterVars, executorVars, statusVars, seen, recoveryDone,
                   history>>

\* asyncio's Task.cancel(): a starter that awaits its executor passes the
\* cancellation on; one that is suspended elsewhere is owed a CancelledError; a
\* finished one (or a recovered turn, which has no task) is left alone.
CancelTask(t) ==
    /\ kill' = IF pc[t] \in Registered \ {"reap"} THEN kill \cup {t} ELSE kill
    /\ exkill' = IF pc[t] = "reap" /\ ex[t] \notin Finished
                 THEN exkill \cup {t} ELSE exkill

AdapterCancelled(c) ==
    LET t == canceller[c].turn IN
    /\ canceller[c].pc = "adapter"
    /\ CancelTask(t)
    /\ FSMTransition(t, "INTERRUPTED", "reported")
    /\ \E ok \in BOOLEAN :    \* the adapter's answer
          canceller' = [canceller EXCEPT ![c] =
                           [pc |-> "closing", turn |-> t, ok |-> ok]]
    /\ UNCHANGED <<pc, attempt, active, ex, lock, waiters, statusVars, mark, seen,
                   recoveryDone, history>>

\* adapter.cancel raises: the handler reports mode "error".
AdapterCancelRaises(c) ==
    /\ canceller[c].pc = "adapter"
    /\ canceller' = [canceller EXCEPT ![c] = NoCall]
    /\ UNCHANGED <<fsm, starterVars, executorVars, statusVars, mark, seen,
                   recoveryDone, history>>

\* Faulty variant: request_cancel forgets finish_turn.
FinishCancelNoFinish(c) ==
    LET t == canceller[c].turn IN
    /\ canceller[c].pc = "closing"
    /\ cancelled' = IF canceller[c].ok THEN cancelled \cup {t} ELSE cancelled
    /\ canceller' = [canceller EXCEPT ![c] = NoCall]
    /\ UNCHANGED <<fsm, starterVars, executorVars, statusVars, mark, seen,
                   recoveryDone, latest, sent>>

\* finish_turn, CANCEL_ACK, and the history boundary of a generation_cancelled.
FinishCancel(c) ==
    LET t == canceller[c].turn IN
    /\ canceller[c].pc = "closing"
    /\ fsm' = [fsm EXCEPT ![BotOf[t]] = FinishTurn(@, t)]
    /\ cancelled' = IF canceller[c].ok THEN cancelled \cup {t} ELSE cancelled
    /\ canceller' = [canceller EXCEPT ![c] = NoCall]
    /\ UNCHANGED <<starterVars, executorVars, statusVars, mark, seen, recoveryDone,
                   latest, sent>>

-----------------------------------------------------------------------------
(* Turns found running in the agent after a backend restart *)

\* The scan at startup registers the turns it finds.
RecoverActiveTurns(found) ==
    /\ ~recoveryDone
    /\ recoveryDone' = TRUE
    /\ pc' = [t \in Turns |-> IF t \in found THEN "recovered" ELSE pc[t]]
    /\ active' = active \cup found
    /\ UNCHANGED <<fsm, attempt, kill, executorVars, statusVars, mark, canceller,
                   seen, history>>

\* The poller no longer sees the agent busy.
PollRecovered(t) ==
    /\ pc[t] = "recovered"
    /\ active' = active \ {t}
    /\ Goto(t, "done")
    /\ UNCHANGED <<fsm, attempt, kill, executorVars, statusVars, mark, canceller,
                   seen, recoveryDone, history>>

-----------------------------------------------------------------------------
(* Time *)

\* 660 s pass without an update of the bot's snapshot.  It is left out when no
\* start_turn to come would look at the age.
AgeSnapshot(b) ==
    /\ \E t \in Turns \ Orphaned : pc[t] = "new"
    /\ fsm[b].state # "IDLE" /\ ~fsm[b].aged
    /\ fsm' = [fsm EXCEPT ![b].aged = TRUE]
    /\ UNCHANGED <<starterVars, executorVars, statusVars, mark, canceller, seen,
                   recoveryDone, history>>

\* get_bot_processing_states drops an entry older than 120 s, not its count.
ExpireStatus(b) ==
    /\ StatusExpires
    /\ b \in shown
    /\ shown' = shown \ {b}
    /\ UNCHANGED <<fsm, starterVars, executorVars, refs, mark, canceller, seen,
                   recoveryDone, history>>

-----------------------------------------------------------------------------
StarterStep(t) ==
    \/ StartTurn(t) \/ Transcribe(t) \/ Stream(t) \/ Register(t) \/ Spawn(t)
    \/ Heartbeat(t) \/ Succeed(t) \/ ExecutorRaised(t) \/ Timeout(t)
    \/ TimeoutAfterFinish(t) \/ Reap(t) \/ Retry(t)
    \/ FinishStarter(t)

ExecutorStep(t) ==
    \/ Announce(t) \/ SlotGone(t) \/ QueueForLock(t) \/ WakeFirst(t) \/ Submit(t)
    \/ ReplySpoken(t) \/ Complete(t) \/ AgentRaises(t) \/ Unwind(t)
    \/ AbortUnguarded(t) \/ AbortWaiting(t) \/ AbortHolding(t)

CancelStep(c) ==
    \/ \E t \in Turns : RequestCancel(c, t)
    \/ AdapterCancelled(c) \/ AdapterCancelRaises(c) \/ FinishCancel(c)

\* Nothing is left to do: every call has returned.
Quiescent ==
    /\ \A t \in Turns : pc[t] \in {"done", "rejected"} \/ (t \in Orphaned /\ pc[t] = "new")
    /\ \A t \in Turns : ex[t] \in Finished \cup {"none"}
    /\ \A c \in Clients : canceller[c].pc = "idle"

Next ==
    \/ \E t \in Turns : StarterStep(t) \/ ExecutorStep(t)
    \/ \E c \in Clients : CancelStep(c) \/ \E t \in Turns : CancelWatching(t)
    \/ \E key \in seen : ForgetTurn(key)
    \/ \E found \in (SUBSET Orphaned) \ {{}} : RecoverActiveTurns(found)
    \/ \E t \in Orphaned : PollRecovered(t)
    \/ \E b \in Bots : AgeSnapshot(b) \/ ExpireStatus(b)
    \/ Quiescent /\ UNCHANGED vars

Spec == Init /\ [][Next]_vars

\* What runs without the agent or a user: tasks that can run, timers, the hard limit.
System ==
    \/ \E t \in Turns :
          \/ Stream(t) \/ Register(t) \/ Spawn(t) \/ Reap(t) \/ Retry(t) \/ CancelWatching(t)
          \/ Succeed(t) \/ ExecutorRaised(t) \/ Timeout(t) \/ TimeoutAfterFinish(t)
          \/ FinishStarter(t)
          \/ Announce(t) \/ SlotGone(t) \/ QueueForLock(t) \/ WakeFirst(t) \/ Submit(t)
          \/ Unwind(t) \/ AbortUnguarded(t) \/ AbortWaiting(t) \/ AbortHolding(t)
    \/ \E c \in Clients : FinishCancel(c)

\* The event loop does not rest while it has something to run; nothing is assumed of
\* the agent or of the user.
Fairness == WF_vars(System)

FairSpec == Spec /\ Fairness

-----------------------------------------------------------------------------
(* Properties *)

TypeOK ==
    /\ fsm \in [Bots -> TurnSnapshot]
    /\ pc \in [Turns -> StarterPC]
    /\ attempt \in [Turns -> Nat]
    /\ active \subseteq Turns
    /\ kill \subseteq Turns
    /\ ex \in [Turns -> ExecutorPC]
    /\ exkill \subseteq Turns
    /\ lock \in [Bots -> Turns \cup {NoTurn}]
    /\ waiters \in [Bots -> Seq(Turns)]
    /\ refs \in [Bots -> Nat]
    /\ shown \subseteq Bots
    /\ mark \subseteq Bots
    /\ canceller \in [Clients -> CancelCall]
    /\ seen \subseteq Bots \X Msgs
    /\ recoveryDone \in BOOLEAN
    /\ latest \in [Bots -> Turns \cup {NoTurn}]
    /\ sent \in [Turns -> Nat]
    /\ cancelled \subseteq Turns

\* The send lock of a bot is held by exactly the executor that is inside its
\* critical section: no cancellation, error or retry leaks it or releases a lock
\* that another turn has acquired.
LockDiscipline ==
    \A t \in Turns : ex[t] \in Holding <=> lock[BotOf[t]] = t

\* Two turns of one bot never talk to the agent at the same time.
AgentExclusive ==
    \A t, u \in Turns :
        t # u /\ BotOf[t] = BotOf[u] => ~(ex[t] \in Holding /\ ex[u] \in Holding)

\* A retry never overlaps the attempt it replaces: when start_turn is about to
\* spawn an executor, the previous one of the same turn has ended.
RetryAfterReap ==
    \A t \in Turns : pc[t] \in {"new", "begun", "transcribing", "streaming", "attempt", "retry"}
                        => ex[t] \in Finished \cup {"none"}

\* The snapshot of a bot never names a turn whose start_turn has returned.
OwnerLive ==
    \A b \in Bots : fsm[b].turn_id # NoTurn => pc[fsm[b].turn_id] \in Live

\* When no turn of a bot is live and no cancellation is in flight for it, the
\* bot is IDLE and unowned, whatever stale, late or cancelled calls came before.
IdleWhenQuiet ==
    \A b \in Bots :
        /\ \A t \in Turns : BotOf[t] = b => pc[t] \notin Live
        /\ \A c \in Clients : canceller[c].pc = "closing" => BotOf[canceller[c].turn] # b
        => fsm[b].state = "IDLE" /\ fsm[b].turn_id = NoTurn

\* The text of one accepted message reaches the agent at most once per attempt.
SubmitBounded ==
    \A t \in Turns : sent[t] <= attempt[t] /\ attempt[t] <= RetryMax + 1

\* As long as no watchdog cancels, the reference count is exactly the number of
\* executors between their announcement and their end.
RefcountExact ==
    \A b \in Bots :
        refs[b] = Cardinality({t \in Turns : BotOf[t] = b /\ ex[t] \in Counted})

\* state.py:24: the visible state is only cleared when the last turn finishes: a
\* turn that has announced itself and not yet ended or started unwinding is shown.
\* It holds without a watchdog; an executor that is reaped while its reply is being
\* synthesised clears the count twice.
ShownWhileProcessing ==
    \A t \in Turns : ex[t] \in Counted \ {"unwind"} => BotOf[t] \in shown

\* turn_fsm.py:132: transitions of a turn that another turn of the bot has
\* replaced are ignored.  It does not hold: a bot that is at rest has no owner to
\* compare with, and takes the late transition.
StaleTransitionsIgnored ==
    [][\A t \in Turns :
          /\ latest[BotOf[t]] # t
          /\ Succeed(t)
          => fsm'[BotOf[t]] = fsm[BotOf[t]]]_vars

\* handler.py:902: a boundary is written when generation was actually cancelled;
\* the turn's text is not handed to the agent after that.
CancelledNotSubmitted ==
    [][\A t \in cancelled : sent'[t] = sent[t]]_vars

\* Every accepted turn ends, even if the agent never answers, and no executor queues
\* for the send lock for ever (runtime_orchestrator.py:236, turn_executor.py:694).
TurnsAreServed ==
    <>[](\A t \in Turns : pc[t] \notin {"streaming"} \cup Registered /\ ex[t] # "waiting")
=============================================================================
