------------------------------- MODULE TurnFSM -------------------------------
(***************************************************************************)
(* The per-bot turn state of backend/session/turn_fsm.py.                  *)
(*                                                                         *)
(* The bodies of TurnFSM run under an uncontended asyncio.Lock and never   *)
(* await inside it, so each method is one atomic function from a snapshot  *)
(* to a snapshot; the orchestrator calls them.  Time is abstracted to the  *)
(* one thing recover_stale tells apart: whether the last update is more    *)
(* than TURN_STALE_RECOVER_SECONDS old ("aged").                           *)
(***************************************************************************)
EXTENDS Naturals

CONSTANTS
    Turns,   \* turn identifiers (uuid4 based in the code, hence unique)
    NoTurn   \* the empty turn_id of an unowned snapshot

ASSUME NoTurnAssumption == NoTurn \notin Turns

TurnState == {"IDLE", "LISTENING", "TRANSCRIBING", "STREAMING", "SPEAKING",
              "INTERRUPTED", "ERROR"}

\* What last_error says: nothing, an illegal transition, a stale recovery, or
\* the failure the caller reported.
LastError == {"none", "illegal", "stale", "reported"}

TurnSnapshot == [state   : TurnState,
                 turn_id : Turns \cup {NoTurn},
                 error   : LastError,
                 aged    : BOOLEAN]

IdleSnapshot == [state |-> "IDLE", turn_id |-> NoTurn,
                 error |-> "none", aged |-> FALSE]

AllowedTransitions ==
    [IDLE         |-> {"LISTENING", "TRANSCRIBING", "STREAMING", "ERROR"},
     LISTENING    |-> {"TRANSCRIBING", "STREAMING", "INTERRUPTED", "ERROR", "IDLE"},
     TRANSCRIBING |-> {"STREAMING", "INTERRUPTED", "ERROR", "IDLE"},
     STREAMING    |-> {"SPEAKING", "INTERRUPTED", "ERROR", "IDLE"},
     SPEAKING     |-> {"IDLE", "INTERRUPTED", "ERROR"},
     INTERRUPTED  |-> {"LISTENING", "TRANSCRIBING", "STREAMING", "IDLE", "ERROR"},
     ERROR        |-> {"IDLE", "LISTENING", "TRANSCRIBING", "STREAMING"}]

\* The guard shared by transition, set_attempts, finish_turn and touch: the
\* call names a turn and the snapshot belongs to another one.
Stale(snap, turn) == snap.turn_id # NoTurn /\ snap.turn_id # turn

BeginTurn(turn) == [state |-> "LISTENING", turn_id |-> turn,
                    error |-> "none", aged |-> FALSE]

Transition(snap, turn, next, error) ==
    IF Stale(snap, turn)
    THEN snap
    ELSE IF next # snap.state /\ next \notin AllowedTransitions[snap.state]
         THEN [snap EXCEPT !.state = "ERROR", !.error = "illegal", !.aged = FALSE]
         ELSE [snap EXCEPT !.state = next, !.aged = FALSE,
                           !.error = IF error = "none" THEN @ ELSE error]

\* touch, and set_attempts, whose counter the orchestrator's own loop variable
\* carries in the model.
Touch(snap, turn) == IF Stale(snap, turn) THEN snap ELSE [snap EXCEPT !.aged = FALSE]

\* Faulty variant: only the owner resets the snapshot.
FinishTurnOwnerOnly(snap, turn) == IF snap.turn_id = turn THEN IdleSnapshot ELSE snap

FinishTurn(snap, turn) == IF Stale(snap, turn) THEN snap ELSE IdleSnapshot

\* One element of the loop of recover_stale: ERROR then IDLE, keeping last_error.
RecoverStale(snap) ==
    IF snap.state # "IDLE" /\ snap.aged
    THEN [IdleSnapshot EXCEPT !.error = "stale"]
    ELSE snap
=============================================================================
