------------------------- MODULE MCTurnOrchestrator -------------------------
(* A small instance of TurnOrchestrator for TLC. *)
EXTENDS TurnOrchestrator

CONSTANTS t1, t2, b1, m1, m2

\* Two turns of one bot, two messages.
OneBot  == [t \in Turns |-> b1]
DistinctMsgs == [t \in Turns |-> IF t = t1 THEN m1 ELSE m2]
=============================================================================
