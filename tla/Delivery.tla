------------------------------- MODULE Delivery -------------------------------
(***************************************************************************)
(* What sending a message promises, without outbox, timers or websockets:  *)
(* the user is told that a message was delivered only after the server     *)
(* took it, every message is one day reported delivered or failed, and the *)
(* server starts at most one turn for it.  A message that was reported     *)
(* failed may still be taken, and one that was reported delivered may be   *)
(* reported failed afterwards, never the other way round.                  *)
(***************************************************************************)
EXTENDS Naturals

CONSTANT Msgs

VARIABLES told, accepted, processed

Init ==
    /\ told = [m \in Msgs |-> "none"]
    /\ accepted = {}
    /\ processed = [m \in Msgs |-> 0]

Submit(m) ==
    /\ told[m] = "none"
    /\ told' = [told EXCEPT ![m] = "pending"]
    /\ UNCHANGED <<accepted, processed>>

Accept(m) ==
    /\ told[m] # "none"
    /\ accepted' = accepted \cup {m}
    /\ UNCHANGED <<told, processed>>

Process(m) ==
    /\ m \in accepted
    /\ processed[m] = 0
    /\ processed' = [processed EXCEPT ![m] = 1]
    /\ UNCHANGED <<told, accepted>>

Confirm(m) ==
    /\ m \in accepted
    /\ told[m] = "pending"
    /\ told' = [told EXCEPT ![m] = "delivered"]
    /\ UNCHANGED <<accepted, processed>>

GiveUp(m) ==
    /\ told[m] \in {"pending", "delivered"}
    /\ told' = [told EXCEPT ![m] = "failed"]
    /\ UNCHANGED <<accepted, processed>>

Next == \E m \in Msgs : Submit(m) \/ Accept(m) \/ Process(m) \/ Confirm(m) \/ GiveUp(m)

Spec == Init /\ [][Next]_<<told, accepted, processed>>

\* Nobody is left without an answer.
Answered == \A m \in Msgs : told[m] = "pending" ~> told[m] # "pending"
=============================================================================
