----------------------------- MODULE Forwarding -----------------------------
(* What the mirror promises for every row it accepted: it reaches the        *)
(* platform before it is called sent, it arrives only while it is pending,   *)
(* nothing that was sent is taken up again, and what was given up may be     *)
(* tried again.                                                              *)
EXTENDS Naturals

CONSTANT Rows

VARIABLES outcome, arrived

Init ==
    /\ outcome \in [Rows -> {"none", "pending"}]
    /\ arrived = [r \in Rows |-> 0]

Arrive(r) ==
    /\ outcome[r] = "pending"
    /\ arrived' = [arrived EXCEPT ![r] = @ + 1]
    /\ UNCHANGED outcome

Confirm(r) ==
    /\ outcome[r] = "pending" /\ arrived[r] > 0
    /\ outcome' = [outcome EXCEPT ![r] = "sent"]
    /\ UNCHANGED arrived

GiveUp(r) ==
    /\ outcome[r] = "pending"
    /\ outcome' = [outcome EXCEPT ![r] = "failed"]
    /\ UNCHANGED arrived

\* One request may be accepted for several targets at once.
AcceptSome ==
    \E S \in (SUBSET Rows) \ {{}} :
        /\ \A r \in S : outcome[r] = "none"
        /\ outcome' = [r \in Rows |-> IF r \in S THEN "pending" ELSE outcome[r]]
        /\ UNCHANGED arrived

Revive ==
    /\ outcome' = [r \in Rows |-> IF outcome[r] = "failed" THEN "pending" ELSE outcome[r]]
    /\ UNCHANGED arrived

Next ==
    \/ AcceptSome
    \/ Revive
    \/ \E r \in Rows : Arrive(r) \/ Confirm(r) \/ GiveUp(r)

Spec == Init /\ [][Next]_<<outcome, arrived>>

\* No row stays pending for ever.
Settles == \A r \in Rows : outcome[r] = "pending" ~> outcome[r] \in {"sent", "failed"}
=============================================================================
