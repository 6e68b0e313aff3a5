------------------------------- MODULE MCOutbox -------------------------------
(* Two instances of Outbox for TLC, each with its own variables, of which one   *)
(* runs and the other rests in its initial state.                               *)
(*   "once": one message whose copies and acknowledgements are lost, resent,    *)
(*           retried by the user and expire                                     *)
(*   "two":  two messages, the second enqueued while the storage is read, a     *)
(*           page reload and a server restart                                   *)
EXTENDS Outbox

VARIABLES running, idb2, reads2, pending2, timers2, connected2, up2, late2, down2, seen2,
          handling2, turnSeen2, told2, accepted2, processed2, env2

T == INSTANCE Outbox WITH
       Msgs <- {1, 2}, MaxRetries <- 1, InboundExpires <- FALSE,
       MaxDrops <- 0, MaxReloads <- 1, MaxRestarts <- 1, MaxClicks <- 0,
       idb <- idb2, reads <- reads2, pending <- pending2, timers <- timers2,
       connected <- connected2, up <- up2, late <- late2, down <- down2, seen <- seen2,
       handling <- handling2, turnSeen <- turnSeen2, told <- told2,
       accepted <- accepted2, processed <- processed2, env <- env2

vars2 == <<idb2, reads2, pending2, timers2, connected2, up2, late2, down2, seen2,
           handling2, turnSeen2, told2, accepted2, processed2, env2>>

Once(A) == running = "once" /\ A /\ UNCHANGED <<running, vars2>>

CasesInit == running \in {"once", "two"} /\ Init /\ T!Init
CasesNext == \/ Once(Next)
             \/ running = "two" /\ T!Next /\ UNCHANGED <<running, vars>>

\* Outbox's Fairness, while that instance runs.
CasesFairness ==
    /\ WF_vars(Once(FinishDrain)) /\ WF_vars(Once(FinishAckTimeout)) /\ WF_vars(Once(Open))
    /\ \A m \in Msgs : /\ WF_vars(Once(AckTimer(m))) /\ WF_vars(Once(AckArrives(m)))
                       /\ WF_vars(Once(Receive(m)))

CasesSpec == CasesInit /\ [][CasesNext]_<<running, vars, vars2>> /\ CasesFairness

-----------------------------------------------------------------------------

\* Two messages, a reload and a server restart: until the user is told its fate a
\* message is in the store, and on an open connection something watches it
\* (outbox.ts:211, 237).
TwoMessages == T!TypeOK /\ T!NothingLost /\ T!Attended

\* Every stored message is acknowledged or given up, and the user learns which
\* (outbox.ts:268, ws-client.ts:113).
MessagesSettle == EntrySettles /\ DeliveryAnswered
=============================================================================
