------------------------------- MODULE MCSessions -------------------------------
(* The two ways to an agent that keep a conversation of their own, for TLC: the *)
(* CLI process of a Claude session and the event connection of OpenClaw.  One   *)
(* runs, the other rests in its initial state.                                  *)
EXTENDS Controller, TLC

CONSTANTS
  t1, t2,
  Chats, Other, Length, MaxSocks, MaxLosses  \* the gateway's turns and bounds

VARIABLES running, turn, result, known, events, cum, shown, deaf, sock, wire, connected,
          recon, mark, aborting, state, sent, disturbed, overheard, doubled, missed, asked,
          reached

G == INSTANCE Gateway WITH
       Turns <- Chats, MaxFaults <- MaxLosses,
       queue <- events, faults <- disturbed, cut <- missed

\* Turns are numbered, and other users' runs are no turns of the bot.
ASSUME GatewayAssumption ==
  /\ Chats \subseteq Int /\ Other \notin Chats
  /\ {Length, MaxSocks, MaxLosses} \subseteq Nat

gatewayVars == <<turn, result, known, events, cum, shown, deaf, sock, wire, connected, recon,
                 mark, aborting, state, sent, disturbed, overheard, doubled, missed, asked,
                 reached>>

SessionsInit == running \in {"controller", "gateway"} /\ Init /\ G!Init

SessionsNext ==
  /\ UNCHANGED running
  /\ \/ running = "controller" /\ Next /\ UNCHANGED gatewayVars
     \/ running = "gateway" /\ G!Next /\ UNCHANGED vars

\* The fairness of each, while it runs.
SessionsFairness ==
  /\ \A t \in Turns : /\ WF_vars(running = "controller" /\ DeadStopped(t))
                      /\ WF_vars(running = "controller" /\ (Spawned(t) \/ SpawnFails(t)))
  /\ \A r \in Readers : WF_vars(running = "controller" /\ (Read(r) \/ ReadTimeout(r)))
  /\ WF_vars(running = "controller" /\ StopEnd)
  /\ WF_gatewayVars(running = "gateway" /\ G!System)

SessionsSpec ==
  SessionsInit /\ [][SessionsNext]_<<running, vars, gatewayVars>> /\ SessionsFairness

-----------------------------------------------------------------------------

\* A turn passes on the text of its run in order and ends with the whole of it, with
\* a timeout only after a loss and as cancelled only if asked; a connection that is
\* called open is read (openclaw/adapter.py:160-224, ws_connection.py:127).
GatewaySafe ==
  /\ G!TypeOK /\ G!TextInOrder /\ G!FinalIsWhole
  /\ G!TimeoutOnlyAfterLoss /\ G!AbortedOnlyIfAsked /\ G!ConnectedIsRead

\* In the end every turn of either kind has ended, no lock is held, and a lost
\* connection is open again (ws_connection.py:131).
SessionsSettle == ReadersEnd /\ G!Settles
=============================================================================
