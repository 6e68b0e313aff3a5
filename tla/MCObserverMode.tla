---------------------------- MODULE MCObserverMode ----------------------------
(* The terminals of Claude sessions and the questions put to their users, for   *)
(* TLC.  One runs, the other rests in one of its initial states.                *)
EXTENDS Terminal, TLC

CONSTANTS Prompts, MaxReqs, MaxRetries, MaxAsks, MaxFaults  \* of Questions

ASSUME QuestionBounds ==
  MaxReqs \in Nat /\ MaxRetries \in Nat \ {0} /\ MaxAsks \in Nat /\ MaxFaults \in Nat

OwnConversations == 1 :> 1 @@ 2 :> 0

VARIABLES running, mode, script, tries, at, req, origin, verdict, knows, serving, ask, reply,
          conn, cards, faults, restarted, gave, crowded, late, abandoned

Q == INSTANCE Questions WITH known <- knows, up <- serving, slot <- reply

questionVars == <<mode, script, tries, at, req, origin, verdict, knows, serving, ask, reply,
                  conn, cards, faults, restarted, gave, crowded, late, abandoned>>

ModeInit ==
  /\ running \in {"terminal", "questions"}
  /\ Init /\ (running = "questions" => slots = {1})
  /\ Q!Init /\ (running = "terminal" => mode = "observer" /\ knows)

ModeNext ==
  /\ UNCHANGED running
  /\ \/ running = "terminal" /\ Next /\ UNCHANGED questionVars
     \/ running = "questions" /\ Q!Next /\ UNCHANGED vars

\* The fairness of each, while it runs.
ModeFairness ==
  /\ WF_vars(running = "terminal" /\ (Loop \/ \E s \in Sessions : System(s)))
  /\ WF_questionVars(running = "questions" /\ Q!BackendStarts)
  /\ \A p \in Prompts : WF_questionVars(running = "questions" /\ (Q!PostFails(p) \/ Q!HandleHook(p)))
  /\ \A r \in Q!Reqs : WF_questionVars(running = "questions" /\ (Q!HookAnswered(r) \/ Q!HookTimeout(r)))
  /\ \A k \in Q!Asks : WF_questionVars(running = "questions" /\ (Q!AskAnswered(k) \/ Q!AskTimeout(k)))

ModeSpec == ModeInit /\ [][ModeNext]_<<running, vars, questionVars>> /\ ModeFairness

-----------------------------------------------------------------------------
(* A connected client shows every open question, a question that was alone can be *)
(* answered while it is open, a prompt goes the way its user decided, and a reply *)
(* or a script that misses the other came late (adapter.py:1315, 2261).           *)
QuestionsSafe ==
  Q!TypeOK /\ Q!OpenIsShown /\ Q!OpenIsReachable /\ Q!DecisionIsUsers
  /\ Q!StrandedOnlyAfterTimeout /\ Q!MisdirectedOnlyLate

(* In the end nobody waits for a terminal, every slot has one unless a reset     *)
(* dropped it, and every terminal runs a CLI that its status calls connected: the *)
(* health loop (adapter.py:507) and its recovery repair what exits and deaths     *)
(* broke.  No script and no handler waits either: the timeouts of both sides of   *)
(* handle_hook_interactive see to it.                                             *)
AllSettle == <>[](running = "terminal" => AllSteady) /\ Q!AllSettle
=============================================================================
