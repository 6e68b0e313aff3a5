------------------------------ MODULE MCServices ------------------------------
(* Two services of the server that do not interact, for TLC: the mirror and the *)
(* wakeword training.  One runs, the other rests in its initial state.          *)
EXTENDS Mirror, TLC

CONSTANTS telegram, lark, x,
          Sessions, Tasks, Keywords, PositiveTarget, NegativeTarget, LowCount, MaxUpload,
          Hosts, None

Order == <<telegram, lark>>

On  == [enabled |-> TRUE, target |-> x]
Off == [enabled |-> FALSE, target |-> NoTarget]
AllOn == telegram :> On @@ lark :> On
EnvDefaults == {AllOn, telegram :> Off @@ lark :> On}

BotSettings == {[enabled |-> "no", target |-> NoTarget], [enabled |-> "yes", target |-> x]}

VARIABLES running, host, session, known, positive, negative, sampleCount, library, models,
          task, thread, method, process, cancelling

W == INSTANCE Training

\* None is no name.
ASSUME TrainingAssumption ==
    /\ None \notin Tasks \cup Keywords
    /\ PositiveTarget \in Nat /\ NegativeTarget \in Nat /\ MaxUpload \in Nat

\* A host with docker, with torch, with all three, with nothing.
HostSets == {{}, {"docker"}, {"torch"}, {"docker", "torch", "encoder"}}

trainingVars == <<host, session, known, positive, negative, sampleCount, library, models,
                  task, thread, method, process, cancelling>>

Mirrors(A) == running = "mirror" /\ A /\ UNCHANGED <<running, trainingVars>>
Trains(A)  == running = "training" /\ A /\ UNCHANGED <<running, vars>>

\* The service at rest has one of its initial states.
ServicesInit ==
    /\ running \in {"mirror", "training"}
    /\ Init /\ (running = "training" => rows = <<>> /\ defaults = AllOn)
    /\ W!Init /\ (running = "mirror" => host = {})

ServicesNext == Mirrors(Next) \/ Trains(W!Next)

\* The fairness of each, while it runs.
ServicesFairness ==
    /\ WF_vars(running = "mirror" /\ DrainLoop)
    /\ WF_vars(running = "mirror" /\ Start)
    /\ \A r \in RowIds : WF_vars(running = "mirror" /\ RetryDue(r))
    /\ \A t \in Tasks :
         /\ WF_trainingVars(running = "training" /\ W!TrainingThread(t))
         /\ WF_trainingVars(running = "training" /\ W!CancelWrites(t))
         /\ WF_trainingVars(running = "training" /\ process[t] = "stopping" /\ W!ProcessEnds(t))

ServicesSpec ==
    ServicesInit /\ [][ServicesNext]_<<running, vars, trainingVars>> /\ ServicesFairness
-----------------------------------------------------------------------------

\* A thread that has ended leaves its task settled and no process unattended, and
\* reports completed only what its own process completed (training_service.py:261,
\* _run_training).
TasksSafe == W!TypeOK /\ W!EndedIsSettled /\ W!CompletedSucceeded

\* A settled task keeps its status, unless a cancel request had read it as running
\* (training_service.py:1030), and no sample of the user is overwritten by a copied or
\* generated one (training_service.py:710, _prepare_positive_samples).
TasksKeep == W!SettledStays /\ W!UploadsKept

\* In the end every row of the outbox is sent or given up, and no thread works for a
\* cancelled task (mirror/manager.py:155; cancel_task and the thread's own looks at the
\* status, training_service.py:1030).
ServicesSettle == ForwardingSettles /\ W!CancelStops
=============================================================================
