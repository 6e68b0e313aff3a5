------------------------------ MODULE Training ------------------------------
(* Wakeword training: backend/voice/training_service.py behind               *)
(* routes/wakeword_training.py.  Requests run on the event loop; every task  *)
(* has a thread of its own that prepares samples, starts a training process  *)
(* and reads its output, so a cancel request interleaves with the thread at  *)
(* every point where one of them has read the task and not yet written it.   *)
EXTENDS Integers, FiniteSets

CONSTANTS
    Sessions, Tasks, Keywords,
    PositiveTarget,     \* TARGET_POSITIVE_COUNT (100)
    NegativeTarget,     \* TARGET_NEGATIVE_COUNT (500)
    LowCount,           \* sample count below which Whisper is preferred (50)
    MaxUpload,          \* bound: samples in one upload
    Hosts,              \* what the host may offer: sets of "docker", "torch", "encoder"
    None                \* no task

VARIABLES
    host,               \* _has_docker, _has_torch, _has_whisper_encoder
    session,            \* _sessions: keyword of each, None when not created
    known,              \* sessions whose id a client was told
    positive,           \* files of <session>/positive: name -> who made it
    negative,           \* names of the files of <session>/negative
    sampleCount,        \* session.sample_count
    library,            \* sample_library/<keyword>/positive, and _shared/negative under None
    models,             \* model files in oww/: <<keyword, "model" or "head">>
    task,               \* _tasks: session, status, whether task.process is set
    thread,             \* where the thread of a task is
    method,             \* the training function the thread is in
    process,            \* the training process
    cancelling          \* the task whose cancel_task has checked but not written

sessionVars == <<session, known, positive, negative, sampleCount, library>>
vars == <<host, sessionVars, models, task, thread, method, process, cancelling>>

Active == {"pending", "running"}
Settled == {"completed", "failed", "cancelled"}
Names == {"mic", "tts", "library"} \X Nat

TypeOK ==
    /\ host \in Hosts
    /\ session \in [Sessions -> Keywords \cup {None}]
    /\ known \subseteq {s \in Sessions : session[s] # None}
    /\ \A s \in Sessions :
         /\ DOMAIN positive[s] \subseteq Names
         /\ negative[s] \subseteq Names
         /\ sampleCount[s] \in Nat
    /\ \A k \in Keywords \cup {None} : library[k] \subseteq Nat
    /\ models \subseteq Keywords \X {"model", "head"}
    /\ \A t \in Tasks :
         /\ task[t].session \in Sessions \cup {None}
         /\ task[t].status \in {"none"} \cup Active \cup Settled
         /\ task[t].process \in BOOLEAN
         /\ method[t] \in {"none", "docker", "local", "whisper", "simulated"}
         /\ thread[t] \in {"none", "start", "positive", "negative", "choose", "launch",
                           "record", "read", "finish", "done"}
         /\ process[t] \in {"none", "alive", "stopping", "ok", "bad"}
    /\ cancelling \in Tasks \cup {None}

Init ==
    /\ host \in Hosts
    /\ session = [s \in Sessions |-> None]
    /\ known = {}
    /\ positive = [s \in Sessions |-> <<>>]
    /\ negative = [s \in Sessions |-> {}]
    /\ sampleCount = [s \in Sessions |-> 0]
    /\ library = [k \in Keywords \cup {None} |-> {}]
    /\ models = {}
    /\ task = [t \in Tasks |-> [session |-> None, status |-> "none", process |-> FALSE]]
    /\ thread = [t \in Tasks |-> "none"]
    /\ method = [t \in Tasks |-> "none"]
    /\ process = [t \in Tasks |-> "none"]
    /\ cancelling = None

\* A request handler runs on the event loop, which cancel_task holds.
LoopFree == cancelling = None

----------------------------------------------------------------------------
(* Sessions.                                                                *)

CreateSession(s, k) ==
    /\ session[s] = None
    /\ session' = [session EXCEPT ![s] = k]

\* Files are written over those of the same name.
Over(new, old) ==
    [f \in DOMAIN new \cup DOMAIN old |-> IF f \in DOMAIN new THEN new[f] ELSE old[f]]

\* Files are numbered from sample_count, which is 0 in a new session.
AddSamples(s, source, n) ==
    LET first == sampleCount[s]
    IN  /\ positive' = [positive EXCEPT ![s] =
               Over([f \in {source} \X (first .. first + n - 1) |-> "user"], @)]
        /\ sampleCount' = [sampleCount EXCEPT ![s] = @ + n]

UploadSamples ==
    /\ LoopFree
    /\ \E s \in Sessions, k \in Keywords, source \in {"mic", "tts"}, n \in 0 .. MaxUpload :
         /\ CreateSession(s, k)
         /\ AddSamples(s, source, n)
         /\ known' = known \cup {s}
    /\ UNCHANGED <<host, negative, library, models, task, thread, method, process, cancelling>>

\* The session of a failed generation stays, but its id is not in the answer.
TtsGenerate ==
    /\ LoopFree
    /\ \E s \in Sessions, k \in Keywords :
         /\ CreateSession(s, k)
         /\ \/ /\ \E n \in 0 .. MaxUpload : AddSamples(s, "tts", n)
               /\ known' = known \cup {s}
            \/ UNCHANGED <<positive, sampleCount, known>>
    /\ UNCHANGED <<host, negative, library, models, task, thread, method, process, cancelling>>

StartTraining(t) ==
    /\ LoopFree
    /\ task[t].status = "none"
    /\ \E s \in known :
         task' = [task EXCEPT ![t] = [session |-> s, status |-> "pending", process |-> FALSE]]
    /\ thread' = [thread EXCEPT ![t] = "start"]
    /\ UNCHANGED <<host, sessionVars, models, method, process, cancelling>>

----------------------------------------------------------------------------
(* The thread of a task.                                                    *)

Goto(t, place) == thread' = [thread EXCEPT ![t] = place]
SetStatus(t, status) == task' = [task EXCEPT ![t].status = status]

\* The status is written without a look at what it is.
MarkRunning(t) ==
    /\ thread[t] = "start"
    /\ SetStatus(t, "running")
    /\ Goto(t, "positive")
    /\ UNCHANGED <<host, sessionVars, models, method, process, cancelling>>

\* Faulty: generated files numbered from 0.
PreparedFromZero(names, stored, target, failed) ==
    LET needed == target - Cardinality(names)
        copied == IF Cardinality(stored) < needed THEN Cardinality(stored) ELSE needed
        made == (0 .. needed - copied - 1) \ failed
    IN  IF needed <= 0
        THEN [files |-> {}, made |-> {}]
        ELSE [files |-> {<<"library", i>> : i \in 0 .. copied - 1} \cup {<<"tts", i>> : i \in made},
              made |-> made]

\* What a preparation adds: copies of library samples, then samples generated one by
\* one; those in failed are missing, and their numbers stay unused.
Prepared(names, stored, target, failed) ==
    LET have == Cardinality(names)
        needed == target - have
        copied == IF Cardinality(stored) < needed THEN Cardinality(stored) ELSE needed
        made == (0 .. needed - copied - 1) \ failed
    IN  IF needed <= 0
        THEN [files |-> {}, made |-> {}]
        ELSE [files |-> {<<"library", i>> : i \in 0 .. copied - 1}
                          \cup {<<"tts", have + copied + i>> : i \in made},
              made |-> made]

PreparePositive(t) ==
    LET s == task[t].session
        k == session[s]
    IN  /\ thread[t] = "positive"
        /\ \E failed \in SUBSET (0 .. PositiveTarget - 1) :
             LET p == Prepared(DOMAIN positive[s], library[k], PositiveTarget, failed)
             IN  /\ positive' = [positive EXCEPT ![s] = Over([f \in p.files |-> "made"], @)]
                 /\ library' = [library EXCEPT ![k] = @ \cup p.made]
                 /\ sampleCount' = [sampleCount EXCEPT ![s] = @ + Cardinality(p.made)]
        /\ Goto(t, "negative")
        /\ UNCHANGED <<host, session, known, negative, models, task, method, process, cancelling>>

PrepareNegative(t) ==
    LET s == task[t].session
    IN  /\ thread[t] = "negative"
        /\ \E failed \in SUBSET (0 .. NegativeTarget - 1) :
             LET p == Prepared(negative[s], library[None], NegativeTarget, failed)
             IN  /\ negative' = [negative EXCEPT ![s] = @ \cup p.files]
                 /\ library' = [library EXCEPT ![None] = @ \cup p.made]
        /\ Goto(t, "choose")
        /\ UNCHANGED <<host, session, known, positive, sampleCount, models, task, method,
                       process, cancelling>>

Method(t) ==
    CASE {"encoder", "torch"} \subseteq host /\ sampleCount[task[t].session] < LowCount -> "whisper"
      [] "docker" \in host -> "docker"
      [] "torch" \in host -> "local"
      [] OTHER -> "simulated"

ChooseMethod(t) ==
    /\ thread[t] = "choose"
    /\ method' = [method EXCEPT ![t] = Method(t)]
    /\ Goto(t, "launch")
    /\ UNCHANGED <<host, sessionVars, models, task, process, cancelling>>

\* The handler of every exception of the thread.
Fail(t) ==
    /\ SetStatus(t, "failed")
    /\ Goto(t, "done")

Launch(t) ==
    /\ thread[t] = "launch"
    /\ process' = [process EXCEPT ![t] = "alive"]
    /\ Goto(t, "record")
    /\ UNCHANGED <<task, models>>

RecordProcess(t) ==
    /\ thread[t] = "record"
    /\ task' = [task EXCEPT ![t].process = TRUE]
    /\ Goto(t, "read")
    /\ UNCHANGED <<process, models>>

Terminated(p) == IF p = "alive" THEN "stopping" ELSE p

\* Faulty: the loop returns and leaves the process, or does not look at the status.
ReturnsOnly(t) ==
    /\ thread[t] = "read"
    /\ task[t].status = "cancelled"
    /\ Goto(t, "done")
    /\ UNCHANGED <<task, process, models>>

NeverLooks(t) == FALSE

\* A line of output while the task is cancelled; other lines only update the progress.
SeesCancelled(t) ==
    /\ thread[t] = "read"
    /\ task[t].status = "cancelled"
    /\ process' = [process EXCEPT ![t] = Terminated(@)]
    /\ Goto(t, "done")
    /\ UNCHANGED <<task, models>>

EndOfOutput(t) ==
    /\ thread[t] = "read"
    /\ process[t] \in {"ok", "bad"}
    /\ Goto(t, "finish")
    /\ UNCHANGED <<task, process, models>>

\* Faulty: the return code is not looked at, a model of an earlier task is enough.
FinishUnchecked(t, kind) ==
    /\ thread[t] = "finish"
    /\ IF <<session[task[t].session], kind>> \in models
       THEN SetStatus(t, "completed") /\ Goto(t, "done")
       ELSE Fail(t)
    /\ UNCHANGED <<process, models>>

\* A process that failed, or left no model file, fails the task.
Finish(t, kind) ==
    /\ thread[t] = "finish"
    /\ IF process[t] = "ok" /\ <<session[task[t].session], kind>> \in models
       THEN SetStatus(t, "completed") /\ Goto(t, "done")
       ELSE Fail(t)
    /\ UNCHANGED <<process, models>>

RunProcess(t, kind) ==
    \/ Launch(t)
    \/ RecordProcess(t)
    \/ SeesCancelled(t)
    \/ EndOfOutput(t)
    \/ Finish(t, kind)

\* The image may neither build nor exist.
RunDockerTraining(t) ==
    /\ method[t] = "docker"
    /\ \/ RunProcess(t, "model")
       \/ thread[t] = "launch" /\ Fail(t) /\ UNCHANGED <<process, models>>
    /\ UNCHANGED <<host, sessionVars, method, cancelling>>

RunLocalTraining(t) ==
    /\ method[t] = "local"
    /\ RunProcess(t, "model")
    /\ UNCHANGED <<host, sessionVars, method, cancelling>>

RunWhisperTraining(t) ==
    /\ method[t] = "whisper"
    /\ RunProcess(t, "head")
    /\ UNCHANGED <<host, sessionVars, method, cancelling>>

\* The last look at the status comes a sleep before the end, and no file is written.
RunSimulatedTraining(t) ==
    /\ method[t] = "simulated"
    /\ \/ /\ thread[t] = "launch"
          /\ task[t].status = "cancelled"
          /\ Goto(t, "done")
          /\ UNCHANGED task
       \/ /\ thread[t] = "launch"
          /\ task[t].status # "cancelled"
          /\ Goto(t, "finish")
          /\ UNCHANGED task
       \/ /\ thread[t] = "finish"
          /\ SetStatus(t, "completed")
          /\ Goto(t, "done")
    /\ UNCHANGED <<host, sessionVars, models, method, process, cancelling>>

\* The training script, which may write its model and exit with or without success.
ProcessEnds(t) ==
    /\ \/ /\ process[t] \in {"alive", "stopping"}
          /\ process' = [process EXCEPT ![t] = "bad"]
          /\ UNCHANGED models
       \/ /\ process[t] = "alive"
          /\ process' = [process EXCEPT ![t] = "ok"]
          /\ models' \in {models, models \cup {<<session[task[t].session],
                            IF method[t] = "whisper" THEN "head" ELSE "model">>}}
    /\ UNCHANGED <<host, sessionVars, task, thread, method, cancelling>>

----------------------------------------------------------------------------
(* Cancelling: the checks and the terminate, then the status under the lock. *)

\* Faulty: a settled task is cancelled too.
CancelChecksNothing(t) ==
    /\ LoopFree
    /\ task[t].status # "none"
    /\ process' = IF task[t].process THEN [process EXCEPT ![t] = Terminated(@)] ELSE process
    /\ cancelling' = t
    /\ UNCHANGED <<host, sessionVars, models, task, thread, method>>

CancelChecks(t) ==
    /\ LoopFree
    /\ task[t].status \in Active
    /\ process' = IF task[t].process THEN [process EXCEPT ![t] = Terminated(@)] ELSE process
    /\ cancelling' = t
    /\ UNCHANGED <<host, sessionVars, models, task, thread, method>>

CancelWrites(t) ==
    /\ cancelling = t
    /\ SetStatus(t, "cancelled")
    /\ cancelling' = None
    /\ UNCHANGED <<host, sessionVars, models, thread, method, process>>

\* DELETE /wakeword/models/{filename}
DeleteModel ==
    /\ LoopFree
    /\ \E m \in models : models' = models \ {m}
    /\ UNCHANGED <<host, sessionVars, task, thread, method, process, cancelling>>

TrainingThread(t) ==
    \/ MarkRunning(t) \/ PreparePositive(t) \/ PrepareNegative(t) \/ ChooseMethod(t)
    \/ RunDockerTraining(t) \/ RunLocalTraining(t) \/ RunWhisperTraining(t)
    \/ RunSimulatedTraining(t)

Next ==
    \/ UploadSamples
    \/ TtsGenerate
    \/ DeleteModel
    \/ \E t \in Tasks :
         \/ StartTraining(t)
         \/ TrainingThread(t)
         \/ ProcessEnds(t)
         \/ CancelChecks(t)
         \/ CancelWrites(t)

\* A thread keeps running and cancel_task does not stop half way.  A training process
\* may take for ever unless it is told to stop.
Fairness ==
    \A t \in Tasks :
        /\ WF_vars(TrainingThread(t))
        /\ WF_vars(CancelWrites(t))
        /\ WF_vars(process[t] = "stopping" /\ ProcessEnds(t))

Spec == Init /\ [][Next]_vars /\ Fairness

----------------------------------------------------------------------------
(* Properties.                                                              *)

(* A thread that has ended leaves its task settled, and its process, if it   *)
(* started one, finished or told to stop: nothing trains on unattended.      *)
EndedIsSettled ==
    \A t \in Tasks : thread[t] = "done" =>
        /\ task[t].status \in Settled
        /\ process[t] # "alive"

(* A task is reported completed by a thread whose own process succeeded, or  *)
(* by the simulation, whatever was cancelled meanwhile.                      *)
CompletedSucceeded ==
    \A t \in Tasks : task[t].status = "completed" =>
        method[t] = "simulated" \/ process[t] = "ok"

(* A completed or failed task keeps its status for ever, unless a cancel     *)
(* request that read it as running is about to write when it settles.        *)
SettledStays ==
    [][\A t \in Tasks :
        task[t].status \in {"completed", "failed"} /\ cancelling # t
          => task'[t].status = task[t].status /\ cancelling' # t]_vars

(* However often a session is prepared, and whatever generation failed in    *)
(* between, no sample of the user is overwritten by a copied or generated    *)
(* one.                                                                      *)
UploadsKept ==
    [][\A s \in Sessions : \A f \in DOMAIN positive[s] :
        positive[s][f] = "user" => f \in DOMAIN positive'[s] /\ positive'[s][f] = "user"]_vars

(* In the end no thread works for a cancelled task, also when the cancel     *)
(* found no process to terminate because it was not started or not recorded  *)
(* yet (training_service.py:440).                                            *)
CancelStops ==
    <>[](\A t \in Tasks : task[t].status = "cancelled" => thread[t] = "done")

(* A task once reported cancelled stays so: the cancel route answers that    *)
(* the training is cancelled.  It does not hold: the thread writes its       *)
(* status without a look.                                                    *)
CancelIsFinal ==
    [][\A t \in Tasks :
        task[t].status = "cancelled" => task'[t].status = "cancelled"]_vars
=============================================================================
