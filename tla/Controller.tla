----------------------------- MODULE Controller -----------------------------
(***************************************************************************)
(* Controller mode of the Claude Code adapter: user turns, /compact,       *)
(* resets and slash commands share one persistent CLI process per session  *)
(* (SDKSession), whose output is read from one queue.                      *)
(*                                                                         *)
(* A turn holds the session's controller lock from its first step to its   *)
(* last; /compact reads the same queue without it.  Session objects are    *)
(* numbered 1..MaxGen in the order they are constructed; `current' is the  *)
(* one the adapter's table holds, 0 for none.                              *)
(*                                                                         *)
(* The CLI process is external: it takes the messages written to it in     *)
(* order and answers each with an init and a result, which here stands for *)
(* the assistant messages before it too; it may exit, or produce nothing   *)
(* for ten minutes.  Its questions are in module Questions.                *)
(***************************************************************************)
EXTENDS Integers, Sequences, FiniteSets

CONSTANTS
  Turns,       \* the user turns of the session
  Compact,     \* the /compact request, a reader of its own
  MaxGen,      \* bound: session objects constructed
  MaxFaults    \* bound: events that disturb a turn: its task is cancelled from
               \* outside, the session is reset, removed or stopped by a slash
               \* reply, its process exits, the backend restarts

ASSUME ControllerAssumption ==
  /\ Compact \notin Turns
  /\ {MaxGen, MaxFaults} \subseteq Nat

Readers == Turns \cup {Compact}
Gens    == 1..MaxGen
Convs   == 0..(MaxGen + 1)   \* conversation ids; 0 is none, MaxGen + 1 the compacted one

VARIABLES
  pc,        \* where each reader is: new, stopping, spawning, reading, or an end
  obj,       \* the session object a reader works with, 0 for none
  held,      \* the lock object a turn holds, 0 for none
  lockGen,   \* which lock object the adapter's table holds
  current,   \* _sdk_sessions: the session object of this session
  made,      \* number of session objects constructed
  alive,     \* SDKSession._alive
  exited,    \* the process has ended
  conv,      \* the conversation a session object's process continues
  queue,     \* SDKSession._message_queue
  inbox,     \* external: messages written to the process and not finished
  told,      \* external: how far the process is with the first of them
  memId,     \* _real_session_ids of the session
  diskId,    \* the same as last persisted
  stopping,  \* reset or removal waiting for stop(): no, reset or remove
  faults,    \* how many disturbing events have happened
  got,       \* history: whose answers a reader was given
  cut,       \* history: objects whose reader left before its result
  forgotten, \* history: conversations a completed reset has ended
  overlap,   \* history: a reader was at work during a reset
  unsaved    \* history: memId changed without being persisted

adapterVars == <<pc, obj, held, lockGen, current, made, memId, diskId, stopping>>
sessionVars == <<alive, exited, conv, queue, inbox, told>>
historyVars == <<got, cut, forgotten, overlap, unsaved>>
vars == <<adapterVars, sessionVars, historyVars, faults>>

-----------------------------------------------------------------------------
Msg(kind, r) == [kind |-> kind, of |-> r]
Message == [kind : {"init", "result"}, of : Readers]

Ended   == {"rejected", "failed", "aborted", "ended"}
AtWork  == {r \in Readers : pc[r] \in {"stopping", "spawning", "reading"}}
IsAlive(g) == g # 0 /\ alive[g] /\ ~exited[g]
Locked  == \E t \in Turns : held[t] = lockGen

Init ==
  /\ pc = [r \in Readers |-> "new"] /\ obj = [r \in Readers |-> 0]
  /\ held = [t \in Turns |-> 0] /\ lockGen = 1
  /\ current = 0 /\ made = 0 /\ memId = 0 /\ diskId = 0 /\ stopping = "no"
  /\ alive = [g \in Gens |-> FALSE] /\ exited = [g \in Gens |-> FALSE]
  /\ conv = [g \in Gens |-> 0] /\ queue = [g \in Gens |-> <<>>]
  /\ inbox = [g \in Gens |-> <<>>] /\ told = [g \in Gens |-> "idle"]
  /\ got = [r \in Readers |-> {}] /\ cut = {} /\ forgotten = {}
  /\ overlap = FALSE /\ unsaved = FALSE
  /\ faults = 0

Disturb == faults < MaxFaults /\ faults' = faults + 1

-----------------------------------------------------------------------------
(* send: write the user message and start reading. *)
Write(r, g) ==
  /\ inbox' = [inbox EXCEPT ![g] = Append(@, r)]
  /\ pc' = [pc EXCEPT ![r] = "reading"]
  /\ obj' = [obj EXCEPT ![r] = g]

(* The constructor reads the conversation to resume; start() then spawns. *)
Construct(t) ==
  /\ made < MaxGen
  /\ made' = made + 1
  /\ obj' = [obj EXCEPT ![t] = made + 1]
  /\ conv' = [conv EXCEPT ![made + 1] = IF memId = 0 THEN made + 1 ELSE memId]
  /\ pc' = [pc EXCEPT ![t] = "spawning"]
  /\ overlap' = (overlap \/ stopping = "reset")

(* A turn that finds the lock taken answers at once and ends. *)
BeginRejected(t) ==
  /\ pc[t] = "new" /\ Locked
  /\ pc' = [pc EXCEPT ![t] = "rejected"]
  /\ UNCHANGED <<obj, held, lockGen, current, made, memId, diskId, stopping,
                 sessionVars, historyVars, faults>>

(* Faulty variant of TakeLock: the lock is not looked at. *)
TakeLockAlways(t) ==
  /\ pc[t] = "new"
  /\ held' = [held EXCEPT ![t] = lockGen]

TakeLock(t) ==
  /\ pc[t] = "new" /\ ~Locked
  /\ held' = [held EXCEPT ![t] = lockGen]

(* The session is alive: the turn is sent on it. *)
BeginReuse(t) ==
  /\ TakeLock(t) /\ IsAlive(current)
  /\ Write(t, current)
  /\ UNCHANGED <<lockGen, current, made, memId, diskId, stopping, alive, exited,
                 conv, queue, told, historyVars, faults>>

(* No session object yet: construct one and wait for its process. *)
BeginFresh(t) ==
  /\ TakeLock(t) /\ current = 0
  /\ Construct(t)
  /\ UNCHANGED <<lockGen, current, memId, diskId, stopping, alive, exited,
                 queue, inbox, told, got, cut, forgotten, unsaved, faults>>

(* The session object is dead: wait for its stop() before constructing. *)
BeginDead(t) ==
  /\ TakeLock(t) /\ current # 0 /\ ~IsAlive(current)
  /\ pc' = [pc EXCEPT ![t] = "stopping"]
  /\ alive' = [alive EXCEPT ![current] = FALSE]
  /\ UNCHANGED <<obj, lockGen, current, made, memId, diskId, stopping, exited,
                 conv, queue, inbox, told, historyVars, faults>>

DeadStopped(t) ==
  /\ pc[t] = "stopping"
  /\ Construct(t)
  /\ UNCHANGED <<held, lockGen, current, memId, diskId, stopping, alive, exited,
                 queue, inbox, told, got, cut, forgotten, unsaved, faults>>

(* Faulty variant of Spawned: the object is stored by its generation alone.  *)
SpawnedNext(t) ==
  /\ pc[t] = "spawning"
  /\ current' = made + 1
  /\ alive' = [alive EXCEPT ![obj[t]] = TRUE]
  /\ Write(t, obj[t])
  /\ UNCHANGED <<held, lockGen, made, memId, diskId, stopping, exited,
                 conv, queue, told, historyVars, faults>>

(* start() returned: the object is stored and the turn is sent on it. *)
Spawned(t) ==
  /\ pc[t] = "spawning"
  /\ current' = obj[t]
  /\ alive' = [alive EXCEPT ![obj[t]] = TRUE]
  /\ Write(t, obj[t])
  /\ UNCHANGED <<held, lockGen, made, memId, diskId, stopping, exited,
                 conv, queue, told, historyVars, faults>>

(* Leaving the lock's block and, when reading, send()'s finally. *)
Leave(r, how) ==
  /\ pc' = [pc EXCEPT ![r] = how]
  /\ held' = IF r \in Turns THEN [held EXCEPT ![r] = 0] ELSE held

(* The process cannot be spawned: the exception leaves the turn. *)
SpawnFails(t) ==
  /\ pc[t] = "spawning"
  /\ Leave(t, "failed")
  /\ UNCHANGED <<obj, lockGen, current, made, memId, diskId, stopping,
                 sessionVars, historyVars, faults>>

-----------------------------------------------------------------------------
(* /compact writes to a live session without taking the lock. *)
BeginCompact ==
  /\ pc[Compact] = "new"
  /\ IF IsAlive(current)
     THEN /\ Write(Compact, current)
     ELSE /\ pc' = [pc EXCEPT ![Compact] = "failed"]
          /\ UNCHANGED <<obj, inbox>>
  /\ UNCHANGED <<held, lockGen, current, made, memId, diskId, stopping, alive,
                 exited, conv, queue, told, historyVars, faults>>

(* The conversation an init message names. *)
Named(m, g) == IF m.of = Compact THEN MaxGen + 1 ELSE conv[g]

(* Faulty variant of Bind: nobody persists the conversation. *)
BindUnsaved(r, m, g) ==
  IF m.kind = "init"
  THEN /\ memId' = Named(m, g)
       /\ UNCHANGED <<diskId, unsaved>>
  ELSE UNCHANGED <<memId, diskId, unsaved>>

(* One message of the queue is read.  An init binds the conversation, which  *)
(* only a turn persists; a result ends the reader; after any other message   *)
(* the reader goes on while _alive.                                          *)
Bind(r, m, g) ==
  IF m.kind = "init"
  THEN /\ memId' = Named(m, g)
       /\ diskId' = IF r \in Turns THEN memId' ELSE diskId
       /\ unsaved' = IF r \in Turns THEN FALSE ELSE TRUE
  ELSE UNCHANGED <<memId, diskId, unsaved>>

(* Faulty variant of Read: any assistant output ends the reader. *)
ReadOne(r) ==
  /\ pc[r] = "reading" /\ queue[obj[r]] # <<>>
  /\ LET g == obj[r]
         m == Head(queue[g])
     IN  /\ queue' = [queue EXCEPT ![g] = Tail(@)]
         /\ Bind(r, m, g)
         /\ got' = [got EXCEPT ![r] = @ \cup {m.of}]
         /\ Leave(r, "ended")
  /\ UNCHANGED <<obj, lockGen, current, made, stopping, alive, exited, conv,
                 inbox, told, cut, forgotten, overlap, faults>>

Read(r) ==
  /\ pc[r] = "reading" /\ queue[obj[r]] # <<>>
  /\ LET g == obj[r]
         m == Head(queue[g])
     IN  /\ queue' = [queue EXCEPT ![g] = Tail(@)]
         /\ Bind(r, m, g)
         /\ got' = [got EXCEPT ![r] = @ \cup {m.of}]
         /\ IF m.kind = "result" \/ ~alive[g]
            THEN Leave(r, "ended") ELSE UNCHANGED <<pc, held>>
         /\ cut' = IF m.kind # "result" /\ ~alive[g] THEN cut \cup {g} ELSE cut
  /\ UNCHANGED <<obj, lockGen, current, made, stopping, alive, exited, conv,
                 inbox, told, forgotten, overlap, faults>>

(* Faulty variant of ReadTimeout: only a living process times out. *)
ReadTimeoutAlive(r) ==
  /\ pc[r] = "reading" /\ queue[obj[r]] = <<>> /\ IsAlive(obj[r])
  /\ Leave(r, "ended")
  /\ cut' = cut \cup {obj[r]}
  /\ UNCHANGED <<obj, lockGen, current, made, memId, diskId, stopping,
                 sessionVars, got, forgotten, overlap, unsaved, faults>>

(* Ten minutes without a message end the reader; so does the death of the    *)
(* process, but only through this timeout.                                   *)
ReadTimeout(r) ==
  /\ pc[r] = "reading" /\ queue[obj[r]] = <<>>
  /\ Leave(r, "ended")
  /\ cut' = cut \cup {obj[r]}
  /\ UNCHANGED <<obj, lockGen, current, made, memId, diskId, stopping,
                 sessionVars, got, forgotten, overlap, unsaved, faults>>

(* The orchestrator cancels the task of a turn, or drops its generator. *)
Abort(t) ==
  /\ pc[t] \in {"stopping", "spawning", "reading"}
  /\ Disturb
  /\ Leave(t, "aborted")
  /\ cut' = IF pc[t] = "reading" THEN cut \cup {obj[t]} ELSE cut
  /\ UNCHANGED <<obj, lockGen, current, made, memId, diskId, stopping,
                 sessionVars, got, forgotten, overlap, unsaved>>

-----------------------------------------------------------------------------
(* stop(): no more sends; the process is closed or killed. *)
Stop(g) == /\ alive' = [alive EXCEPT ![g] = FALSE]
           /\ exited' = [exited EXCEPT ![g] = TRUE]

(* Faulty variant of Forget: the table keeps the conversation. *)
ForgetNothing(kind) ==
  /\ forgotten' = IF kind = "reset" THEN forgotten \cup ({memId, diskId} \ {0}) ELSE forgotten
  /\ UNCHANGED <<memId, diskId, unsaved, lockGen>>

(* What a reset or a slot removal does once the session has stopped.  The   *)
(* removal also drops the lock object, and persists nothing.                *)
Forget(kind) ==
  /\ memId' = 0
  /\ IF kind = "reset"
     THEN /\ diskId' = 0 /\ unsaved' = FALSE
          /\ forgotten' = forgotten \cup ({memId, diskId} \ {0})
          /\ UNCHANGED lockGen
     ELSE /\ lockGen' = lockGen + 1
          /\ unsaved' = (diskId # 0)
          /\ UNCHANGED <<diskId, forgotten>>

(* reset_session and on_slot_removed take the session out of the table and  *)
(* wait for its stop() ...                                                  *)
StopBegin(kind) ==
  /\ stopping = "no" /\ Disturb
  /\ overlap' = (overlap \/ (kind = "reset" /\ AtWork # {}))
  /\ IF current = 0
     THEN /\ Forget(kind)
          /\ UNCHANGED <<stopping, current, alive, exited>>
     ELSE /\ current' = 0 /\ stopping' = kind
          /\ Stop(current)
          /\ UNCHANGED <<memId, diskId, unsaved, forgotten, lockGen>>
  /\ UNCHANGED <<pc, obj, held, made, conv, queue, inbox, told, got, cut>>

(* ... and then forget its conversation. *)
StopEnd ==
  /\ stopping # "no"
  /\ Forget(stopping)
  /\ stopping' = "no"
  /\ UNCHANGED <<pc, obj, held, current, made, sessionVars, got, cut,
                 overlap, faults>>

(* A /model or /effort choice stops the session and leaves it in the table. *)
SlashReply ==
  /\ IsAlive(current) /\ Disturb
  /\ Stop(current)
  /\ UNCHANGED <<adapterVars, conv, queue, inbox, told, historyVars>>

(* The backend restarts: the processes lose their stdin and end, every task *)
(* is gone, and the ids are those on disk.                                  *)
Restart ==
  /\ Disturb
  /\ pc' = [r \in Readers |-> IF r \in AtWork THEN "aborted" ELSE pc[r]]
  /\ held' = [t \in Turns |-> 0]
  /\ current' = 0 /\ stopping' = "no" /\ memId' = diskId /\ unsaved' = FALSE
  /\ alive' = [g \in Gens |-> FALSE]
  /\ exited' = [g \in Gens |-> exited[g] \/ g <= made]
  /\ UNCHANGED <<obj, lockGen, made, diskId, conv, queue, inbox, told, got,
                  cut, forgotten, overlap>>

-----------------------------------------------------------------------------
(* External: the CLI process. *)
Running(g) == g <= made /\ ~exited[g] /\ inbox[g] # <<>>

CliSays(g, from, to, kind) ==
  /\ Running(g) /\ told[g] = from
  /\ told' = [told EXCEPT ![g] = to]
  /\ queue' = [queue EXCEPT ![g] = Append(@, Msg(kind, Head(inbox[g])))]
  /\ UNCHANGED <<adapterVars, alive, exited, conv, historyVars, faults>>

CliInit(g) == CliSays(g, "idle", "begun", "init") /\ UNCHANGED inbox
CliResult(g) ==
  /\ CliSays(g, "begun", "idle", "result")
  /\ inbox' = [inbox EXCEPT ![g] = Tail(@)]

CliExits(g) ==
  /\ g <= made /\ alive[g] /\ ~exited[g]
  /\ Disturb
  /\ exited' = [exited EXCEPT ![g] = TRUE]
  /\ UNCHANGED <<adapterVars, alive, conv, queue, inbox, told, historyVars>>

(* _read_stdout reaches the end of the output and clears _alive. *)
ReaderEnds(g) ==
  /\ alive[g] /\ exited[g]
  /\ alive' = [alive EXCEPT ![g] = FALSE]
  /\ UNCHANGED <<adapterVars, exited, conv, queue, inbox, told,
                 historyVars, faults>>

-----------------------------------------------------------------------------
TurnStep(t) ==
  \/ BeginRejected(t) \/ BeginReuse(t) \/ BeginFresh(t) \/ BeginDead(t)
  \/ DeadStopped(t) \/ Spawned(t) \/ SpawnFails(t) \/ Abort(t)

Next ==
  \/ \E t \in Turns : TurnStep(t)
  \/ BeginCompact
  \/ \E r \in Readers : Read(r) \/ ReadTimeout(r)
  \/ \E kind \in {"reset", "remove"} : StopBegin(kind)
  \/ StopEnd \/ SlashReply \/ Restart
  \/ \E g \in Gens : CliInit(g) \/ CliResult(g) \/ CliExits(g) \/ ReaderEnds(g)

Spec == Init /\ [][Next]_vars

(* The event loop runs what is ready, spawning and stopping are bounded, and *)
(* the timer fires; nothing is assumed of the CLI.                           *)
Fairness ==
  /\ \A t \in Turns : WF_vars(DeadStopped(t)) /\ WF_vars(Spawned(t) \/ SpawnFails(t))
  /\ \A r \in Readers : WF_vars(Read(r) \/ ReadTimeout(r))
  /\ WF_vars(StopEnd)

FairSpec == Spec /\ Fairness

-----------------------------------------------------------------------------
(* Every variable has its type. *)
TypeOK ==
  /\ pc \in [Readers -> {"new", "stopping", "spawning", "reading"} \cup Ended]
  /\ obj \in [Readers -> 0..MaxGen] /\ held \in [Turns -> Nat] /\ lockGen \in Nat \ {0}
  /\ current \in 0..MaxGen /\ made \in 0..MaxGen
  /\ alive \in [Gens -> BOOLEAN] /\ exited \in [Gens -> BOOLEAN] /\ conv \in [Gens -> Convs]
  /\ queue \in [Gens -> Seq(Message)]
  /\ inbox \in [Gens -> Seq(Readers)]
  /\ told \in [Gens -> {"idle", "begun"}]
  /\ memId \in Convs /\ diskId \in Convs /\ stopping \in {"no", "reset", "remove"}
  /\ got \in [Readers -> SUBSET Readers] /\ cut \subseteq Gens
  /\ forgotten \subseteq Convs /\ overlap \in BOOLEAN /\ unsaved \in BOOLEAN
  /\ faults \in 0..MaxFaults

(* A turn is answered with the messages of its own text only, unless an      *)
(* earlier reader of the same process was cut off before its result, whose   *)
(* rest is then the head of the queue, or /compact read next to it, or the   *)
(* slot and with it the lock was removed.                                    *)
StrayOnlyAfterCut ==
  lockGen = 1 =>
    \A t \in Turns : got[t] \subseteq {t} \/ obj[t] \in cut \/ obj[Compact] = obj[t]

(* Of two turns at most one reads a process, as long as no slot was removed: *)
(* the removal drops the lock object while its holder is still at work.      *)
OneTurnReads ==
  lockGen = 1 =>
    \A t, u \in Turns : pc[t] = "reading" /\ pc[u] = "reading" /\ obj[t] = obj[u] => t = u

(* After a reset during which no turn was at work, no session continues and  *)
(* no table remembers the conversation that was reset.                       *)
ResetForgets ==
  ~overlap => /\ memId \notin forgotten
              /\ current # 0 => conv[current] \notin forgotten

(* What a restart would find on disk is what the adapter knows, unless the   *)
(* last change came from /compact or from a removed slot.                    *)
DiskCurrent == diskId = memId \/ unsaved

(* One turn reads a session at a time and what is left for the next was cut  *)
(* off; after a reset the old conversation is used by turns that were at     *)
(* work only, and the file says what the adapter knows (adapter.py:1367-1375, *)
(* 2570-2574).                                                               *)
ControllerSafe == TypeOK /\ StrayOnlyAfterCut /\ OneTurnReads /\ ResetForgets /\ DiskCurrent

(* Every turn and /compact that begins ends, whatever the CLI and the events *)
(* that disturb it do: in the end nothing is at work, and nothing holds the  *)
(* lock against the next message.                                            *)
ReadersEnd == <>[](AtWork = {} /\ ~Locked)

(* The code's intent for a reset, without the exception for turns at work:   *)
(* "the next turn starts a fresh conversation" (adapter.py:2568).  It does   *)
(* not hold when a turn that was at work starts the process again.           *)
FreshAfterReset == current # 0 => conv[current] \notin forgotten
=============================================================================
