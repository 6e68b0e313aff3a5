------------------------------- MODULE Terminal -------------------------------
(***************************************************************************)
(* Observer mode: every bot of the Claude Code adapter has a terminal, a   *)
(* tmux session in which the Claude CLI runs.  A terminal is created or    *)
(* reused by whoever needs it first -- the pre-warming of a slot, a turn,  *)
(* the recovery of a dead tmux server -- under a lock per session; a       *)
(* health loop restarts a CLI that has exited; a slot that is removed      *)
(* takes its terminal along.                                               *)
(*                                                                         *)
(* The adapter must also know which conversation runs in a terminal: the   *)
(* CLI reports it when it starts or switches (SessionStart hook), and the  *)
(* TmuxSession object finds it out by itself for a new terminal.           *)
(*                                                                         *)
(* Terminals of all bots share a project directory, where one file stands  *)
(* for each conversation that has a message.  Conversations are numbered.  *)
(***************************************************************************)
EXTENDS Integers, FiniteSets

CONSTANTS
  Sessions,   \* sessions of the bots, each with its tmux name
  Own,        \* the conversation a session is named after; 0: created here
  MaxConv,    \* bound: conversations
  MaxEvents   \* bound: turns, other acts of users, exits and crashes

Convs   == 1..MaxConv

ASSUME TerminalAssumption ==
  /\ IsFiniteSet(Sessions) /\ 0 \notin Sessions
  /\ MaxConv \in Nat /\ MaxEvents \in Nat
  /\ Own \in [Sessions -> Convs \cup {0}]
  /\ \A s, t \in Sessions : Own[s] = Own[t] /\ Own[s] # 0 => s = t

Callers == {"warm", "again", "turn"}   \* pre_warm, recovery's pre_warm, a turn

VARIABLES
  pane,    \* per session: no terminal, a shell, the CLI loading, at its prompt
  on,      \* per session: the conversation in the terminal, 0 for none
  pid,     \* per session: the conversation its CLI was started with
  files,   \* conversations with a file
  taken,   \* conversations that exist
  hook,    \* per session: conversation of a SessionStart post under way, or 0
  windows, \* per session: windows attached to the terminal
  slots,   \* sessions in the slot registry
  obj,     \* per session: the TmuxSession object of _tmux_sessions
  new,     \* per session: the object being started under the lock
  real,    \* _real_session_ids
  disk,    \* _real_session_ids as last persisted
  claimed, \* _claimed_session_ids
  known,   \* sessions whose tmux name is in _tmux_name_to_bot
  warming, \* _pre_warm_active
  pc,      \* per caller and session: where it is
  held,    \* per session: the object its turn holds
  clearing,\* sessions whose /clear or /compact is awaited
  loop,    \* the health loop runs
  heal,    \* what the health loop is doing
  removing,\* sessions whose slot is gone and whose terminal is about to be
  events,
  last,    \* history: the conversation a terminal had last
  moved,   \* history: sessions whose terminal left its conversation for another
  exited,  \* history: sessions whose CLI or terminal died
  scanned, \* history: sessions that chose a conversation by a directory scan
  typed,   \* history: sessions at which text was typed where no CLI listened
  garbled, \* history: sessions at whose CLI a launch command was typed
  raced,   \* history: sessions whose slot was removed or re-added while in use
  dropped  \* history: sessions whose object a reset dropped

outside == <<pane, on, pid, files, taken, hook, windows, last>>
records == <<real, disk, claimed, known>>
tasks   == <<warming, pc, held, clearing>>
health  == <<loop, heal>>
bounds  == <<events>>
marks   == <<moved, exited, scanned, typed, garbled, raced, dropped>>
vars == <<outside, slots, obj, new, records, tasks, health, removing, bounds, marks>>

-----------------------------------------------------------------------------
(* A TmuxSession: isNew and ready are its flags, real and persisted the      *)
(* conversations it found and was created with, pre the files there were      *)
(* before its launch, poll a poller that waits for the prompt.                *)
Object == [here : BOOLEAN, isNew : BOOLEAN, ready : BOOLEAN, real : Convs \cup {0},
           persisted : Convs \cup {0}, started : BOOLEAN, pre : SUBSET Convs, poll : BOOLEAN]
Absent == [here |-> FALSE, isNew |-> FALSE, ready |-> FALSE, real |-> 0,
           persisted |-> 0, started |-> FALSE, pre |-> {}, poll |-> FALSE]

(* The object for a session: new unless its own or its recorded conversation *)
(* has a file.                                                               *)
NewObject(s) ==
  [Absent EXCEPT !.here = TRUE, !.persisted = real[s],
                 !.isNew = Own[s] \notin files /\ real[s] \notin files]

Locked(s) == \E c \in Callers : pc[c][s] = "launch"
Alive(s)  == obj[s].here /\ pane[s] # "none"
Idle      == [at |-> "idle", s |-> 0, todo |-> {}, same |-> TRUE, obj |-> Absent]
Fresh     == CHOOSE c \in Convs \ taken : \A d \in Convs \ taken : c <= d

Init ==
  /\ pane = [s \in Sessions |-> "none"] /\ on = [s \in Sessions |-> 0]
  /\ pid = [s \in Sessions |-> 0] /\ hook = [s \in Sessions |-> 0]
  /\ windows = [s \in Sessions |-> 0] /\ last = [s \in Sessions |-> 0]
  /\ files = {Own[s] : s \in Sessions} \ {0} /\ taken = files
  /\ \E s \in Sessions : slots = {s}
  /\ removing = {}
  /\ obj = [s \in Sessions |-> Absent] /\ new = obj
  /\ real = [s \in Sessions |-> 0] /\ disk = real /\ claimed = {} /\ known = {}
  /\ warming = slots /\ loop = TRUE /\ heal = Idle
  /\ pc = [c \in Callers |-> [s \in Sessions |->
             IF c = "warm" /\ s \in slots THEN "get" ELSE "idle"]]
  /\ held = [s \in Sessions |-> "table"]
  /\ clearing = {}
  /\ events = 0
  /\ moved = {} /\ exited = {} /\ scanned = {} /\ typed = {} /\ garbled = {} /\ raced = {}
  /\ dropped = {}

(* Faulty variant of Killed: the windows stay attached. *)
KilledKeepsWindows(S) ==
  /\ pane' = [s \in Sessions |-> IF s \in S THEN "none" ELSE pane[s]]
  /\ on' = [s \in Sessions |-> IF s \in S THEN 0 ELSE on[s]]
  /\ pid' = [s \in Sessions |-> IF s \in S THEN 0 ELSE pid[s]]
  /\ UNCHANGED windows

(* tmux kill-session: the CLI and the attached windows go with the terminal. *)
Killed(S) ==
  /\ pane' = [s \in Sessions |-> IF s \in S THEN "none" ELSE pane[s]]
  /\ on' = [s \in Sessions |-> IF s \in S THEN 0 ELSE on[s]]
  /\ pid' = [s \in Sessions |-> IF s \in S THEN 0 ELSE pid[s]]
  /\ windows' = [s \in Sessions |-> IF s \in S THEN 0 ELSE windows[s]]

(* A turn and the health loop keep the object they hold when the table's is  *)
(* replaced or dropped.                                                      *)
Replaced(S) ==
  held' = [s \in Sessions |->
             IF s \in S /\ held[s] = "table" /\ pc["turn"][s] \in {"have", "detect"}
             THEN IF obj[s].ready THEN "ready" ELSE "unready"
             ELSE held[s]]
Detached(s) ==
  heal' = IF heal.s = s /\ heal.same
          THEN [heal EXCEPT !.same = FALSE, !.obj = obj[s]] ELSE heal

Goto(c, s, l) == pc' = [pc EXCEPT ![c][s] = l]

-----------------------------------------------------------------------------
(* Terminals, windows and the CLI.                                           *)
Loaded(s) ==
  /\ pane[s] = "loading"
  /\ pane' = [pane EXCEPT ![s] = "prompt"]
  /\ hook' = [hook EXCEPT ![s] = on[s]]
  /\ UNCHANGED <<on, pid, files, taken, windows, last, slots, obj, new,
                 records, tasks, health, removing, bounds, marks>>

Event == events < MaxEvents /\ events' = events + 1

ClaudeExits(s) ==
  /\ Event /\ pane[s] \in {"loading", "prompt"}
  /\ pane' = [pane EXCEPT ![s] = "shell"] /\ on' = [on EXCEPT ![s] = 0]
  /\ pid' = [pid EXCEPT ![s] = 0]
  /\ exited' = exited \cup {s}
  /\ UNCHANGED <<files, taken, hook, windows, last, slots, obj, new, records,
                 tasks, health, removing, moved, scanned, typed, garbled,
                 raced, dropped>>

ServerDies ==
  /\ Event /\ \E s \in Sessions : pane[s] # "none"
  /\ Killed(Sessions)
  /\ exited' = Sessions
  /\ UNCHANGED <<files, taken, hook, last, slots, obj, new, records, tasks,
                 health, removing, moved, scanned, typed, garbled, raced,
                 dropped>>

(* The CLI begins another conversation in its terminal, and reports it.      *)
Switched(s) ==
  /\ taken # Convs
  /\ taken' = taken \cup {Fresh} /\ files' = files \cup {Fresh}
  /\ on' = [on EXCEPT ![s] = Fresh] /\ last' = [last EXCEPT ![s] = Fresh]
  /\ hook' = [hook EXCEPT ![s] = Fresh]
  /\ moved' = moved \cup {s}

UserClears(s) ==
  /\ Event /\ pane[s] = "prompt" /\ Switched(s)
  /\ UNCHANGED <<pane, pid, windows, slots, obj, new, records, tasks, health,
                 removing, exited, scanned, typed, garbled, raced, dropped>>

(* Somebody runs the CLI in the same directory.                              *)
Stranger ==
  /\ Event /\ taken # Convs
  /\ taken' = taken \cup {Fresh} /\ files' = files \cup {Fresh}
  /\ UNCHANGED <<pane, on, pid, hook, windows, last, slots, obj, new, records,
                 tasks, health, removing, marks>>

-----------------------------------------------------------------------------
(* The record of the conversation.                                           *)
(* _set_real_session_id and _on_real_session_id_changed: the whole map is    *)
(* persisted.                                                                *)
SetReal(s, c) ==
  /\ real' = [real EXCEPT ![s] = c] /\ disk' = real'
  /\ claimed' = claimed \cup {c}

(* Faulty variant of HookArrives: the report counts for every bot of the      *)
(* directory.                                                                *)
HookArrivesAll(s) ==
  /\ hook[s] # 0
  /\ hook' = [hook EXCEPT ![s] = 0]
  /\ IF s \in known
     THEN real' = [t \in Sessions |-> IF t \in known THEN hook[s] ELSE real[t]] /\ disk' = real'
     ELSE UNCHANGED <<real, disk>>
  /\ UNCHANGED <<pane, on, pid, files, taken, windows, last, slots, obj, new,
                 claimed, known, tasks, health, removing, bounds, marks>>

(* handle_session_start_hook: only the record changes, not the object.       *)
HookArrives(s) ==
  /\ hook[s] # 0
  /\ hook' = [hook EXCEPT ![s] = 0]
  /\ IF s \in known
     THEN real' = [real EXCEPT ![s] = hook[s]] /\ disk' = real'
     ELSE UNCHANGED <<real, disk>>
  /\ UNCHANGED <<pane, on, pid, files, taken, windows, last, slots, obj, new,
                 claimed, known, tasks, health, removing, bounds, marks>>

(* What the object finds: the record it was created with, else what the      *)
(* CLI's own file says, else a guess among the files that are new and free.  *)
Candidates(s) == (files \ claimed) \ obj[s].pre
Named(s) ==
  IF obj[s].persisted \in files THEN obj[s].persisted
  ELSE IF pid[s] \in files THEN pid[s] ELSE 0

(* _detect_real_session_id; o is the object as its caller leaves it.          *)
Detect(s, o) ==
  \/ /\ o.real # 0
     /\ obj' = [obj EXCEPT ![s] = o]
     /\ UNCHANGED <<real, disk, claimed, scanned>>
  \/ /\ o.real = 0 /\ Named(s) # 0
     /\ obj' = [obj EXCEPT ![s] = [o EXCEPT !.real = Named(s),
                  !.persisted = IF @ = Named(s) THEN 0 ELSE @]]
     /\ SetReal(s, Named(s)) /\ UNCHANGED scanned
  \/ /\ o.real = 0 /\ Named(s) = 0
     /\ \E c \in Candidates(s) :
          /\ obj' = [obj EXCEPT ![s] = [o EXCEPT !.real = c]]
          /\ SetReal(s, c) /\ scanned' = scanned \cup {s}
  \/ /\ o.real = 0 /\ Named(s) = 0 /\ Candidates(s) = {}
     /\ obj' = [obj EXCEPT ![s] = o]
     /\ UNCHANGED <<real, disk, claimed, scanned>>

(* _poll_until_ready *)
Poll(s) ==
  /\ obj[s].here /\ obj[s].poll /\ (obj[s].ready \/ pane[s] = "prompt")
  /\ LET o == [obj[s] EXCEPT !.ready = TRUE, !.poll = FALSE]
     IN IF o.isNew THEN Detect(s, o)
        ELSE /\ obj' = [obj EXCEPT ![s] = o]
             /\ UNCHANGED <<real, disk, claimed, scanned>>
  /\ UNCHANGED <<outside, slots, new, known, tasks, health, removing, bounds,
                 moved, exited, typed, garbled, raced, dropped>>

-----------------------------------------------------------------------------
(* start(): a terminal at its prompt is reused, any other is made anew; then *)
(* the command is typed into it.                                             *)
Remade(s) ==
  /\ pane' = [pane EXCEPT ![s] = "shell"] /\ on' = [on EXCEPT ![s] = 0]
  /\ pid' = [pid EXCEPT ![s] = 0] /\ windows' = [windows EXCEPT ![s] = 0]
Snapshot(o) == IF o.isNew THEN [o EXCEPT !.pre = files] ELSE o
(* Faulty variant of Resumes: the conversation the session is named after.   *)
ResumesOwn(s, o) == IF o.isNew THEN 0 ELSE Own[s]

Resumes(s, o) ==
  IF o.isNew THEN 0
  ELSE IF o.started /\ o.real # 0 THEN o.real
  ELSE IF o.persisted # 0 THEN o.persisted ELSE Own[s]
Launched(o) == [o EXCEPT !.ready = FALSE, !.started = TRUE, !.poll = TRUE]
Reused(o)   == [o EXCEPT !.ready = TRUE]

(* The CLI starts if it is a shell that gets the command.                    *)
CommandSent(s, o) ==
  LET c == IF Resumes(s, o) = 0 THEN Fresh ELSE Resumes(s, o) IN
  /\ Resumes(s, o) = 0 => taken # Convs
  /\ IF pane[s] = "shell"
     THEN /\ pane' = [pane EXCEPT ![s] = "loading"] /\ on' = [on EXCEPT ![s] = c]
          /\ pid' = [pid EXCEPT ![s] = c] /\ last' = [last EXCEPT ![s] = c]
          /\ taken' = taken \cup {c}
          /\ moved' = IF last[s] \in files \ {c} THEN moved \cup {s} ELSE moved
     ELSE UNCHANGED <<pane, on, pid, last, taken, moved>>
  /\ garbled' = IF pane[s] \in {"loading", "prompt"} THEN garbled \cup {s} ELSE garbled

Claims(s, o) ==
  claimed' = IF o.isNew THEN claimed ELSE claimed \cup ({Own[s]} \ {0})

(* The started object replaces the one in the table, which others may hold.  *)
Installed(s, o) ==
  /\ obj' = [obj EXCEPT ![s] = o]
  /\ new' = [new EXCEPT ![s] = Absent]
  /\ Claims(s, o)
  /\ Replaced({s})
  /\ Detached(s)

(* Faulty variant of Get: a dead session is started without the lock. *)
GetUnlocked(c, s) ==
  /\ pc[c][s] = "get"
  /\ \/ /\ Alive(s) /\ Goto(c, s, "have")
        /\ UNCHANGED <<pane, on, pid, windows, obj, new, claimed, held, heal>>
     \/ /\ ~Alive(s)
        /\ Remade(s) /\ new' = [new EXCEPT ![s] = Snapshot(NewObject(s))]
        /\ obj' = [obj EXCEPT ![s].poll = FALSE]
        /\ Goto(c, s, "launch")
        /\ UNCHANGED <<claimed, held, heal>>
  /\ UNCHANGED <<files, taken, hook, last, slots, real, disk, known, warming,
                 clearing, loop, removing, bounds, marks>>

(* _get_tmux_session: a live session is used; a dead one is started under    *)
(* the lock of the session, where it is looked up once more.                 *)
Get(c, s) ==
  /\ pc[c][s] = "get"
  /\ \/ /\ Alive(s) /\ Goto(c, s, "have")
        /\ UNCHANGED <<pane, on, pid, windows, obj, new, claimed, held, heal>>
     \/ /\ ~Alive(s) /\ ~Locked(s) /\ pane[s] = "prompt"
        /\ Installed(s, Reused(NewObject(s))) /\ Goto(c, s, "have")
        /\ UNCHANGED <<pane, on, pid, windows>>
     \/ /\ ~Alive(s) /\ ~Locked(s) /\ pane[s] # "prompt"
        /\ Remade(s) /\ new' = [new EXCEPT ![s] = Snapshot(NewObject(s))]
        /\ obj' = [obj EXCEPT ![s].poll = FALSE]
        /\ Goto(c, s, "launch")
        /\ UNCHANGED <<claimed, held, heal>>
  /\ UNCHANGED <<files, taken, hook, last, slots, real, disk, known, warming,
                 clearing, loop, removing, bounds, marks>>

Launch(c, s) ==
  /\ pc[c][s] = "launch"
  /\ CommandSent(s, new[s])
  /\ Installed(s, Launched(new[s]))
  /\ Goto(c, s, "have")
  /\ UNCHANGED <<files, hook, windows, slots, real, disk, known, warming,
                 clearing, loop, removing, bounds, exited, scanned, typed,
                 raced, dropped>>

-----------------------------------------------------------------------------
(* pre_warm, from the session it got: register the name, open a window       *)
(* unless one is attached, wait a while for the conversation.                *)
Warmers == {"warm", "again"}

(* Faulty variant of LookForWindow: a window is opened whether or not one is *)
(* attached.                                                                 *)
LookForNothing(c, s) ==
  /\ c \in Warmers /\ pc[c][s] = "have"
  /\ known' = known \cup {s}
  /\ Goto(c, s, "open") /\ UNCHANGED warming
  /\ UNCHANGED <<outside, slots, obj, new, real, disk, claimed, held,
                 clearing, health, removing, bounds, marks>>

LookForWindow(c, s) ==
  /\ c \in Warmers /\ pc[c][s] = "have"
  /\ known' = known \cup {s}
  /\ IF windows[s] = 0 THEN Goto(c, s, "open") /\ UNCHANGED warming
     ELSE Goto(c, s, "idle") /\ warming' = warming \ {s}
  /\ UNCHANGED <<outside, slots, obj, new, real, disk, claimed, held,
                 clearing, health, removing, bounds, marks>>

Opened(s) == windows' = [windows EXCEPT ![s] = IF pane[s] = "none" THEN 0 ELSE @ + 1]

OpenWindow(c, s) ==
  /\ pc[c][s] = "open" /\ Opened(s)
  /\ Goto(c, s, "idle") /\ warming' = warming \ {s}
  /\ UNCHANGED <<pane, on, pid, files, taken, hook, last, slots, obj, new,
                 records, held, clearing, health, removing, bounds, marks>>

-----------------------------------------------------------------------------
(* stream_user_turn: get the session, wait until it is ready, type, and find *)
(* out the conversation if it is not known.                                  *)
TurnStart(s) ==
  /\ Event /\ s \in slots /\ pc["turn"][s] = "idle"
  /\ Goto("turn", s, "get") /\ held' = [held EXCEPT ![s] = "table"]
  /\ UNCHANGED <<outside, slots, obj, new, records, warming, clearing, health,
                 removing, marks>>

ReadyFlag(s) == held[s] = "ready" \/ (held[s] = "table" /\ obj[s].ready)

(* Faulty variant of Type: the text is typed without waiting for a prompt.    *)
TypeUnready(s) ==
  /\ pc["turn"][s] = "have"
  /\ IF pane[s] = "prompt"
     THEN files' = files \cup {on[s]} /\ UNCHANGED typed
     ELSE typed' = typed \cup {s} /\ UNCHANGED files
  /\ UNCHANGED obj
  /\ Goto("turn", s, "detect")
  /\ UNCHANGED <<pane, on, pid, taken, hook, windows, last, slots, new,
                 records, warming, held, clearing, health, removing, bounds,
                 moved, exited, scanned, garbled, raced, dropped>>

(* send_text; the first text of a conversation creates its file.              *)
Type(s) ==
  /\ pc["turn"][s] = "have" /\ (ReadyFlag(s) \/ pane[s] = "prompt")
  /\ IF pane[s] = "prompt"
     THEN files' = files \cup {on[s]} /\ UNCHANGED typed
     ELSE typed' = typed \cup {s} /\ UNCHANGED files
  /\ obj' = IF held[s] = "table" THEN [obj EXCEPT ![s].ready = TRUE] ELSE obj
  /\ Goto("turn", s, "detect")
  /\ UNCHANGED <<pane, on, pid, taken, hook, windows, last, slots, new,
                 records, warming, held, clearing, health, removing, bounds,
                 moved, exited, scanned, garbled, raced, dropped>>

TypeTimeout(s) ==
  /\ pc["turn"][s] = "have" /\ ~ReadyFlag(s) /\ pane[s] # "prompt"
  /\ Goto("turn", s, "idle")
  /\ UNCHANGED <<outside, slots, obj, new, records, warming, held, clearing,
                 health, removing, bounds, marks>>

TurnDetects(s) ==
  /\ pc["turn"][s] = "detect"
  /\ IF held[s] = "table" /\ obj[s].here THEN Detect(s, obj[s])
     ELSE UNCHANGED <<obj, real, disk, claimed, scanned>>
  /\ Goto("turn", s, "idle")
  /\ UNCHANGED <<outside, slots, new, known, warming, held, clearing, health,
                 removing, bounds, moved, exited, typed, garbled, raced,
                 dropped>>

-----------------------------------------------------------------------------
(* The health loop.                                                          *)
NoServer == \A s \in Sessions : pane[s] = "none"

(* Faulty variant of HealthCheck: only terminals are looked for, not the CLI. *)
HealthCheckTerminals(s) ==
  /\ loop /\ heal.at = "idle" /\ obj[s].here /\ ~NoServer
  /\ pane[s] = "none"
  /\ heal' = [Idle EXCEPT !.at = "make", !.s = s]
  /\ UNCHANGED <<outside, slots, obj, new, records, tasks, loop, removing,
                 bounds, marks>>

(* _check_claude_processes: no CLI runs below the terminal's shell.          *)
HealthCheck(s) ==
  /\ loop /\ heal.at = "idle" /\ obj[s].here /\ ~NoServer
  /\ pane[s] \in {"none", "shell"}
  /\ heal' = [Idle EXCEPT !.at = "make", !.s = s]
  /\ UNCHANGED <<outside, slots, obj, new, records, tasks, loop, removing,
                 bounds, marks>>

HealObject == IF heal.same THEN obj[heal.s] ELSE heal.obj
HealUpdates(o) == obj' = IF heal.same THEN [obj EXCEPT ![heal.s] = o] ELSE obj

(* restart_claude, that is start(), of the object, without the lock.         *)
HealthMake ==
  /\ heal.at = "make"
  /\ IF pane[heal.s] = "prompt"
     THEN /\ HealUpdates(Reused(HealObject)) /\ heal' = Idle
          /\ UNCHANGED <<pane, on, pid, windows>>
     ELSE /\ Remade(heal.s) /\ HealUpdates(Snapshot(HealObject))
          /\ heal' = [heal EXCEPT !.at = "launch"]
  /\ UNCHANGED <<files, taken, hook, last, slots, new, records, tasks, loop,
                 removing, bounds, marks>>

HealthLaunch ==
  /\ heal.at = "launch"
  /\ CommandSent(heal.s, HealObject) /\ HealUpdates(Launched(HealObject))
  /\ heal' = Idle
  /\ UNCHANGED <<files, hook, windows, slots, new, records, tasks, loop,
                 removing, bounds, exited, scanned, typed, raced, dropped>>

(* _handle_tmux_server_crash: forget all objects, pre-warm them again.       *)
Recover ==
  /\ loop /\ heal.at = "idle" /\ NoServer
  /\ \E s \in Sessions : obj[s].here
  /\ heal' = [Idle EXCEPT !.at = "recover", !.todo = {s \in Sessions : obj[s].here}]
  /\ obj' = [s \in Sessions |-> Absent] /\ warming' = {}
  /\ Replaced(Sessions)
  /\ UNCHANGED <<outside, slots, new, records, pc, clearing, loop, removing,
                 bounds, marks>>

Rebuild(s) ==
  /\ heal.at = "recover" /\ s \in heal.todo
  /\ IF s \in warming
     THEN heal' = [heal EXCEPT !.todo = @ \ {s}] /\ UNCHANGED <<warming, pc>>
     ELSE /\ heal' = [heal EXCEPT !.at = "rebuild", !.s = s]
          /\ warming' = warming \cup {s} /\ Goto("again", s, "get")
  /\ UNCHANGED <<outside, slots, obj, new, records, held, clearing, loop,
                 removing, bounds, marks>>

Rebuilt ==
  /\ \/ heal.at = "rebuild" /\ pc["again"][heal.s] = "idle"
        /\ heal' = [Idle EXCEPT !.at = "recover", !.todo = heal.todo \ {heal.s}]
     \/ heal.at = "recover" /\ heal.todo = {} /\ heal' = Idle
  /\ UNCHANGED <<outside, slots, obj, new, records, tasks, loop, removing,
                 bounds, marks>>

-----------------------------------------------------------------------------
(* on_slot_removed: first the records, then the terminal; the health loop is *)
(* stopped, in whatever it does, when no object is left.                     *)
Remove(s) ==
  /\ Event /\ s \in slots
  /\ slots' = slots \ {s} /\ removing' = removing \cup {s}
  /\ claimed' = claimed \ {Own[s], obj[s].real}
  /\ real' = [real EXCEPT ![s] = 0] /\ known' = known \ {s}
  /\ obj' = [obj EXCEPT ![s] = Absent]
  /\ Replaced({s}) /\ Detached(s)
  /\ clearing' = clearing \ {s}
  /\ raced' = IF heal.s = s \/ s \in heal.todo \/ \E c \in Callers : pc[c][s] # "idle"
              THEN raced \cup {s} ELSE raced
  /\ UNCHANGED <<outside, new, disk, warming, pc, loop, moved, exited,
                 scanned, typed, garbled, dropped>>

(* Faulty variant of RemoveKill: the terminal is left alone. *)
RemoveForgets(s) ==
  /\ s \in removing /\ removing' = removing \ {s}
  /\ UNCHANGED <<outside, slots, obj, new, records, tasks, health, bounds,
                 marks>>

RemoveKill(s) ==
  /\ s \in removing /\ removing' = removing \ {s}
  /\ Killed({s})
  /\ IF \E t \in Sessions : obj[t].here THEN UNCHANGED <<health, pc, warming>>
     ELSE /\ loop' = FALSE /\ heal' = Idle
          /\ pc' = [pc EXCEPT !["again"] = [t \in Sessions |-> "idle"]]
          /\ warming' = warming \ {t \in Sessions : pc["again"][t] # "idle"}
  /\ UNCHANGED <<files, taken, hook, last, slots, obj, new, records, held,
                 clearing, bounds, marks>>

(* A slot is added, for a conversation that exists or for a created bot; its  *)
(* terminal is pre-warmed.                                                    *)
AddSlot(s) ==
  /\ events + Cardinality(slots) < MaxEvents /\ events' = events + 1 + Cardinality(slots)
  /\ s \notin slots /\ (Own[s] # 0 \/ last[s] = 0) /\ slots' = slots \cup {s}
  /\ IF s \in warming THEN UNCHANGED <<warming, pc, loop>>
     ELSE /\ pc["warm"][s] = "idle"
          /\ warming' = warming \cup {s} /\ Goto("warm", s, "get") /\ loop' = TRUE
  /\ raced' = IF s \in removing THEN raced \cup {s} ELSE raced
  /\ UNCHANGED <<outside, obj, new, records, held, clearing, heal, removing,
                 moved, exited, scanned, typed, garbled, dropped>>

(* reset_session and compact_session: the command is typed at the prompt; a  *)
(* reset that finds none within its time kills the terminal instead.         *)
Drop(s) ==
  /\ dropped' = dropped \cup {s} /\ obj' = [obj EXCEPT ![s] = Absent]
  /\ Replaced({s}) /\ Detached(s)

Cleared(s) ==
  /\ Alive(s) /\ (obj[s].ready \/ pane[s] = "prompt")
  /\ IF pane[s] = "prompt"
     THEN Switched(s) /\ UNCHANGED typed
     ELSE typed' = typed \cup {s} /\ UNCHANGED <<on, files, taken, hook, last, moved>>
  /\ obj' = [obj EXCEPT ![s].ready = pane[s] = "prompt"]
  /\ clearing' = clearing \cup {s}
  /\ UNCHANGED <<pane, pid, windows, held, heal>>

Reset(s) ==
  /\ Event /\ s \in slots /\ obj[s].here
  /\ \/ Cleared(s) /\ UNCHANGED dropped
     \/ /\ Alive(s) /\ ~obj[s].ready /\ pane[s] # "prompt"
        /\ Drop(s) /\ Killed({s})
        /\ UNCHANGED <<files, taken, hook, last, clearing, moved, typed>>
     \/ /\ ~Alive(s) /\ Drop(s)
        /\ UNCHANGED <<outside, clearing, moved, typed>>
  /\ UNCHANGED <<slots, new, records, warming, pc, loop, removing, exited,
                 scanned, garbled, raced>>

Compact(s) ==
  /\ Event /\ s \in slots /\ Cleared(s)
  /\ UNCHANGED <<slots, new, records, warming, pc, loop, removing, exited,
                 scanned, garbled, raced, dropped>>

ClearDone(s) ==
  /\ s \in clearing /\ clearing' = clearing \ {s}
  /\ IF obj[s].here THEN Detect(s, [obj[s] EXCEPT !.ready = @ \/ pane[s] = "prompt"])
     ELSE UNCHANGED <<obj, real, disk, claimed, scanned>>
  /\ UNCHANGED <<outside, slots, new, known, warming, pc, held, health,
                 removing, bounds, moved, exited, typed, garbled, raced,
                 dropped>>

(* The backend dies and starts again: the terminals live on, those without a *)
(* slot are killed, every slot is pre-warmed.                                *)
Restart ==
  /\ Event /\ Killed(Sessions \ slots)
  /\ hook' = [s \in Sessions |-> 0]
  /\ obj' = [s \in Sessions |-> Absent] /\ new' = obj'
  /\ real' = disk /\ claimed' = {} /\ known' = {}
  /\ warming' = slots /\ loop' = TRUE /\ heal' = Idle
  /\ pc' = [c \in Callers |-> [s \in Sessions |->
              IF c = "warm" /\ s \in slots THEN "get" ELSE "idle"]]
  /\ held' = [s \in Sessions |-> "table"] /\ clearing' = {}
  /\ removing' = {}
  /\ UNCHANGED <<files, taken, last, slots, disk, marks>>

-----------------------------------------------------------------------------
Step(c, s) ==
  Get(c, s) \/ Launch(c, s) \/ LookForWindow(c, s)
  \/ OpenWindow(c, s)

System(s) ==
  \/ \E c \in Callers : Step(c, s)
  \/ Loaded(s) \/ HookArrives(s) \/ Poll(s)
  \/ Type(s) \/ TypeTimeout(s) \/ TurnDetects(s)
  \/ HealthCheck(s) \/ Rebuild(s) \/ RemoveKill(s) \/ ClearDone(s)

Loop == HealthMake \/ HealthLaunch \/ Recover \/ Rebuilt

Users(s) ==
  ClaudeExits(s) \/ UserClears(s) \/ TurnStart(s) \/ Remove(s)
  \/ AddSlot(s) \/ Reset(s) \/ Compact(s)

Next == (\E s \in Sessions : System(s) \/ Users(s)) \/ Loop \/ ServerDies \/ Stranger
        \/ Restart

Spec == Init /\ [][Next]_vars /\ WF_vars(Loop \/ \E s \in Sessions : System(s))


-----------------------------------------------------------------------------
(* get_session_status, in observer mode and between turns.                   *)
Status(s) ==
  IF ~Alive(s) THEN IF s \in warming THEN "warming" ELSE "disconnected"
  ELSE IF obj[s].ready THEN "connected" ELSE "warming"

(* fetch_history: the conversation whose file is read.                        *)
HistoryOf(s) ==
  IF obj[s].here /\ obj[s].real \in files THEN obj[s].real
  ELSE IF real[s] \in files /\ obj[s].real = 0 THEN real[s] ELSE Own[s]

TypeOK ==
  /\ pane \in [Sessions -> {"none", "shell", "loading", "prompt"}]
  /\ {on, pid, hook, last, real, disk} \subseteq [Sessions -> Convs \cup {0}]
  /\ windows \in [Sessions -> Nat]
  /\ files \subseteq taken /\ taken \subseteq Convs /\ claimed \subseteq Convs
  /\ {obj, new} \subseteq [Sessions -> Object]
  /\ heal \in [at : {"idle", "make", "launch", "recover", "rebuild"}, s : Sessions \cup {0},
               todo : SUBSET Sessions, same : BOOLEAN, obj : Object]
  /\ heal.at \in {"make", "launch", "rebuild"} <=> heal.s # 0
  /\ loop \in BOOLEAN /\ events \in 0 .. MaxEvents
  /\ held \in [Sessions -> {"table", "ready", "unready"}]
  /\ pc \in [Callers -> [Sessions -> {"idle", "get", "launch", "have", "open", "detect"}]]
  /\ {slots, known, warming, clearing, removing} \subseteq SUBSET Sessions
  /\ {moved, exited, scanned, typed, garbled, raced, dropped} \subseteq SUBSET Sessions
  /\ \A s \in Sessions :
       /\ {on[s], pid[s], hook[s], last[s], real[s], disk[s], obj[s].real} \subseteq taken \cup {0}
       /\ pane[s] \in {"none", "shell"} <=> on[s] = 0
       /\ pane[s] = "none" => windows[s] = 0

(* The lock of a session lets one caller at a time start its terminal, so   *)
(* that a launch command is never typed at a CLI that already runs -- unless *)
(* the health loop, which takes no lock, restarts the same terminal after    *)
(* its CLI died or its slot was removed in between.                          *)
OneLauncher ==
  \A s \in Sessions :
    /\ Cardinality({c \in Callers : pc[c][s] = "launch"}) <= 1
    /\ s \in garbled => s \in exited \cup raced

(* One window is opened per terminal, although a turn, a pre-warming and the *)
(* recovery may want it at once; only a recovery that forgets a pre-warming  *)
(* under way can open a second.                                              *)
OneWindow == \A s \in Sessions : windows[s] > 1 => s \in exited \cup raced

(* A session's record names a conversation of its own terminal and of no     *)
(* other session's, unless one of the two had to guess from the files of the *)
(* directory: a guess may take the conversation of another session.          *)
OwnConversation ==
  \A s, t \in Sessions \ scanned :
    s # t /\ real[s] # 0 => real[s] # Own[t] /\ real[s] # on[t]

(* The text of a turn is typed where no CLI listens only after a CLI or its  *)
(* terminal died under an object that still says ready, or the slot was     *)
(* removed under the turn.                                                   *)
MistypedOnlyAfterExit == typed \subseteq exited \cup raced

(* An object that was reused by a start of the backend, and has used up the  *)
(* record it was created with, no longer knows which conversation to resume. *)
Spent(o) == ~o.started /\ o.persisted = 0 /\ o.real # 0

(* A terminal that starts its CLI again goes on with the conversation it had *)
(* before, if that has any message: unless the terminal had already gone over *)
(* to another, the conversation was guessed, or the object still counts as   *)
(* new or is spent.                                                          *)
LaunchKeeps ==
  [][\A s \in Sessions :
       on[s] = 0 /\ on'[s] # 0 /\ last[s] \in files =>
         \/ on'[s] = last[s]
         \/ s \in moved \cup scanned
         \/ new[s].isNew
         \/ heal.s = s /\ (HealObject.isNew \/ Spent(HealObject))]_vars

(* A terminal stays without a slot only when the slot was removed while      *)
(* somebody was still starting the terminal.                                 *)
OrphanOnlyAfterRace ==
  \A s \in Sessions : pane[s] # "none" => s \in slots \cup removing \cup raced

(* A session has one launcher, one window and its own conversation, text is typed *)
(* where a CLI listens, and no terminal is left without a slot: unless a CLI or a *)
(* terminal died, or the slot was removed, in between (adapter.py:1687, 1903,     *)
(* tmux_session.py:498, 769).                                                     *)
TerminalsSafe ==
  TypeOK /\ OneLauncher /\ OneWindow /\ OwnConversation /\ MistypedOnlyAfterExit
  /\ OrphanOnlyAfterRace

(* In the end nobody waits for a lock, every slot has an object unless a     *)
(* reset dropped it, every session with an object is connected and runs a    *)
(* CLI, and the record and the history of a session whose terminal kept its  *)
(* conversation are those of the terminal.                                   *)
Steady(s) ==
  /\ s \notin warming /\ \A c \in Callers : pc[c][s] = "idle"
  /\ s \in slots \ (raced \cup dropped) => obj[s].here
  /\ obj[s].here /\ loop => pane[s] = "prompt" /\ Status(s) = "connected"
  /\ pane[s] = "prompt" /\ real[s] # 0 /\ s \notin moved \cup scanned \cup exited \cup raced =>
       real[s] = on[s] /\ (on[s] \in files => HistoryOf(s) = on[s])
AllSteady == heal = Idle /\ \A s \in Sessions : Steady(s)

(* What tmux_session.py:200 says of a restart: it uses the conversation it   *)
(* knows.  It does not hold after the conversation was switched inside the   *)
(* CLI or guessed; LaunchKeeps is what does.                                 *)
RestartResumes ==
  [][heal.at = "launch" /\ heal'.at = "idle" =>
       LET s == heal.s IN
       HealObject.started /\ HealObject.real # 0 /\ on'[s] # on[s] =>
         on'[s] = HealObject.real]_vars

(* What tmux_session.py:498 says of the way the conversation of a new        *)
(* terminal is found: it is immune to confusion with other sessions.  It     *)
(* does not hold when the files of the directory have to be compared;        *)
(* OwnConversation is what does.                                             *)
DetectsOwn == \A s \in Sessions :
  obj[s].here /\ obj[s].real # 0 /\ s \notin moved => obj[s].real = last[s]

=============================================================================
