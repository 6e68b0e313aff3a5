------------------------------- MODULE Observer -------------------------------
(***************************************************************************)
(* Observer mode of the Claude Code adapter, for one bot: a turn types the *)
(* user's text into the terminal session and waits; a SessionWatcher reads *)
(* the transcript files Claude writes, stores and pushes their messages    *)
(* and signals the end of the turn.                                        *)
(*                                                                         *)
(* The terminal program is external: it works on one message at a time,    *)
(* typed by the adapter or by a person at the terminal, appends entries to *)
(* the transcript of its current conversation, may be interrupted with     *)
(* Escape, and may switch to another conversation, which its SessionStart  *)
(* hook reports.                                                           *)
(***************************************************************************)
EXTENDS Integers, Sequences, SequencesExt, FiniteSets

CONSTANTS
  Web,        \* messages sent from the web client, positive numbers: their ids
  Terminal,   \* messages typed at the terminal, other numbers
  Tools,      \* messages the CLI may call a tool for
  NullStops,  \* messages whose answer the CLI may first write unfinished
  Resumable,  \* the second conversation is an old one with a history
  MaxFaults   \* bound: Escapes, cancels, failed or aborted turns, switches,
              \* losses of the watcher, restarts

ASSUME ObserverAssumption ==
  /\ Web \cup Terminal \subseteq Nat \ {0} /\ Web \cap Terminal = {}
  /\ Tools \cup NullStops \subseteq Web \cup Terminal /\ Resumable \in BOOLEAN /\ MaxFaults \in Nat

Messages == Web \cup Terminal
Files    == {1, 2}

(* A transcript entry.  The entries of one assistant message share a key:  *)
(* "null" is its snapshot without a stop reason, "final" the same ended.   *)
Entry(m, kind) == [of |-> m, kind |-> kind]
Key(e) == <<e.of, IF e.kind \in {"null", "final"} THEN "answer" ELSE e.kind>>
ByUser(e) == e.kind \in {"user", "result"}
Old == {Entry(0, "user"), Entry(0, "final")}

VARIABLES
  log,      \* external: the transcripts
  conv,     \* external: the conversation the terminal is in
  typed,    \* external: messages typed and not begun
  busy,     \* external: the message worked on, 0 for none
  stage,    \* external: the entries written for it
  watcher,  \* the watcher: on, current file, other files, what it has seen
  tool,     \* _watcher_tool_state of the bot
  ids,      \* _pending_client_msg_ids of the bot
  stored,   \* keys in the canonical store
  pushed,   \* message_sync pushes: key and client id, 0 for none
  pc,       \* where each web turn is
  done,     \* _pending_turn_done: the turn registered, 0 for none
  isSet,    \* its event is set
  faults,
  excused,  \* history: turns that may end before their answer, with the cause
  early,    \* history: turns whose answer was read before they registered, or
            \* by the watcher's first sync
  strayed,  \* history: client ids and user entries may no longer line up
  skipped,  \* history: user messages taken for tool results
  events    \* history: entries for which a turn event was signalled

cliVars     == <<log, conv, typed, busy, stage>>
adapterVars == <<watcher, tool, ids, stored, pushed, done, isSet, events, skipped>>
ghostVars   == <<excused, early, strayed>>
vars == <<cliVars, adapterVars, ghostVars, pc, faults>>

-----------------------------------------------------------------------------
NoWatcher == [on |-> FALSE, file |-> 0, others |-> {}, read |-> [f \in Files |-> 0],
              seen |-> {}, stops |-> {}, fired |-> {}, initial |-> FALSE]

(* _get_or_create_watcher: it follows the bound conversation's file if that *)
(* exists.                                                                  *)
NewWatcher == [NoWatcher EXCEPT !.on = TRUE, !.file = IF log[conv] # <<>> THEN conv ELSE 0]

Active == {m \in Web : pc[m] \in {"sending", "typed", "waiting"}}

(* Nothing of another message is under way or written and not yet read; the *)
(* result of a tool is read and, after its call, not stored.                *)
Clean == /\ typed = <<>> /\ busy = 0
         /\ \A f \in Files : \A e \in Range(log[f]) :
              e.of = 0 \/ e.kind = "result" \/ Key(e) \in stored

Disturb == faults < MaxFaults /\ faults' = faults + 1

Init ==
  /\ log = [f \in Files |-> IF f = 2 /\ Resumable
                            THEN <<Entry(0, "user"), Entry(0, "final")>> ELSE <<>>]
  /\ conv = 1 /\ typed = <<>> /\ busy = 0 /\ stage = "none"
  /\ watcher = NoWatcher /\ tool = FALSE /\ ids = <<>>
  /\ stored = {} /\ pushed = <<>>
  /\ pc = [m \in Web |-> "new"] /\ done = 0 /\ isSet = FALSE /\ faults = 0
  /\ excused = {} /\ early = {} /\ strayed = FALSE /\ skipped = {} /\ events = {}

-----------------------------------------------------------------------------
(* External: the terminal program. *)
Write(e) == log' = [log EXCEPT ![conv] = Append(@, e)]

(* A person types at the terminal.  While a web turn is on its way the two  *)
(* streams mix.                                                             *)
TypeAtTerminal(m) ==
  /\ m \in Terminal /\ m \notin Range(typed) /\ busy # m
  /\ \A f \in Files : Entry(m, "user") \notin Range(log[f])
  /\ typed' = Append(typed, m)
  /\ strayed' = (strayed \/ ids # <<>> \/ Active # {})
  /\ excused' = excused \cup Active
  /\ UNCHANGED <<log, conv, busy, stage, adapterVars, early, pc, faults>>

Begin ==
  /\ busy = 0 /\ typed # <<>>
  /\ busy' = Head(typed) /\ typed' = Tail(typed) /\ stage' = "begun"
  /\ Write(Entry(Head(typed), "user"))
  /\ UNCHANGED <<conv, adapterVars, ghostVars, pc, faults>>

(* A tool call and its result, an unfinished snapshot, the final answer. *)
CliWrites(from, to, kind) ==
  /\ busy # 0 /\ stage \in from
  /\ Write(Entry(busy, kind)) /\ stage' = to
  /\ UNCHANGED <<conv, typed, adapterVars, ghostVars, pc, faults>>

ToolUse    == busy \in Tools /\ CliWrites({"begun"}, "tool", "tool") /\ UNCHANGED busy
ToolResult == CliWrites({"tool"}, "result", "result") /\ UNCHANGED busy
Snapshot   == busy \in NullStops /\ CliWrites({"begun", "result"}, "null", "null") /\ UNCHANGED busy
Final      == CliWrites({"begun", "result", "null"}, "none", "final") /\ busy' = 0

(* Escape pressed at the terminal: the adapter is not told. *)
TerminalEscape ==
  /\ busy # 0 /\ Disturb
  /\ busy' = 0 /\ stage' = "none"
  /\ UNCHANGED <<log, conv, typed, adapterVars, ghostVars, pc>>

(* The terminal goes to the other conversation (/clear, /resume); the hook  *)
(* tells the watcher: on_new_session.                                       *)
Follow(w, f) ==
  IF ~w.on \/ f = w.file \/ f \in w.others THEN w
  ELSE [w EXCEPT !.file = f, !.others = @ \cup ({w.file} \ {0})]

Switch ==
  /\ busy = 0 /\ Disturb
  /\ conv' = 3 - conv
  /\ watcher' = Follow(watcher, conv')
  /\ excused' = excused \cup Active /\ strayed' = TRUE
  /\ UNCHANGED <<log, typed, busy, stage, tool, ids, stored, pushed, done, isSet,
                 events, skipped, early, pc>>

-----------------------------------------------------------------------------
(* _on_watcher_message: skip tool results, store, and push what is new to   *)
(* the store; a new user message takes the oldest waiting client id.  It is *)
(* called for an entry that is new or has got its stop reason.              *)
Changed(s, e) == Key(e) \notin s.w.seen \/ (e.kind = "final" /\ Key(e) \notin s.w.stops)

(* Faulty variants of OnMessage: an entry that has grown is pushed again; the *)
(* oldest id is taken by a replayed message; the tool state outlives the tool; *)
(* an entry that only calls a tool is not stored.                             *)
OnMessagePushUpdates(s, e) ==
  IF ~Changed(s, e) \/ (ByUser(e) /\ s.tool) THEN s
  ELSE [s EXCEPT !.tool = IF ByUser(e) THEN @ ELSE e.kind = "tool",
                 !.stored = @ \cup {Key(e)},
                 !.pushed = Append(@, <<Key(e), 0>>)]

OnMessageReplayTakes(s, e) ==
  LET isNew == Key(e) \notin s.stored
      takes == e.kind = "user" /\ s.ids # <<>>
  IN  IF ~Changed(s, e) \/ (ByUser(e) /\ s.tool) THEN s
      ELSE [s EXCEPT
             !.tool = IF ByUser(e) THEN @ ELSE e.kind = "tool",
             !.stored = @ \cup {Key(e)},
             !.ids = IF takes THEN Tail(@) ELSE @,
             !.pushed = IF isNew THEN Append(@, <<Key(e), IF takes THEN Head(s.ids) ELSE 0>>)
                        ELSE @]

OnMessageToolStays(s, e) ==
  IF ByUser(e) /\ s.tool THEN [s EXCEPT !.skipped = @ \cup {e}]
  ELSE [s EXCEPT !.tool = @ \/ e.kind = "tool", !.stored = @ \cup {Key(e)}]

OnMessageTextOnly(s, e) ==
  IF ~Changed(s, e) THEN s
  ELSE IF ByUser(e) /\ s.tool THEN [s EXCEPT !.skipped = @ \cup {e}]
  ELSE [s EXCEPT !.tool = IF ByUser(e) THEN @ ELSE e.kind = "tool",
                 !.stored = IF e.kind = "tool" THEN @ ELSE @ \cup {Key(e)}]

OnMessage(s, e) ==
  LET isNew == Key(e) \notin s.stored
      takes == e.kind = "user" /\ isNew /\ s.ids # <<>>
  IN  IF ~Changed(s, e) THEN s
      ELSE IF ByUser(e) /\ s.tool THEN [s EXCEPT !.skipped = @ \cup {e}]
      ELSE [s EXCEPT
             !.tool = IF ByUser(e) THEN @ ELSE e.kind = "tool",
             !.stored = @ \cup {Key(e)},
             !.ids = IF takes THEN Tail(@) ELSE @,
             !.pushed = IF isNew THEN Append(@, <<Key(e), IF takes THEN Head(s.ids) ELSE 0>>)
                        ELSE @]

(* _on_watcher_turn_event: a completed answer sets the registered event.    *)
(* It is called once per key, and not during the watcher's first sync; an   *)
(* entry without a stop reason counts as the end of a turn.                 *)
Ends(s, e) == e.kind \in {"null", "final"} /\ Key(e) \notin s.w.fired

(* Faulty variants of OnTurnEvent: a tool call counts as the end of a turn;   *)
(* an entry without a stop reason does not.                                   *)
OnTurnEventTool(s, e) ==
  IF (Ends(s, e) \/ e.kind = "tool") /\ s.w.initial
  THEN [s EXCEPT !.isSet = @ \/ s.done # 0, !.events = @ \cup {e}] ELSE s

OnTurnEventStrict(s, e) ==
  IF Ends(s, e) /\ e.kind = "final" /\ s.w.initial
  THEN [s EXCEPT !.isSet = @ \/ s.done # 0, !.events = @ \cup {e}] ELSE s

OnTurnEvent(s, e) ==
  IF Ends(s, e) /\ s.w.initial
  THEN [s EXCEPT !.isSet = @ \/ s.done # 0, !.events = @ \cup {e}] ELSE s

Noted(s, e) ==
  [s EXCEPT !.w.seen  = @ \cup {Key(e)},
            !.w.stops = IF e.kind = "final" THEN @ \cup {Key(e)} ELSE @,
            !.w.fired = IF Ends(s, e) THEN @ \cup {Key(e)} ELSE @]

Followed == ({watcher.file} \ {0}) \cup watcher.others

(* _sync_once: the current file, then the others that have grown. *)
ToScan(w) == {f \in w.others : Len(log[f]) > w.read[f]}
Scanned(w) == (IF w.file = 0 THEN <<>> ELSE log[w.file])
              \o FlattenSeq([i \in 1..Cardinality(ToScan(w)) |-> log[SetToSeq(ToScan(w))[i]]])

(* The states after one entry and after all of them: one each, kept in a    *)
(* set so that each is computed once.                                       *)
Handle(states, e) ==
  {Noted(s, e) : s \in {OnTurnEvent(s, e) : s \in {OnMessage(s, e) : s \in states}}}

Read(s0, entries) ==
  LET upTo[i \in 0..Len(entries)] ==
        IF i = 0 THEN {s0} ELSE Handle(upTo[i - 1], entries[i])
  IN  upTo[Len(entries)]

Current == [w |-> watcher, tool |-> tool, ids |-> ids, stored |-> stored,
            pushed |-> pushed, isSet |-> isSet, done |-> done,
            skipped |-> skipped, events |-> events]

Callbacks(s) ==
  /\ tool' = s.tool /\ ids' = s.ids /\ stored' = s.stored /\ pushed' = s.pushed
  /\ isSet' = s.isSet /\ skipped' = s.skipped /\ events' = s.events

SyncOnce ==
  \E s \in Read(Current, Scanned(watcher)) :
    /\ Callbacks(s)
    /\ watcher' = [s.w EXCEPT !.initial = TRUE,
                             !.read = [f \in Files |-> IF f \in Followed THEN Len(log[f]) ELSE @[f]]]
    /\ early' = early \cup {m \in Web : <<m, "answer">> \in s.w.fired \ watcher.fired
                                     /\ (m # done \/ ~watcher.initial)}
    /\ excused' = excused \cup
         IF \E e \in s.events \ events : e.kind = "null" \/ e \in Old
         THEN {done} \cap Web ELSE {}

(* Something to read, or the first sync of a new watcher. *)
Unread == \/ ~watcher.initial
          \/ \E f \in Followed : Len(log[f]) > watcher.read[f]
          \/ \E e \in Range(Scanned(watcher)) : Key(e) \notin watcher.seen

Sync ==
  /\ watcher.on /\ Unread
  /\ SyncOnce
  /\ UNCHANGED <<cliVars, done, strayed, pc, faults>>

(* stop(): a last sync; the watcher is dropped (mode switch, slot removal,  *)
(* recovery of a crashed terminal server).                                  *)
StopWatcher ==
  /\ watcher.on /\ Disturb
  /\ \E s \in Read(Current, Scanned(watcher)) : Callbacks(s)
  /\ watcher' = NoWatcher
  /\ early' = early \cup Web /\ excused' = excused \cup Web
  /\ UNCHANGED <<cliVars, strayed, done, pc>>

-----------------------------------------------------------------------------
(* Faulty variant of Start: the id is read before the client's was set. *)
StartNoId(m) ==
  /\ pc[m] = "new" /\ Active = {}
  /\ pc' = [pc EXCEPT ![m] = "sending"]
  /\ watcher' = IF watcher.on THEN watcher ELSE NewWatcher
  /\ ids' = Append(ids, 0)
  /\ UNCHANGED <<cliVars, tool, stored, pushed, done, isSet, events, skipped, ghostVars,
                 faults>>

(* stream_user_turn: the watcher is ensured and the client id queued before *)
(* the text is typed ...                                                    *)
Start(m) ==
  /\ pc[m] = "new" /\ Active = {}
  /\ pc' = [pc EXCEPT ![m] = "sending"]
  /\ watcher' = IF watcher.on THEN watcher ELSE NewWatcher
  /\ ids' = Append(ids, m)
  /\ strayed' = (strayed \/ ~Clean)
  /\ excused' = IF Clean THEN excused ELSE excused \cup {m}
  /\ UNCHANGED <<cliVars, tool, stored, pushed, done, isSet, events, skipped, early, faults>>

Typed(m) ==
  /\ pc[m] = "sending"
  /\ pc' = [pc EXCEPT ![m] = "typed"]
  /\ typed' = Append(typed, m)
  /\ UNCHANGED <<log, conv, busy, stage, adapterVars, ghostVars, faults>>

(* The terminal is not ready within two minutes: the turn fails and its id  *)
(* stays in the queue.                                                      *)
SendFails(m) ==
  /\ pc[m] = "sending" /\ Disturb
  /\ pc' = [pc EXCEPT ![m] = "failed"]
  /\ strayed' = TRUE
  /\ UNCHANGED <<cliVars, adapterVars, excused, early>>

(* ... and only after the text was typed, and after up to ten seconds of    *)
(* looking for the conversation's id, does the turn register for its end.   *)
Register(m) ==
  /\ pc[m] = "typed"
  /\ pc' = [pc EXCEPT ![m] = "waiting"]
  /\ done' = m /\ isSet' = FALSE
  /\ UNCHANGED <<cliVars, watcher, tool, ids, stored, pushed, events, skipped,
                 ghostVars, faults>>

Wake(m) ==
  /\ pc[m] = "waiting" /\ isSet
  /\ pc' = [pc EXCEPT ![m] = "answered"]
  /\ done' = 0 /\ isSet' = FALSE
  /\ UNCHANGED <<cliVars, watcher, tool, ids, stored, pushed, events, skipped,
                 ghostVars, faults>>

(* cancel: Escape, the registered event released, the tool state cleared;   *)
(* the orchestrator then cancels the task.                                  *)
Cancel(m) ==
  /\ m \in Active /\ Disturb
  /\ pc' = [pc EXCEPT ![m] = "cancelled"]
  /\ busy' = 0 /\ stage' = "none"
  /\ done' = 0 /\ isSet' = FALSE /\ tool' = FALSE
  /\ strayed' = TRUE
  /\ UNCHANGED <<log, conv, typed, watcher, ids, stored, pushed, events, skipped,
                 excused, early>>

(* The orchestrator's watchdog cancels the task. *)
Abort(m) ==
  /\ m \in Active /\ Disturb
  /\ pc' = [pc EXCEPT ![m] = "aborted"]
  /\ done' = 0 /\ isSet' = FALSE
  /\ strayed' = TRUE /\ excused' = excused \cup Web
  /\ UNCHANGED <<cliVars, watcher, tool, ids, stored, pushed, events, skipped, early>>

(* The backend restarts; the terminal goes on. *)
Restart ==
  /\ Disturb
  /\ pc' = [m \in Web |-> IF m \in Active THEN "aborted" ELSE pc[m]]
  /\ watcher' = NoWatcher /\ tool' = FALSE /\ ids' = <<>> /\ done' = 0 /\ isSet' = FALSE
  /\ strayed' = (strayed \/ ids # <<>> \/ ~Clean) /\ excused' = excused \cup Web
  /\ UNCHANGED <<cliVars, stored, pushed, events, skipped, early>>

(* pre_warm: the watcher is there before any turn. *)
PreWarm ==
  /\ ~watcher.on
  /\ watcher' = NewWatcher
  /\ UNCHANGED <<cliVars, tool, ids, stored, pushed, done, isSet, events, skipped,
                 ghostVars, pc, faults>>

(* A conversation whose file did not exist when the watcher was made is     *)
(* bound once it is detected.                                               *)
Detected ==
  /\ watcher.on /\ watcher.file = 0 /\ log[conv] # <<>>
  /\ watcher' = Follow(watcher, conv)
  /\ UNCHANGED <<cliVars, tool, ids, stored, pushed, done, isSet, events, skipped,
                 ghostVars, pc, faults>>

-----------------------------------------------------------------------------
Next ==
  \/ \E m \in Terminal : TypeAtTerminal(m)
  \/ Begin \/ ToolUse \/ ToolResult \/ Snapshot \/ Final \/ TerminalEscape \/ Switch
  \/ Sync \/ StopWatcher \/ PreWarm \/ Detected \/ Restart
  \/ \E m \in Web : Start(m) \/ Typed(m) \/ SendFails(m) \/ Register(m)
                      \/ Wake(m) \/ Cancel(m) \/ Abort(m)

Spec == Init /\ [][Next]_vars

(* The watcher polls, the event loop resumes a turn that is ready. *)
Fairness ==
  /\ WF_vars(Sync) /\ WF_vars(PreWarm) /\ WF_vars(Detected)
  /\ \A m \in Web : WF_vars(Typed(m) \/ Register(m) \/ Wake(m))

FairSpec == Spec /\ Fairness

-----------------------------------------------------------------------------
Written == UNION {Range(log[f]) : f \in Files}

(* Every variable has its type. *)
TypeOK ==
  /\ \A f \in Files : \A e \in Range(log[f]) :
       e.of \in Messages \cup {0} /\ e.kind \in {"user", "tool", "result", "null", "final"}
  /\ conv \in Files /\ typed \in Seq(Messages) /\ busy \in Messages \cup {0}
  /\ stage \in {"none", "begun", "tool", "result", "null"}
  /\ watcher.file \in Files \cup {0} /\ watcher.others \subseteq Files
  /\ {tool, isSet, strayed, watcher.on, watcher.initial} \subseteq BOOLEAN
  /\ ids \in Seq(Web) /\ done \in Web \cup {0} /\ stored \subseteq {Key(e) : e \in Written}
  /\ pc \in [Web -> {"new", "sending", "typed", "waiting", "answered", "failed",
                     "cancelled", "aborted"}]
  /\ {excused, early} \subseteq SUBSET Web /\ faults \in 0..MaxFaults

(* Each message is pushed to the clients at most once, however often the     *)
(* watcher is lost and reads the transcript again, and only when stored.     *)
PushedOnce ==
  /\ \A i, j \in DOMAIN pushed : pushed[i][1] = pushed[j][1] => i = j
  /\ \A i \in DOMAIN pushed : pushed[i][1] \in stored

(* A pushed message carries the id of the web message it is, and a message   *)
(* from the terminal carries none, as long as the two kinds did not mix, no  *)
(* web message failed or was cancelled, and the conversation did not change. *)
LabelsMatch ==
  strayed \/ \A i \in DOMAIN pushed :
    LET k == pushed[i][1]
    IN  k[2] = "user" => pushed[i][2] = IF k[1] \in Web THEN k[1] ELSE 0

(* A turn ends as answered only when its answer is complete, unless another  *)
(* message was at work in the terminal, or an unfinished or an old entry was *)
(* read as the end of a turn.                                                *)
AnsweredIsComplete ==
  \A m \in Web : pc[m] = "answered" /\ m \notin excused => Entry(m, "final") \in Written

(* A message of the user is taken for a tool result only after a tool call   *)
(* was broken off by an Escape.                                              *)
SkippedOnlyAfterEscape ==
  \A e \in skipped : e.kind = "user" => faults > 0

(* Everything written to a conversation the watcher follows is in the store  *)
(* some time later, except what was skipped.                                 *)
AllStored ==
  <>[](\A f \in Followed :
         \A e \in Range(log[f]) : Key(e) \in stored \/ ByUser(e))

(* A waiting turn whose answer the watcher reads while it waits goes on;     *)
(* one whose answer was read before it registered, or by a watcher's first   *)
(* sync, may wait for the watchdog.                                          *)
NoLostWakeup ==
  <>[](\A m \in Web : pc[m] = "waiting" /\ <<m, "answer">> \in stored => m \in early)

(* What the comment in _sync_once promises: no turn event for the entries of *)
(* an old conversation.  It does not hold when the file first has a message  *)
(* after the initial pass.                                                   *)
NoHistoricalEvents == events \cap Old = {}
=============================================================================
