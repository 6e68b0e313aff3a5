-------------------------------- MODULE Player --------------------------------
(***************************************************************************)
(* The browser's audio player: pieces of answers are queued, turned into   *)
(* audio, decoded and played one after the other.  Speech synthesis,       *)
(* decoding, the end of a source and the gate that pauses the player while *)
(* somebody speaks all come back as callbacks; every stop and pause takes  *)
(* a new generation by which callbacks of before are to be told.           *)
(*                                                                         *)
(* A handler runs as a whole.  The player is one record and its functions  *)
(* are operators from record to record.  Time is counted in units of       *)
(* which every piece has Length.  A piece has audio or a text to           *)
(* synthesise, never neither.                                              *)
(***************************************************************************)
EXTENDS Integers, Sequences, FiniteSets

CONSTANTS
  MaxPieces,   \* bound: pieces that arrive, 1, 2, ... in this order
  Voiced,      \* those that come with audio
  Length,      \* units of time in a piece
  MaxFaults,   \* bound: failed syntheses and decodings, restarts of the wake word
  MaxCalls     \* bound: interrupts, transcripts and openings of the gate

Pieces  == 1..MaxPieces
Silence == [of |-> 0, gen |-> 0]

VARIABLES
  player,   \* the module's variables
  gate,     \* the speech gate: "checking" a voice, "on"
  arrived,  \* pieces that came
  faults, calls,
  heard,    \* history: the units of each piece that were audible
  ended,    \* history: pieces that ended
  excused,  \* history: pieces whose audio failed, or which the browser spoke
  late,     \* history: audio was decoded for a generation gone by
  hasty,    \* history: it was paused with the buffer of an earlier pause
  stranded  \* history: the gate was dropped while it held the player

ghostVars  == <<heard, ended, excused, late, hasty, stranded>>
playerVars == <<player, gate, arrived, faults, calls, ghostVars>>

-----------------------------------------------------------------------------
NoPlayer ==
  [state |-> "idle", queue |-> <<>>, idx |-> 0, gen |-> 0,
   audio |-> Voiced,            \* pieces with audioB64
   asks |-> {}, ahead |-> {},   \* syntheses under way; _prefetching
   decodes |-> {},              \* calls of _playB64 not yet decoded
   sources |-> {}, current |-> Silence, \* sources that sound; _currentSource
   buffer |-> FALSE,            \* _currentBuffer is set
   offset |-> 0, since |-> 0,   \* where it started, time since, at most Length
   speech |-> Silence,          \* the browser's own voice
   due |-> {}]                  \* history: pieces taken, not read and not cut off

Key(x) == [of |-> x.of, gen |-> x.gen]

Ask(p, i, main) ==
  LET ask(n) == [of |-> p.queue[i], gen |-> p.gen, at |-> i, main |-> main, n |-> n]
  IN  [p EXCEPT !.asks = @ \cup {ask(IF ask(1) \in @ THEN 2 ELSE 1)}]

(* _prefetchAhead, one piece ahead *)
Prefetch(p) ==
  LET i == p.idx + 1
  IN  IF p.idx > 0 /\ i <= Len(p.queue) /\ i \notin p.ahead /\ p.queue[i] \notin p.audio
      THEN Ask([p EXCEPT !.ahead = @ \cup {i}], i, FALSE)
      ELSE p

PlayB64(p, piece, from, resumed) ==
  [p EXCEPT !.decodes = @ \cup {[of |-> piece, gen |-> p.gen, from |-> from, resumed |-> resumed]}]

(* _browserSpeak: whatever it spoke before is cancelled *)
Speak(p, piece, resumed) ==
  [p EXCEPT !.speech = [of |-> piece, gen |-> p.gen, resumed |-> resumed]]

PlayItem(p) ==
  LET piece == p.queue[p.idx]
      q     == [p EXCEPT !.state = "playing"]
  IN  IF piece \in p.audio THEN PlayB64(Prefetch(q), piece, 0, FALSE)
      ELSE Prefetch(Ask(q, q.idx, TRUE))

\* Faulty variant: an index too early
PlayNextStops(p) ==
  IF p.idx < Len(p.queue) - 1 THEN PlayItem([p EXCEPT !.idx = @ + 1])
  ELSE [p EXCEPT !.state = "idle", !.queue = <<>>, !.idx = 0]

PlayNext(p) ==
  IF p.idx < Len(p.queue) THEN PlayItem([p EXCEPT !.idx = @ + 1])
  ELSE [p EXCEPT !.state = "idle", !.queue = <<>>, !.idx = 0]

\* Faulty variant: the generation is not compared
OnDoneAlways(p, x) ==
  PlayNext([p EXCEPT !.offset = IF x.resumed THEN 0 ELSE @, !.due = @ \ {x.of}])

(* onDone of x, a decoding, a source or a speech *)
OnDone(p, x) ==
  IF x.gen # p.gen THEN p
  ELSE PlayNext([p EXCEPT !.offset = IF x.resumed THEN 0 ELSE @, !.due = @ \ {x.of}])

\* Faulty variant: the source plays on
StopSourceForgets(p) == [p EXCEPT !.current = Silence, !.speech = Silence]

StopSource(p) ==
  [p EXCEPT !.sources = {s \in @ : Key(s) # p.current}, !.current = Silence, !.speech = Silence]

Enqueue(p, piece) ==
  IF p.state = "paused" THEN p
  ELSE LET q == [p EXCEPT !.queue = Append(@, piece), !.due = @ \cup {piece}]
       IN  IF p.state = "idle" THEN PlayNext([q EXCEPT !.idx = 0]) ELSE Prefetch(q)

Pause(p) ==
  IF p.state # "playing" THEN p
  ELSE LET at == IF p.buffer THEN p.offset + p.since ELSE p.offset
       IN  [StopSource(p) EXCEPT !.gen = @ + 1, !.state = "paused",
              !.offset = IF p.buffer /\ at >= Length THEN 0 ELSE at]

Resume(p) ==
  IF p.state # "paused" THEN p
  ELSE IF p.queue = <<>> THEN [p EXCEPT !.state = "idle"]
  ELSE LET q     == [p EXCEPT !.gen = @ + 1, !.state = "playing"]
           piece == p.queue[p.idx]
       IN  IF piece \in p.audio THEN PlayB64(q, piece, p.offset, TRUE)
           ELSE Speak(q, piece, TRUE)

Cleared(p, to) ==
  [StopSource(p) EXCEPT !.gen = @ + 1, !.offset = 0, !.buffer = FALSE, !.since = 0,
     !.state = to, !.queue = <<>>, !.idx = 0, !.ahead = {}, !.due = {}]

CancelPlayback(p) == Cleared(p, "paused")
ResetPause(p)     == IF p.state = "paused" THEN Cleared(p, "idle") ELSE p
StopAudio(p)      == IF p.state = "idle" THEN p ELSE Cleared(p, "idle")

-----------------------------------------------------------------------------
(* What a step p of the player leaves behind: wakeword-manager.ts drops the  *)
(* gate when the player comes to rest, and the history is kept.              *)
Turns(p) ==
  /\ player' = p
  /\ gate' = IF player.state # "idle" /\ p.state = "idle" THEN gate \ {"on"} ELSE gate

Idle == player.state = "idle"
Quiet == UNCHANGED <<heard, late, hasty, stranded>>
Same  == UNCHANGED <<ended, excused>>
Fault == faults < MaxFaults /\ faults' = faults + 1
Call  == calls < MaxCalls /\ calls' = calls + 1

PlayerInit ==
  /\ player = NoPlayer /\ gate = {} /\ arrived = 0 /\ faults = 0 /\ calls = 0
  /\ heard = [p \in Pieces |-> {}] /\ ended = {} /\ excused = {}
  /\ late = FALSE /\ hasty = FALSE /\ stranded = FALSE

(* A piece of an answer is to be read, a "speak" or "audio" message. *)
Arrive ==
  /\ arrived < MaxPieces /\ arrived' = arrived + 1
  /\ Turns(Enqueue(player, arrived + 1))
  /\ Quiet /\ Same /\ UNCHANGED <<faults, calls>>

(* A synthesis answers, perhaps without audio: then the browser reads. *)
TTSAnswer(a) ==
  LET heeded == a.gen = player.gen
      p == [player EXCEPT !.asks = @ \ {a},
                          !.ahead = IF a.main THEN @ ELSE @ \ {a.at}]
      q == [p EXCEPT !.audio = @ \cup {a.of}]
  IN  /\ a \in player.asks
      /\ \/ /\ Turns(IF ~heeded THEN p ELSE IF ~a.main THEN q ELSE PlayB64(Prefetch(q), a.of, 0, FALSE))
            /\ UNCHANGED <<faults, excused>>
         \/ /\ Fault
            /\ Turns(IF heeded /\ a.main THEN Speak(p, a.of, FALSE) ELSE p)
            /\ excused' = excused \cup (IF heeded /\ a.main THEN {a.of} ELSE {})
      /\ Quiet /\ UNCHANGED <<arrived, calls, ended>>

(* decodeAudioData is done: its source sounds, of whatever generation it is. *)
Decoded(d) ==
  /\ d \in player.decodes
  /\ Turns([player EXCEPT !.decodes = @ \ {d},
              !.sources = @ \cup {[of |-> d.of, gen |-> d.gen, pos |-> d.from, resumed |-> d.resumed]},
              !.current = Key(d), !.buffer = TRUE, !.offset = d.from, !.since = 0])
  /\ late' = (late \/ d.gen # player.gen)
  /\ Same /\ UNCHANGED <<arrived, faults, calls, heard, hasty, stranded>>

Done(x) == ended' = IF x.gen = player.gen THEN ended \cup {x.of} ELSE ended

DecodeFails(d) ==
  /\ d \in player.decodes /\ Fault
  /\ Turns(OnDone([player EXCEPT !.decodes = @ \ {d}], d))
  /\ Done(d) /\ excused' = excused \cup {d.of}
  /\ Quiet /\ UNCHANGED <<arrived, calls>>

SourceEnds(s) ==
  /\ s \in player.sources /\ s.pos = Length
  /\ Turns(OnDone([player EXCEPT !.sources = @ \ {s}, !.current = Silence,
                                 !.buffer = FALSE, !.since = 0], s))
  /\ Done(s) /\ Quiet /\ UNCHANGED <<excused, arrived, faults, calls>>

SpeechEnds ==
  LET x == player.speech
  IN  /\ x # Silence
      /\ Turns(OnDone([player EXCEPT !.speech = Silence], x))
      /\ Done(x) /\ Quiet /\ UNCHANGED <<excused, arrived, faults, calls>>

(* Time goes on for what sounds, and for the clock of the audio context. *)
Clock ==
  /\ \/ \E s \in player.sources : s.pos < Length
     \/ player.buffer /\ player.since < Length
  /\ player' = [player EXCEPT !.sources = {[s EXCEPT !.pos = IF @ < Length THEN @ + 1 ELSE @] : s \in @},
                              !.since = IF player.buffer /\ @ < Length THEN @ + 1 ELSE @]
  /\ heard' = [p \in Pieces |-> heard[p] \cup {s.pos : s \in {x \in player.sources : x.of = p /\ x.pos < Length}}]
  /\ Same /\ UNCHANGED <<gate, arrived, faults, calls, late, hasty, stranded>>

-----------------------------------------------------------------------------
(* The speech gate: speech during playback pauses the player for a while.    *)

Hold ==
  /\ player' = Pause(player) /\ gate' = {"on"}
  /\ hasty' = (hasty \/ (player.state = "playing" /\ player.buffer /\ ~\E s \in player.sources : s.gen = player.gen))

GateOpens ==
  /\ player.state = "playing" /\ gate = {} /\ Call
  /\ \/ gate' = {"checking"} /\ UNCHANGED <<player, hasty>>   \* voiceprint enabled
     \/ Hold
  /\ Same /\ UNCHANGED <<arrived, faults, heard, late, stranded>>

GateChecked ==
  /\ "checking" \in gate
  /\ \/ Hold
     \/ gate' = gate \ {"checking"} /\ UNCHANGED <<player, hasty>>
  /\ Same /\ UNCHANGED <<arrived, faults, calls, heard, late, stranded>>

(* When the time is up the player goes on; a piece without audio is spoken. *)
GateTimeout ==
  /\ "on" \in gate
  /\ player' = Resume(player) /\ gate' = gate \ {"on"}
  /\ excused' = excused \cup ({player'.speech.of} \ {0})
  /\ Quiet /\ UNCHANGED <<arrived, faults, calls, ended>>

(* stopWakeWord, to restart it with other settings: the gate is dropped. *)
RestartWakeWord ==
  /\ "on" \in gate /\ Fault
  /\ gate' = gate \ {"on"} /\ stranded' = (stranded \/ player.state = "paused")
  /\ Same /\ UNCHANGED <<player, arrived, calls, heard, late, hasty>>

(* interrupt:stop-audio: the user stops the reading, turns the automatic one *)
(* off, switches bots or resets the session.                                 *)
Interrupt ==
  /\ ~Idle /\ Call /\ Turns(StopAudio(player))
  /\ Quiet /\ Same /\ UNCHANGED <<arrived, faults>>

(* A transcript arrives: a player that waits is reset. *)
Transcript ==
  /\ player.state = "paused" /\ Call /\ Turns(ResetPause(player))
  /\ Quiet /\ Same /\ UNCHANGED <<arrived, faults>>

Callback ==
  \/ \E a \in player.asks : TTSAnswer(a)
  \/ \E d \in player.decodes : Decoded(d) \/ DecodeFails(d)
  \/ \E s \in player.sources : SourceEnds(s)
  \/ SpeechEnds \/ Clock

PlayerNext ==
  \/ Arrive \/ Callback
  \/ GateOpens \/ GateChecked \/ GateTimeout \/ RestartWakeWord
  \/ Interrupt \/ Transcript

(* Synthesis, decoding, playback and timers go on. *)
PlayerSystem   == Callback \/ GateChecked \/ GateTimeout
PlayerFairness == WF_playerVars(PlayerSystem)

PlayerSpec == PlayerInit /\ [][PlayerNext]_playerVars /\ PlayerFairness

-----------------------------------------------------------------------------
Handle == [of : 0..MaxPieces, gen : Nat]

PlayerTypeOK ==
  /\ player.state \in {"idle", "playing", "paused"} /\ player.queue \in Seq(Pieces)
  /\ player.idx \in 0..Len(player.queue) /\ player.gen \in Nat
  /\ player.audio \subseteq Pieces /\ player.current \in Handle
  /\ player.offset \in 0..Length /\ player.since \in 0..Length
  /\ \A x \in player.asks \cup player.decodes \cup player.sources : Key(x) \in Handle
  /\ gate \in {{}, {"checking"}, {"on"}} /\ ended \subseteq Pieces

\* While it plays, exactly one thing under way will lead it on to the next piece, and
\* otherwise nothing will: neither does it stop for ever nor skip a piece
\* (audio-player.ts:191, 315).
OneLead ==
  Cardinality({x \in player.asks : x.main /\ x.gen = player.gen})
  + Cardinality({x \in player.decodes \cup player.sources : x.gen = player.gen})
  + (IF player.speech # Silence /\ player.speech.gen = player.gen THEN 1 ELSE 0)
  = IF player.state = "playing" THEN 1 ELSE 0

\* One piece sounds at a time, and none unless the player plays it, but for audio
\* that was decoded after a pause or a stop (audio-player.ts:145).
OneSounds ==
  /\ player.speech # Silence => player.state = "playing"
  /\ ~late => \A s \in player.sources : s.gen = player.gen /\ Key(s) = player.current

\* What was taken is read in its turn unless a stop cut it off: each piece to its end, and
\* in whole unless its audio failed, a source of before sounded, or it was paused again
\* before the audio of a pause went on (audio-player.ts:174, 293-301).
ReadWhole ==
  /\ player.due = {player.queue[i] : i \in (1..Len(player.queue)) \ (1..player.idx - 1)}
  /\ \A p \in ended \ excused : late \/ hasty \/ heard[p] = 0..Length - 1

\* A player that plays comes to rest, and one that waits goes on, unless the wake word
\* was restarted while the gate held it (wakeword-manager.ts:905-920, 1926).
PlayerRests == <>[](player.state = "idle" \/ stranded)

\* inv-audio.test.ts:89: a callback of a generation gone by is discarded.
StaleDiscarded == \A s \in player.sources : s.gen = player.gen
=============================================================================
