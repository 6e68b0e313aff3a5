------------------------------- MODULE Recorder -------------------------------
(***************************************************************************)
(* Recording with the microphone beside the player: a tap asks for the     *)
(* microphone, silences the player until it is granted, and defers what    *)
(* is to be read meanwhile; another tap stops, the cancel button discards, *)
(* and an interrupt (Escape, a reset of the session, a removed bot) puts   *)
(* the state of the microphone at rest.                                    *)
(*                                                                         *)
(* startRecording and onstop run until they await; what follows an await   *)
(* is a step of its own and does not look whether it is still wanted.  The *)
(* microphone and the MediaRecorder are external, the turn of the bot, the *)
(* chunks of a transcription and the history of recordings are left out.   *)
(***************************************************************************)
EXTENDS Player

CONSTANTS MaxRecs, MaxTaps   \* bounds: recordings; taps, cancels and interrupts

Recs == 1..MaxRecs

VARIABLES
  mic,       \* micState
  phase,     \* where each recording is
  recorder,  \* mediaRecorder, 0 for none
  discard,   \* recordingCancelled
  deferred,  \* _deferredReads
  taps,
  strayed,   \* history: a tap or an interrupt met a recording that was not "on"
  mislaid    \* history: reads stayed deferred when a recording was denied or saved

micVars == <<mic, phase, recorder, discard, deferred, taps, strayed, mislaid>>
vars    == <<playerVars, micVars>>

Init ==
  /\ PlayerInit
  /\ mic = "idle" /\ phase = [r \in Recs |-> "none"] /\ recorder = 0 /\ discard = FALSE
  /\ deferred = <<>> /\ taps = 0 /\ strayed = FALSE /\ mislaid = FALSE

Tap == taps < MaxTaps /\ taps' = taps + 1
Goes(r, from, to) == phase[r] = from /\ phase' = [phase EXCEPT ![r] = to]

(* _transition: what ALLOWED does not list is ignored. *)
Moved(to) ==
  IF to = "idle" \/ <<mic, to>> \in {<<"idle", "acquiring">>, <<"acquiring", "recording">>,
                                     <<"recording", "stopping">>, <<"stopping", "saving">>}
  THEN to ELSE mic

PlayerTurns(p) == Turns(p) /\ Quiet /\ Same /\ UNCHANGED <<arrived, calls>>

-----------------------------------------------------------------------------
\* Faulty variant: the player is not silenced
StartOver(r) ==
  /\ mic = "idle" /\ \A q \in 1..r - 1 : phase[q] # "none"
  /\ Tap /\ Goes(r, "none", "asking") /\ mic' = Moved("acquiring")
  /\ UNCHANGED <<playerVars, recorder, discard, deferred, strayed, mislaid>>

(* startRecording, to the wait for the microphone; a turn that speaks is  *)
(* interrupted first, and what was deferred forgotten.                    *)
Start(r) ==
  /\ mic = "idle" /\ \A q \in 1..r - 1 : phase[q] # "none"
  /\ Tap /\ Goes(r, "none", "asking") /\ mic' = Moved("acquiring")
  /\ PlayerTurns(CancelPlayback(player)) /\ deferred' \in {deferred, <<>>}
  /\ UNCHANGED <<faults, recorder, discard, strayed, mislaid>>

\* Faulty variant: the player still waits
GrantedSilent(r) ==
  /\ Goes(r, "asking", "made") /\ recorder' = r /\ mic' = Moved("recording")
  /\ UNCHANGED <<playerVars, discard, deferred, taps, strayed, mislaid>>

Granted(r) ==
  /\ Goes(r, "asking", "made") /\ recorder' = r /\ mic' = Moved("recording")
  /\ PlayerTurns(ResetPause(player))
  /\ UNCHANGED <<faults, discard, deferred, taps, strayed, mislaid>>

(* ... after the import of the recogniser *)
Begins(r) ==
  /\ Goes(r, "made", "on") /\ discard' = FALSE
  /\ UNCHANGED <<playerVars, mic, recorder, deferred, taps, strayed, mislaid>>

Denied(r) ==
  /\ Goes(r, "asking", "off") /\ Fault /\ mic' = "idle"
  /\ PlayerTurns(ResetPause(player)) /\ mislaid' = (mislaid \/ deferred # <<>>)
  /\ UNCHANGED <<recorder, discard, deferred, taps, strayed>>

(* onerror: the state is at rest before onstop comes. *)
RecorderFails(r) ==
  /\ Goes(r, "on", "stopping") /\ Fault /\ mic' = "idle" /\ strayed' = TRUE
  /\ UNCHANGED <<player, gate, arrived, calls, ghostVars, recorder, discard, deferred, taps, mislaid>>

(* stopRecording: a recorder that does not record is forgotten. *)
StopRecording ==
  IF recorder # 0 /\ phase[recorder] = "on"
  THEN Goes(recorder, "on", "stopping") /\ mic' = Moved("stopping") /\ UNCHANGED <<recorder, strayed>>
  ELSE mic' = "idle" /\ recorder' = 0 /\ strayed' = TRUE /\ UNCHANGED phase

TapStop ==
  /\ mic # "idle" /\ Tap /\ StopRecording
  /\ UNCHANGED <<playerVars, discard, deferred, mislaid>>

(* interruptBot, by Escape, a reset of the session or the end of a bot *)
InterruptBot ==
  /\ Tap /\ mic' = "idle" /\ deferred' = <<>> /\ strayed' = (strayed \/ mic # "idle")
  /\ PlayerTurns(StopAudio(player))
  /\ UNCHANGED <<faults, phase, recorder, discard, mislaid>>

(* cancelRecording, by the cancel button: it interrupts while the player waits. *)
CancelButton ==
  /\ mic # "idle"
  /\ IF Idle
     THEN Tap /\ discard' = TRUE /\ StopRecording /\ UNCHANGED <<playerVars, deferred, mislaid>>
     ELSE InterruptBot

\* Faulty variant: what was deferred stays
OnStopKeeps(r) ==
  /\ \/ Goes(r, "stopping", "off") /\ mic' = "idle" /\ discard' = FALSE
     \/ ~discard /\ Goes(r, "stopping", "saving") /\ mic' = Moved("saving") /\ UNCHANGED discard
  /\ UNCHANGED <<playerVars, recorder, deferred, taps, strayed, mislaid>>

(* flushDeferredReads *)
EnqueueAll(p, reads) ==
  LET after[n \in 0..Len(reads)] == IF n = 0 THEN p ELSE Enqueue(after[n - 1], reads[n])
  IN  after[Len(reads)]

(* onstop: what was deferred is read, unless the automatic reading was turned *)
(* off meanwhile; the recording is discarded or too short, or transcribed.    *)
OnStop(r) ==
  /\ deferred' = <<>> /\ \E reads \in {deferred, <<>>} : PlayerTurns(EnqueueAll(player, reads))
  /\ \/ Goes(r, "stopping", "off") /\ mic' = "idle" /\ discard' = FALSE
     \/ ~discard /\ Goes(r, "stopping", "saving") /\ mic' = Moved("saving") /\ UNCHANGED discard
  /\ UNCHANGED <<faults, recorder, taps, strayed, mislaid>>

\* Faulty variant: the state stays
SavedStays(r) ==
  /\ Goes(r, "saving", "off") /\ mislaid' = (mislaid \/ deferred # <<>>)
  /\ UNCHANGED <<playerVars, mic, recorder, discard, deferred, taps, strayed>>

(* ... its text or its audio is in the outbox. *)
Saved(r) ==
  /\ Goes(r, "saving", "off") /\ mic' = "idle" /\ mislaid' = (mislaid \/ deferred # <<>>)
  /\ UNCHANGED <<playerVars, recorder, discard, deferred, taps, strayed>>

(* autoReadEnqueue *)
ToRead ==
  /\ arrived < MaxPieces /\ arrived' = arrived + 1
  /\ IF mic = "idle" THEN Turns(Enqueue(player, arrived + 1)) /\ UNCHANGED deferred
     ELSE deferred' = Append(deferred, arrived + 1) /\ UNCHANGED <<player, gate>>
  /\ Quiet /\ Same
  /\ UNCHANGED <<faults, calls, mic, phase, recorder, discard, taps, strayed, mislaid>>

Record(r) == Granted(r) \/ Denied(r) \/ Begins(r) \/ OnStop(r) \/ Saved(r)

Next ==
  \/ \E r \in Recs : Start(r) \/ Record(r) \/ RecorderFails(r)
  \/ TapStop \/ InterruptBot \/ CancelButton \/ ToRead
  \/ (Callback \/ Transcript) /\ UNCHANGED micVars

(* The browser answers, and the player's callbacks come. *)
System == (\E r \in Recs : Record(r)) \/ (Callback /\ UNCHANGED micVars)
Fairness == WF_vars(System)

Spec == Init /\ [][Next]_vars /\ Fairness

-----------------------------------------------------------------------------
Phases == {"none", "asking", "made", "on", "stopping", "saving", "off"}
Busy   == {r \in Recs : phase[r] \notin {"none", "off"}}
MicOf(p) == CASE p = "asking" -> "acquiring" [] p \in {"made", "on"} -> "recording" [] OTHER -> p

TypeOK ==
  /\ PlayerTypeOK /\ phase \in [Recs -> Phases] /\ recorder \in {0} \cup Recs
  /\ mic \in {"idle", "acquiring", "recording", "stopping", "saving"}
  /\ discard \in BOOLEAN /\ deferred \in Seq(Pieces)

\* The state of the microphone tells the one recording there is, and the recorder to
\* stop is its: until a tap or an interrupt meets a recording that is not "on"
\* (ptt-recorder.ts:63, 236; app-state.ts:205).
MicHeld ==
  strayed \/ IF Busy = {} THEN mic = "idle"
             ELSE \E r \in Recs : /\ Busy = {r} /\ mic = MicOf(phase[r])
                                  /\ phase[r] # "asking" => recorder = r

\* Nothing is heard while a recording is on, but for audio decoded after the player was
\* cancelled (ptt-recorder.ts:59, audio-player.ts:145).
SilentRecording ==
  strayed \/ late \/ (mic = "recording" => player.sources = {} /\ player.speech = Silence)

\* What was deferred waits for the end of a recording, unless it came to one that was
\* denied or already being transcribed (app-state.ts:540, ptt-recorder.ts:104, 228).
DeferredIsAwaited == deferred # <<>> => strayed \/ mislaid \/ mic # "idle"

\* No recording hangs: the microphone comes to rest or records (ptt-recorder.ts:86-242).
MicRests == <>[](mic \in {"idle", "recording"})
=============================================================================
