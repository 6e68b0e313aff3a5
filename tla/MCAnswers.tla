------------------------------- MODULE MCAnswers -------------------------------
(* How an answer comes to the user's ear, for TLC: a Claude terminal whose log  *)
(* is followed, the browser's player with its speech gate, and the player with  *)
(* the recorder.  One runs, the others rest in their initial state.             *)
EXTENDS Observer

CONSTANTS MaxPieces, Voiced, Length, MaxFailures, MaxCalls, MaxRecs, MaxTaps \* of Recorder

VARIABLES running, player, gate, arrived, failures, calls, heard, ended, failed, late, hasty,
          stranded, mic, phase, recorder, discard, deferred, taps, tapped, mislaid

V == INSTANCE Recorder WITH
       MaxFaults <- MaxFailures, faults <- failures, excused <- failed, strayed <- tapped

\* Pieces are numbered, those that come with audio are among them, and each has a length.
ASSUME VoiceAssumption ==
  MaxPieces \in Nat /\ Voiced \subseteq 1..MaxPieces /\ Length \in Nat

micVars   == <<mic, phase, recorder, discard, deferred, taps, tapped, mislaid>>
voiceVars == <<player, gate, arrived, failures, calls, heard, ended, failed, late, hasty,
               stranded, micVars>>

AnswersInit == running \in {"observer", "player", "recorder"} /\ Init /\ V!Init

AnswersNext ==
  /\ UNCHANGED running
  /\ \/ running = "observer" /\ Next /\ UNCHANGED voiceVars
     \/ running = "player" /\ V!PlayerNext /\ UNCHANGED <<vars, micVars>>
     \/ running = "recorder" /\ V!Next /\ UNCHANGED vars

\* The fairness of each, while it runs.
AnswersFairness ==
  /\ WF_vars(running = "observer"
             /\ (Sync \/ PreWarm \/ Detected \/ \E m \in Web : Typed(m) \/ Register(m) \/ Wake(m)))
  /\ WF_voiceVars(\/ running = "player" /\ V!PlayerSystem /\ UNCHANGED micVars
                  \/ running = "recorder" /\ V!System)

AnswersSpec ==
  AnswersInit /\ [][AnswersNext]_<<running, vars, voiceVars>> /\ AnswersFairness

-----------------------------------------------------------------------------

\* Entries of the log are stored and pushed once, under the client id of the message
\* they belong to (adapter.py:774), a user's message is left out only after an
\* interrupted tool (adapter.py:719), and a turn ends with its whole answer
\* (adapter.py:888).
EntriesMatch ==
  TypeOK /\ PushedOnce /\ LabelsMatch /\ SkippedOnlyAfterEscape /\ AnsweredIsComplete

\* The player goes on by exactly one callback, pieces are read one at a time and whole,
\* unless audio of before a stop was decoded after it or a pause came over a pause
\* (audio-player.ts:145, 293); the microphone's state is its recording's and nothing
\* sounds into it, unless a tap or an interrupt met it while it was being asked for
\* (ptt-recorder.ts:63, 236).
VoiceSafe ==
  /\ V!TypeOK /\ V!OneLead /\ V!OneSounds /\ V!ReadWhole
  /\ V!MicHeld /\ V!SilentRecording /\ V!DeferredIsAwaited

\* In the end every entry is stored and no turn sleeps through its answer
\* (adapter.py:2125, session_watcher.py:299).
EndsAwake == AllStored /\ NoLostWakeup

\* In the end the player rests unless the wake word was restarted while it held it
\* (wakeword-manager.ts:905), and no recording hangs in between (ptt-recorder.ts:97-242).
VoiceRests == V!PlayerRests /\ V!MicRests
=============================================================================
