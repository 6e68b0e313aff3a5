-------------------------------- MODULE Gateway --------------------------------
(***************************************************************************)
(* The OpenClaw adapter.  A turn is posted to the gateway over HTTP, which *)
(* answers with the id of the run it has started; what the run says comes  *)
(* as events on one WebSocket connection that all turns share.  The        *)
(* connection is opened by the first turn that needs it and opened again,  *)
(* after a pause, when its reader ends.                                    *)
(*                                                                         *)
(* A message carries the whole text so far; the adapter passes on what is  *)
(* new.  A text is abstracted to its number of pieces, a piece to <<run,   *)
(* position>>.                                                             *)
(*                                                                         *)
(* The turns are those of one bot; to them the turns of other bots are     *)
(* like the runs of other users.                                           *)
(***************************************************************************)
EXTENDS Integers, Sequences

CONSTANTS
  Turns,     \* turns of the bot: numbers, in the order they start
  Other,     \* another user's run of the same gateway
  Length,    \* pieces of a whole text
  MaxSocks,  \* bound: sockets
  MaxFaults  \* bound: breaks, failed calls, cancels, aborts, new settings

(* The run of a turn has the turn's name.                                    *)
Runs  == Turns \cup {Other}
Socks == 1..MaxSocks

VARIABLES
  turn,      \* per turn: idle, connect, post, posted, top, wait, ended
  result,    \* per turn: none, or how it ended
  known,     \* turns that know their run_id
  queue,     \* per turn: events its callbacks have put
  cum,       \* per turn: length of cumulative_text
  shown,     \* per turn: pieces passed on
  deaf,      \* turns whose callbacks are on a connection that was closed
  sock,      \* per socket: none, open, dead, gone
  wire,      \* per socket: events under way
  connected, \* GatewayConnection._connected
  recon,     \* _reconnect tasks
  mark,      \* the bot has an entry in _cancel_marks
  aborting,  \* a chat.abort for the bot's session is under way
  state,     \* per run: none, going, over
  sent,      \* per run: pieces sent
  faults,
  overheard, \* history: turns that queued an event of another run
  doubled,   \* history: turns that listened to two sockets
  cut,       \* history: turns that may have missed events
  asked,     \* history: turns that were cancelled by the user
  reached    \* history: a socket has been open

turnVars == <<turn, result, known, queue, cum, shown>>
connVars == <<sock, wire, connected, recon>>
runVars  == <<state, sent>>
histVars == <<overheard, doubled, cut, asked, reached>>
vars == <<turnVars, deaf, connVars, mark, aborting, runVars, faults, histVars>>

-----------------------------------------------------------------------------
Open      == {k \in Socks : sock[k] = "open"}
Twice     == \E j, k \in Open : j # k
Listening == {t \in Turns : turn[t] \in {"post", "posted", "top", "wait"}}
Event(r, kind, n) == [run |-> r, kind |-> kind, n |-> n]

Init ==
  /\ turn = [t \in Turns |-> "idle"] /\ result = [t \in Turns |-> "none"]
  /\ known = {} /\ queue = [t \in Turns |-> <<>>]
  /\ cum = [t \in Turns |-> 0] /\ shown = [t \in Turns |-> <<>>] /\ deaf = {}
  /\ sock = [k \in Socks |-> "none"] /\ wire = [k \in Socks |-> <<>>]
  /\ connected = FALSE /\ recon = 0 /\ mark = FALSE /\ aborting = FALSE
  /\ state = [r \in Runs |-> "none"]
  /\ sent = [r \in Runs |-> 0]
  /\ faults = 0 /\ overheard = {} /\ doubled = {} /\ cut = {} /\ asked = {}
  /\ reached = FALSE

Fault == faults < MaxFaults /\ faults' = faults + 1

-----------------------------------------------------------------------------
(* External: the gateway.                                                    *)
Started(r) ==
  /\ state[r] = "none" /\ state' = [state EXCEPT ![r] = "going"]
  /\ UNCHANGED sent
Sends(e) == wire' = [k \in Socks |-> IF k \in Open THEN Append(wire[k], e) ELSE wire[k]]

(* Another user of the same gateway starts a run. *)
OtherRun ==
  /\ Started(Other)
  /\ UNCHANGED <<turnVars, deaf, connVars, mark, aborting, faults, histVars>>

Says(r) ==
  /\ state[r] = "going"
  /\ \/ /\ sent[r] < Length
        /\ sent' = [sent EXCEPT ![r] = @ + 1]
        /\ Sends(Event(r, "delta", sent[r] + 1)) /\ UNCHANGED state
     \/ /\ sent' = [sent EXCEPT ![r] = Length] /\ state' = [state EXCEPT ![r] = "over"]
        /\ Sends(Event(r, "final", Length))
  /\ UNCHANGED <<turnVars, deaf, sock, connected, recon, mark, aborting, faults,
                 histVars>>

(* Its user aborts it. *)
OtherAborted ==
  /\ Fault /\ state[Other] = "going"
  /\ state' = [state EXCEPT ![Other] = "over"]
  /\ Sends(Event(Other, "aborted", sent[Other]))
  /\ UNCHANGED <<turnVars, deaf, sock, connected, recon, mark, aborting, sent, histVars>>

(* chat.abort names a session, not a run.                                    *)
AbortArrives ==
  LET hit == {t \in Turns : state[t] = "going"} IN
  /\ aborting /\ aborting' = FALSE
  /\ IF hit = {} THEN UNCHANGED <<state, wire>>
     ELSE \E r \in hit :
            /\ state' = [state EXCEPT ![r] = "over"]
            /\ Sends(Event(r, "aborted", sent[r]))
  /\ UNCHANGED <<turnVars, deaf, sock, connected, recon, mark, sent,
                 faults, histVars>>

-----------------------------------------------------------------------------
(* GatewayConnection.                                                        *)
(* connect(), when it succeeds: one more socket and one more reader.         *)
Opens ==
  /\ \E k \in Socks : /\ sock[k] = "none" /\ \A i \in 1..(k - 1) : sock[i] # "none"
                      /\ sock' = [sock EXCEPT ![k] = "open"]
  /\ wire' = wire /\ connected' = TRUE /\ reached' = TRUE

(* Faulty variant of Hears: a turn listens only once it knows its run. *)
HearsLate(t, e) == t \in Listening \ deaf /\ t \in known /\ t = e.run

(* _read_loop: an event reaches the callbacks of every turn that listens; a  *)
(* turn that knows its run ignores the others.                               *)
Hears(t, e) == t \in Listening \ deaf /\ (t \in known => t = e.run)

Read(k) ==
  /\ sock[k] = "open" /\ wire[k] # <<>>
  /\ LET e == Head(wire[k]) IN
     /\ queue' = [t \in Turns |-> IF Hears(t, e) THEN Append(queue[t], e) ELSE queue[t]]
     /\ overheard' = overheard \cup {t \in Turns : Hears(t, e) /\ e.run # t}
  /\ wire' = [wire EXCEPT ![k] = Tail(@)]
  /\ UNCHANGED <<turn, result, known, cum, shown, deaf, sock, connected, recon,
                 mark, aborting, runVars, faults, doubled, cut, asked, reached>>

(* The socket breaks; what was under way is lost. *)
Breaks(k) ==
  /\ Fault /\ sock[k] = "open"
  /\ sock' = [sock EXCEPT ![k] = "dead"] /\ wire' = [wire EXCEPT ![k] = <<>>]
  /\ cut' = cut \cup {t \in Turns : turn[t] \notin {"idle", "ended"}}
  /\ UNCHANGED <<turnVars, deaf, connected, recon, mark, aborting, runVars,
                 overheard, doubled, asked, reached>>

(* Faulty variant of ReaderEnds: nothing reconnects. *)
ReaderEndsOnly(k) ==
  /\ sock[k] = "dead" /\ sock' = [sock EXCEPT ![k] = "gone"]
  /\ connected' = FALSE
  /\ UNCHANGED <<turnVars, deaf, wire, recon, mark, aborting, runVars, faults, histVars>>

(* Faulty variant of ReaderEnds: the flag stays. *)
ReaderEndsConnected(k) ==
  /\ sock[k] = "dead" /\ sock' = [sock EXCEPT ![k] = "gone"]
  /\ recon' = recon + 1
  /\ cut' = cut \cup {t \in Turns : turn[t] \notin {"idle", "ended"}}
  /\ UNCHANGED <<turnVars, deaf, wire, connected, mark, aborting, runVars, faults,
                 overheard, doubled, asked, reached>>

(* The reader of whichever socket ends clears the flag and reconnects.       *)
ReaderEnds(k) ==
  /\ sock[k] = "dead" /\ sock' = [sock EXCEPT ![k] = "gone"]
  /\ connected' = FALSE /\ recon' = recon + 1
  /\ cut' = cut \cup {t \in Turns : turn[t] \notin {"idle", "ended"}}
  /\ UNCHANGED <<turnVars, deaf, wire, mark, aborting, runVars, faults,
                 overheard, doubled, asked, reached>>

(* _reconnect: it does not look whether somebody else has connected.         *)
Reconnect ==
  /\ recon > 0 /\ recon' = recon - 1 /\ Opens
  /\ doubled' = IF Open # {} THEN doubled \cup Listening ELSE doubled
  /\ UNCHANGED <<turnVars, deaf, mark, aborting, runVars, faults, overheard, cut,
                 asked>>

(* apply_config: the connection is closed and forgotten; turns keep it.      *)
ApplyConfig ==
  /\ Fault /\ reached
  /\ sock' = [k \in Socks |-> IF sock[k] \in {"open", "dead"} THEN "gone" ELSE sock[k]]
  /\ wire' = [k \in Socks |-> <<>>]
  /\ connected' = FALSE /\ recon' = 0 /\ reached' = FALSE
  /\ deaf' = deaf \cup {t \in Turns : turn[t] \notin {"idle", "ended"}}
  /\ cut' = cut \cup deaf'
  /\ UNCHANGED <<turnVars, mark, aborting, runVars, overheard, doubled, asked>>

-----------------------------------------------------------------------------
(* stream_user_turn.                                                         *)
Goto(t, l) == turn' = [turn EXCEPT ![t] = l]

Leaves(t, how) == Goto(t, "ended") /\ result' = [result EXCEPT ![t] = how]
Ends(t, how) ==
  /\ Leaves(t, how)
  /\ queue' = [queue EXCEPT ![t] = <<>>] /\ cum' = [cum EXCEPT ![t] = 0]

(* Faulty variant of TurnStart: the mark of an earlier turn stays. *)
TurnStartMarked(t) ==
  /\ turn[t] = "idle"
  /\ \A u \in Turns : u < t => turn[u] = "ended"
  /\ Goto(t, IF connected THEN "post" ELSE "connect")
  /\ doubled' = IF connected /\ Twice THEN doubled \cup {t} ELSE doubled
  /\ cut' = IF Open = {} THEN cut \cup {t} ELSE cut
  /\ UNCHANGED <<result, known, queue, cum, shown, deaf, connVars, mark, aborting, runVars,
                 faults, overheard, asked, reached>>

(* Turns follow one another; the mark of an earlier one is cleared.          *)
TurnStart(t) ==
  /\ turn[t] = "idle"
  /\ \A u \in Turns : u < t => turn[u] = "ended"
  /\ mark' = FALSE
  /\ Goto(t, IF connected THEN "post" ELSE "connect")
  /\ doubled' = IF connected /\ Twice THEN doubled \cup {t} ELSE doubled
  /\ cut' = IF Open = {} THEN cut \cup {t} ELSE cut
  /\ UNCHANGED <<result, known, queue, cum, shown, deaf, connVars, aborting, runVars,
                 faults, overheard, asked, reached>>

(* ensure_connected: the turn goes on whether it succeeded or not.           *)
Connected(t) ==
  /\ turn[t] = "connect" /\ t \notin deaf
  /\ Goto(t, "post") /\ Opens
  /\ doubled' = IF Open # {} THEN doubled \cup Listening \cup {t} ELSE doubled
  /\ cut' = IF Open = {} THEN cut \ {t} ELSE cut
  /\ UNCHANGED <<result, known, queue, cum, shown, deaf, recon, mark, aborting,
                 runVars, faults, overheard, asked>>

NotConnected(t) ==
  /\ turn[t] = "connect" /\ ((t \in deaf /\ UNCHANGED faults) \/ Fault)
  /\ Goto(t, "post") /\ cut' = cut \cup {t}
  /\ doubled' = IF Twice THEN doubled \cup {t} ELSE doubled
  /\ UNCHANGED <<result, known, queue, cum, shown, deaf, connVars, mark, aborting,
                 runVars, overheard, asked, reached>>

(* gateway_invoke: other names of the tool are tried only when the gateway   *)
(* does not know one, so that a message is posted once.                      *)
Post(t) ==
  /\ turn[t] = "post" /\ Started(t)
  /\ Goto(t, "posted")
  /\ UNCHANGED <<result, known, queue, cum, shown, deaf, connVars, mark, aborting,
                 faults, histVars>>

(* The call fails, before or after the gateway has started the run.          *)
PostFails(t) ==
  /\ Fault
  /\ \/ turn[t] = "post" /\ UNCHANGED runVars
     \/ turn[t] = "posted" /\ UNCHANGED runVars
  /\ Ends(t, "error")
  /\ UNCHANGED <<known, shown, deaf, connVars, mark, aborting, histVars>>

GotRunId(t) ==
  /\ turn[t] = "posted" /\ Goto(t, "top")
  /\ known' = known \cup {t}
  /\ UNCHANGED <<result, queue, cum, shown, deaf, connVars, mark, aborting, runVars,
                 faults, histVars>>

(* The loop looks at the mark, then waits for an event.                      *)
Top(t) ==
  /\ turn[t] = "top"
  /\ IF mark THEN Ends(t, "cancelled")
     ELSE Goto(t, "wait") /\ UNCHANGED <<result, queue, cum>>
  /\ UNCHANGED <<known, shown, deaf, connVars, mark, aborting, runVars,
                 faults, histVars>>

(* Faulty variant of NewPieces: the whole text is passed on each time. *)
AllPieces(t, e) == [i \in 1..e.n |-> <<e.run, i>>]

(* Faulty variant of NewPieces: the last message adds nothing. *)
PiecesOfDelta(t, e) ==
  IF e.kind = "final" \/ e.n <= cum[t] THEN <<>>
  ELSE [i \in 1..(e.n - cum[t]) |-> <<e.run, cum[t] + i>>]

(* What a message adds to the text passed on so far.                         *)
NewPieces(t, e) ==
  IF e.n <= cum[t] THEN <<>>
  ELSE [i \in 1..(e.n - cum[t]) |-> <<e.run, cum[t] + i>>]

Consume(t) ==
  /\ turn[t] = "wait" /\ queue[t] # <<>>
  /\ LET e == Head(queue[t]) IN
     /\ shown' = IF e.kind = "aborted" THEN shown
                 ELSE [shown EXCEPT ![t] = @ \o NewPieces(t, e)]
     /\ IF e.kind = "delta"
        THEN /\ Goto(t, "top") /\ UNCHANGED result
             /\ cum' = [cum EXCEPT ![t] = e.n] /\ queue' = [queue EXCEPT ![t] = Tail(@)]
        ELSE Ends(t, e.kind)
  /\ UNCHANGED <<known, deaf, connVars, mark, aborting, runVars, faults, histVars>>

(* The wait times out: the gateway is taken to be faster, so that only an    *)
(* event that was lost is not in time.                                       *)
TimesOut(t) ==
  /\ turn[t] = "wait" /\ queue[t] = <<>>
  /\ state[t] = "over"
  /\ \A k \in Socks : t \in deaf \/ \A i \in 1..Len(wire[k]) : wire[k][i].run # t
  /\ Ends(t, "timeout")
  /\ UNCHANGED <<known, shown, deaf, connVars, mark, aborting, runVars,
                 faults, histVars>>

(* cancel: set the mark, send chat.abort for the session.                    *)
Cancel(t) ==
  /\ Fault /\ turn[t] \notin {"idle", "ended"}
  /\ mark' = TRUE /\ aborting' = TRUE
  /\ asked' = asked \cup {t}
  /\ UNCHANGED <<turnVars, deaf, connVars, runVars, overheard, doubled, cut, reached>>

(* The orchestrator cancels the task of a turn that was cancelled.           *)
Interrupted(t) ==
  /\ t \in asked /\ turn[t] \notin {"idle", "ended"}
  /\ Ends(t, "cancelled")
  /\ UNCHANGED <<known, shown, deaf, connVars, mark, aborting, runVars,
                 faults, histVars>>

-----------------------------------------------------------------------------
System ==
  \/ \E t \in Turns : Connected(t) \/ Post(t) \/ GotRunId(t) \/ Top(t) \/ Consume(t)
                      \/ TimesOut(t) \/ (t \in deaf /\ NotConnected(t))
  \/ \E k \in Socks : Read(k) \/ ReaderEnds(k)
  \/ Reconnect \/ AbortArrives
  \/ \E r \in Runs : Says(r)

Next ==
  \/ System \/ OtherRun \/ OtherAborted \/ ApplyConfig
  \/ \E t \in Turns : TurnStart(t) \/ NotConnected(t) \/ PostFails(t) \/ Cancel(t)
                      \/ Interrupted(t)
  \/ \E k \in Socks : Breaks(k)

Spec == Init /\ [][Next]_vars /\ WF_vars(System)

-----------------------------------------------------------------------------
TypeOK ==
  /\ turn \in [Turns -> {"idle", "connect", "post", "posted", "top", "wait", "ended"}]
  /\ \A t \in Turns : result[t] # "none" <=> turn[t] = "ended"
  /\ \A t \in known : state[t] # "none"
  /\ \A k \in Socks : wire[k] # <<>> => sock[k] = "open"
  /\ recon \in Nat /\ faults \in 0..MaxFaults
  /\ {mark, aborting} \subseteq BOOLEAN
  /\ reached \/ ~connected

Whole(r, n) == [i \in 1..n |-> <<r, i>>]

(* The pieces passed on are those of the turn's own run, each once and in    *)
(* order, unless the turn heard another run before it knew its own, or two   *)
(* sockets told it the same.                                                 *)
TextInOrder ==
  \A t \in Turns \ (overheard \cup doubled) :
    shown[t] = Whole(t, Len(shown[t]))

(* A turn that ends normally has passed on the whole text, even if a socket  *)
(* was lost in between.                                                      *)
FinalIsWhole ==
  \A t \in Turns \ (overheard \cup doubled) :
    result[t] = "final" => shown[t] = Whole(t, Length)

(* A turn waits in vain only if a socket, the connecting or the settings     *)
(* failed it.                                                                *)
TimeoutOnlyAfterLoss ==
  \A t \in Turns : result[t] = "timeout" => t \in cut

(* A turn ends as cancelled only if the user cancelled it, and as aborted    *)
(* only if the user cancelled it or an earlier one: the abort names the      *)
(* session and may come late.  (What a turn overheard may also be an abort.) *)
AbortedOnlyIfAsked ==
  \A t \in Turns :
    /\ result[t] = "cancelled" => t \in asked
    /\ result[t] = "aborted" /\ t \notin overheard => \E u \in asked : u <= t

(* While the flag says connected, some reader is at work.                    *)
ConnectedIsRead == connected => \E k \in Socks : sock[k] \in {"open", "dead"}

(* In the end every turn that was started has ended, no abort is under way,  *)
(* and a connection that was open once is open again.                        *)
Settles ==
  <>[](/\ \A t \in Turns : turn[t] \in {"idle", "ended"}
       /\ ~aborting /\ recon = 0
       /\ reached => connected /\ Open # {})

(* What the code's filter is for: a turn passes on only its own run.  It     *)
(* does not hold for events that arrive before the run's id is known.        *)
HearsOwn == \A t \in Turns : \A i \in 1..Len(shown[t]) : shown[t][i][1] = t

=============================================================================
