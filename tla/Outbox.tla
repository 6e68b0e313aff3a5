-------------------------------- MODULE Outbox --------------------------------
(***************************************************************************)
(* How a user message gets from the browser to start_turn: the persistent  *)
(* client outbox (network/outbox.ts), the acknowledgement timers of        *)
(* ws-client.ts, a websocket that may drop, and the inbound half of        *)
(* ws/handler.py with its two in-memory duplicate filters.                 *)
(*                                                                         *)
(* JavaScript runs one event at a time and drains its microtasks, so a     *)
(* step of the client is one event handler.  The only await that lets      *)
(* other events in is the cursor read of _idbGetAll: "reads" holds the     *)
(* reads under way, each with the rows it will return.  IndexedDB runs     *)
(* overlapping transactions in the order they were asked for.              *)
(***************************************************************************)
EXTENDS Naturals, FiniteSets, Sequences

CONSTANTS
    Msgs,            \* message ids, in the order of their creation
    Audio,           \* those that carry audio
    MaxRetries,      \* MAX_RETRIES of outbox.ts
    SlowStorage,     \* a storage read can last longer than a reconnection
    InboundExpires,  \* the 5 minutes of _inbound_seen_msg can pass
    MaxDrops,        \* bounds of the environment: lost connections,
    MaxReloads,      \* page reloads,
    MaxRestarts,     \* server restarts,
    MaxClicks        \* clicks on "retry"

ASSUME OutboxAssumption ==
    /\ Msgs \subseteq Nat
    /\ Audio \subseteq Msgs
    /\ MaxRetries \in Nat \ {0}
    /\ {SlowStorage, InboundExpires} \subseteq BOOLEAN
    /\ {MaxDrops, MaxReloads, MaxRestarts, MaxClicks} \subseteq Nat

VARIABLES
    idb,        \* the IndexedDB store: the entry of each message, or NoEntry
    reads,      \* the _idbGetAll calls under way, oldest first
    pending,    \* keys of _pendingAcks
    timers,     \* how many ack timers of each message are still to fire
    connected,  \* the websocket is OPEN
    up,         \* copies of each message in flight on this connection
    late,       \* copies that outlived the connection they were sent on
    down,       \* acknowledgements in flight
    seen,       \* _inbound_seen_msg
    handling,   \* copies acknowledged and on their way to start_turn
    turnSeen,   \* _turn_seen
    told,       \* what the user is told of each message
    accepted,   \* messages the server has ever marked as seen
    processed,  \* how many turns each message has started
    env         \* what the environment has spent of its bounds

storeVars  == <<idb, reads>>
timerVars  == <<pending, timers>>
netVars    == <<connected, up, late, down>>
serverVars == <<seen, handling, turnSeen>>
ghostVars  == <<accepted, processed>>
vars == <<storeVars, timerVars, netVars, serverVars, told, ghostVars, env>>

NoEntry == [status |-> "none", retry |-> 0]
Entry   == [status : {"queued", "sent", "failed"}, retry : 0..MaxRetries]
Rows    == [Msgs -> Entry \cup {NoEntry}]
Read    == [kind : {"drain", "timeout"}, msg : Msgs \cup {0}, rows : Rows]
Told    == {"none", "pending", "delivered", "failed"}

InStore(row) == row.status # "none"
Unsettled(row) == row.status \in {"queued", "sent"}

Nowhere == [m \in Msgs |-> 0]
Plus(f, S)  == [m \in Msgs |-> IF m \in S THEN f[m] + 1 ELSE f[m]]
Minus(f, m) == [f EXCEPT ![m] = @ - 1]

Init ==
    /\ idb = [m \in Msgs |-> NoEntry]
    /\ reads = <<>>
    /\ pending = {}
    /\ timers = Nowhere
    /\ connected = FALSE
    /\ up = Nowhere /\ late = Nowhere /\ down = Nowhere
    /\ seen = {} /\ handling = Nowhere /\ turnSeen = {}
    /\ told = [m \in Msgs |-> "none"]
    /\ accepted = {}
    /\ processed = Nowhere
    /\ env = [drops |-> 0, reloads |-> 0, restarts |-> 0, clicks |-> 0]

-----------------------------------------------------------------------------
(* The client *)

\* Faulty variant: a status may always be replaced.
TellDeliveredAlways(m) == told' = [told EXCEPT ![m] = "delivered"]

\* updateDeliveryStatus: "delivered" does not override "failed".
TellDelivered(m) ==
    told' = [told EXCEPT ![m] = IF @ = "failed" THEN "failed" ELSE "delivered"]

\* _trySend of the messages of S over an open websocket: ws.send and trackAck,
\* which overwrites the record of an earlier send and leaves its timer running.
TrySend(S) ==
    /\ up' = Plus(up, S)
    /\ timers' = Plus(timers, S)
    /\ pending' = pending \cup S

NothingSent == UNCHANGED <<up, pending, timers>>

\* Faulty variant: only a message that could not be sent is stored.
EnqueueUnsentOnly(m) ==
    /\ told[m] = "none"
    /\ \A n \in Msgs : n < m => told[n] # "none"
    /\ told' = [told EXCEPT ![m] = "pending"]
    /\ IF connected
       THEN TrySend({m}) /\ UNCHANGED idb
       ELSE /\ idb' = [idb EXCEPT ![m] = [status |-> "queued", retry |-> 0]]
            /\ NothingSent
    /\ UNCHANGED <<reads, connected, late, down, serverVars, ghostVars, env>>

\* outbox.enqueue: stored as queued, then sent at once if the websocket is open.
Enqueue(m) ==
    /\ told[m] = "none"
    /\ \A n \in Msgs : n < m => told[n] # "none"
    /\ told' = [told EXCEPT ![m] = "pending"]
    /\ IF connected
       THEN /\ idb' = [idb EXCEPT ![m] = [status |-> "sent", retry |-> 0]]
            /\ TrySend({m})
       ELSE /\ idb' = [idb EXCEPT ![m] = [status |-> "queued", retry |-> 0]]
            /\ NothingSent
    /\ UNCHANGED <<reads, connected, late, down, serverVars, ghostVars, env>>

Draining == \E i \in DOMAIN reads : reads[i].kind = "drain"

\* outbox.drain up to its read; a second drain returns at once.
StartDrain ==
    reads' = IF Draining THEN reads
             ELSE Append(reads, [kind |-> "drain", msg |-> 0, rows |-> idb])

\* Faulty variant: the store is written back as it was read.
FinishDrainWritesBack ==
    /\ reads # <<>> /\ Head(reads).kind = "drain"
    /\ reads' = Tail(reads)
    /\ LET rows == Head(reads).rows
           sent == IF connected THEN {m \in Msgs : Unsettled(rows[m])} ELSE {}
       IN TrySend(sent) /\ idb' = rows
    /\ UNCHANGED <<connected, late, down, serverVars, told, ghostVars, env>>

\* Faulty variant: the loop ends after the first message.
FinishDrainFirstOnly ==
    /\ reads # <<>> /\ Head(reads).kind = "drain"
    /\ reads' = Tail(reads)
    /\ LET rows  == Head(reads).rows
           found == {m \in Msgs : Unsettled(rows[m])}
           sent  == {m \in found : connected /\ \A n \in found : m <= n}
       IN /\ TrySend(sent)
          /\ idb' = [m \in Msgs |-> IF m \in sent
                                    THEN [status |-> "sent", retry |-> rows[m].retry]
                                    ELSE idb[m]]
    /\ UNCHANGED <<connected, late, down, serverVars, told, ghostVars, env>>

\* The rest of outbox.drain: failed rows are deleted, the others are sent in the
\* order of their creation, and the first that cannot be sent ends the loop.
FinishDrain ==
    /\ reads # <<>> /\ Head(reads).kind = "drain"
    /\ reads' = Tail(reads)
    /\ LET rows  == Head(reads).rows
           found == {m \in Msgs : Unsettled(rows[m])}
           gone  == {m \in Msgs : /\ rows[m].status = "failed"
                                  /\ connected \/ \A n \in found : m < n}
           sent  == IF connected THEN found ELSE {}
       IN /\ TrySend(sent)
          /\ idb' = [m \in Msgs |-> IF m \in gone THEN NoEntry
                                    ELSE IF m \in sent
                                    THEN [status |-> "sent", retry |-> rows[m].retry]
                                    ELSE idb[m]]
    /\ UNCHANGED <<connected, late, down, serverVars, told, ghostVars, env>>

\* An ack timer fires.  It says nothing if the record is gone; else onAckTimeout
\* starts its read.
AckTimer(m) ==
    /\ timers[m] > 0
    /\ timers' = Minus(timers, m)
    /\ pending' = pending \ {m}
    /\ reads' = IF m \in pending
                THEN Append(reads, [kind |-> "timeout", msg |-> m, rows |-> idb])
                ELSE reads
    /\ UNCHANGED <<idb, netVars, serverVars, told, ghostVars, env>>

\* Faulty variant: the message is queued again but nobody sends it.
FinishAckTimeoutNoResend ==
    /\ reads # <<>> /\ Head(reads).kind = "timeout"
    /\ reads' = Tail(reads)
    /\ LET m     == Head(reads).msg
           row   == Head(reads).rows[m]
           retry == row.retry + 1
       IN \/ /\ ~InStore(row)
             /\ UNCHANGED <<idb, told>>
          \/ /\ InStore(row) /\ retry >= MaxRetries
             /\ idb' = [idb EXCEPT ![m] = [status |-> "failed", retry |-> MaxRetries]]
             /\ told' = [told EXCEPT ![m] = "failed"]
          \/ /\ InStore(row) /\ retry < MaxRetries
             /\ idb' = [idb EXCEPT ![m] = [status |-> "queued", retry |-> retry]]
             /\ UNCHANGED told
    /\ NothingSent
    /\ UNCHANGED <<connected, late, down, serverVars, ghostVars, env>>

\* The rest of onAckTimeout, on the row as it was read.
FinishAckTimeout ==
    /\ reads # <<>> /\ Head(reads).kind = "timeout"
    /\ reads' = Tail(reads)
    /\ LET m     == Head(reads).msg
           row   == Head(reads).rows[m]
           retry == row.retry + 1
       IN \/ /\ ~InStore(row)
             /\ NothingSent
             /\ UNCHANGED <<idb, told>>
          \/ /\ InStore(row) /\ retry >= MaxRetries
             /\ idb' = [idb EXCEPT ![m] = [status |-> "failed", retry |-> MaxRetries]]
             /\ told' = [told EXCEPT ![m] = "failed"]
             /\ NothingSent
          \/ /\ InStore(row) /\ retry < MaxRetries /\ connected
             /\ idb' = [idb EXCEPT ![m] = [status |-> "sent", retry |-> retry]]
             /\ TrySend({m})
             /\ UNCHANGED told
          \/ /\ InStore(row) /\ retry < MaxRetries /\ ~connected
             /\ idb' = [idb EXCEPT ![m] = [status |-> "queued", retry |-> retry]]
             /\ NothingSent
             /\ UNCHANGED told
    /\ UNCHANGED <<connected, late, down, serverVars, ghostVars, env>>

\* Faulty variant: a timer is cleared whether or not its record is still there.
AckArrivesClearsTwice(m) ==
    /\ connected /\ down[m] > 0
    /\ down' = Minus(down, m)
    /\ pending' = pending \ {m}
    /\ timers' = [timers EXCEPT ![m] = @ - 1]
    /\ idb' = [idb EXCEPT ![m] = NoEntry]
    /\ TellDelivered(m)
    /\ UNCHANGED <<reads, connected, up, late, serverVars, ghostVars, env>>

\* An ACK: its timer is cleared and the row deleted.
AckArrives(m) ==
    /\ connected /\ down[m] > 0
    /\ down' = Minus(down, m)
    /\ pending' = pending \ {m}
    /\ timers' = IF m \in pending THEN Minus(timers, m) ELSE timers
    /\ idb' = [idb EXCEPT ![m] = NoEntry]
    /\ TellDelivered(m)
    /\ UNCHANGED <<reads, connected, up, late, serverVars, ghostVars, env>>

\* The "retry" button of the send_failed toast.
RetryClick ==
    /\ env.clicks < MaxClicks
    /\ \E m \in Msgs : told[m] = "failed"
    /\ env' = [env EXCEPT !.clicks = @ + 1]
    /\ StartDrain
    /\ UNCHANGED <<idb, timerVars, netVars, serverVars, told, ghostVars>>

-----------------------------------------------------------------------------
(* The connection *)

\* Faulty variant: nothing is sent again when the connection comes back.
OpenNoDrain ==
    /\ ~connected
    /\ connected' = TRUE
    /\ UNCHANGED <<storeVars, timerVars, up, late, down, serverVars, told, ghostVars,
                   env>>

Open ==
    /\ ~connected
    /\ SlowStorage \/ ~Draining
    /\ connected' = TRUE
    /\ StartDrain
    /\ UNCHANGED <<idb, timerVars, up, late, down, serverVars, told, ghostVars, env>>

\* The socket is gone: acknowledgements are lost, and so are messages the server
\* has not got hold of.
LoseConnection ==
    /\ connected' = FALSE
    /\ \E S \in SUBSET {m \in Msgs : up[m] > 0} : late' = Plus(late, S)
    /\ up' = Nowhere
    /\ down' = Nowhere

Close ==
    /\ connected
    /\ env.drops < MaxDrops
    /\ env' = [env EXCEPT !.drops = @ + 1]
    /\ LoseConnection
    /\ UNCHANGED <<storeVars, timerVars, serverVars, told, ghostVars>>

\* A page reload keeps what is stored and nothing else.
Reload ==
    /\ env.reloads < MaxReloads
    /\ env' = [env EXCEPT !.reloads = @ + 1]
    /\ reads' = <<>>
    /\ pending' = {}
    /\ timers' = Nowhere
    /\ LoseConnection
    /\ UNCHANGED <<idb, serverVars, told, ghostVars>>

ServerRestart ==
    /\ env.restarts < MaxRestarts
    /\ env' = [env EXCEPT !.restarts = @ + 1]
    /\ connected' = FALSE
    /\ up' = Nowhere /\ late' = Nowhere /\ down' = Nowhere
    /\ seen' = {} /\ turnSeen' = {} /\ handling' = Nowhere
    /\ UNCHANGED <<storeVars, timerVars, told, ghostVars>>

-----------------------------------------------------------------------------
(* The server *)

\* _mark_or_reject_duplicate: a copy that was seen before goes no further.
Mark(m) ==
    /\ seen' = seen \cup {m}
    /\ handling' = IF m \in seen THEN handling ELSE Plus(handling, {m})
    /\ accepted' = accepted \cup {m}

\* Duplicate or not, the copy is acknowledged on the connection it came from.
Receive(m) ==
    /\ up[m] > 0
    /\ up' = Minus(up, m)
    /\ Mark(m)
    /\ down' = Plus(down, {m})
    /\ UNCHANGED <<storeVars, timerVars, connected, late, turnSeen, told, processed,
                   env>>

ReceiveLate(m) ==
    /\ late[m] > 0
    /\ late' = Minus(late, m)
    /\ Mark(m)
    /\ UNCHANGED <<storeVars, timerVars, connected, up, down, turnSeen, told,
                   processed, env>>

\* Faulty variant: start_turn relies on the inbound filter.
StartUnchecked(m) ==
    /\ handling[m] > 0
    /\ handling' = Minus(handling, m)
    /\ turnSeen' = turnSeen \cup {m}
    /\ processed' = Plus(processed, {m})
    /\ UNCHANGED <<storeVars, timerVars, netVars, seen, told, accepted, env>>

\* start_turn and its own duplicate check.
Start(m) ==
    /\ handling[m] > 0
    /\ handling' = Minus(handling, m)
    /\ turnSeen' = turnSeen \cup {m}
    /\ processed' = IF m \in turnSeen THEN processed ELSE Plus(processed, {m})
    /\ UNCHANGED <<storeVars, timerVars, netVars, seen, told, accepted, env>>

\* Audio in which nothing was heard, or whose transcription fails.
DropAudio(m) ==
    /\ m \in Audio
    /\ handling[m] > 0
    /\ handling' = Minus(handling, m)
    /\ UNCHANGED <<storeVars, timerVars, netVars, seen, turnSeen, told, ghostVars, env>>

\* The inbound key expires; start_turn marks later and so forgets later.
Forget(m) ==
    /\ InboundExpires
    /\ m \in seen
    /\ seen' = seen \ {m}
    /\ UNCHANGED <<storeVars, timerVars, netVars, handling, turnSeen, told, ghostVars,
                   env>>

-----------------------------------------------------------------------------
ClientStep(m) == Enqueue(m) \/ AckTimer(m) \/ AckArrives(m)
ServerStep(m) == Receive(m) \/ ReceiveLate(m) \/ Start(m) \/ DropAudio(m) \/ Forget(m)

\* Every message has been written and nothing is under way.
Quiescent ==
    /\ connected /\ reads = <<>>
    /\ \A m \in Msgs : /\ told[m] # "none"
                       /\ timers[m] = 0 /\ handling[m] = 0
                       /\ up[m] = 0 /\ late[m] = 0 /\ down[m] = 0

Next ==
    \/ \E m \in Msgs : ClientStep(m) \/ ServerStep(m)
    \/ FinishDrain \/ FinishAckTimeout \/ RetryClick
    \/ Open \/ Close \/ Reload \/ ServerRestart
    \/ Quiescent /\ UNCHANGED vars

Spec == Init /\ [][Next]_vars

\* The browser reads its storage, fires its timers and reconnects, and the server
\* reads its sockets.
Fairness ==
    /\ WF_vars(FinishDrain) /\ WF_vars(FinishAckTimeout) /\ WF_vars(Open)
    /\ \A m \in Msgs :
          WF_vars(AckTimer(m)) /\ WF_vars(AckArrives(m)) /\ WF_vars(Receive(m))

FairSpec == Spec /\ Fairness

-----------------------------------------------------------------------------
(* Properties *)

TypeOK ==
    /\ idb \in Rows
    /\ reads \in Seq(Read)
    /\ pending \subseteq Msgs
    /\ timers \in [Msgs -> Nat]
    /\ connected \in BOOLEAN
    /\ up \in [Msgs -> Nat] /\ late \in [Msgs -> Nat] /\ down \in [Msgs -> Nat]
    /\ seen \subseteq Msgs /\ turnSeen \subseteq Msgs
    /\ handling \in [Msgs -> Nat]
    /\ told \in [Msgs -> Told]
    /\ accepted \subseteq Msgs
    /\ processed \in [Msgs -> Nat]
    /\ env \in [drops : Nat, reloads : Nat, restarts : Nat, clicks : Nat]

\* A message whose fate the user has not been told is in the store with retries
\* left, whatever was lost, reloaded, restarted or read while it changed; and the
\* user is told "delivered" only of messages the server has taken.
NothingLost ==
    \A m \in Msgs :
        /\ told[m] = "pending" => Unsettled(idb[m]) /\ idb[m].retry < MaxRetries
        /\ told[m] = "delivered" => m \in accepted

\* A stored message is never left alone on an open connection: a timer or a read
\* that will look at it is under way.
Attended ==
    \A m \in Msgs :
        connected /\ Unsettled(idb[m])
          => \/ m \in pending /\ timers[m] > 0
             \/ \E i \in DOMAIN reads : /\ \/ reads[i].kind = "drain"
                                            \/ reads[i].msg = m
                                         /\ Unsettled(reads[i].rows[m])

\* inv-vis.test.ts:756: a message that is sent twice is processed once.
ProcessedOnce == \A m \in Msgs : processed[m] <= 1

\* sc-msg-sync.test.ts:16: a failed message stays for retry.
FailedStaysForRetry ==
    [][\A m \in Msgs : idb[m].status = "failed" /\ ~InStore(idb'[m]) => AckArrives(m)]_vars

\* Every stored message is settled one day: acknowledged, or given up.
EntrySettles == \A m \in Msgs : Unsettled(idb[m]) ~> ~Unsettled(idb[m])

\* Outbox implements Delivery as long as the server is not restarted.
D == INSTANCE Delivery WITH told <- told, accepted <- accepted, processed <- processed
DeliverySpec == D!Spec
DeliveryAnswered == D!Answered
=============================================================================
