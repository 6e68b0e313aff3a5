---------------------------- MODULE OutboxProofs ----------------------------
(***************************************************************************)
(* What the outbox, the connection and the server's duplicate filters keep *)
(* for every number of messages, retries, lost connections and reloads,    *)
(* and that together they implement Delivery.                              *)
(***************************************************************************)
EXTENDS Outbox, TLAPS

-----------------------------------------------------------------------------
(* The counters and the queue of reads *)

LEMMA PlusFacts ==
    ASSUME NEW f \in [Msgs -> Nat], NEW S
    PROVE  /\ Plus(f, S) \in [Msgs -> Nat]
           /\ \A m \in Msgs : Plus(f, S)[m] = IF m \in S THEN f[m] + 1 ELSE f[m]
  BY DEF Plus

LEMMA MinusFacts ==
    ASSUME NEW f \in [Msgs -> Nat], NEW m \in Msgs, f[m] > 0
    PROVE  /\ Minus(f, m) \in [Msgs -> Nat]
           /\ Minus(f, m)[m] = f[m] - 1
           /\ \A n \in Msgs \ {m} : Minus(f, m)[n] = f[n]
  BY DEF Minus

LEMMA NowhereFacts ==
    /\ Nowhere \in [Msgs -> Nat]
    /\ \A m \in Msgs : Nowhere[m] = 0
  BY DEF Nowhere

(* The first read leaves and the others move up. *)
LEMMA TailFacts ==
    ASSUME NEW S, NEW s \in Seq(S), s # <<>>
    PROVE  /\ Head(s) \in S /\ Head(s) = s[1] /\ 1 \in DOMAIN s
           /\ Tail(s) \in Seq(S)
           /\ \A i \in DOMAIN Tail(s) : i + 1 \in DOMAIN s /\ Tail(s)[i] = s[i + 1]
           /\ \A i \in DOMAIN s \ {1} : i - 1 \in DOMAIN Tail(s) /\ Tail(s)[i - 1] = s[i]
  OBVIOUS

(* A new read goes behind the others. *)
LEMMA AppendFacts ==
    ASSUME NEW S, NEW s \in Seq(S), NEW e \in S
    PROVE  /\ Append(s, e) \in Seq(S)
           /\ \A i \in DOMAIN s : i \in DOMAIN Append(s, e) /\ Append(s, e)[i] = s[i]
           /\ Len(s) + 1 \in DOMAIN Append(s, e) /\ Append(s, e)[Len(s) + 1] = e
           /\ \A i \in DOMAIN Append(s, e) :
                 i \in DOMAIN s \/ (i = Len(s) + 1 /\ Append(s, e)[i] = e)
  OBVIOUS

LEMMA RowFacts ==
    /\ \A n \in 0..MaxRetries : [status |-> "queued", retry |-> n] \in Entry
    /\ \A n \in 0..MaxRetries : [status |-> "sent", retry |-> n] \in Entry
    /\ [status |-> "failed", retry |-> MaxRetries] \in Entry
    /\ \A row \in Entry : InStore(row) /\ row.retry \in 0..MaxRetries
    /\ ~InStore(NoEntry) /\ ~Unsettled(NoEntry) /\ NoEntry.status = "none"
    /\ \A row \in Entry \cup {NoEntry} :
          /\ row.retry \in Nat
          /\ Unsettled(row) => InStore(row)
          /\ InStore(row) => row \in Entry
  BY OutboxAssumption DEF Entry, NoEntry, InStore, Unsettled

LEMMA TrySendFacts ==
    ASSUME TypeOK, NEW S \in SUBSET Msgs, TrySend(S) \/ (NothingSent /\ S = {})
    PROVE  /\ up' \in [Msgs -> Nat] /\ timers' \in [Msgs -> Nat] /\ pending' \subseteq Msgs
           /\ pending' = pending \cup S
           /\ \A m \in Msgs : /\ up'[m] = IF m \in S THEN up[m] + 1 ELSE up[m]
                              /\ timers'[m] = IF m \in S THEN timers[m] + 1 ELSE timers[m]
  <1>0. up \in [Msgs -> Nat] /\ timers \in [Msgs -> Nat] /\ pending \subseteq Msgs
    BY DEF TypeOK
  <1>1. CASE TrySend(S)
    <2>1. /\ up' \in [Msgs -> Nat]
          /\ \A m \in Msgs : up'[m] = IF m \in S THEN up[m] + 1 ELSE up[m]
      BY <1>0, <1>1, PlusFacts DEF TrySend
    <2>2. /\ timers' \in [Msgs -> Nat]
          /\ \A m \in Msgs : timers'[m] = IF m \in S THEN timers[m] + 1 ELSE timers[m]
      BY <1>0, <1>1, PlusFacts DEF TrySend
    <2>3. QED BY <1>0, <1>1, <2>1, <2>2 DEF TrySend
  <1>2. CASE NothingSent /\ S = {}
    BY <1>0, <1>2 DEF NothingSent
  <1>3. QED BY <1>1, <1>2

LEMMA StartDrainFacts ==
    ASSUME TypeOK, StartDrain
    PROVE  \/ reads' = reads
           \/ /\ [kind |-> "drain", msg |-> 0, rows |-> idb] \in Read
              /\ reads' = Append(reads, [kind |-> "drain", msg |-> 0, rows |-> idb])
  BY DEF TypeOK, StartDrain, Read

LEMMA LoseFacts ==
    ASSUME TypeOK, LoseConnection
    PROVE  /\ connected' = FALSE
           /\ up' \in [Msgs -> Nat] /\ down' \in [Msgs -> Nat] /\ late' \in [Msgs -> Nat]
           /\ \A m \in Msgs : /\ up'[m] = 0 /\ down'[m] = 0
                              /\ late'[m] > 0 => late[m] > 0 \/ up[m] > 0
  <1>1. PICK S \in SUBSET {m \in Msgs : up[m] > 0} : late' = Plus(late, S)
    BY DEF LoseConnection
  <1>2. up' = Nowhere /\ down' = Nowhere /\ connected' = FALSE
    BY DEF LoseConnection
  <1>3. late \in [Msgs -> Nat]
    BY DEF TypeOK
  <1>4. late' \in [Msgs -> Nat]
        /\ \A m \in Msgs : late'[m] = IF m \in S THEN late[m] + 1 ELSE late[m]
    BY <1>1, <1>3, PlusFacts
  <1>5. QED BY <1>1, <1>2, <1>4, NowhereFacts

-----------------------------------------------------------------------------
(* The inductive invariants *)

\* What a row of a message, stored now or read earlier, says for good, when the user
\* was told "answer": a row that may still be sent has retries left, and a failed one
\* was reported.
RowTrue(answer, row) ==
    /\ Unsettled(row) => row.retry < MaxRetries
    /\ row.status = "failed" => answer = "failed"
    /\ InStore(row) => answer # "none"

RowsTrue ==
    \A m \in Msgs : /\ RowTrue(told[m], idb[m])
                    /\ \A i \in DOMAIN reads : RowTrue(told[m], reads[i].rows[m])

PendingStored == \A m \in Msgs : told[m] = "pending" => Unsettled(idb[m])

\* The server knows of no message that was not written, and what leaves it is about
\* messages it has taken.
Taken ==
    \A m \in Msgs :
        /\ up[m] > 0 \/ late[m] > 0 \/ m \in accepted => told[m] # "none"
        /\ down[m] > 0 \/ handling[m] > 0 \/ told[m] = "delivered" => m \in accepted

DeliveryInv == RowsTrue /\ PendingStored /\ Taken

\* One life of the server starts at most one turn for a message.
OneTurnPerLife ==
    /\ env.restarts <= MaxRestarts
    /\ \A m \in Msgs : /\ processed[m] <= env.restarts + 1
                       /\ m \notin turnSeen => processed[m] <= env.restarts

-----------------------------------------------------------------------------
(* Types *)

\* An acknowledgement timeout is about a message.
TimeoutsNamed == \A i \in DOMAIN reads : reads[i].kind = "timeout" => reads[i].msg \in Msgs

\* The timer of a record of _pendingAcks is still to fire.
PendingTimed == \A m \in Msgs : m \in pending => timers[m] > 0

TypeInv == TypeOK /\ TimeoutsNamed /\ PendingTimed

LEMMA TypeInit == Init => TypeInv
  <1> SUFFICES ASSUME Init PROVE TypeInv
    OBVIOUS
  <1>0. TimeoutsNamed /\ PendingTimed
    BY DEF Init, TimeoutsNamed, PendingTimed
  <1>1. idb \in Rows
    BY DEF Init, Rows
  <1>2. reads \in Seq(Read)
    BY DEF Init
  <1>3. QED BY <1>0, <1>1, <1>2, NowhereFacts DEF Init, TypeInv, TypeOK, Told

\* What FinishDrain leaves in the store and sends.
LEMMA DrainFacts ==
    ASSUME TypeOK, FinishDrain
    PROVE  /\ reads # <<>> /\ Head(reads) \in Read /\ Head(reads).kind = "drain"
           /\ reads' = Tail(reads)
           /\ \E S \in SUBSET {m \in Msgs : Unsettled(Head(reads).rows[m])} :
                 /\ connected => S = {m \in Msgs : Unsettled(Head(reads).rows[m])}
                 /\ TrySend(S)
                 /\ \A m \in Msgs :
                       \/ idb'[m] = idb[m] /\ m \notin S
                       \/ /\ idb'[m] = NoEntry /\ m \notin S
                          /\ Head(reads).rows[m].status = "failed"
                       \/ /\ m \in S
                          /\ idb'[m] = [status |-> "sent",
                                        retry |-> Head(reads).rows[m].retry]
           /\ idb' \in Rows
  <1> DEFINE rows == Head(reads).rows
             found == {m \in Msgs : Unsettled(rows[m])}
             gone == {m \in Msgs : /\ rows[m].status = "failed"
                                   /\ connected \/ \A n \in found : m < n}
             S == IF connected THEN found ELSE {}
  <1>1. reads # <<>> /\ Head(reads).kind = "drain" /\ reads' = Tail(reads)
    BY DEF FinishDrain
  <1>2. Head(reads) \in Read
    BY <1>1, TailFacts DEF TypeOK
  <1>3. rows \in Rows /\ idb \in Rows
    BY <1>2 DEF Read, TypeOK
  <1>4. TrySend(S) /\ idb' = [m \in Msgs |-> IF m \in gone THEN NoEntry
                                ELSE IF m \in S
                                THEN [status |-> "sent", retry |-> rows[m].retry]
                                ELSE idb[m]]
    BY DEF FinishDrain
  <1>5. \A m \in S : rows[m] \in Entry
    BY <1>3, RowFacts DEF Rows
  <1>6. \A m \in S : [status |-> "sent", retry |-> rows[m].retry] \in Entry
    BY <1>5, RowFacts
  <1>7. idb' \in Rows
    <2> HIDE DEF S, gone, rows
    <2>1. QED BY <1>3, <1>4, <1>6 DEF Rows
  <1>8. \A m \in S : m \notin gone
    BY DEF Unsettled
  <1>9. \A m \in Msgs :
           \/ idb'[m] = idb[m] /\ m \notin S
           \/ idb'[m] = NoEntry /\ m \notin S /\ rows[m].status = "failed"
           \/ m \in S /\ idb'[m] = [status |-> "sent", retry |-> rows[m].retry]
    <2> DEFINE failed == {m \in Msgs : rows[m].status = "failed"}
    <2>1. gone \subseteq failed
      OBVIOUS
    <2>2. \A m \in Msgs : m \in failed <=> rows[m].status = "failed"
      OBVIOUS
    <2> HIDE DEF S, gone, failed
    <2>3. QED BY <1>4, <1>8, <2>1, <2>2
  <1>10. QED BY <1>1, <1>2, <1>4, <1>7, <1>9

\* What FinishAckTimeout leaves in the store, tells and sends.
LEMMA AckTimeoutFacts ==
    ASSUME TypeInv, FinishAckTimeout
    PROVE  /\ reads # <<>> /\ Head(reads) \in Read /\ Head(reads).kind = "timeout"
           /\ reads' = Tail(reads)
           /\ \E m \in Msgs : \E row \in Entry \cup {NoEntry} :
                 /\ m = Head(reads).msg /\ row = Head(reads).rows[m]
                 /\ \/ ~InStore(row) /\ NothingSent /\ UNCHANGED <<idb, told>>
                    \/ /\ InStore(row) /\ NothingSent
                       /\ idb' = [idb EXCEPT ![m] = [status |-> "failed",
                                                     retry |-> MaxRetries]]
                       /\ told' = [told EXCEPT ![m] = "failed"]
                    \/ /\ InStore(row) /\ row.retry + 1 < MaxRetries /\ connected
                       /\ idb' = [idb EXCEPT ![m] = [status |-> "sent",
                                                     retry |-> row.retry + 1]]
                       /\ TrySend({m}) /\ UNCHANGED told
                    \/ /\ InStore(row) /\ row.retry + 1 < MaxRetries /\ ~connected
                       /\ idb' = [idb EXCEPT ![m] = [status |-> "queued",
                                                     retry |-> row.retry + 1]]
                       /\ NothingSent /\ UNCHANGED told
  <1>1. reads # <<>> /\ Head(reads).kind = "timeout" /\ reads' = Tail(reads)
    BY DEF FinishAckTimeout
  <1>2. Head(reads) \in Read
    BY <1>1, TailFacts DEF TypeInv, TypeOK
  <1>3. Head(reads).msg \in Msgs
    BY <1>1, TailFacts DEF TypeInv, TypeOK, TimeoutsNamed
  <1>4. Head(reads).rows[Head(reads).msg] \in Entry \cup {NoEntry}
    BY <1>2, <1>3 DEF Read, Rows
  <1>5. QED BY <1>1, <1>2, <1>3, <1>4 DEF FinishAckTimeout

(* A read that leaves the queue, or one that joins it. *)
LEMMA ReadsLeave ==
    ASSUME TypeInv, reads # <<>>, reads' = Tail(reads)
    PROVE  reads' \in Seq(Read) /\ TimeoutsNamed'
  BY TailFacts DEF TypeInv, TypeOK, TimeoutsNamed

LEMMA ReadsJoin ==
    ASSUME TypeInv, NEW r \in Read, r.kind = "timeout" => r.msg \in Msgs,
           reads' = Append(reads, r)
    PROVE  reads' \in Seq(Read) /\ TimeoutsNamed'
  BY AppendFacts DEF TypeInv, TypeOK, TimeoutsNamed

LEMMA DrainJoins ==
    ASSUME TypeInv, StartDrain
    PROVE  reads' \in Seq(Read) /\ TimeoutsNamed'
  <1>1. CASE reads' = reads
    BY <1>1 DEF TypeInv, TypeOK, TimeoutsNamed
  <1>2. CASE reads' # reads
    BY <1>2, StartDrainFacts, ReadsJoin DEF TypeInv
  <1>3. QED BY <1>1, <1>2

LEMMA TrySendTypes ==
    ASSUME TypeInv, NEW S \in SUBSET Msgs, TrySend(S) \/ (NothingSent /\ S = {})
    PROVE  /\ up' \in [Msgs -> Nat] /\ timers' \in [Msgs -> Nat] /\ pending' \subseteq Msgs
           /\ PendingTimed'
  <1>1. timers \in [Msgs -> Nat] /\ TypeOK
    BY DEF TypeInv, TypeOK
  <1>2. QED BY <1>1, TrySendFacts DEF TypeInv, PendingTimed

LEMMA TypeClient ==
    ASSUME TypeInv, NEW m \in Msgs, ClientStep(m)
    PROVE  TypeInv'
  <1> USE DEF TypeInv
  <1>0. /\ idb \in Rows /\ told \in [Msgs -> Told] /\ timers \in [Msgs -> Nat]
        /\ down \in [Msgs -> Nat] /\ pending \subseteq Msgs
    BY DEF TypeOK
  <1>1. CASE Enqueue(m)
    <2>1. told' \in [Msgs -> Told]
      BY <1>0, <1>1 DEF Enqueue, Told
    <2>2. idb' \in Rows
      BY <1>0, <1>1, RowFacts, OutboxAssumption DEF Enqueue, Rows
    <2>3. PICK S \in SUBSET Msgs : TrySend(S) \/ (NothingSent /\ S = {})
      BY <1>1 DEF Enqueue
    <2>4. /\ up' \in [Msgs -> Nat] /\ timers' \in [Msgs -> Nat] /\ pending' \subseteq Msgs
          /\ PendingTimed'
      BY <2>3, TrySendTypes
    <2>5. QED
      BY <1>1, <2>1, <2>2, <2>4 DEF Enqueue, TypeOK, TimeoutsNamed, serverVars, ghostVars
  <1>2. CASE AckTimer(m)
    <2>1. timers' \in [Msgs -> Nat] /\ pending' \subseteq Msgs /\ PendingTimed'
      BY <1>0, <1>2, MinusFacts DEF AckTimer, PendingTimed
    <2>2. [kind |-> "timeout", msg |-> m, rows |-> idb] \in Read
      BY <1>0 DEF Read
    <2>3. reads' \in Seq(Read) /\ TimeoutsNamed'
      BY <1>2, <2>2, ReadsJoin DEF AckTimer, TypeOK, TimeoutsNamed
    <2>4. QED
      BY <1>2, <2>1, <2>3 DEF AckTimer, TypeOK, netVars, serverVars, ghostVars
  <1>3. CASE AckArrives(m)
    <2>1. timers' \in [Msgs -> Nat] /\ pending' \subseteq Msgs /\ PendingTimed'
      BY <1>0, <1>3, MinusFacts DEF AckArrives, PendingTimed
    <2>2. down' \in [Msgs -> Nat]
      BY <1>0, <1>3, MinusFacts DEF AckArrives
    <2>3. told' \in [Msgs -> Told]
      BY <1>0, <1>3 DEF AckArrives, TellDelivered, Told
    <2>4. idb' \in Rows
      BY <1>0, <1>3 DEF AckArrives, Rows
    <2>5. QED
      BY <1>3, <2>1, <2>2, <2>3, <2>4 DEF AckArrives, TypeOK, TimeoutsNamed, serverVars,
                                          ghostVars
  <1>4. QED BY <1>1, <1>2, <1>3 DEF ClientStep

LEMMA TypeServer ==
    ASSUME TypeInv, NEW m \in Msgs, ServerStep(m)
    PROVE  TypeInv'
  <1> USE DEF TypeInv
  <1>0. /\ up \in [Msgs -> Nat] /\ late \in [Msgs -> Nat] /\ down \in [Msgs -> Nat]
        /\ handling \in [Msgs -> Nat] /\ processed \in [Msgs -> Nat]
        /\ seen \subseteq Msgs /\ accepted \subseteq Msgs
    BY DEF TypeOK
  <1>1. CASE Receive(m) \/ ReceiveLate(m)
    <2>1. Mark(m)
      BY <1>1 DEF Receive, ReceiveLate
    <2>2. handling' \in [Msgs -> Nat] /\ seen' \subseteq Msgs /\ accepted' \subseteq Msgs
      BY <1>0, <2>1, PlusFacts DEF Mark
    <2>3. up' \in [Msgs -> Nat] /\ late' \in [Msgs -> Nat] /\ down' \in [Msgs -> Nat]
      BY <1>0, <1>1, PlusFacts, MinusFacts DEF Receive, ReceiveLate
    <2>4. UNCHANGED <<storeVars, timerVars, connected, turnSeen, told, processed, env>>
      BY <1>1 DEF Receive, ReceiveLate
    <2>5. QED
      BY <2>2, <2>3, <2>4 DEF TypeOK, TimeoutsNamed, PendingTimed, storeVars, timerVars
  <1>2. CASE Start(m) \/ DropAudio(m) \/ Forget(m)
    <2>1. handling' \in [Msgs -> Nat]
      BY <1>0, <1>2, MinusFacts DEF Start, DropAudio, Forget
    <2>2. processed' \in [Msgs -> Nat]
      BY <1>0, <1>2, PlusFacts DEF Start, DropAudio, Forget, ghostVars
    <2>3. seen' \subseteq Msgs /\ turnSeen' \subseteq Msgs
      BY <1>2 DEF Start, DropAudio, Forget, TypeOK
    <2>4. UNCHANGED <<storeVars, timerVars, netVars, told, accepted, env>>
      BY <1>2 DEF Start, DropAudio, Forget, ghostVars
    <2>5. QED
      BY <2>1, <2>2, <2>3, <2>4
         DEF TypeOK, TimeoutsNamed, PendingTimed, storeVars, timerVars, netVars
  <1>3. QED BY <1>1, <1>2 DEF ServerStep

LEMMA TypeReads ==
    ASSUME TypeInv, FinishDrain \/ FinishAckTimeout
    PROVE  TypeInv'
  <1> USE DEF TypeInv
  <1>0. idb \in Rows /\ told \in [Msgs -> Told]
    BY DEF TypeOK
  <1>1. CASE FinishDrain
    <2>1. reads' \in Seq(Read) /\ TimeoutsNamed' /\ idb' \in Rows
      BY <1>1, DrainFacts, ReadsLeave
    <2>2. PICK S \in SUBSET Msgs : TrySend(S)
      BY <1>1, DrainFacts
    <2>3. /\ up' \in [Msgs -> Nat] /\ timers' \in [Msgs -> Nat] /\ pending' \subseteq Msgs
          /\ PendingTimed'
      BY <2>2, TrySendTypes
    <2>4. UNCHANGED <<connected, late, down, serverVars, told, ghostVars, env>>
      BY <1>1 DEF FinishDrain
    <2>5. QED BY <2>1, <2>3, <2>4 DEF TypeOK, serverVars, ghostVars
  <1>2. CASE FinishAckTimeout
    <2>1. reads' \in Seq(Read) /\ TimeoutsNamed'
      BY <1>2, AckTimeoutFacts, ReadsLeave
    <2>2. PICK S \in SUBSET Msgs : TrySend(S) \/ (NothingSent /\ S = {})
      BY <1>2, AckTimeoutFacts
    <2>3. /\ up' \in [Msgs -> Nat] /\ timers' \in [Msgs -> Nat] /\ pending' \subseteq Msgs
          /\ PendingTimed'
      BY <2>2, TrySendTypes
    <2>4. PICK m \in Msgs, row \in Entry \cup {NoEntry} :
             \/ UNCHANGED idb
             \/ idb' = [idb EXCEPT ![m] = [status |-> "failed", retry |-> MaxRetries]]
             \/ /\ InStore(row) /\ row.retry + 1 < MaxRetries
                /\ \/ idb' = [idb EXCEPT ![m] = [status |-> "sent", retry |-> row.retry + 1]]
                   \/ idb' = [idb EXCEPT ![m] = [status |-> "queued",
                                                 retry |-> row.retry + 1]]
      BY <1>2, AckTimeoutFacts
    <2>5. row.retry \in Nat
      BY RowFacts
    <2>6. idb' \in Rows
      <3>1. row.retry + 1 < MaxRetries => row.retry + 1 \in 0..MaxRetries
        BY <2>5, OutboxAssumption
      <3>2. PICK e \in Entry \cup {NoEntry} : idb' = [idb EXCEPT ![m] = e] \/ idb' = idb
        BY <2>4, <3>1, RowFacts
      <3>3. QED BY <1>0, <3>2 DEF Rows
    <2>7. told' \in [Msgs -> Told]
      BY <1>0, <1>2, AckTimeoutFacts DEF Told
    <2>8. UNCHANGED <<connected, late, down, serverVars, ghostVars, env>>
      BY <1>2 DEF FinishAckTimeout
    <2>9. QED BY <2>1, <2>3, <2>6, <2>7, <2>8 DEF TypeOK, serverVars, ghostVars
  <1>3. QED BY <1>1, <1>2

LEMMA TypeConnection ==
    ASSUME TypeInv, RetryClick \/ Open \/ Close \/ Reload \/ ServerRestart
    PROVE  TypeInv'
  <1> USE DEF TypeInv
  <1>0. env \in [drops : Nat, reloads : Nat, restarts : Nat, clicks : Nat]
    BY DEF TypeOK
  <1>1. CASE RetryClick \/ Open
    <2>1. reads' \in Seq(Read) /\ TimeoutsNamed'
      BY <1>1, DrainJoins DEF RetryClick, Open
    <2>2. env' \in [drops : Nat, reloads : Nat, restarts : Nat, clicks : Nat]
      BY <1>0, <1>1 DEF RetryClick, Open
    <2>3. connected' \in BOOLEAN
      BY <1>1 DEF RetryClick, Open, netVars, TypeOK
    <2>4. UNCHANGED <<idb, timerVars, up, late, down, serverVars, told, ghostVars>>
      BY <1>1 DEF RetryClick, Open, netVars
    <2>5. QED
      BY <2>1, <2>2, <2>3, <2>4 DEF TypeOK, PendingTimed, timerVars, serverVars, ghostVars
  <1>2. CASE Close \/ Reload
    <2>1. /\ connected' = FALSE
          /\ up' \in [Msgs -> Nat] /\ late' \in [Msgs -> Nat] /\ down' \in [Msgs -> Nat]
      BY <1>2, LoseFacts DEF Close, Reload
    <2>2. env' \in [drops : Nat, reloads : Nat, restarts : Nat, clicks : Nat]
      BY <1>0, <1>2 DEF Close, Reload
    <2>3. UNCHANGED <<idb, serverVars, told, ghostVars>>
      BY <1>2 DEF Close, Reload, storeVars
    <2>4. CASE Close
      BY <2>1, <2>2, <2>3, <2>4 DEF Close, TypeOK, PendingTimed, TimeoutsNamed, storeVars,
                                    timerVars, serverVars, ghostVars
    <2>5. CASE Reload
      <3>1. reads' = <<>> /\ pending' = {} /\ timers' = Nowhere
        BY <2>5 DEF Reload
      <3>2. reads' \in Seq(Read) /\ TimeoutsNamed'
        BY <3>1 DEF TimeoutsNamed
      <3>3. timers' \in [Msgs -> Nat] /\ pending' \subseteq Msgs /\ PendingTimed'
        BY <3>1, NowhereFacts DEF PendingTimed
      <3>4. QED
        BY <2>1, <2>2, <2>3, <3>2, <3>3 DEF TypeOK, serverVars, ghostVars
    <2>6. QED BY <1>2, <2>4, <2>5
  <1>3. CASE ServerRestart
    <2>1. /\ up' \in [Msgs -> Nat] /\ late' \in [Msgs -> Nat] /\ down' \in [Msgs -> Nat]
          /\ handling' \in [Msgs -> Nat] /\ connected' = FALSE /\ seen' = {} /\ turnSeen' = {}
      BY <1>3, NowhereFacts DEF ServerRestart
    <2>2. env' \in [drops : Nat, reloads : Nat, restarts : Nat, clicks : Nat]
      BY <1>0, <1>3 DEF ServerRestart
    <2>3. UNCHANGED <<storeVars, timerVars, told, ghostVars>>
      BY <1>3 DEF ServerRestart
    <2>4. QED
      BY <2>1, <2>2, <2>3 DEF TypeOK, PendingTimed, TimeoutsNamed, storeVars, timerVars,
                              ghostVars
  <1>4. QED BY <1>1, <1>2, <1>3

LEMMA TypeStep == TypeInv /\ [Next]_vars => TypeInv'
  <1>1. ASSUME TypeInv, UNCHANGED vars
        PROVE  TypeInv'
    BY <1>1 DEF vars, storeVars, timerVars, netVars, serverVars, ghostVars, TypeInv, TypeOK,
                TimeoutsNamed, PendingTimed
  <1>2. QED
    BY <1>1, TypeClient, TypeServer, TypeReads, TypeConnection DEF Next

\* Type correctness, for every number of messages and every bound of the
\* environment; with it, a timer that an ACK clears has not fired yet
\* (ws-client.ts:68), so that clearing it stops one timer exactly.
THEOREM TypeCorrect == Spec => [](TypeOK /\ PendingTimed)
  <1>1. TypeInv => TypeOK /\ PendingTimed
    BY DEF TypeInv
  <1>2. QED BY <1>1, TypeInit, TypeStep, PTL DEF Spec

-----------------------------------------------------------------------------
(* What the user is told, and what the server has taken, only moves forward *)

Onward ==
    /\ \A m \in Msgs : /\ told[m] = "failed" => told'[m] = "failed"
                       /\ told[m] # "none" => told'[m] # "none"
    /\ accepted \subseteq accepted'

LEMMA OnwardStep == TypeInv /\ [Next]_vars => Onward
  <1> SUFFICES ASSUME TypeInv, [Next]_vars PROVE Onward
    OBVIOUS
  <1>0. told \in [Msgs -> Told]
    BY DEF TypeInv, TypeOK
  <1>1. ASSUME NEW m \in Msgs, ClientStep(m)
        PROVE  Onward
    <2>1. accepted' = accepted
      BY <1>1 DEF ClientStep, Enqueue, AckTimer, AckArrives, ghostVars
    <2>2. CASE Enqueue(m)
      BY <1>0, <2>1, <2>2 DEF Enqueue, Onward
    <2>3. CASE AckTimer(m)
      BY <2>1, <2>3 DEF AckTimer, Onward
    <2>4. CASE AckArrives(m)
      BY <1>0, <2>1, <2>4 DEF AckArrives, TellDelivered, Onward
    <2>5. QED BY <1>1, <2>2, <2>3, <2>4 DEF ClientStep
  <1>2. ASSUME NEW m \in Msgs, ServerStep(m)
        PROVE  Onward
    BY <1>2 DEF ServerStep, Receive, ReceiveLate, Mark, Start, DropAudio, Forget, ghostVars,
                Onward
  <1>3. CASE FinishAckTimeout
    <2>1. PICK m \in Msgs : told' = told \/ told' = [told EXCEPT ![m] = "failed"]
      BY <1>3, AckTimeoutFacts
    <2>2. accepted' = accepted
      BY <1>3 DEF FinishAckTimeout, ghostVars
    <2>3. QED BY <1>0, <2>1, <2>2 DEF Onward
  <1>4. CASE FinishDrain \/ RetryClick \/ Open \/ Close \/ Reload \/ ServerRestart
              \/ UNCHANGED vars
    BY <1>4 DEF FinishDrain, RetryClick, Open, Close, Reload, ServerRestart, vars, ghostVars,
                Onward
  <1>5. QED BY <1>1, <1>2, <1>3, <1>4 DEF Next

-----------------------------------------------------------------------------
(* Rows *)

LEMMA RowStays ==
    ASSUME NEW answer, NEW after, NEW row, RowTrue(answer, row),
           answer = "failed" => after = "failed", answer # "none" => after # "none"
    PROVE  RowTrue(after, row)
  BY DEF RowTrue

(* A read that is under way after a step was under way before, or has just been
   asked for. *)
ReadsFrom ==
    \A i \in DOMAIN reads' : \/ \E j \in DOMAIN reads : reads'[i] = reads[j]
                             \/ reads'[i].rows = idb

LEMMA ReadsFromStep == TypeInv /\ [Next]_vars => ReadsFrom
  <1> SUFFICES ASSUME TypeInv, [Next]_vars PROVE ReadsFrom
    OBVIOUS
  <1>0. reads \in Seq(Read) /\ idb \in Rows /\ TypeOK
    BY DEF TypeInv, TypeOK
  <1>1. CASE reads' = reads
    BY <1>1 DEF ReadsFrom
  <1>2. CASE reads # <<>> /\ reads' = Tail(reads)
    BY <1>0, <1>2, TailFacts DEF ReadsFrom
  <1>3. ASSUME NEW r \in Read, r.rows = idb, reads' = Append(reads, r)
        PROVE  ReadsFrom
    BY <1>0, <1>3, AppendFacts DEF ReadsFrom
  <1>4. CASE reads' = <<>>
    BY <1>4 DEF ReadsFrom
  <1>5. ASSUME NEW m \in Msgs, ClientStep(m)
        PROVE  ReadsFrom
    <2>1. [kind |-> "timeout", msg |-> m, rows |-> idb] \in Read
      BY <1>0 DEF Read
    <2>2. QED BY <1>1, <1>3, <1>5, <2>1 DEF ClientStep, Enqueue, AckTimer, AckArrives
  <1>6. ASSUME NEW m \in Msgs, ServerStep(m)
        PROVE  ReadsFrom
    BY <1>1, <1>6 DEF ServerStep, Receive, ReceiveLate, Start, DropAudio, Forget, storeVars
  <1>7. CASE FinishDrain \/ FinishAckTimeout
    BY <1>2, <1>7 DEF FinishDrain, FinishAckTimeout
  <1>8. CASE RetryClick \/ Open
    <2>1. StartDrain
      BY <1>8 DEF RetryClick, Open
    <2>2. QED BY <1>0, <1>1, <1>3, <2>1, StartDrainFacts
  <1>9. CASE Close \/ ServerRestart \/ UNCHANGED vars
    BY <1>1, <1>9 DEF Close, ServerRestart, vars, storeVars
  <1>10. CASE Reload
    BY <1>4, <1>10 DEF Reload
  <1>11. QED BY <1>5, <1>6, <1>7, <1>8, <1>9, <1>10 DEF Next

(* The store of m after a step is what it was, or a row that is true of m. *)
LEMMA StoreStep ==
    ASSUME TypeInv, DeliveryInv, [Next]_vars, NEW m \in Msgs
    PROVE  /\ idb'[m] = idb[m] \/ RowTrue(told'[m], idb'[m])
           /\ told'[m] = "pending" => Unsettled(idb'[m])
  <1> USE DEF DeliveryInv
  <1>0. /\ idb \in Rows /\ told \in [Msgs -> Told] /\ MaxRetries \in Nat \ {0}
        /\ Onward /\ TypeOK
    BY OutboxAssumption, OnwardStep DEF TypeInv, TypeOK
  <1>1. ASSUME idb'[m] = idb[m], told'[m] = told[m]
        PROVE  told'[m] = "pending" => Unsettled(idb'[m])
    BY <1>1 DEF PendingStored
  <1>2. ASSUME NEW n \in Msgs, ClientStep(n)
        PROVE  /\ idb'[m] = idb[m] \/ RowTrue(told'[m], idb'[m])
               /\ told'[m] = "pending" => Unsettled(idb'[m])
    <2>1. CASE n # m
      BY <1>0, <1>1, <1>2, <2>1 DEF ClientStep, Enqueue, AckTimer, AckArrives, TellDelivered,
                                    Rows
    <2>2. CASE AckTimer(n)
      BY <1>1, <2>2 DEF AckTimer
    <2>3. CASE n = m /\ Enqueue(n)
      <3>1. idb'[m] \in {[status |-> "sent", retry |-> 0], [status |-> "queued", retry |-> 0]}
        BY <1>0, <2>3 DEF Enqueue, Rows
      <3>2. told'[m] = "pending"
        BY <1>0, <2>3 DEF Enqueue
      <3>3. QED BY <1>0, <3>1, <3>2 DEF RowTrue, Unsettled, InStore
    <2>4. CASE n = m /\ AckArrives(n)
      BY <1>0, <2>4, RowFacts DEF AckArrives, TellDelivered, Rows, RowTrue, NoEntry
    <2>5. QED BY <1>2, <2>1, <2>2, <2>3, <2>4 DEF ClientStep
  <1>3. CASE FinishDrain
    <2> DEFINE row == Head(reads).rows[m]
    <2>1. told' = told
      BY <1>3 DEF FinishDrain
    <2>2. RowTrue(told[m], row)
      <3>1. reads # <<>> /\ reads \in Seq(Read)
        BY <1>3 DEF FinishDrain, TypeInv, TypeOK
      <3>2. Head(reads) = reads[1] /\ 1 \in DOMAIN reads
        BY <3>1, TailFacts
      <3>3. QED BY <3>2 DEF RowsTrue
    <2>3. \/ idb'[m] = idb[m]
          \/ idb'[m] = NoEntry /\ row.status = "failed"
          \/ idb'[m] = [status |-> "sent", retry |-> row.retry] /\ Unsettled(row)
      BY <1>0, <1>3, DrainFacts
    <2>4. CASE idb'[m] = idb[m]
      BY <1>1, <2>1, <2>4
    <2>5. CASE idb'[m] = NoEntry /\ row.status = "failed"
      BY <2>1, <2>2, <2>5, RowFacts DEF RowTrue, NoEntry
    <2>6. CASE idb'[m] = [status |-> "sent", retry |-> row.retry] /\ Unsettled(row)
      BY <2>1, <2>2, <2>6 DEF RowTrue, Unsettled, InStore
    <2>7. QED BY <2>3, <2>4, <2>5, <2>6
  <1>4. CASE FinishAckTimeout
    <2>1. PICK n \in Msgs, row \in Entry \cup {NoEntry} :
             /\ n = Head(reads).msg /\ row = Head(reads).rows[n]
             /\ \/ ~InStore(row) /\ UNCHANGED <<idb, told>>
                \/ /\ idb' = [idb EXCEPT ![n] = [status |-> "failed", retry |-> MaxRetries]]
                   /\ told' = [told EXCEPT ![n] = "failed"]
                \/ /\ InStore(row) /\ row.retry + 1 < MaxRetries /\ UNCHANGED told
                   /\ \/ idb' = [idb EXCEPT ![n] = [status |-> "sent",
                                                    retry |-> row.retry + 1]]
                      \/ idb' = [idb EXCEPT ![n] = [status |-> "queued",
                                                    retry |-> row.retry + 1]]
      BY <1>4, AckTimeoutFacts
    <2>2. RowTrue(told[n], row)
      <3>1. reads # <<>> /\ reads \in Seq(Read)
        BY <1>0, <1>4 DEF FinishAckTimeout, TypeOK
      <3>2. Head(reads) = reads[1] /\ 1 \in DOMAIN reads
        BY <3>1, TailFacts
      <3>3. QED BY <2>1, <3>2 DEF RowsTrue
    <2>3. CASE n # m
      BY <1>0, <1>1, <2>1, <2>3 DEF Rows
    <2>4. CASE UNCHANGED <<idb, told>>
      BY <1>1, <2>4
    <2>5. CASE n = m /\ idb' = [idb EXCEPT ![n] = [status |-> "failed", retry |-> MaxRetries]]
               /\ told' = [told EXCEPT ![n] = "failed"]
      <3>1. told'[m] = "failed" /\ idb'[m] = [status |-> "failed", retry |-> MaxRetries]
        BY <1>0, <2>5 DEF Rows
      <3>2. QED BY <3>1 DEF RowTrue, Unsettled, InStore
    <2>6. CASE /\ n = m /\ InStore(row) /\ row.retry + 1 < MaxRetries /\ UNCHANGED told
               /\ idb'[n] \in {[status |-> "sent", retry |-> row.retry + 1],
                               [status |-> "queued", retry |-> row.retry + 1]}
      BY <2>2, <2>6 DEF RowTrue, Unsettled, InStore
    <2>7. QED BY <1>0, <2>1, <2>3, <2>4, <2>5, <2>6 DEF Rows
  <1>5. CASE UNCHANGED <<idb, told>>
    BY <1>1, <1>5
  <1>6. ASSUME NEW n \in Msgs, ServerStep(n)
        PROVE  UNCHANGED <<idb, told>>
    BY <1>6 DEF ServerStep, Receive, ReceiveLate, Start, DropAudio, Forget, storeVars
  <1>7. ASSUME RetryClick \/ Open \/ Close \/ Reload \/ ServerRestart \/ UNCHANGED vars
        PROVE  UNCHANGED <<idb, told>>
    BY <1>7 DEF RetryClick, Open, Close, Reload, ServerRestart, vars, storeVars
  <1>8. QED BY <1>2, <1>3, <1>4, <1>5, <1>6, <1>7 DEF Next

LEMMA RowsStep ==
    ASSUME TypeInv, DeliveryInv, [Next]_vars
    PROVE  RowsTrue'
  <1>1. Onward /\ ReadsFrom
    BY OnwardStep, ReadsFromStep
  <1>2. ASSUME NEW m \in Msgs
        PROVE  RowTrue(told'[m], idb'[m])
    <2>1. RowTrue(told[m], idb[m])
      BY DEF DeliveryInv, RowsTrue
    <2>2. RowTrue(told'[m], idb[m])
      BY <1>1, <2>1, RowStays DEF Onward
    <2>3. QED BY <2>2, StoreStep
  <1>3. ASSUME NEW m \in Msgs, NEW i \in DOMAIN reads'
        PROVE  RowTrue(told'[m], reads'[i].rows[m])
    <2>1. CASE reads'[i].rows = idb
      <3>1. RowTrue(told[m], idb[m])
        BY DEF DeliveryInv, RowsTrue
      <3>2. QED BY <1>1, <2>1, <3>1, RowStays DEF Onward
    <2>2. ASSUME NEW j \in DOMAIN reads, reads'[i] = reads[j]
          PROVE  RowTrue(told'[m], reads'[i].rows[m])
      <3>1. RowTrue(told[m], reads[j].rows[m])
        BY DEF DeliveryInv, RowsTrue
      <3>2. QED BY <1>1, <2>2, <3>1, RowStays DEF Onward
    <2>3. QED BY <1>1, <2>1, <2>2 DEF ReadsFrom
  <1>4. QED BY <1>2, <1>3 DEF RowsTrue

-----------------------------------------------------------------------------
(* What the network and the server hold *)

LEMMA TakenStep ==
    ASSUME TypeInv, DeliveryInv, [Next]_vars
    PROVE  Taken'
  <1> USE DEF DeliveryInv
  <1>0. /\ up \in [Msgs -> Nat] /\ late \in [Msgs -> Nat] /\ down \in [Msgs -> Nat]
        /\ handling \in [Msgs -> Nat] /\ told \in [Msgs -> Told] /\ TypeOK
        /\ accepted \subseteq Msgs
    BY DEF TypeInv, TypeOK
  <1>1. Onward
    BY OnwardStep
  \* A step that only sends copies of messages of S, all of them written.
  <1>2. ASSUME NEW S \in SUBSET Msgs, TrySend(S),
               \A m \in S : told'[m] # "none",
               UNCHANGED <<late, down, handling, accepted>>,
               \A m \in Msgs : told'[m] = "delivered" => told[m] = "delivered"
        PROVE  Taken'
    <2>1. \A m \in Msgs : up'[m] = IF m \in S THEN up[m] + 1 ELSE up[m]
      BY <1>0, <1>2, TrySendFacts
    <2>2. QED BY <1>0, <1>1, <1>2, <2>1 DEF Taken, Onward
  <1>3. ASSUME UNCHANGED <<up, late, down, handling, accepted>>,
                \A m \in Msgs : told'[m] = "delivered" => told[m] = "delivered"
         PROVE  Taken'
    BY <1>1, <1>3 DEF Taken, Onward
  <1>4. ASSUME NEW m \in Msgs, ClientStep(m)
        PROVE  Taken'
    <2>1. CASE Enqueue(m)
      <3>1. told'[m] = "pending" /\ \A n \in Msgs \ {m} : told'[n] = told[n]
        BY <1>0, <2>1 DEF Enqueue
      <3>2. TrySend({m}) \/ NothingSent
        BY <2>1 DEF Enqueue
      <3>3. UNCHANGED <<late, down, handling, accepted>>
        BY <2>1 DEF Enqueue, serverVars, ghostVars
      <3>4. CASE TrySend({m})
        BY <1>2, <3>1, <3>3, <3>4
      <3>5. CASE NothingSent
        BY <1>3, <3>1, <3>3, <3>5 DEF NothingSent
      <3>6. QED BY <3>2, <3>4, <3>5
    <2>2. CASE AckTimer(m)
      BY <2>2 DEF AckTimer, Taken, netVars, serverVars, ghostVars
    <2>3. CASE AckArrives(m)
      BY <1>0, <2>3, MinusFacts
         DEF AckArrives, TellDelivered, Taken, serverVars, ghostVars
    <2>4. QED BY <1>4, <2>1, <2>2, <2>3 DEF ClientStep
  <1>5. ASSUME NEW m \in Msgs, ServerStep(m)
        PROVE  Taken'
    <2>1. CASE Receive(m) \/ ReceiveLate(m)
      <3>1. Mark(m) /\ told' = told /\ told[m] # "none"
        BY <2>1 DEF Receive, ReceiveLate, Taken
      <3>2. /\ accepted' = accepted \cup {m}
            /\ \A n \in Msgs \ {m} : handling'[n] = handling[n]
        BY <1>0, <3>1, PlusFacts DEF Mark
      <3>3. \A n \in Msgs : (up'[n] > 0 => up[n] > 0) /\ (late'[n] > 0 => late[n] > 0)
        BY <1>0, <2>1, MinusFacts DEF Receive, ReceiveLate
      <3>4. \A n \in Msgs \ {m} : down'[n] = down[n]
        BY <1>0, <2>1, PlusFacts DEF Receive, ReceiveLate
      <3>5. QED BY <3>1, <3>2, <3>3, <3>4 DEF Taken
    <2>2. CASE Start(m) \/ DropAudio(m) \/ Forget(m)
      <3>1. \A n \in Msgs : handling'[n] > 0 => handling[n] > 0
        BY <1>0, <2>2, MinusFacts DEF Start, DropAudio, Forget
      <3>2. UNCHANGED <<up, late, down, told, accepted>>
        BY <2>2 DEF Start, DropAudio, Forget, netVars, ghostVars
      <3>3. QED BY <3>1, <3>2 DEF Taken
    <2>3. QED BY <1>5, <2>1, <2>2 DEF ServerStep
  <1>6. CASE FinishDrain
    <2>1. /\ reads # <<>> /\ Head(reads).kind = "drain"
          /\ Head(reads) = reads[1] /\ 1 \in DOMAIN reads
      BY <1>0, <1>6, TailFacts DEF FinishDrain, TypeOK
    <2>2. PICK S \in SUBSET {m \in Msgs : Unsettled(Head(reads).rows[m])} : TrySend(S)
      BY <1>0, <1>6, DrainFacts
    <2>3. \A m \in S : told[m] # "none"
      BY <2>1, <2>2 DEF RowsTrue, RowTrue, Unsettled, InStore
    <2>4. UNCHANGED <<late, down, handling, accepted, told>>
      BY <1>6 DEF FinishDrain, serverVars, ghostVars
    <2>5. QED BY <1>2, <2>2, <2>3, <2>4
  <1>7. CASE FinishAckTimeout
    <2>1. /\ reads # <<>> /\ Head(reads) = reads[1] /\ 1 \in DOMAIN reads
      BY <1>0, <1>7, TailFacts DEF FinishAckTimeout, TypeOK
    <2>2. UNCHANGED <<late, down, handling, accepted>>
      BY <1>7 DEF FinishAckTimeout, serverVars, ghostVars
    <2>3. PICK m \in Msgs : \E row :
             /\ row = Head(reads).rows[m]
             /\ \/ NothingSent /\ (told' = told \/ told' = [told EXCEPT ![m] = "failed"])
                \/ InStore(row) /\ TrySend({m}) /\ UNCHANGED told
      BY <1>7, AckTimeoutFacts
    <2>4. CASE NothingSent /\ (told' = told \/ told' = [told EXCEPT ![m] = "failed"])
      BY <1>0, <1>3, <2>2, <2>4 DEF NothingSent
    <2>5. CASE InStore(Head(reads).rows[m]) /\ TrySend({m}) /\ UNCHANGED told
      <3>1. told[m] # "none"
        BY <2>1, <2>5 DEF RowsTrue, RowTrue
      <3>2. QED BY <1>2, <2>2, <2>5, <3>1
    <2>6. QED BY <2>3, <2>4, <2>5
  <1>8. CASE RetryClick \/ Open \/ UNCHANGED vars
    BY <1>8 DEF RetryClick, Open, vars, netVars, serverVars, ghostVars, Taken
  <1>9. CASE Close \/ Reload
    <2>1. LoseConnection /\ UNCHANGED <<handling, told, accepted>>
      BY <1>9 DEF Close, Reload, serverVars, ghostVars
    <2>2. QED BY <1>0, <2>1, LoseFacts DEF Taken
  <1>10. CASE ServerRestart
    BY <1>10, NowhereFacts DEF ServerRestart, Taken, ghostVars
  <1>11. QED BY <1>4, <1>5, <1>6, <1>7, <1>8, <1>9, <1>10 DEF Next

LEMMA DeliveryInit == Init => DeliveryInv
  BY NowhereFacts, RowFacts
     DEF Init, DeliveryInv, RowsTrue, RowTrue, PendingStored, Taken, NoEntry

LEMMA DeliveryStep == TypeInv /\ DeliveryInv /\ [Next]_vars => DeliveryInv'
  <1> SUFFICES ASSUME TypeInv, DeliveryInv, [Next]_vars PROVE DeliveryInv'
    OBVIOUS
  <1>1. PendingStored'
    BY StoreStep DEF PendingStored
  <1>2. QED BY <1>1, RowsStep, TakenStep DEF DeliveryInv

LEMMA DeliveryInvariant == Spec => [](TypeInv /\ DeliveryInv)
  BY TypeInit, DeliveryInit, TypeStep, DeliveryStep, PTL DEF Spec

\* Whatever is lost, reloaded, restarted or read while it changes: a message whose
\* fate the user does not know is in the store with retries left (outbox.ts:211, 240,
\* 267), and "delivered" is said only of messages the server has taken
\* (ws-client.ts:68).
THEOREM NoMessageLost == Spec => []NothingLost
  <1>1. DeliveryInv => NothingLost
    BY DEF DeliveryInv, RowsTrue, RowTrue, PendingStored, Taken, NothingLost
  <1>2. QED BY <1>1, DeliveryInvariant, PTL

-----------------------------------------------------------------------------
(* The server's two duplicate filters *)

LEMMA OneTurnStep == TypeInv /\ OneTurnPerLife /\ [Next]_vars => OneTurnPerLife'
  <1> SUFFICES ASSUME TypeInv, OneTurnPerLife, [Next]_vars PROVE OneTurnPerLife'
    OBVIOUS
  <1>0. /\ env \in [drops : Nat, reloads : Nat, restarts : Nat, clicks : Nat]
        /\ processed \in [Msgs -> Nat] /\ MaxRestarts \in Nat
    BY OutboxAssumption DEF TypeInv, TypeOK
  <1>1. ASSUME NEW m \in Msgs, Start(m)
        PROVE  OneTurnPerLife'
    <2>1. \A n \in Msgs : processed'[n] = IF n = m /\ m \notin turnSeen THEN processed[n] + 1
                                          ELSE processed[n]
      BY <1>0, <1>1, PlusFacts DEF Start
    <2>2. turnSeen' = turnSeen \cup {m} /\ env' = env
      BY <1>1 DEF Start
    <2>3. QED BY <1>0, <2>1, <2>2 DEF OneTurnPerLife
  <1>2. CASE ServerRestart
    <2>1. processed' = processed /\ turnSeen' = {} /\ env'.restarts = env.restarts + 1
          /\ env.restarts < MaxRestarts
      BY <1>0, <1>2 DEF ServerRestart, ghostVars
    <2>2. QED BY <1>0, <2>1 DEF OneTurnPerLife
  <1>3. ASSUME UNCHANGED <<processed, turnSeen>>, env'.restarts = env.restarts
        PROVE  OneTurnPerLife'
    BY <1>3 DEF OneTurnPerLife
  <1>4. ASSUME NEW m \in Msgs, ClientStep(m) \/ Receive(m) \/ ReceiveLate(m) \/ DropAudio(m)
                               \/ Forget(m)
        PROVE  OneTurnPerLife'
    BY <1>3, <1>4 DEF ClientStep, Enqueue, AckTimer, AckArrives, Receive, ReceiveLate,
                      DropAudio, Forget, serverVars, ghostVars
  <1>5. CASE FinishDrain \/ FinishAckTimeout \/ RetryClick \/ Open \/ Close \/ Reload
             \/ UNCHANGED vars
    BY <1>0, <1>3, <1>5 DEF FinishDrain, FinishAckTimeout, RetryClick, Open, Close, Reload,
                            vars, serverVars, ghostVars
  <1>6. QED BY <1>1, <1>2, <1>4, <1>5 DEF Next, ServerStep

LEMMA OneTurnInit == Init => OneTurnPerLife
  BY NowhereFacts, OutboxAssumption DEF Init, OneTurnPerLife

LEMMA OneTurnInvariant == Spec => [](TypeInv /\ OneTurnPerLife)
  BY TypeInit, OneTurnInit, TypeStep, OneTurnStep, PTL DEF Spec

\* Resent, duplicated, late or forgotten by the inbound filter: a message starts at
\* most one turn in each life of the server, whose filters are in memory
\* (handler.py:70, runtime_orchestrator.py:116).
THEOREM OneTurnPerServerLife == Spec => [](\A m \in Msgs : processed[m] <= env.restarts + 1)
  <1>1. OneTurnPerLife => \A m \in Msgs : processed[m] <= env.restarts + 1
    BY DEF OneTurnPerLife
  <1>2. QED BY <1>1, OneTurnInvariant, PTL

\* A message is processed at most once as long as the server is not restarted
\* (inv-vis.test.ts:756).
THEOREM StartedOnce == ASSUME MaxRestarts = 0 PROVE Spec => []ProcessedOnce
  <1>1. TypeInv /\ OneTurnPerLife => ProcessedOnce
    <2> SUFFICES ASSUME TypeInv, OneTurnPerLife, NEW m \in Msgs PROVE processed[m] <= 1
      BY DEF ProcessedOnce
    <2>1. env.restarts \in Nat /\ processed[m] \in Nat
      BY DEF TypeInv, TypeOK
    <2>2. QED BY <2>1 DEF OneTurnPerLife
  <1>2. QED BY <1>1, OneTurnInvariant, PTL

-----------------------------------------------------------------------------
(* Delivery *)

LEMMA DeliveryStarts == Init => D!Init
  BY DEF Init, D!Init, Nowhere

\* Every step is a step of Delivery or changes nothing that Delivery speaks of.
LEMMA StepDelivers ==
    ASSUME MaxRestarts = 0, TypeInv, DeliveryInv, OneTurnPerLife, [Next]_vars
    PROVE  [D!Next]_<<told, accepted, processed>>
  <1> USE DEF D!Next
  <1>0. /\ told \in [Msgs -> Told] /\ processed \in [Msgs -> Nat]
        /\ TypeOK /\ Taken /\ RowsTrue /\ env.restarts = 0
    BY DEF TypeInv, TypeOK, DeliveryInv, OneTurnPerLife
  <1>1. ASSUME NEW m \in Msgs, Enqueue(m)
        PROVE  D!Submit(m)
    BY <1>1 DEF Enqueue, D!Submit, ghostVars
  <1>2. ASSUME NEW m \in Msgs, AckArrives(m)
        PROVE  D!Confirm(m) \/ UNCHANGED <<told, accepted, processed>>
    <2>1. m \in accepted /\ UNCHANGED <<accepted, processed>>
      BY <1>2 DEF AckArrives, ghostVars, DeliveryInv, Taken
    <2>2. told[m] # "none"
      BY <2>1 DEF DeliveryInv, Taken
    <2>3. told' = [told EXCEPT ![m] = IF told[m] = "failed" THEN "failed" ELSE "delivered"]
      BY <1>2 DEF AckArrives, TellDelivered
    <2>4. told[m] \in {"failed", "delivered"} => told' = told
      BY <1>0, <2>3
    <2>5. told[m] = "pending" => D!Confirm(m)
      BY <2>1, <2>3 DEF D!Confirm
    <2>6. QED BY <1>0, <2>1, <2>2, <2>4, <2>5 DEF Told
  <1>3. ASSUME NEW m \in Msgs, Receive(m) \/ ReceiveLate(m)
        PROVE  D!Accept(m)
    BY <1>0, <1>3 DEF Receive, ReceiveLate, Mark, Taken, D!Accept
  <1>4. ASSUME NEW m \in Msgs, Start(m)
        PROVE  D!Process(m) \/ UNCHANGED <<told, accepted, processed>>
    <2>1. m \in accepted /\ UNCHANGED <<told, accepted>>
      BY <1>0, <1>4 DEF Start, Taken
    <2>2. CASE m \in turnSeen
      BY <1>4, <2>1, <2>2 DEF Start
    <2>3. CASE m \notin turnSeen
      <3>1. processed[m] = 0
        BY <1>0, <2>3 DEF OneTurnPerLife
      <3>2. processed' = [processed EXCEPT ![m] = 1]
        <4>1. processed' = Plus(processed, {m})
          BY <1>4, <2>3 DEF Start
        <4>2. \A n \in Msgs : Plus(processed, {m})[n] = IF n = m THEN 1 ELSE processed[n]
          BY <1>0, <3>1, PlusFacts
        <4>3. Plus(processed, {m}) = [n \in Msgs |-> IF n = m THEN 1 ELSE processed[n]]
          BY <4>2 DEF Plus
        <4>4. QED BY <1>0, <4>1, <4>3
      <3>3. QED BY <2>1, <3>1, <3>2 DEF D!Process
    <2>4. QED BY <2>2, <2>3
  <1>5. CASE FinishAckTimeout
    <2>1. /\ Head(reads) = reads[1] /\ 1 \in DOMAIN reads
      BY <1>0, <1>5, TailFacts DEF FinishAckTimeout, TypeOK
    <2>2. UNCHANGED <<accepted, processed>>
      BY <1>5 DEF FinishAckTimeout, ghostVars
    <2>3. PICK m \in Msgs :
             \/ told' = told
             \/ InStore(Head(reads).rows[m]) /\ told' = [told EXCEPT ![m] = "failed"]
      BY <1>5, AckTimeoutFacts
    <2>4. CASE told' = told
      BY <2>2, <2>4
    <2>5. CASE InStore(Head(reads).rows[m]) /\ told' = [told EXCEPT ![m] = "failed"]
      <3>1. told[m] # "none"
        BY <1>0, <2>1, <2>5 DEF RowsTrue, RowTrue
      <3>2. CASE told[m] = "failed"
        BY <1>0, <2>2, <2>5, <3>2
      <3>3. CASE told[m] # "failed"
        BY <1>0, <2>2, <2>5, <3>1, <3>3 DEF Told, D!GiveUp
      <3>4. QED BY <3>2, <3>3
    <2>6. QED BY <2>3, <2>4, <2>5
  <1>6. ASSUME NEW m \in Msgs, AckTimer(m) \/ DropAudio(m) \/ Forget(m)
        PROVE  UNCHANGED <<told, accepted, processed>>
    BY <1>6 DEF AckTimer, DropAudio, Forget, ghostVars
  <1>7. ASSUME FinishDrain \/ RetryClick \/ Open \/ Close \/ Reload \/ ServerRestart
               \/ UNCHANGED vars
        PROVE  UNCHANGED <<told, accepted, processed>>
    BY <1>7 DEF FinishDrain, RetryClick, Open, Close, Reload, ServerRestart, vars, ghostVars
  <1>8. QED
    BY <1>1, <1>2, <1>3, <1>4, <1>5, <1>6, <1>7 DEF Next, ClientStep, ServerStep

\* Outbox, timers, sockets and filters implement what Delivery promises, as long as
\* the server is not restarted: "delivered" only after the server took the message,
\* one turn at most, and an answer that does not go back (chat-store.ts:499).
THEOREM ImplementsDelivery == ASSUME MaxRestarts = 0 PROVE Spec => DeliverySpec
  <1>1. TypeInv /\ DeliveryInv /\ OneTurnPerLife /\ [Next]_vars
           => [D!Next]_<<told, accepted, processed>>
    BY StepDelivers
  <1>2. QED
    BY <1>1, DeliveryStarts, DeliveryInvariant, OneTurnInvariant, PTL
       DEF Spec, DeliverySpec, D!Spec

-----------------------------------------------------------------------------
(* A stored message on an open connection *)

\* A read that will look at message m and found it stored.
Looks(r, m) == (r.kind = "drain" \/ r.msg = m) /\ Unsettled(r.rows[m])

LookedAt(m) == \E i \in DOMAIN reads : Looks(reads[i], m)
Watched(m)  == m \in pending /\ timers[m] > 0

AttendedTo(m) == connected /\ Unsettled(idb[m]) => Watched(m) \/ LookedAt(m)

LEMMA AttendedParts == Attended <=> \A m \in Msgs : AttendedTo(m)
  BY DEF Attended, AttendedTo, Watched, LookedAt, Looks

LEMMA LooksOn ==
    ASSUME TypeInv, reads # <<>>, reads' = Tail(reads), NEW m \in Msgs, LookedAt(m),
           ~Looks(Head(reads), m)
    PROVE  LookedAt(m)'
  <1>1. reads \in Seq(Read) /\ Head(reads) = reads[1]
    BY TailFacts DEF TypeInv, TypeOK
  <1>2. PICK i \in DOMAIN reads : Looks(reads[i], m)
    BY DEF LookedAt
  <1>3. i # 1
    BY <1>1, <1>2
  <1>4. i - 1 \in DOMAIN Tail(reads) /\ Tail(reads)[i - 1] = reads[i]
    BY <1>1, <1>3, TailFacts
  <1>5. QED BY <1>2, <1>4 DEF LookedAt

LEMMA LooksNew ==
    ASSUME TypeInv, NEW r \in Read, reads' = Append(reads, r), NEW m \in Msgs,
           LookedAt(m) \/ Looks(r, m)
    PROVE  LookedAt(m)'
  <1>1. reads \in Seq(Read)
    BY DEF TypeInv, TypeOK
  <1>2. QED BY <1>1, AppendFacts DEF LookedAt

LEMMA AttendedClient ==
    ASSUME TypeInv, Attended, NEW n \in Msgs, ClientStep(n), NEW m \in Msgs
    PROVE  AttendedTo(m)'
  <1>0. /\ idb \in Rows /\ timers \in [Msgs -> Nat] /\ pending \subseteq Msgs /\ TypeOK
        /\ AttendedTo(m)
    BY AttendedParts DEF TypeInv, TypeOK
  <1>1. CASE Enqueue(n)
    <2>1. LookedAt(m) => LookedAt(m)'
      BY <1>1 DEF Enqueue, LookedAt
    <2>2. CASE connected
      <3>1. TrySend({n})
        BY <1>1, <2>2 DEF Enqueue
      <3>2. pending' = pending \cup {n}
            /\ timers'[m] = IF m = n THEN timers[m] + 1 ELSE timers[m]
        BY <1>0, <3>1, TrySendFacts
      <3>3. n # m => idb'[m] = idb[m]
        BY <1>0, <1>1, <2>2 DEF Enqueue, Rows
      <3>4. QED BY <1>0, <2>1, <2>2, <3>2, <3>3 DEF AttendedTo, Watched
    <2>3. CASE ~connected
      BY <1>1, <2>3 DEF Enqueue, AttendedTo
    <2>4. QED BY <2>2, <2>3
  <1>2. CASE AckTimer(n)
    <2> DEFINE r == [kind |-> "timeout", msg |-> n, rows |-> idb]
    <2>1. r \in Read
      BY <1>0 DEF Read
    <2>2. UNCHANGED <<idb, connected>> /\ pending' = pending \ {n}
          /\ timers' = Minus(timers, n) /\ timers[n] > 0
          /\ reads' = IF n \in pending THEN Append(reads, r) ELSE reads
      BY <1>2 DEF AckTimer, netVars
    <2>3. n # m => timers'[m] = timers[m]
      BY <1>0, <2>2, MinusFacts
    <2>4. LookedAt(m) => LookedAt(m)'
      BY <2>1, <2>2, LooksNew DEF LookedAt
    <2>5. CASE n = m /\ n \in pending /\ Unsettled(idb[m])
      <3>1. Looks(r, m)
        BY <2>5 DEF Looks
      <3>2. QED BY <2>1, <2>2, <2>5, <3>1, LooksNew DEF AttendedTo
    <2>6. QED BY <1>0, <2>2, <2>3, <2>4, <2>5 DEF AttendedTo, Watched
  <1>3. CASE AckArrives(n)
    <2>1. CASE n = m
      BY <1>0, <1>3, <2>1, RowFacts DEF AckArrives, Rows, AttendedTo
    <2>2. CASE n # m
      <3>1. timers'[m] = timers[m]
        BY <1>0, <1>3, <2>2, MinusFacts DEF AckArrives, TypeInv, PendingTimed
      <3>2. idb'[m] = idb[m] /\ connected' = connected /\ pending' = pending \ {n}
            /\ reads' = reads
        BY <1>0, <1>3, <2>2 DEF AckArrives, Rows
      <3>3. QED BY <1>0, <2>2, <3>1, <3>2 DEF AttendedTo, Watched, LookedAt
    <2>3. QED BY <2>1, <2>2
  <1>4. QED BY <1>1, <1>2, <1>3 DEF ClientStep

LEMMA AttendedReads ==
    ASSUME TypeInv, Attended, FinishDrain \/ FinishAckTimeout, NEW m \in Msgs
    PROVE  AttendedTo(m)'
  <1>0. /\ idb \in Rows /\ timers \in [Msgs -> Nat] /\ pending \subseteq Msgs /\ TypeOK
        /\ AttendedTo(m)
    BY AttendedParts DEF TypeInv, TypeOK
  <1>1. /\ reads # <<>> /\ reads' = Tail(reads) /\ connected' = connected
    BY DEF FinishDrain, FinishAckTimeout
  <1>2. LookedAt(m) => LookedAt(m)' \/ Looks(Head(reads), m)
    BY <1>1, LooksOn
  <1>3. SUFFICES ASSUME connected PROVE AttendedTo(m)'
    BY <1>1 DEF AttendedTo
  <1>4. CASE FinishDrain
    <2>1. PICK S : /\ S = {n \in Msgs : Unsettled(Head(reads).rows[n])}
                   /\ TrySend(S)
                   /\ idb'[m] = idb[m] \/ idb'[m] = NoEntry \/ m \in S
      BY <1>0, <1>3, <1>4, DrainFacts
    <2>2. pending' = pending \cup S
          /\ timers'[m] = IF m \in S THEN timers[m] + 1 ELSE timers[m]
      BY <1>0, <2>1, TrySendFacts
    <2>3. Looks(Head(reads), m) => m \in S
      BY <2>1 DEF Looks
    <2>4. CASE m \in S
      BY <1>0, <2>2, <2>4 DEF AttendedTo, Watched
    <2>5. CASE m \notin S
      BY <1>0, <1>1, <1>2, <2>1, <2>2, <2>3, <2>5, RowFacts DEF AttendedTo, Watched
    <2>6. QED BY <2>4, <2>5
  <1>5. CASE FinishAckTimeout
    <2>1. Head(reads).kind = "timeout"
      BY <1>5 DEF FinishAckTimeout
    <2>2. PICK n \in Msgs, row \in Entry \cup {NoEntry} :
             /\ n = Head(reads).msg /\ row = Head(reads).rows[n]
             /\ \/ ~InStore(row) /\ NothingSent /\ UNCHANGED <<idb, told>>
                \/ /\ idb' = [idb EXCEPT ![n] = [status |-> "failed", retry |-> MaxRetries]]
                   /\ NothingSent
                \/ /\ idb' = [idb EXCEPT ![n] = [status |-> "sent", retry |-> row.retry + 1]]
                   /\ TrySend({n})
      BY <1>3, <1>5, AckTimeoutFacts
    <2>3. Looks(Head(reads), m) => n = m /\ InStore(row)
      BY <2>1, <2>2, RowFacts DEF Looks
    <2>4. CASE NothingSent /\ UNCHANGED idb /\ ~InStore(row)
      BY <1>0, <1>1, <1>2, <2>3, <2>4 DEF AttendedTo, Watched, NothingSent
    <2>5. CASE idb' = [idb EXCEPT ![n] = [status |-> "failed", retry |-> MaxRetries]]
               /\ NothingSent
      <3>1. CASE n = m
        <4>1. idb'[m] = [status |-> "failed", retry |-> MaxRetries]
          BY <1>0, <2>5, <3>1 DEF Rows
        <4>2. QED BY <4>1 DEF AttendedTo, Unsettled
      <3>2. CASE n # m
        BY <1>0, <1>1, <1>2, <2>3, <2>5, <3>2 DEF AttendedTo, Watched, NothingSent, Rows
      <3>3. QED BY <3>1, <3>2
    <2>6. CASE idb' = [idb EXCEPT ![n] = [status |-> "sent", retry |-> row.retry + 1]]
               /\ TrySend({n})
      <3>1. pending' = pending \cup {n}
            /\ timers'[m] = IF m = n THEN timers[m] + 1 ELSE timers[m]
        BY <1>0, <2>6, TrySendFacts
      <3>2. n # m => idb'[m] = idb[m]
        BY <1>0, <2>6 DEF Rows
      <3>3. CASE n = m
        BY <1>0, <3>1, <3>3 DEF AttendedTo, Watched
      <3>4. CASE n # m
        BY <1>0, <1>1, <1>2, <2>3, <3>1, <3>2, <3>4 DEF AttendedTo, Watched
      <3>5. QED BY <3>3, <3>4
    <2>7. QED BY <2>2, <2>4, <2>5, <2>6
  <1>6. QED BY <1>4, <1>5

LEMMA AttendedStep ==
    ASSUME ~SlowStorage, TypeInv, Attended, [Next]_vars
    PROVE  Attended'
  <1>0. \A m \in Msgs : AttendedTo(m)
    BY AttendedParts
  <1>1. ASSUME NEW n \in Msgs, ServerStep(n)
        PROVE  UNCHANGED <<storeVars, timerVars, connected>>
    BY <1>1 DEF ServerStep, Receive, ReceiveLate, Start, DropAudio, Forget, netVars
  <1>2. CASE UNCHANGED <<storeVars, timerVars, connected>>
    BY <1>2 DEF Attended, storeVars, timerVars
  <1>3. CASE Close \/ Reload \/ ServerRestart
    BY <1>3 DEF Close, Reload, ServerRestart, LoseConnection, Attended
  <1>4. CASE RetryClick \/ Open
    <2>1. UNCHANGED <<idb, timerVars>> /\ StartDrain /\ TypeOK
      BY <1>4 DEF RetryClick, Open, TypeInv
    <2>2. ASSUME NEW m \in Msgs PROVE AttendedTo(m)'
      <3>1. CASE reads' = reads
        <4>1. ~Open
          BY <1>4, <3>1, <2>1 DEF Open, StartDrain
        <4>2. QED BY <1>0, <1>4, <2>1, <3>1, <4>1
                     DEF RetryClick, AttendedTo, Watched, LookedAt, timerVars, netVars
      <3>2. CASE reads' # reads
        <4> DEFINE r == [kind |-> "drain", msg |-> 0, rows |-> idb]
        <4>1. r \in Read /\ reads' = Append(reads, r)
          BY <2>1, <3>2, StartDrainFacts
        <4>2. Unsettled(idb[m]) => Looks(r, m)
          BY DEF Looks
        <4>3. Unsettled(idb[m]) => LookedAt(m)'
          BY <4>1, <4>2, LooksNew
        <4>4. QED BY <2>1, <4>3 DEF AttendedTo
      <3>3. QED BY <3>1, <3>2
    <2>3. QED BY <2>2 DEF Attended, AttendedTo, Watched, LookedAt, Looks
  <1>5. ASSUME \E n \in Msgs : ClientStep(n)
        PROVE  Attended'
    BY <1>5, AttendedClient DEF Attended, AttendedTo, Watched, LookedAt, Looks
  <1>6. CASE FinishDrain \/ FinishAckTimeout
    BY <1>6, AttendedReads DEF Attended, AttendedTo, Watched, LookedAt, Looks
  <1>7. CASE UNCHANGED vars
    BY <1>2, <1>7 DEF vars, netVars
  <1>8. QED BY <1>1, <1>2, <1>3, <1>4, <1>5, <1>6, <1>7 DEF Next

\* A stored message on an open connection always has a timer or a read that will look
\* at it, as long as the storage is read before the socket is opened again
\* (outbox.ts:236, ws-client.ts:113): what retries it is never lost with the record of
\* a send, with an ACK of another message or with a read that came too early.
THEOREM StoredIsAttended == ASSUME ~SlowStorage PROVE Spec => []Attended
  <1>1. Init => Attended
    BY DEF Init, Attended
  <1>2. TypeInv /\ Attended /\ [Next]_vars => Attended'
    BY AttendedStep
  <1>3. QED BY <1>1, <1>2, TypeInit, TypeStep, PTL DEF Spec
=============================================================================
