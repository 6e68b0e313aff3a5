-------------------------- MODULE ControllerProofs --------------------------
(***************************************************************************)
(* The two ways to an agent that MCSessions composes.  Controller mode, for *)
(* every number of turns, session objects and disturbances: one turn at a   *)
(* time works with a session, a turn is given its own answer, and a reset   *)
(* forgets the conversation.  The OpenClaw adapter, for any turns, text and *)
(* number of sockets and losses: what a turn passes on, and how it ends.    *)
(*                                                                          *)
(* What carries the text of the adapter: the events of a run are in order   *)
(* on each socket, a turn that listens has one socket (or is marked as      *)
(* doubled), and what is in its queue comes after what it has shown and     *)
(* before what is still under way.                                          *)
(***************************************************************************)
EXTENDS MCSessions, TLAPS

Tells(q, r)    == \E i \in DOMAIN q : q[i].of = r
Contains(b, r) == \E i \in DOMAIN b : b[i] = r

-----------------------------------------------------------------------------
(* Queues *)

LEMMA HeadTail ==
  ASSUME NEW S, NEW s \in Seq(S), s # <<>>
  PROVE  /\ Head(s) \in S /\ Tail(s) \in Seq(S)
         /\ 1 \in DOMAIN s /\ Head(s) = s[1]
         /\ \A i \in DOMAIN Tail(s) : i + 1 \in DOMAIN s /\ Tail(s)[i] = s[i + 1]
  OBVIOUS

LEMMA Appended ==
  ASSUME NEW S, NEW s \in Seq(S), NEW e \in S
  PROVE  /\ Append(s, e) \in Seq(S)
         /\ \A i \in DOMAIN Append(s, e) :
              \/ i \in DOMAIN s /\ Append(s, e)[i] = s[i]
              \/ Append(s, e)[i] = e
  OBVIOUS

(* Nothing new is heard by reading the first message, ... *)
LEMMA TailTells ==
  ASSUME NEW q \in Seq(Message), q # <<>>, NEW r
  PROVE  /\ Head(q) \in Message /\ Tail(q) \in Seq(Message)
         /\ Head(q).of = r => Tells(q, r)
         /\ Tells(Tail(q), r) => Tells(q, r)
  <1>1. /\ Head(q) \in Message /\ Tail(q) \in Seq(Message)
        /\ 1 \in DOMAIN q /\ Head(q) = q[1]
        /\ \A i \in DOMAIN Tail(q) : i + 1 \in DOMAIN q /\ Tail(q)[i] = q[i + 1]
    BY HeadTail
  <1>2. QED BY <1>1 DEF Tells

LEMMA AppendTells ==
  ASSUME NEW q \in Seq(Message), NEW m \in Message, NEW r
  PROVE  /\ Append(q, m) \in Seq(Message)
         /\ Tells(Append(q, m), r) => Tells(q, r) \/ m.of = r
  <1>1. /\ Append(q, m) \in Seq(Message)
        /\ \A i \in DOMAIN Append(q, m) :
             \/ i \in DOMAIN q /\ Append(q, m)[i] = q[i]
             \/ Append(q, m)[i] = m
    BY Appended
  <1>2. QED BY <1>1 DEF Tells

(* ... and the same of what was written to the process. *)
LEMMA TailContains ==
  ASSUME NEW b \in Seq(Readers), b # <<>>, NEW r
  PROVE  /\ Head(b) \in Readers /\ Tail(b) \in Seq(Readers)
         /\ Head(b) = r => Contains(b, r)
         /\ Contains(Tail(b), r) => Contains(b, r)
  <1>1. /\ Head(b) \in Readers /\ Tail(b) \in Seq(Readers)
        /\ 1 \in DOMAIN b /\ Head(b) = b[1]
        /\ \A i \in DOMAIN Tail(b) : i + 1 \in DOMAIN b /\ Tail(b)[i] = b[i + 1]
    BY HeadTail
  <1>2. QED BY <1>1 DEF Contains

LEMMA AppendContains ==
  ASSUME NEW b \in Seq(Readers), NEW e \in Readers, NEW r
  PROVE  /\ Append(b, e) \in Seq(Readers)
         /\ Contains(Append(b, e), r) => Contains(b, r) \/ e = r
  <1>1. /\ Append(b, e) \in Seq(Readers)
        /\ \A i \in DOMAIN Append(b, e) :
             \/ i \in DOMAIN b /\ Append(b, e)[i] = b[i]
             \/ Append(b, e)[i] = e
    BY Appended
  <1>2. QED BY <1>1 DEF Contains

LEMMA EmptySays ==
  ASSUME NEW r
  PROVE  ~Tells(<<>>, r) /\ ~Contains(<<>>, r)
  BY DEF Tells, Contains

-----------------------------------------------------------------------------
(* Types *)

(* A reader that writes or reads has an object, and /compact never spawns one. *)
Placed ==
  /\ \A r \in Readers : pc[r] \in {"spawning", "reading"} => obj[r] \in Gens
  /\ pc[Compact] \notin {"stopping", "spawning"}

TypeInv == TypeOK /\ Placed

Phases == {"new", "stopping", "spawning", "reading"} \cup Ended

LEMMA TypeFacts ==
  ASSUME TypeOK
  PROVE  /\ pc \in [Readers -> Phases] /\ obj \in [Readers -> 0..MaxGen]
         /\ held \in [Turns -> Nat] /\ lockGen \in Nat /\ lockGen > 0
         /\ current \in 0..MaxGen /\ made \in 0..MaxGen
         /\ alive \in [Gens -> BOOLEAN] /\ exited \in [Gens -> BOOLEAN]
         /\ conv \in [Gens -> Convs]
         /\ queue \in [Gens -> Seq(Message)] /\ inbox \in [Gens -> Seq(Readers)]
         /\ told \in [Gens -> {"idle", "begun"}]
         /\ memId \in Convs /\ diskId \in Convs /\ stopping \in {"no", "reset", "remove"}
         /\ got \in [Readers -> SUBSET Readers] /\ cut \subseteq Gens
         /\ forgotten \subseteq Convs /\ overlap \in BOOLEAN /\ unsaved \in BOOLEAN
         /\ faults \in 0..MaxFaults
  <1>1. lockGen \in Nat /\ lockGen > 0
    BY DEF TypeOK
  <1>2. QED BY <1>1 DEF TypeOK, Phases

LEMMA Constants ==
  /\ MaxGen \in Nat /\ MaxFaults \in Nat /\ Compact \notin Turns
  /\ Compact \in Readers /\ Turns \subseteq Readers
  /\ Gens = 1..MaxGen /\ Convs = 0..(MaxGen + 1)
  BY ControllerAssumption DEF Readers, Gens, Convs

LEMMA TypeInit == Init => TypeInv
  <1> SUFFICES ASSUME Init PROVE TypeInv
    OBVIOUS
  <1>1. /\ pc \in [Readers -> {"new", "stopping", "spawning", "reading"} \cup Ended]
        /\ obj \in [Readers -> 0..MaxGen] /\ held \in [Turns -> Nat] /\ lockGen \in Nat \ {0}
    BY Constants DEF Init
  <1>6. got \in [Readers -> SUBSET Readers] /\ cut \subseteq Gens
    BY DEF Init
  <1>2. /\ current \in 0..MaxGen /\ made \in 0..MaxGen /\ faults \in 0..MaxFaults
        /\ memId \in Convs /\ diskId \in Convs /\ stopping \in {"no", "reset", "remove"}
    BY Constants DEF Init
  <1>7. forgotten \subseteq Convs /\ overlap \in BOOLEAN /\ unsaved \in BOOLEAN
    BY Zenon DEF Init
  <1>3. /\ alive \in [Gens -> BOOLEAN] /\ exited \in [Gens -> BOOLEAN] /\ conv \in [Gens -> Convs]
        /\ told \in [Gens -> {"idle", "begun"}]
        /\ queue \in [Gens -> Seq(Message)]
        /\ inbox \in [Gens -> Seq(Readers)]
    BY Constants DEF Init
  <1>4. Placed
    BY Constants DEF Init, Placed
  <1>5. QED BY <1>1, <1>2, <1>3, <1>4, <1>6, <1>7 DEF TypeInv, TypeOK

(* The steps that a turn's way through the lock consists of. *)
Begin(t) == BeginRejected(t) \/ BeginReuse(t) \/ BeginFresh(t) \/ BeginDead(t)

LEMMA ConstructTypes ==
  ASSUME TypeInv, NEW t \in Turns, Construct(t)
  PROVE  /\ made' = made + 1 /\ made' \in 0..MaxGen /\ made' \in Gens
         /\ obj' \in [Readers -> 0..MaxGen] /\ obj'[t] = made'
         /\ \A r \in Readers \ {t} : obj'[r] = obj[r] /\ pc'[r] = pc[r]
         /\ pc' \in [Readers -> Phases] /\ pc'[t] = "spawning"
         /\ conv' \in [Gens -> Convs]
         /\ conv'[made'] = IF memId = 0 THEN made' ELSE memId
         /\ \A g \in Gens \ {made'} : conv'[g] = conv[g]
         /\ overlap' \in BOOLEAN /\ overlap' = (overlap \/ stopping = "reset")
  <1>1. /\ made \in 0..MaxGen /\ obj \in [Readers -> 0..MaxGen] /\ pc \in [Readers -> Phases]
        /\ conv \in [Gens -> Convs] /\ memId \in Convs /\ overlap \in BOOLEAN /\ t \in Readers
    BY Constants, TypeFacts DEF TypeInv
  <1>2. made' = made + 1 /\ made' \in 0..MaxGen /\ made' \in Gens /\ made' \in Convs
    BY <1>1, Constants DEF Construct
  <1>3. obj' = [obj EXCEPT ![t] = made'] /\ pc' = [pc EXCEPT ![t] = "spawning"]
        /\ conv' = [conv EXCEPT ![made'] = IF memId = 0 THEN made' ELSE memId]
        /\ overlap' = (overlap \/ stopping = "reset")
    BY <1>2 DEF Construct
  <1>4. (IF memId = 0 THEN made' ELSE memId) \in Convs
    BY <1>1, <1>2
  <1>5. /\ conv' \in [Gens -> Convs]
        /\ conv'[made'] = IF memId = 0 THEN made' ELSE memId
        /\ \A g \in Gens \ {made'} : conv'[g] = conv[g]
    BY <1>1, <1>2, <1>3, <1>4
  <1>6. "spawning" \in Phases
    BY DEF Phases
  <1>7. QED BY <1>1, <1>2, <1>3, <1>5, <1>6

(* Only its own turn is moved by a write, whose text goes behind the others. *)
LEMMA WriteTypes ==
  ASSUME TypeInv, NEW r \in Readers, NEW g \in Gens, Write(r, g)
  PROVE  /\ inbox' \in [Gens -> Seq(Readers)] /\ inbox'[g] = Append(inbox[g], r)
         /\ \A h \in Gens \ {g} : inbox'[h] = inbox[h]
         /\ pc' \in [Readers -> Phases] /\ pc'[r] = "reading"
         /\ obj' \in [Readers -> 0..MaxGen] /\ obj'[r] = g
         /\ \A q \in Readers \ {r} : pc'[q] = pc[q] /\ obj'[q] = obj[q]
  <1>1. /\ obj \in [Readers -> 0..MaxGen] /\ pc \in [Readers -> Phases]
        /\ inbox \in [Gens -> Seq(Readers)] /\ g \in 0..MaxGen
    BY Constants, TypeFacts DEF TypeInv
  <1>2. Append(inbox[g], r) \in Seq(Readers)
    BY <1>1, AppendContains
  <1>3. /\ inbox' = [inbox EXCEPT ![g] = Append(inbox[g], r)]
        /\ pc' = [pc EXCEPT ![r] = "reading"] /\ obj' = [obj EXCEPT ![r] = g]
    BY DEF Write
  <1>4. "reading" \in Phases
    BY DEF Phases
  <1>5. QED BY <1>1, <1>2, <1>3, <1>4

LEMMA LeaveTypes ==
  ASSUME TypeInv, NEW r \in Readers, NEW how \in Ended, Leave(r, how)
  PROVE  /\ pc' \in [Readers -> Phases] /\ pc'[r] = how
         /\ \A q \in Readers \ {r} : pc'[q] = pc[q]
         /\ held' \in [Turns -> Nat] /\ (r \in Turns => held'[r] = 0)
         /\ \A t \in Turns \ {r} : held'[t] = held[t]
  <1>1. pc \in [Readers -> Phases] /\ held \in [Turns -> Nat]
    BY TypeFacts DEF TypeInv
  <1>2. /\ pc' = [pc EXCEPT ![r] = how]
        /\ held' = IF r \in Turns THEN [held EXCEPT ![r] = 0] ELSE held
    BY DEF Leave
  <1>3. how \in Phases
    BY DEF Phases
  <1>4. QED BY <1>1, <1>2, <1>3

LEMMA TakeLockTypes ==
  ASSUME TypeInv, NEW t \in Turns, TakeLock(t)
  PROVE  /\ held' \in [Turns -> Nat] /\ held'[t] = lockGen
         /\ \A u \in Turns \ {t} : held'[u] = held[u]
         /\ pc[t] = "new" /\ ~Locked
  <1>1. held \in [Turns -> Nat] /\ lockGen \in Nat
    BY TypeFacts DEF TypeInv
  <1>2. held' = [held EXCEPT ![t] = lockGen] /\ pc[t] = "new" /\ ~Locked
    BY DEF TakeLock
  <1>3. QED BY <1>1, <1>2
-----------------------------------------------------------------------------
(* Every step keeps the types. *)

LEMMA BeginTypes == ASSUME TypeInv, NEW t \in Turns, Begin(t) PROVE TypeInv'
  <1>0. TypeOK /\ Placed
    BY DEF TypeInv
  <1>1. CASE BeginRejected(t)
    <2>1. pc' = [pc EXCEPT ![t] = "rejected"] /\ t \in Readers /\ "rejected" \in Phases
      BY <1>1, Constants DEF BeginRejected, Phases, Ended
    <2>2. pc' \in [Readers -> Phases]
      BY <1>0, <2>1, TypeFacts
    <2>3. Placed'
      BY <1>0, <1>1, <2>1, TypeFacts, Constants DEF Placed, BeginRejected
    <2>4. QED
      BY <1>0, <1>1, <2>2, <2>3, TypeFacts DEF TypeInv, TypeOK, Phases, BeginRejected, sessionVars, historyVars
  <1>2. CASE BeginReuse(t)
    <2>1. current \in Gens /\ t \in Readers
      BY <1>0, <1>2, TypeFacts, Constants DEF BeginReuse, IsAlive
    <2>2. Placed'
      <3>1. Write(t, current)
        BY <1>2 DEF BeginReuse
      <3>2. \A q \in Readers \ {t} : pc'[q] = pc[q] /\ obj'[q] = obj[q]
        BY <2>1, <3>1, WriteTypes
      <3>3. pc'[t] = "reading" /\ obj'[t] = current
        BY <2>1, <3>1, WriteTypes
      <3>4. QED BY <1>0, <2>1, <3>2, <3>3, Constants DEF Placed
    <2>3. QED
      BY <1>0, <1>2, <2>1, <2>2, TypeFacts, WriteTypes, TakeLockTypes
         DEF TypeOK, Phases, BeginReuse, TypeInv, historyVars
  <1>3. CASE BeginFresh(t)
    <2>1. Placed'
      BY <1>0, <1>3, Constants, ConstructTypes DEF BeginFresh, Placed, TypeInv
    <2>2. QED
      BY <1>0, <1>3, <2>1, TypeFacts, ConstructTypes, TakeLockTypes
         DEF TypeOK, Phases, BeginFresh, TypeInv
  <1>4. CASE BeginDead(t)
    <2>1. pc' = [pc EXCEPT ![t] = "stopping"] /\ t \in Readers /\ "stopping" \in Phases
      BY <1>4, Constants DEF BeginDead, Phases
    <2>2. pc' \in [Readers -> Phases]
      BY <1>0, <2>1, TypeFacts
    <2>3. alive' \in [Gens -> BOOLEAN]
      BY <1>0, <1>4, TypeFacts DEF BeginDead
    <2>4. Placed'
      BY <1>0, <1>4, <2>1, TypeFacts, Constants DEF Placed, BeginDead
    <2>5. QED
      BY <1>0, <1>4, <2>2, <2>3, <2>4, TypeFacts, TakeLockTypes
         DEF TypeOK, Phases, BeginDead, historyVars, TypeInv
  <1>5. QED BY <1>1, <1>2, <1>3, <1>4 DEF Begin

LEMMA SpawnTypes ==
  ASSUME TypeInv, NEW t \in Turns, DeadStopped(t) \/ Spawned(t) \/ SpawnFails(t) \/ Abort(t)
  PROVE  TypeInv'
  <1>0. TypeOK /\ Placed /\ t \in Readers
    BY Constants DEF TypeInv
  <1>1. CASE DeadStopped(t)
    <2>1. Placed'
      BY <1>0, <1>1, Constants, ConstructTypes DEF DeadStopped, Placed, TypeInv
    <2>2. QED
      BY <1>0, <1>1, <2>1, TypeFacts, ConstructTypes DEF TypeOK, Phases, DeadStopped, TypeInv
  <1>2. CASE Spawned(t)
    <2>1. obj[t] \in Gens
      BY <1>0, <1>2 DEF Spawned, Placed
    <2>2. Placed'
      BY <1>0, <1>2, <2>1, Constants, WriteTypes DEF Spawned, Placed, TypeInv
    <2>3. alive' \in [Gens -> BOOLEAN] /\ current' \in 0..MaxGen
      BY <1>0, <1>2, <2>1, TypeFacts, Constants DEF Spawned
    <2>4. QED
      BY <1>0, <1>2, <2>1, <2>2, <2>3, TypeFacts, WriteTypes
         DEF TypeOK, Phases, Spawned, TypeInv, historyVars
  <1>3. CASE SpawnFails(t)
    <2>1. "failed" \in Ended
      BY DEF Ended
    <2>2. Placed'
      BY <1>0, <1>3, <2>1, Constants, LeaveTypes DEF SpawnFails, Placed, TypeInv
    <2>3. QED
      BY <1>0, <1>3, <2>1, <2>2, TypeFacts, LeaveTypes
         DEF TypeOK, Phases, SpawnFails, TypeInv, sessionVars, historyVars
  <1>4. CASE Abort(t)
    <2>1. "aborted" \in Ended
      BY DEF Ended
    <2>2. Placed'
      BY <1>0, <1>4, <2>1, Constants, LeaveTypes DEF Abort, Placed, TypeInv
    <2>3. faults' \in 0..MaxFaults
      BY <1>0, <1>4, TypeFacts, Constants DEF Abort, Disturb
    <2>4. cut' \subseteq Gens
      BY <1>0, <1>4, TypeFacts DEF Abort, Placed
    <2>5. QED
      BY <1>0, <1>4, <2>1, <2>2, <2>3, <2>4, TypeFacts, LeaveTypes
         DEF TypeOK, Phases, Abort, TypeInv, sessionVars
  <1>5. QED BY <1>1, <1>2, <1>3, <1>4

LEMMA NamedTypes ==
  ASSUME TypeOK, NEW m, NEW g \in Gens
  PROVE  Named(m, g) \in Convs
  BY TypeFacts, Constants DEF Named

LEMMA ReadTypes ==
  ASSUME TypeInv, NEW r \in Readers, BeginCompact \/ Read(r) \/ ReadTimeout(r)
  PROVE  TypeInv'
  <1>0. TypeOK /\ Placed
    BY DEF TypeInv
  <1>1. CASE BeginCompact
    <2>1. CASE IsAlive(current)
      <3>1. current \in Gens /\ Compact \in Readers /\ Write(Compact, current)
        BY <1>0, <1>1, <2>1, TypeFacts, Constants DEF BeginCompact, IsAlive
      <3>2. Placed'
        <4>1. \A q \in Readers \ {Compact} : pc'[q] = pc[q] /\ obj'[q] = obj[q]
          BY <3>1, WriteTypes
        <4>2. pc'[Compact] = "reading" /\ obj'[Compact] = current
          BY <3>1, WriteTypes
        <4>3. QED BY <1>0, <3>1, <4>1, <4>2 DEF Placed
      <3>3. QED
        BY <1>0, <1>1, <3>1, <3>2, TypeFacts, WriteTypes
           DEF TypeOK, Phases, BeginCompact, TypeInv, historyVars
    <2>2. CASE ~IsAlive(current)
      <3>1. /\ pc' = [pc EXCEPT ![Compact] = "failed"] /\ UNCHANGED <<obj, inbox>>
            /\ "failed" \in Phases
        BY <1>1, <2>2 DEF BeginCompact, Phases, Ended
      <3>2. pc' \in [Readers -> Phases]
        BY <1>0, <3>1, TypeFacts
      <3>3. Placed'
        BY <1>0, <3>1, TypeFacts, Constants DEF Placed
      <3>4. QED
        BY <1>0, <1>1, <3>1, <3>2, <3>3, TypeFacts DEF TypeInv, TypeOK, Phases, BeginCompact, historyVars
    <2>3. QED BY <2>1, <2>2
  <1>2. CASE Read(r)
    <2> DEFINE g == obj[r]
    <2> DEFINE m == Head(queue[g])
    <2>1. g \in Gens /\ queue[g] \in Seq(Message) /\ queue[g] # <<>>
      BY <1>0, <1>2, TypeFacts DEF Read, Placed
    <2>2. m \in Message /\ Tail(queue[g]) \in Seq(Message)
      BY <2>1, HeadTail
    <2>3. /\ queue' = [queue EXCEPT ![g] = Tail(@)] /\ Bind(r, m, g)
          /\ got' = [got EXCEPT ![r] = @ \cup {m.of}]
          /\ Leave(r, "ended") \/ UNCHANGED <<pc, held>>
          /\ cut' = cut \cup {g} \/ cut' = cut
      BY <1>2 DEF Read
    <2>4. m.of \in Readers
      BY <2>2 DEF Message
    <2>5. queue' \in [Gens -> Seq(Message)]
      BY <1>0, <2>1, <2>2, <2>3, TypeFacts
    <2>6. got' \in [Readers -> SUBSET Readers]
      BY <1>0, <2>3, <2>4, TypeFacts
    <2>7. memId' \in Convs /\ diskId' \in Convs
      <3>1. Named(m, g) \in Convs /\ memId \in Convs /\ diskId \in Convs
        BY <1>0, <2>1, TypeFacts, NamedTypes
      <3>2. CASE m.kind = "init"
        <4>1. memId' = Named(m, g) /\ diskId' = (IF r \in Turns THEN memId' ELSE diskId)
          BY <2>3, <3>2 DEF Bind
        <4>2. QED BY <3>1, <4>1
      <3>3. CASE m.kind # "init"
        BY <2>3, <3>1, <3>3 DEF Bind
      <3>4. QED BY <3>2, <3>3
    <2>8. unsaved' \in BOOLEAN
      BY <1>0, <2>3, TypeFacts, Zenon DEF Bind
    <2>9. /\ pc' \in [Readers -> Phases] /\ held' \in [Turns -> Nat]
          /\ \A q \in Readers : pc'[q] = pc[q] \/ pc'[q] = "ended"
      BY <1>0, <2>3, TypeFacts, LeaveTypes DEF TypeInv, Ended
    <2>10. Placed'
      BY <1>0, <1>2, <2>9, Constants DEF Placed, Read
    <2>11. cut' \subseteq Gens
      BY <1>0, <2>1, <2>3, TypeFacts
    <2>12. QED
      BY <1>0, <1>2, <2>5, <2>6, <2>7, <2>8, <2>9, <2>10, <2>11, TypeFacts DEF TypeInv, TypeOK, Phases, Read
  <1>3. CASE ReadTimeout(r)
    <2>1. "ended" \in Ended
      BY DEF Ended
    <2>2. Placed'
      BY <1>0, <1>3, <2>1, Constants, LeaveTypes DEF ReadTimeout, Placed, TypeInv
    <2>3. cut' \subseteq Gens
      BY <1>0, <1>3, TypeFacts DEF ReadTimeout, Placed
    <2>4. QED
      BY <1>0, <1>3, <2>1, <2>2, <2>3, TypeFacts, LeaveTypes
         DEF TypeOK, Phases, ReadTimeout, TypeInv, sessionVars
  <1>4. QED BY <1>1, <1>2, <1>3

(* What a completed reset or removal leaves behind. *)
LEMMA ForgetTypes ==
  ASSUME TypeInv, NEW kind \in {"reset", "remove"}, Forget(kind)
  PROVE  /\ memId' \in Convs /\ diskId' \in Convs /\ forgotten' \subseteq Convs
         /\ unsaved' \in BOOLEAN /\ lockGen' \in Nat /\ lockGen' >= lockGen
         /\ memId' = 0 /\ diskId' \in {0, diskId}
         /\ kind = "reset" => diskId' = 0 /\ forgotten' = forgotten \cup ({memId, diskId} \ {0})
         /\ kind = "remove" => UNCHANGED <<diskId, forgotten>>
  <1>0. /\ memId \in Convs /\ diskId \in Convs /\ forgotten \subseteq Convs /\ lockGen \in Nat
        /\ 0 \in Convs
    BY TypeFacts, Constants DEF TypeInv
  <1>1. unsaved' \in BOOLEAN
    BY <1>0, Zenon DEF Forget
  <1>2. CASE kind = "reset"
    <2>1. /\ memId' = 0 /\ diskId' = 0 /\ lockGen' = lockGen
          /\ forgotten' = forgotten \cup ({memId, diskId} \ {0})
      BY <1>2 DEF Forget
    <2>2. QED BY <1>0, <1>1, <1>2, <2>1
  <1>3. CASE kind = "remove"
    <2>1. memId' = 0 /\ diskId' = diskId /\ lockGen' = lockGen + 1 /\ forgotten' = forgotten
      BY <1>3 DEF Forget
    <2>2. QED BY <1>0, <1>1, <1>3, <2>1
  <1>4. QED BY <1>2, <1>3

LEMMA DisturbTypes == ASSUME TypeInv, Disturb PROVE faults' \in 0..MaxFaults
  BY TypeFacts, Constants DEF TypeInv, Disturb

LEMMA OtherTypes ==
  ASSUME TypeInv, NEW kind \in {"reset", "remove"},
         StopBegin(kind) \/ StopEnd \/ SlashReply \/ Restart
  PROVE  TypeInv'
  <1>0. TypeOK /\ Placed
    BY DEF TypeInv
  <1>1. CASE StopBegin(kind)
    <2>1. faults' \in 0..MaxFaults /\ overlap' \in BOOLEAN
      BY <1>0, <1>1, TypeFacts, DisturbTypes DEF StopBegin, TypeInv
    <2>2. Placed'
      BY <1>0, <1>1 DEF Placed, StopBegin
    <2>3. CASE current = 0
      <3>1. Forget(kind) /\ UNCHANGED <<stopping, current, alive, exited>>
        BY <1>1, <2>3 DEF StopBegin
      <3>2. /\ memId' \in Convs /\ diskId' \in Convs /\ forgotten' \subseteq Convs
            /\ unsaved' \in BOOLEAN /\ lockGen' \in Nat /\ lockGen' > 0
        BY <1>0, <3>1, TypeFacts, ForgetTypes DEF TypeInv
      <3>3. QED
        BY <1>0, <1>1, <2>1, <2>2, <3>1, <3>2, TypeFacts DEF StopBegin, TypeInv, TypeOK, Phases
    <2>4. CASE current # 0
      <3>1. /\ current' = 0 /\ stopping' = kind /\ Stop(current)
            /\ UNCHANGED <<memId, diskId, unsaved, forgotten, lockGen>>
        BY <1>1, <2>4 DEF StopBegin
      <3>2. alive' \in [Gens -> BOOLEAN] /\ exited' \in [Gens -> BOOLEAN]
        BY <1>0, <3>1, TypeFacts DEF Stop
      <3>3. QED
        <4>1. current' \in 0..MaxGen /\ stopping' \in {"no", "reset", "remove"}
          BY <3>1, Constants
        <4>2. QED
          BY <1>0, <1>1, <2>1, <2>2, <3>1, <3>2, <4>1, TypeFacts
           DEF StopBegin, TypeInv, TypeOK, Phases
    <2>5. QED BY <2>3, <2>4
  <1>2. CASE StopEnd
    <2>1. stopping \in {"reset", "remove"} /\ Forget(stopping)
      BY <1>0, <1>2, TypeFacts DEF StopEnd
    <2>2. /\ memId' \in Convs /\ diskId' \in Convs /\ forgotten' \subseteq Convs
          /\ unsaved' \in BOOLEAN /\ lockGen' \in Nat /\ lockGen' > 0
      BY <1>0, <2>1, TypeFacts, ForgetTypes DEF TypeInv
    <2>3. Placed'
      BY <1>0, <1>2 DEF Placed, StopEnd
    <2>4. QED
      BY <1>0, <1>2, <2>2, <2>3, TypeFacts DEF StopEnd, TypeInv, TypeOK, Phases, sessionVars
  <1>3. CASE SlashReply
    <2>1. alive' \in [Gens -> BOOLEAN] /\ exited' \in [Gens -> BOOLEAN]
      BY <1>0, <1>3, TypeFacts DEF SlashReply, Stop
    <2>2. faults' \in 0..MaxFaults
      BY <1>0, <1>3, DisturbTypes DEF SlashReply, TypeInv
    <2>3. Placed'
      BY <1>0, <1>3 DEF Placed, SlashReply, adapterVars
    <2>4. QED
      BY <1>0, <1>3, <2>1, <2>2, <2>3, TypeFacts
         DEF SlashReply, TypeInv, TypeOK, Phases, adapterVars, historyVars
  <1>4. CASE Restart
    <2>1. faults' \in 0..MaxFaults
      BY <1>0, <1>4, DisturbTypes DEF Restart, TypeInv
    <2>2. /\ pc' \in [Readers -> Phases]
          /\ \A r \in Readers : pc'[r] \in {pc[r], "aborted"}
      BY <1>0, <1>4, TypeFacts DEF Restart, Phases, Ended
    <2>3. Placed'
      BY <1>0, <1>4, <2>2, Constants DEF Placed, Restart
    <2>4. held' \in [Turns -> Nat] /\ alive' \in [Gens -> BOOLEAN] /\ current' \in 0..MaxGen
      BY <1>4, Constants DEF Restart
    <2>5. exited' \in [Gens -> BOOLEAN]
      BY <1>4 DEF Restart
    <2>6. memId' \in Convs /\ stopping' \in {"no", "reset", "remove"}
      BY <1>0, <1>4, TypeFacts DEF Restart
    <2>7. unsaved' \in BOOLEAN
      BY <1>4 DEF Restart
    <2>8. QED
      BY <1>0, <1>4, <2>1, <2>2, <2>3, <2>4, <2>5, <2>6, <2>7, TypeFacts
         DEF Restart, TypeInv, TypeOK, Phases
  <1>5. QED BY <1>1, <1>2, <1>3, <1>4

LEMMA CliTypes ==
  ASSUME TypeInv, NEW g \in Gens,
         CliInit(g) \/ CliResult(g) \/ CliExits(g) \/ ReaderEnds(g)
  PROVE  TypeInv'
  <1>0. TypeOK /\ Placed
    BY DEF TypeInv
  <1>1. CASE CliInit(g) \/ CliResult(g)
    <2>1. PICK kind \in {"init", "result"}, to \in {"idle", "begun"} :
             /\ inbox[g] # <<>> /\ told' = [told EXCEPT ![g] = to]
             /\ queue' = [queue EXCEPT ![g] = Append(@, Msg(kind, Head(inbox[g])))]
             /\ UNCHANGED <<adapterVars, alive, exited, conv, historyVars, faults>>
             /\ inbox' = inbox \/ inbox' = [inbox EXCEPT ![g] = Tail(@)]
      BY <1>1 DEF CliInit, CliResult, CliSays, Running
    <2>2. Head(inbox[g]) \in Readers /\ Tail(inbox[g]) \in Seq(Readers)
      BY <1>0, <2>1, TypeFacts, HeadTail
    <2>3. Append(queue[g], Msg(kind, Head(inbox[g]))) \in Seq(Message)
      <3>1. Msg(kind, Head(inbox[g])) \in Message /\ queue[g] \in Seq(Message)
        BY <1>0, <2>2, TypeFacts DEF Msg, Message
      <3>2. QED BY <3>1, AppendTells
    <2>4. queue' \in [Gens -> Seq(Message)]
      BY <1>0, <2>1, <2>3, TypeFacts
    <2>5. inbox' \in [Gens -> Seq(Readers)]
      BY <1>0, <2>1, <2>2, TypeFacts
    <2>6. told' \in [Gens -> {"idle", "begun"}]
      BY <1>0, <2>1, TypeFacts
    <2>7. Placed'
      BY <1>0, <2>1 DEF Placed, adapterVars
    <2>8. QED
      BY <1>0, <2>1, <2>4, <2>5, <2>6, <2>7, TypeFacts
         DEF TypeInv, TypeOK, Phases, adapterVars, historyVars
  <1>2. CASE CliExits(g)
    <2>1. faults' \in 0..MaxFaults
      BY <1>0, <1>2, DisturbTypes DEF CliExits, TypeInv
    <2>2. exited' \in [Gens -> BOOLEAN]
      BY <1>0, <1>2, TypeFacts DEF CliExits
    <2>3. Placed'
      BY <1>0, <1>2 DEF Placed, CliExits, adapterVars
    <2>4. QED
      BY <1>0, <1>2, <2>1, <2>2, <2>3, TypeFacts
         DEF CliExits, TypeInv, TypeOK, Phases, adapterVars, historyVars
  <1>3. CASE ReaderEnds(g)
    <2>1. alive' \in [Gens -> BOOLEAN]
      BY <1>0, <1>3, TypeFacts DEF ReaderEnds
    <2>2. Placed'
      BY <1>0, <1>3 DEF Placed, ReaderEnds, adapterVars
    <2>3. QED
      BY <1>0, <1>3, <2>1, <2>2, TypeFacts
         DEF ReaderEnds, TypeInv, TypeOK, Phases, adapterVars, historyVars
  <1>4. QED BY <1>1, <1>2, <1>3

LEMMA TypeStep == TypeInv /\ [Next]_vars => TypeInv'
  <1> SUFFICES ASSUME TypeInv, [Next]_vars PROVE TypeInv'
    OBVIOUS
  <1>1. ASSUME NEW t \in Turns, TurnStep(t) PROVE TypeInv'
    BY <1>1, BeginTypes, SpawnTypes DEF TurnStep, Begin
  <1>2. ASSUME BeginCompact PROVE TypeInv'
    BY <1>2, ReadTypes, Constants
  <1>3. ASSUME NEW r \in Readers, Read(r) \/ ReadTimeout(r) PROVE TypeInv'
    BY <1>3, ReadTypes
  <1>4. ASSUME NEW kind \in {"reset", "remove"}, StopBegin(kind) PROVE TypeInv'
    BY <1>4, OtherTypes
  <1>5. ASSUME StopEnd \/ SlashReply \/ Restart PROVE TypeInv'
    BY <1>5, OtherTypes
  <1>6. ASSUME NEW g \in Gens, CliInit(g) \/ CliResult(g) \/ CliExits(g) \/ ReaderEnds(g)
        PROVE  TypeInv'
    BY <1>6, CliTypes
  <1>7. ASSUME UNCHANGED vars PROVE TypeInv'
    BY <1>7 DEF TypeInv, TypeOK, Placed, vars, adapterVars, sessionVars, historyVars
  <1>8. QED BY <1>1, <1>2, <1>3, <1>4, <1>5, <1>6, <1>7 DEF Next
-----------------------------------------------------------------------------
(* The lock *)

Working == {"stopping", "spawning", "reading"}

(* A turn at work holds a lock object of its own, which may have been        *)
(* dropped from the table since: no two turns hold the same.                 *)
LockInv ==
  /\ \A t \in Turns : held[t] <= lockGen /\ (pc[t] \in Working <=> held[t] # 0)
  /\ \A t, u \in Turns : held[t] = held[u] /\ held[t] # 0 => t = u

LEMMA LockInit == Init => LockInv
  <1> SUFFICES ASSUME Init PROVE LockInv
    OBVIOUS
  <1>1. \A t \in Turns : held[t] = 0 /\ pc[t] = "new"
    BY Constants DEF Init
  <1>2. lockGen = 1
    BY DEF Init
  <1>3. QED BY <1>1, <1>2 DEF LockInv, Working

(* A turn that gets the lock, ... *)
LEMMA LockTaken ==
  ASSUME TypeInv, LockInv, NEW t \in Turns, TakeLock(t), UNCHANGED lockGen,
         pc'[t] \in Working, \A u \in Turns \ {t} : pc'[u] = pc[u]
  PROVE  LockInv'
  <1>1. held \in [Turns -> Nat] /\ lockGen \in Nat /\ lockGen > 0
    BY TypeFacts DEF TypeInv
  <1>2. /\ held'[t] = lockGen /\ \A u \in Turns \ {t} : held'[u] = held[u]
        /\ \A u \in Turns : held[u] # lockGen
    BY TakeLockTypes DEF Locked
  <1>3. QED BY <1>1, <1>2 DEF LockInv

(* ... one that leaves it, ... *)
LEMMA LockLeft ==
  ASSUME TypeInv, LockInv, NEW r \in Readers, NEW how \in Ended, Leave(r, how), UNCHANGED lockGen
  PROVE  LockInv'
  <1>1. held \in [Turns -> Nat] /\ lockGen \in Nat
    BY TypeFacts DEF TypeInv
  <1>2. /\ \A t \in Turns \ {r} : held'[t] = held[t] /\ pc'[t] = pc[t]
        /\ r \in Turns => held'[r] = 0 /\ pc'[r] \notin Working
    BY LeaveTypes, Constants DEF Ended, Working
  <1>3. QED BY <1>1, <1>2 DEF LockInv

(* ... and one that does neither. *)
LEMMA LockKept ==
  ASSUME TypeInv, LockInv, UNCHANGED held, lockGen' \in Nat, lockGen' >= lockGen,
         \A t \in Turns : pc'[t] \in Working <=> pc[t] \in Working
  PROVE  LockInv'
  <1>1. held \in [Turns -> Nat] /\ lockGen \in Nat
    BY TypeFacts DEF TypeInv
  <1>2. QED BY <1>1 DEF LockInv

LEMMA LockStep == TypeInv /\ LockInv /\ [Next]_vars => LockInv'
  <1> SUFFICES ASSUME TypeInv, LockInv, [Next]_vars PROVE LockInv'
    OBVIOUS
  <1>0. pc \in [Readers -> Phases] /\ lockGen \in Nat /\ obj \in [Readers -> 0..MaxGen]
    BY TypeFacts DEF TypeInv
  <1>1. ASSUME NEW t \in Turns, TurnStep(t) PROVE LockInv'
    <2>0. t \in Readers
      BY Constants
    <2>1. CASE BeginRejected(t)
      <3>1. pc' = [pc EXCEPT ![t] = "rejected"] /\ pc[t] = "new"
        BY <2>1 DEF BeginRejected
      <3>2. \A u \in Turns : pc'[u] \in Working <=> pc[u] \in Working
        BY <1>0, <3>1, Constants DEF Working
      <3>3. QED BY <1>0, <2>1, <3>2, LockKept DEF BeginRejected
    <2>2. CASE BeginReuse(t)
      <3>1. current \in Gens
        BY <2>2, TypeFacts, Constants DEF BeginReuse, IsAlive, TypeInv
      <3>2. /\ pc'[t] \in Working /\ \A u \in Turns \ {t} : pc'[u] = pc[u]
        BY <2>0, <2>2, <3>1, Constants, WriteTypes DEF BeginReuse, Working
      <3>3. QED BY <2>2, <3>2, LockTaken DEF BeginReuse
    <2>3. CASE BeginFresh(t)
      <3>1. /\ pc'[t] \in Working /\ \A u \in Turns \ {t} : pc'[u] = pc[u]
        BY <2>0, <2>3, Constants, ConstructTypes DEF BeginFresh, Working
      <3>2. QED BY <2>3, <3>1, LockTaken DEF BeginFresh
    <2>4. CASE BeginDead(t)
      <3>1. /\ pc'[t] \in Working /\ \A u \in Turns \ {t} : pc'[u] = pc[u]
        BY <1>0, <2>0, <2>4, Constants DEF BeginDead, Working
      <3>2. QED BY <2>4, <3>1, LockTaken DEF BeginDead
    <2>5. CASE DeadStopped(t)
      <3>1. pc[t] \in Working /\ pc'[t] \in Working /\ \A u \in Turns \ {t} : pc'[u] = pc[u]
        BY <2>0, <2>5, Constants, ConstructTypes DEF DeadStopped, Working
      <3>2. QED BY <1>0, <2>5, <3>1, LockKept DEF DeadStopped
    <2>6. CASE Spawned(t)
      <3>1. obj[t] \in Gens
        BY <2>0, <2>6 DEF Spawned, TypeInv, Placed
      <3>2. pc[t] \in Working /\ pc'[t] \in Working /\ \A u \in Turns \ {t} : pc'[u] = pc[u]
        BY <2>0, <2>6, <3>1, Constants, WriteTypes DEF Spawned, Working
      <3>3. QED BY <1>0, <2>6, <3>2, LockKept DEF Spawned
    <2>7. CASE SpawnFails(t)
      BY <2>0, <2>7, LockLeft DEF SpawnFails, Ended
    <2>8. CASE Abort(t)
      BY <2>0, <2>8, LockLeft DEF Abort, Ended
    <2>9. QED BY <1>1, <2>1, <2>2, <2>3, <2>4, <2>5, <2>6, <2>7, <2>8 DEF TurnStep
  <1>2. ASSUME BeginCompact PROVE LockInv'
    <2>1. \A t \in Turns : pc'[t] = pc[t]
      BY <1>0, <1>2, Constants DEF BeginCompact, Write
    <2>2. QED BY <1>0, <1>2, <2>1, LockKept DEF BeginCompact
  <1>3. ASSUME NEW r \in Readers, Read(r) \/ ReadTimeout(r) PROVE LockInv'
    <2>1. lockGen' = lockGen /\ (Leave(r, "ended") \/ UNCHANGED <<pc, held>>)
      BY <1>3 DEF Read, ReadTimeout
    <2>2. QED BY <1>0, <2>1, LockLeft, LockKept DEF Ended
  <1>4. ASSUME NEW kind \in {"reset", "remove"}, StopBegin(kind) PROVE LockInv'
    <2>1. lockGen' \in Nat /\ lockGen' >= lockGen
      BY <1>0, <1>4, ForgetTypes DEF StopBegin
    <2>2. QED BY <1>4, <2>1, LockKept DEF StopBegin
  <1>5. ASSUME StopEnd PROVE LockInv'
    <2>1. lockGen' \in Nat /\ lockGen' >= lockGen
      BY <1>0, <1>5, ForgetTypes, TypeFacts DEF StopEnd, TypeInv
    <2>2. QED BY <1>5, <2>1, LockKept DEF StopEnd
  <1>6. ASSUME Restart PROVE LockInv'
    <2>1. \A t \in Turns : held'[t] = 0 /\ pc'[t] \notin Working /\ lockGen' = lockGen
      BY <1>0, <1>6, Constants DEF Restart, AtWork, Working
    <2>2. QED BY <1>0, <2>1 DEF LockInv
  <1>7. ASSUME \/ SlashReply
               \/ \E g \in Gens : CliInit(g) \/ CliResult(g) \/ CliExits(g) \/ ReaderEnds(g)
               \/ UNCHANGED vars
        PROVE  LockInv'
    <2>1. UNCHANGED adapterVars
      BY <1>7 DEF SlashReply, CliInit, CliResult, CliSays, CliExits, ReaderEnds, vars
    <2>2. QED BY <1>0, <2>1, LockKept DEF adapterVars
  <1>8. QED BY <1>1, <1>2, <1>3, <1>4, <1>5, <1>6, <1>7 DEF Next

(* With the first lock object no two turns are at work. *)
LEMMA AloneAtWork ==
  ASSUME TypeInv, LockInv, lockGen = 1, NEW t \in Turns, NEW u \in Turns,
         pc[t] \in Working, pc[u] \in Working
  PROVE  t = u /\ held[t] = 1 /\ Locked
  BY TypeFacts DEF TypeInv, LockInv, Locked

LEMMA LockSafe == TypeInv /\ LockInv => OneTurnReads
  BY AloneAtWork DEF OneTurnReads, Working

-----------------------------------------------------------------------------
(* The conversation that is persisted *)

LEMMA DiskInit == Init => DiskCurrent
  BY DEF Init, DiskCurrent

LEMMA DiskStep == TypeInv /\ DiskCurrent /\ [Next]_vars => DiskCurrent'
  <1> SUFFICES ASSUME TypeInv, DiskCurrent, [Next]_vars PROVE DiskCurrent'
    OBVIOUS
  <1>1. ASSUME UNCHANGED <<memId, diskId, unsaved>> PROVE DiskCurrent'
    BY <1>1, Zenon DEF DiskCurrent
  <1>2. ASSUME NEW t \in Turns, TurnStep(t) PROVE DiskCurrent'
    BY <1>1, <1>2, Zenon DEF TurnStep, BeginRejected, BeginReuse, BeginFresh, BeginDead, DeadStopped,
           Spawned, SpawnFails, Abort, historyVars
  <1>3. ASSUME BeginCompact PROVE DiskCurrent'
    BY <1>1, <1>3, Zenon DEF BeginCompact, historyVars
  <1>4. ASSUME NEW r \in Readers, Read(r) PROVE DiskCurrent'
    <2>1. PICK m, g : Bind(r, m, g)
      BY <1>4, Zenon DEF Read
    <2>2. QED BY <1>1, <2>1, Zenon DEF Bind, DiskCurrent
  <1>5. ASSUME NEW r \in Readers, ReadTimeout(r) PROVE DiskCurrent'
    BY <1>1, <1>5, Zenon DEF ReadTimeout
  <1>6. ASSUME NEW kind, Forget(kind) PROVE DiskCurrent'
    BY <1>6, Zenon DEF Forget, DiskCurrent
  <1>7. ASSUME NEW kind \in {"reset", "remove"}, StopBegin(kind) PROVE DiskCurrent'
    BY <1>1, <1>6, <1>7, Zenon DEF StopBegin
  <1>8. ASSUME StopEnd PROVE DiskCurrent'
    BY <1>6, <1>8, Zenon DEF StopEnd
  <1>9. ASSUME Restart PROVE DiskCurrent'
    BY <1>9, Zenon DEF Restart, DiskCurrent
  <1>10. ASSUME \/ SlashReply
                \/ \E g \in Gens : CliInit(g) \/ CliResult(g) \/ CliExits(g) \/ ReaderEnds(g)
                \/ UNCHANGED vars
         PROVE  DiskCurrent'
    BY <1>1, <1>10, Zenon DEF SlashReply, CliInit, CliResult, CliSays, CliExits, ReaderEnds, vars,
           adapterVars, historyVars
  <1>11. QED BY <1>2, <1>3, <1>4, <1>5, <1>7, <1>8, <1>9, <1>10 DEF Next
-----------------------------------------------------------------------------
(* Session objects and conversations *)

Silent(g) == queue[g] = <<>> /\ inbox[g] = <<>> /\ told[g] = "idle"

(* The conversations there can be: one per object constructed, and the       *)
(* compacted one.                                                            *)
Started == 1..made \cup {MaxGen + 1}

(* What nobody has constructed yet is not used, and nobody knows its         *)
(* conversation.                                                             *)
MadeInv ==
  /\ current <= made
  /\ \A r \in Readers : obj[r] <= made
  /\ \A g \in Gens : g > made => Silent(g) /\ g \notin cut
  /\ \A g \in Gens : conv[g] \in Started \cup {0}
  /\ memId \in Started \cup {0} /\ diskId \in Started \cup {0}
  /\ forgotten \subseteq Started

LEMMA MadeInit == Init => MadeInv
  <1> SUFFICES ASSUME Init PROVE MadeInv
    OBVIOUS
  <1>1. /\ current = 0 /\ made = 0 /\ memId = 0 /\ diskId = 0 /\ forgotten = {} /\ cut = {}
        /\ \A r \in Readers : obj[r] = 0
        /\ \A g \in Gens : queue[g] = <<>> /\ inbox[g] = <<>> /\ told[g] = "idle" /\ conv[g] = 0
    BY DEF Init
  <1>2. QED BY <1>1 DEF MadeInv, Silent

(* A step that constructs nothing. *)
LEMMA MadeKept ==
  ASSUME TypeInv, MadeInv, UNCHANGED <<made, conv>>, current' <= made,
         \A r \in Readers : obj'[r] <= made,
         \A g \in Gens : g > made => Silent(g)' /\ (g \in cut' => g \in cut),
         memId' \in Started \cup {0}, diskId' \in Started \cup {0}, forgotten' \subseteq Started
  PROVE  MadeInv'
  <1>1. made \in 0..MaxGen
    BY TypeFacts DEF TypeInv
  <1>2. Started' = Started
    BY DEF Started
  <1>3. QED BY <1>1, <1>2 DEF MadeInv

LEMMA MadeConstruct ==
  ASSUME TypeInv, MadeInv, NEW t \in Turns, Construct(t),
         UNCHANGED <<current, queue, inbox, told, memId, diskId, cut, forgotten>>
  PROVE  MadeInv'
  <1>1. /\ made \in 0..MaxGen /\ made' = made + 1 /\ made' \in Gens
        /\ \A r \in Readers : obj'[r] = obj[r] \/ obj'[r] = made'
        /\ obj \in [Readers -> 0..MaxGen] /\ current \in 0..MaxGen
    BY TypeFacts, ConstructTypes DEF TypeInv
  <1>2. conv'[made'] \in {memId, made'} /\ \A g \in Gens \ {made'} : conv'[g] = conv[g]
    BY ConstructTypes
  <1>3. Started' = Started \cup {made'} /\ made' \in Started'
    BY <1>1, Constants DEF Started
  <1>4. \A g \in Gens : conv'[g] \in Started' \cup {0}
    BY <1>2, <1>3 DEF MadeInv
  <1>5. current' <= made' /\ \A r \in Readers : obj'[r] <= made'
    BY <1>1 DEF MadeInv
  <1>6. \A g \in Gens : g > made' => Silent(g)' /\ g \notin cut'
    BY <1>1, Constants DEF MadeInv, Silent
  <1>7. QED BY <1>3, <1>4, <1>5, <1>6 DEF MadeInv

LEMMA MadeStep == TypeInv /\ MadeInv /\ [Next]_vars => MadeInv'
  <1> SUFFICES ASSUME TypeInv, MadeInv, [Next]_vars PROVE MadeInv'
    OBVIOUS
  <1>0. /\ made \in 0..MaxGen /\ obj \in [Readers -> 0..MaxGen] /\ current \in 0..MaxGen
        /\ queue \in [Gens -> Seq(Message)] /\ inbox \in [Gens -> Seq(Readers)]
        /\ told \in [Gens -> {"idle", "begun"}] /\ Placed
    BY TypeFacts DEF TypeInv
  <1>k. /\ current <= made /\ \A r \in Readers : obj[r] <= made
        /\ \A g \in Gens : g > made => Silent(g) /\ g \notin cut
        /\ \A g \in Gens : conv[g] \in Started \cup {0}
        /\ memId \in Started \cup {0} /\ diskId \in Started \cup {0}
        /\ forgotten \subseteq Started /\ MaxGen + 1 \in Started
    BY DEF MadeInv, Started
  <1>w. ASSUME NEW r \in Readers, NEW h \in Gens, h <= made, Write(r, h),
               UNCHANGED <<made, conv, queue, told, cut, memId, diskId, forgotten>>,
               current' \in {current, h}
        PROVE  MadeInv'
    <2>1. \A g \in Gens \ {h} : inbox'[g] = inbox[g]
      BY <1>w, WriteTypes
    <2>2. \A q \in Readers : obj'[q] \in {obj[q], h}
      BY <1>w, WriteTypes
    <2>3. \A g \in Gens : g > made => Silent(g)'
      <3>1. \A g \in Gens : g > made => g # h
        BY <1>0, <1>w, Constants
      <3>2. QED BY <1>k, <1>w, <2>1, <3>1 DEF Silent
    <2>4. QED BY <1>k, <1>w, <2>2, <2>3, MadeKept
  <1>s. ASSUME UNCHANGED <<made, conv, queue, inbox, told, cut, memId, diskId, forgotten, obj,
                           current>>
        PROVE  MadeInv'
    BY <1>k, <1>s, MadeKept DEF Silent
  <1>c. ASSUME NEW g \in Gens, g <= made, UNCHANGED <<made, conv, queue, inbox, told, obj, current,
                 memId, diskId, forgotten>>, cut' = cut \cup {g} \/ cut' = cut
        PROVE  MadeInv'
    <2>1. \A h \in Gens : h > made => Silent(h)' /\ (h \in cut' => h \in cut)
      BY <1>0, <1>k, <1>c, Constants DEF Silent
    <2>2. QED BY <1>k, <1>c, <2>1, MadeKept
  <1>1. ASSUME NEW t \in Turns, TurnStep(t) PROVE MadeInv'
    <2>0. t \in Readers
      BY Constants
    <2>1. CASE BeginRejected(t) \/ BeginDead(t) \/ SpawnFails(t)
      BY <1>s, <2>1 DEF BeginRejected, BeginDead, SpawnFails, sessionVars, historyVars
    <2>2. CASE BeginReuse(t)
      <3>1. current \in Gens
        BY <1>0, <2>2, Constants DEF BeginReuse, IsAlive
      <3>2. QED BY <1>k, <1>w, <2>0, <2>2, <3>1 DEF BeginReuse, historyVars
    <2>3. CASE BeginFresh(t)
      BY <2>3, MadeConstruct DEF BeginFresh
    <2>4. CASE DeadStopped(t)
      BY <2>4, MadeConstruct DEF DeadStopped
    <2>5. CASE Spawned(t)
      <3>1. obj[t] \in Gens
        BY <1>0, <2>0, <2>5 DEF Spawned, Placed
      <3>2. QED BY <1>k, <1>w, <2>0, <2>5, <3>1 DEF Spawned, historyVars
    <2>6. CASE Abort(t)
      <3>1. CASE pc[t] = "reading"
        <4>1. obj[t] \in Gens
          BY <1>0, <2>0, <3>1 DEF Placed
        <4>2. QED BY <1>k, <1>c, <2>0, <2>6, <4>1 DEF Abort, sessionVars
      <3>2. CASE pc[t] # "reading"
        BY <1>s, <2>6, <3>2 DEF Abort, sessionVars
      <3>3. QED BY <3>1, <3>2
    <2>7. QED BY <1>1, <2>1, <2>2, <2>3, <2>4, <2>5, <2>6 DEF TurnStep
  <1>2. ASSUME BeginCompact PROVE MadeInv'
    <2>1. CASE IsAlive(current)
      <3>1. current \in Gens
        BY <1>0, <2>1, Constants DEF IsAlive
      <3>2. QED BY <1>k, <1>w, <1>2, <2>1, <3>1, Constants DEF BeginCompact, historyVars
    <2>2. CASE ~IsAlive(current)
      BY <1>s, <1>2, <2>2 DEF BeginCompact, historyVars
    <2>3. QED BY <2>1, <2>2
  <1>3. ASSUME NEW r \in Readers, Read(r) PROVE MadeInv'
    <2> DEFINE g == obj[r]
    <2> DEFINE m == Head(queue[g])
    <2>1. g \in Gens /\ g <= made
      BY <1>0, <1>k, <1>3 DEF Read, Placed
    <2>2. /\ queue' = [queue EXCEPT ![g] = Tail(@)] /\ Bind(r, m, g)
          /\ cut' = cut \cup {g} \/ cut' = cut
          /\ UNCHANGED <<made, conv, inbox, told, obj, current, forgotten>>
      BY <1>3 DEF Read
    <2>3. Named(m, g) \in Started \cup {0}
      BY <1>k, <2>1 DEF Named
    <2>4. memId' \in Started \cup {0} /\ diskId' \in Started \cup {0}
      <3>1. CASE m.kind = "init"
        <4>1. memId' = Named(m, g) /\ diskId' = (IF r \in Turns THEN memId' ELSE diskId)
          BY <2>2, <3>1 DEF Bind
        <4>2. QED BY <1>k, <2>3, <4>1
      <3>2. CASE m.kind # "init"
        BY <1>k, <2>2, <3>2 DEF Bind
      <3>3. QED BY <3>1, <3>2
    <2>5. \A h \in Gens : h > made => Silent(h)' /\ (h \in cut' => h \in cut)
      <3>1. \A h \in Gens : h > made => h # g
        BY <1>0, <2>1, Constants
      <3>2. \A h \in Gens \ {g} : queue'[h] = queue[h]
        BY <1>0, <2>2
      <3>3. QED BY <1>k, <2>1, <2>2, <3>1, <3>2 DEF Silent
    <2>6. QED BY <1>k, <2>2, <2>4, <2>5, MadeKept
  <1>4. ASSUME NEW r \in Readers, ReadTimeout(r) PROVE MadeInv'
    <2>1. obj[r] \in Gens
      BY <1>0, <1>4 DEF ReadTimeout, Placed
    <2>2. QED BY <1>k, <1>c, <1>4, <2>1 DEF ReadTimeout, sessionVars
  <1>5. ASSUME NEW kind \in {"reset", "remove"}, Forget(kind),
               UNCHANGED <<made, conv, queue, inbox, told, cut, obj, current>>
        PROVE  MadeInv'
    <2>1. /\ memId' = 0 /\ diskId' \in {0, diskId}
          /\ forgotten' \in {forgotten, forgotten \cup ({memId, diskId} \ {0})}
      BY <1>5, ForgetTypes
    <2>2. forgotten' \subseteq Started
      BY <1>k, <2>1
    <2>3. QED BY <1>k, <1>5, <2>1, <2>2, MadeKept DEF Silent
  <1>6. ASSUME NEW kind \in {"reset", "remove"}, StopBegin(kind) PROVE MadeInv'
    <2>1. CASE current = 0
      BY <1>5, <1>6, <2>1 DEF StopBegin
    <2>2. CASE current # 0
      <3>1. current' = 0 /\ UNCHANGED <<memId, diskId, forgotten>>
        BY <1>6, <2>2 DEF StopBegin
      <3>2. QED BY <1>0, <1>k, <1>6, <3>1, MadeKept DEF StopBegin, Silent
    <2>3. QED BY <2>1, <2>2
  <1>7. ASSUME StopEnd PROVE MadeInv'
    BY <1>5, <1>7, TypeFacts DEF StopEnd, TypeInv, sessionVars
  <1>8. ASSUME Restart PROVE MadeInv'
    BY <1>0, <1>k, <1>8, MadeKept DEF Restart, Silent
  <1>9. ASSUME SlashReply \/ (\E g \in Gens : CliExits(g) \/ ReaderEnds(g)) \/ UNCHANGED vars
        PROVE  MadeInv'
    BY <1>s, <1>9
       DEF SlashReply, CliExits, ReaderEnds, vars, adapterVars, sessionVars, historyVars
  <1>10. ASSUME NEW g \in Gens, CliInit(g) \/ CliResult(g) PROVE MadeInv'
    <2>1. /\ \A h \in Gens \ {g} : queue'[h] = queue[h] /\ told'[h] = told[h] /\ inbox'[h] = inbox[h]
          /\ g <= made
          /\ UNCHANGED <<made, conv, cut, memId, diskId, forgotten, obj, current>>
      BY <1>0, <1>10
         DEF CliInit, CliResult, CliSays, Running, adapterVars, historyVars
    <2>2. \A h \in Gens : h > made => Silent(h)'
      BY <1>0, <1>k, <2>1, Constants DEF Silent
    <2>3. QED BY <1>k, <2>1, <2>2, MadeKept
  <1>11. QED BY <1>1, <1>2, <1>3, <1>4, <1>6, <1>7, <1>8, <1>9, <1>10 DEF Next
-----------------------------------------------------------------------------
(* What a reset forgets *)

(* The text of /compact is on its way through the process of g.              *)
Mentions(g) == Tells(queue[g], Compact) \/ Contains(inbox[g], Compact)

(* Only /compact brings its text and its conversation into the session. *)
CompactInv ==
  pc[Compact] = "new" =>
    /\ memId # MaxGen + 1 /\ diskId # MaxGen + 1 /\ MaxGen + 1 \notin forgotten
    /\ \A g \in Gens : conv[g] # MaxGen + 1 /\ ~Mentions(g)

(* The next message may still come through this object. *)
InUse(g) ==
  \/ g = current
  \/ \E r \in Readers : pc[r] \in {"spawning", "reading"} /\ obj[r] = g

(* As long as no turn met a reset, what was forgotten is out of use: nothing *)
(* in use continues it or can still be told of it.                           *)
ForgetInv ==
  ~overlap =>
    /\ memId \notin forgotten /\ diskId \notin forgotten
    /\ \A g \in Gens : InUse(g) => conv[g] \notin forgotten
    /\ MaxGen + 1 \in forgotten => \A g \in Gens : InUse(g) => ~Mentions(g)
    /\ stopping = "reset" => current = 0 /\ AtWork = {}

LEMMA CompactInit == Init => CompactInv /\ ForgetInv
  <1> SUFFICES ASSUME Init PROVE CompactInv /\ ForgetInv
    OBVIOUS
  <1>1. /\ memId = 0 /\ diskId = 0 /\ forgotten = {} /\ current = 0 /\ stopping = "no"
        /\ \A g \in Gens : queue[g] = <<>> /\ inbox[g] = <<>> /\ conv[g] = 0
    BY DEF Init
  <1>2. MaxGen + 1 # 0
    BY Constants
  <1>3. \A g \in Gens : ~Mentions(g)
    BY <1>1, EmptySays DEF Mentions
  <1>4. CompactInv
    BY <1>1, <1>2, <1>3 DEF CompactInv
  <1>5. ForgetInv
    BY <1>1 DEF ForgetInv
  <1>6. QED BY <1>4, <1>5

(* A turn's text says nothing of /compact. *)
LEMMA WriteMentions ==
  ASSUME TypeInv, NEW t \in Turns, NEW h \in Gens, Write(t, h), UNCHANGED queue,
         NEW g \in Gens, Mentions(g)'
  PROVE  Mentions(g)
  <1>1. inbox[h] \in Seq(Readers) /\ t \in Readers /\ t # Compact
    BY TypeFacts, Constants DEF TypeInv
  <1>2. inbox'[h] = Append(inbox[h], t) /\ \A i \in Gens \ {h} : inbox'[i] = inbox[i]
    BY <1>1, WriteTypes
  <1>3. Contains(inbox'[h], Compact) => Contains(inbox[h], Compact)
    BY <1>1, <1>2, AppendContains
  <1>4. QED BY <1>2, <1>3 DEF Mentions

LEMMA CliMentions ==
  ASSUME TypeInv, NEW h \in Gens, CliInit(h) \/ CliResult(h), NEW g \in Gens, Mentions(g)'
  PROVE  Mentions(g)
  <1>1. /\ queue \in [Gens -> Seq(Message)] /\ inbox \in [Gens -> Seq(Readers)]
    BY TypeFacts DEF TypeInv
  <1>2. PICK kind \in {"init", "result"} :
           /\ inbox[h] # <<>>
           /\ queue' = [queue EXCEPT ![h] = Append(@, Msg(kind, Head(inbox[h])))]
           /\ inbox' = inbox \/ inbox' = [inbox EXCEPT ![h] = Tail(@)]
    BY DEF CliInit, CliResult, CliSays, Running
  <1>3. /\ \A i \in Gens \ {h} : queue'[i] = queue[i] /\ inbox'[i] = inbox[i]
        /\ queue'[h] = Append(queue[h], Msg(kind, Head(inbox[h])))
        /\ inbox'[h] \in {inbox[h], Tail(inbox[h])}
    BY <1>1, <1>2
  <1>4. /\ Head(inbox[h]) \in Readers
        /\ Head(inbox[h]) = Compact => Contains(inbox[h], Compact)
        /\ Contains(Tail(inbox[h]), Compact) => Contains(inbox[h], Compact)
    BY <1>1, <1>2, TailContains
  <1>5. /\ Msg(kind, Head(inbox[h])) \in Message
        /\ Msg(kind, Head(inbox[h])).of = Head(inbox[h])
    BY <1>4 DEF Msg, Message
  <1>6. Tells(queue'[h], Compact) => Tells(queue[h], Compact) \/ Head(inbox[h]) = Compact
    BY <1>1, <1>3, <1>5, AppendTells
  <1>7. QED BY <1>3, <1>4, <1>6 DEF Mentions

LEMMA ReadMentions ==
  ASSUME TypeInv, NEW r \in Readers, Read(r)
  PROVE  /\ obj[r] \in Gens /\ queue[obj[r]] # <<>>
         /\ Head(queue[obj[r]]).of = Compact => Mentions(obj[r])
         /\ \A g \in Gens : Mentions(g)' => Mentions(g)
  <1>1. /\ queue \in [Gens -> Seq(Message)] /\ obj[r] \in Gens
    BY TypeFacts DEF TypeInv, Placed, Read
  <1>2. /\ queue[obj[r]] # <<>> /\ queue' = [queue EXCEPT ![obj[r]] = Tail(@)] /\ inbox' = inbox
    BY DEF Read
  <1>3. /\ Head(queue[obj[r]]).of = Compact => Tells(queue[obj[r]], Compact)
        /\ Tells(Tail(queue[obj[r]]), Compact) => Tells(queue[obj[r]], Compact)
    BY <1>1, <1>2, TailTells
  <1>4. \A g \in Gens : queue'[g] = IF g = obj[r] THEN Tail(queue[g]) ELSE queue[g]
    BY <1>1, <1>2
  <1>5. QED BY <1>1, <1>2, <1>3, <1>4 DEF Mentions

(* After /compact began, no step mentions it where it was not mentioned. *)
LEMMA MentionsKept ==
  ASSUME TypeInv, [Next]_vars, pc[Compact] # "new" \/ pc'[Compact] = "new",
         NEW g \in Gens, Mentions(g)'
  PROVE  Mentions(g)
  <1>1. ASSUME UNCHANGED <<queue, inbox>> PROVE Mentions(g)
    BY <1>1 DEF Mentions
  <1>2. ASSUME NEW t \in Turns, TurnStep(t) PROVE Mentions(g)
    <2>1. CASE BeginReuse(t)
      <3>1. current \in Gens
        <4>1. current # 0
          BY <2>1 DEF BeginReuse, IsAlive
        <4>2. QED BY <4>1, TypeFacts, Constants DEF TypeInv
      <3>2. Write(t, current) /\ UNCHANGED queue
        BY <2>1 DEF BeginReuse
      <3>3. QED BY <3>1, <3>2, WriteMentions
    <2>2. CASE Spawned(t)
      <3>1. obj[t] \in Gens /\ Write(t, obj[t]) /\ UNCHANGED queue
        BY <2>2, Constants DEF Spawned, TypeInv, Placed
      <3>2. QED BY <3>1, WriteMentions
    <2>3. CASE BeginRejected(t) \/ BeginFresh(t) \/ BeginDead(t) \/ DeadStopped(t)
               \/ SpawnFails(t) \/ Abort(t)
      BY <1>1, <2>3 DEF BeginRejected, BeginFresh, BeginDead, DeadStopped, SpawnFails, Abort,
                        sessionVars
    <2>4. QED BY <1>2, <2>1, <2>2, <2>3 DEF TurnStep
  <1>3. ASSUME BeginCompact PROVE Mentions(g)
    <2>1. pc[Compact] = "new" /\ pc'[Compact] # "new"
      BY <1>3, TypeFacts, Constants DEF BeginCompact, Write, TypeInv
    <2>2. QED BY <2>1
  <1>4. ASSUME NEW r \in Readers, Read(r) PROVE Mentions(g)
    BY <1>4, ReadMentions
  <1>5. ASSUME NEW h \in Gens, CliInit(h) \/ CliResult(h) PROVE Mentions(g)
    BY <1>5, CliMentions
  <1>6. ASSUME \/ \E r \in Readers : ReadTimeout(r)
               \/ \E kind \in {"reset", "remove"} : StopBegin(kind)
               \/ StopEnd \/ SlashReply \/ Restart
               \/ \E h \in Gens : CliExits(h) \/ ReaderEnds(h)
               \/ UNCHANGED vars
        PROVE  Mentions(g)
    BY <1>1, <1>6 DEF ReadTimeout, StopBegin, StopEnd, SlashReply, Restart, CliExits, ReaderEnds,
                      vars, sessionVars
  <1>7. QED BY <1>2, <1>3, <1>4, <1>5, <1>6 DEF Next

(* A reader begins once. *)
LEMMA BeginsOnce ==
  ASSUME TypeInv, [Next]_vars, pc'[Compact] = "new"
  PROVE  pc[Compact] = "new"
  <1>0. pc \in [Readers -> Phases] /\ Compact \in Readers
    BY TypeFacts, Constants DEF TypeInv
  <1>1. ASSUME NEW t \in Turns, TurnStep(t) PROVE pc[Compact] = "new"
    BY <1>0, <1>1, Constants
       DEF TurnStep, BeginRejected, BeginReuse, BeginFresh, BeginDead, DeadStopped, Spawned,
           SpawnFails, Abort, Write, Construct, Leave
  <1>2. ASSUME BeginCompact PROVE pc[Compact] = "new"
    BY <1>2 DEF BeginCompact
  <1>3. ASSUME NEW r \in Readers, Read(r) \/ ReadTimeout(r) PROVE pc[Compact] = "new"
    <2>1. pc' = pc \/ Leave(r, "ended")
      BY <1>3 DEF Read, ReadTimeout
    <2>2. QED BY <1>0, <2>1 DEF Leave
  <1>4. ASSUME Restart PROVE pc[Compact] = "new"
    BY <1>0, <1>4 DEF Restart
  <1>5. ASSUME \/ \E kind \in {"reset", "remove"} : StopBegin(kind)
               \/ StopEnd \/ SlashReply
               \/ \E h \in Gens : CliInit(h) \/ CliResult(h) \/ CliExits(h) \/ ReaderEnds(h)
               \/ UNCHANGED vars
        PROVE  pc[Compact] = "new"
    BY <1>5 DEF StopBegin, StopEnd, SlashReply, CliInit, CliResult, CliSays, CliExits, ReaderEnds,
                vars, adapterVars
  <1>6. QED BY <1>1, <1>2, <1>3, <1>4, <1>5 DEF Next
LEMMA CompactStep == TypeInv /\ MadeInv /\ CompactInv /\ [Next]_vars => CompactInv'
  <1> SUFFICES ASSUME TypeInv, MadeInv, CompactInv, [Next]_vars, pc'[Compact] = "new"
               PROVE  /\ memId' # MaxGen + 1 /\ diskId' # MaxGen + 1 /\ MaxGen + 1 \notin forgotten'
                      /\ \A g \in Gens : conv'[g] # MaxGen + 1 /\ ~Mentions(g)'
    BY DEF CompactInv
  <1>0. /\ memId # MaxGen + 1 /\ diskId # MaxGen + 1 /\ MaxGen + 1 \notin forgotten
        /\ \A g \in Gens : conv[g] # MaxGen + 1 /\ ~Mentions(g)
    BY BeginsOnce DEF CompactInv
  <1>1. \A g \in Gens : ~Mentions(g)'
    BY <1>0, MentionsKept
  <1> SUFFICES /\ memId' # MaxGen + 1 /\ diskId' # MaxGen + 1 /\ MaxGen + 1 \notin forgotten'
               /\ \A g \in Gens : conv'[g] # MaxGen + 1
    BY <1>1
  <1>2. ASSUME UNCHANGED <<conv, memId, diskId, forgotten>>
        PROVE  /\ memId' # MaxGen + 1 /\ diskId' # MaxGen + 1 /\ MaxGen + 1 \notin forgotten'
               /\ \A g \in Gens : conv'[g] # MaxGen + 1
    BY <1>0, <1>2
  <1>3. ASSUME NEW t \in Turns, BeginFresh(t) \/ DeadStopped(t)
        PROVE  /\ memId' # MaxGen + 1 /\ diskId' # MaxGen + 1 /\ MaxGen + 1 \notin forgotten'
               /\ \A g \in Gens : conv'[g] # MaxGen + 1
    <2>1. Construct(t) /\ UNCHANGED <<memId, diskId, forgotten>>
      BY <1>3 DEF BeginFresh, DeadStopped
    <2>2. made' \in Gens /\ conv'[made'] \in {memId, made'}
      BY <2>1, ConstructTypes
    <2>3. made' # MaxGen + 1
      BY <2>2, Constants
    <2>4. \A g \in Gens \ {made'} : conv'[g] = conv[g]
      BY <2>1, ConstructTypes
    <2>5. QED BY <1>0, <2>1, <2>2, <2>3, <2>4
  <1>4. ASSUME NEW r \in Readers, Read(r)
        PROVE  /\ memId' # MaxGen + 1 /\ diskId' # MaxGen + 1 /\ MaxGen + 1 \notin forgotten'
               /\ \A g \in Gens : conv'[g] # MaxGen + 1
    <2> DEFINE m == Head(queue[obj[r]])
    <2>1. obj[r] \in Gens /\ m.of # Compact
      BY <1>0, <1>4, ReadMentions
    <2>2. Bind(r, m, obj[r]) /\ UNCHANGED <<conv, forgotten>>
      BY <1>4 DEF Read
    <2>3. Named(m, obj[r]) # MaxGen + 1
      BY <1>0, <2>1 DEF Named
    <2>4. CASE m.kind = "init"
      <3>1. memId' = Named(m, obj[r]) /\ diskId' \in {memId', diskId}
        BY <2>2, <2>4 DEF Bind
      <3>2. QED BY <1>0, <2>2, <2>3, <3>1
    <2>5. CASE m.kind # "init"
      BY <1>0, <2>2, <2>5 DEF Bind
    <2>6. QED BY <2>4, <2>5
  <1>5. ASSUME NEW kind \in {"reset", "remove"}, Forget(kind), UNCHANGED conv
        PROVE  /\ memId' # MaxGen + 1 /\ diskId' # MaxGen + 1 /\ MaxGen + 1 \notin forgotten'
               /\ \A g \in Gens : conv'[g] # MaxGen + 1
    <2>1. /\ memId' = 0 /\ diskId' \in {0, diskId}
          /\ forgotten' \in {forgotten, forgotten \cup ({memId, diskId} \ {0})}
      BY <1>5, ForgetTypes
    <2>2. MaxGen + 1 # 0
      BY Constants
    <2>3. QED BY <1>0, <1>5, <2>1, <2>2
  <1>6. CASE \E kind \in {"reset", "remove"} : StopBegin(kind)
    BY <1>2, <1>5, <1>6 DEF StopBegin
  <1>7. CASE StopEnd
    BY <1>5, <1>7, TypeFacts DEF StopEnd, TypeInv, sessionVars
  <1>8. CASE Restart
    BY <1>0, <1>8 DEF Restart
  <1>9. CASE \/ \E t \in Turns : \/ BeginRejected(t) \/ BeginReuse(t) \/ BeginDead(t)
                                 \/ Spawned(t) \/ SpawnFails(t) \/ Abort(t)
             \/ BeginCompact \/ \E r \in Readers : ReadTimeout(r)
             \/ SlashReply
             \/ \E h \in Gens : CliInit(h) \/ CliResult(h) \/ CliExits(h) \/ ReaderEnds(h)
             \/ UNCHANGED vars
    <2>1. UNCHANGED <<conv, memId, diskId, forgotten>>
      BY <1>9 DEF BeginRejected, BeginReuse, BeginDead, Spawned, SpawnFails, Abort, BeginCompact,
                  ReadTimeout, SlashReply, CliInit, CliResult, CliSays, CliExits, ReaderEnds,
                  vars, adapterVars, sessionVars, historyVars
    <2>2. QED BY <1>2, <2>1
  <1>10. QED BY <1>3, <1>4, <1>6, <1>7, <1>8, <1>9 DEF Next, TurnStep

(* Only a construction brings an object into use; a step that is neither one *)
(* nor a reset or the reading of an init keeps what was forgotten away.      *)
LEMMA ForgetKept ==
  ASSUME TypeInv, CompactInv, ForgetInv, [Next]_vars,
         overlap' \/ ~overlap, UNCHANGED <<conv, forgotten>>,
         overlap' \/ (memId' \notin forgotten /\ diskId' \notin forgotten),
         \A g \in Gens : InUse(g)' => InUse(g),
         \/ overlap' \/ stopping' # "reset"
         \/ stopping = "reset" /\ ~(current = 0 /\ AtWork = {})
         \/ current' = 0 /\ AtWork' = {}
  PROVE  ForgetInv'
  <1> SUFFICES ASSUME ~overlap'
      PROVE /\ memId' \notin forgotten' /\ diskId' \notin forgotten'
            /\ \A g \in Gens : InUse(g)' => conv'[g] \notin forgotten'
            /\ MaxGen + 1 \in forgotten' => \A g \in Gens : InUse(g)' => ~Mentions(g)'
            /\ stopping' = "reset" => current' = 0 /\ AtWork' = {}
    BY DEF ForgetInv
  <1>1. /\ \A g \in Gens : InUse(g) => conv[g] \notin forgotten
        /\ MaxGen + 1 \in forgotten => \A g \in Gens : InUse(g) => ~Mentions(g)
        /\ stopping = "reset" => current = 0 /\ AtWork = {}
    BY DEF ForgetInv
  <1>2. ASSUME MaxGen + 1 \in forgotten, NEW g \in Gens, InUse(g)', Mentions(g)' PROVE FALSE
    <2>1. pc[Compact] # "new"
      BY <1>2 DEF CompactInv
    <2>2. InUse(g) /\ Mentions(g)
      BY <1>2, <2>1, MentionsKept
    <2>3. QED BY <1>1, <1>2, <2>2
  <1>3. QED BY <1>1, <1>2
LEMMA ForgetConstruct ==
  ASSUME TypeInv, MadeInv, ForgetInv, NEW t \in Turns, Construct(t),
         UNCHANGED <<current, queue, inbox, memId, diskId, forgotten, stopping>>
  PROVE  ForgetInv'
  <1> SUFFICES ASSUME ~overlap'
      PROVE /\ memId' \notin forgotten' /\ diskId' \notin forgotten'
            /\ \A g \in Gens : InUse(g)' => conv'[g] \notin forgotten'
            /\ MaxGen + 1 \in forgotten' => \A g \in Gens : InUse(g)' => ~Mentions(g)'
            /\ stopping' = "reset" => current' = 0 /\ AtWork' = {}
    BY DEF ForgetInv
  <1>1. ~overlap /\ stopping # "reset"
    BY ConstructTypes
  <1>2. /\ memId \notin forgotten /\ diskId \notin forgotten
        /\ \A g \in Gens : InUse(g) => conv[g] \notin forgotten
        /\ MaxGen + 1 \in forgotten => \A g \in Gens : InUse(g) => ~Mentions(g)
    BY <1>1 DEF ForgetInv
  <1>3. made' = made + 1 /\ made' \in Gens /\ made \in 0..MaxGen
    BY ConstructTypes, TypeFacts DEF TypeInv
  <1>4. made' \notin forgotten
    BY <1>3, Constants DEF MadeInv, Started
  <1>5. conv'[made'] \notin forgotten
    BY <1>2, <1>4, ConstructTypes
  <1>6. ~Mentions(made')
    BY <1>3, EmptySays DEF MadeInv, Silent, Mentions
  <1>7. ASSUME NEW g \in Gens, InUse(g)', g # made' PROVE InUse(g)
    <2>1. CASE g = current'
      BY <2>1 DEF InUse
    <2>2. CASE g # current'
      <3>1. PICK r \in Readers : pc'[r] \in {"spawning", "reading"} /\ obj'[r] = g
        BY <1>7, <2>2 DEF InUse
      <3>2. r # t
        BY <1>7, <3>1, ConstructTypes
      <3>3. pc'[r] = pc[r] /\ obj'[r] = obj[r]
        BY <3>2, ConstructTypes
      <3>4. QED BY <3>1, <3>3 DEF InUse
    <2>3. QED BY <2>1, <2>2
  <1>8. \A g \in Gens \ {made'} : conv'[g] = conv[g]
    BY ConstructTypes
  <1>9. \A g \in Gens : Mentions(g)' => Mentions(g)
    BY DEF Mentions
  <1>10. \A g \in Gens : InUse(g)' => conv'[g] \notin forgotten
    BY <1>2, <1>5, <1>7, <1>8
  <1>11. MaxGen + 1 \in forgotten => \A g \in Gens : InUse(g)' => ~Mentions(g)'
    BY <1>2, <1>6, <1>7, <1>9
  <1>12. QED BY <1>1, <1>2, <1>10, <1>11

LEMMA ForgetDone ==
  ASSUME TypeInv, MadeInv, CompactInv, ForgetInv, NEW kind \in {"reset", "remove"}, Forget(kind),
         UNCHANGED <<pc, obj, current, conv, queue, inbox>>, stopping' = "no",
         overlap' \/ ~overlap,
         kind = "reset" /\ ~overlap' => AtWork = {} /\ current = 0
  PROVE  ForgetInv'
  <1> SUFFICES ASSUME ~overlap'
      PROVE /\ memId' \notin forgotten' /\ diskId' \notin forgotten'
            /\ \A g \in Gens : InUse(g)' => conv'[g] \notin forgotten'
            /\ MaxGen + 1 \in forgotten' => \A g \in Gens : InUse(g)' => ~Mentions(g)'
    BY DEF ForgetInv
  <1>1. 0 \notin forgotten /\ diskId \notin forgotten
    <2>1. 0 \notin Started
      BY Constants DEF Started
    <2>2. QED BY <2>1 DEF MadeInv, ForgetInv
  <1>2. memId' = 0
    BY ForgetTypes
  <1>3. CASE kind = "reset"
    <2>1. diskId' = 0 /\ 0 \notin forgotten'
      BY <1>1, <1>3, ForgetTypes
    <2>2. \A g \in Gens : ~InUse(g)'
      BY <1>3, Constants DEF InUse, AtWork
    <2>3. QED BY <1>2, <2>1, <2>2
  <1>4. CASE kind = "remove"
    <2>1. UNCHANGED <<diskId, forgotten>>
      BY <1>4, ForgetTypes
    <2>2. \A g \in Gens : (InUse(g)' <=> InUse(g)) /\ (Mentions(g)' <=> Mentions(g))
      BY DEF InUse, Mentions
    <2>3. /\ \A g \in Gens : InUse(g) => conv[g] \notin forgotten
          /\ MaxGen + 1 \in forgotten => \A g \in Gens : InUse(g) => ~Mentions(g)
      BY DEF ForgetInv
    <2>4. QED BY <1>1, <1>2, <2>1, <2>2, <2>3
  <1>5. QED BY <1>3, <1>4

LEMMA ForgetStep == TypeInv /\ MadeInv /\ CompactInv /\ ForgetInv /\ [Next]_vars => ForgetInv'
  <1> SUFFICES ASSUME TypeInv, MadeInv, CompactInv, ForgetInv, [Next]_vars PROVE ForgetInv'
    OBVIOUS
  <1>0. /\ pc \in [Readers -> Phases] /\ obj \in [Readers -> 0..MaxGen] /\ current \in 0..MaxGen
        /\ Placed /\ Compact \in Readers /\ Turns \subseteq Readers /\ Gens = 1..MaxGen
    BY TypeFacts, Constants DEF TypeInv
  <1>k. ~overlap => memId \notin forgotten /\ diskId \notin forgotten
    BY DEF ForgetInv
  <1>w. ASSUME NEW r \in Readers, NEW h \in Gens, Write(r, h), InUse(h), current' \in {current, h},
               UNCHANGED <<overlap, conv, forgotten, memId, diskId, stopping>>
        PROVE  ForgetInv'
    <2>1. /\ obj'[r] = h
          /\ \A q \in Readers \ {r} : pc'[q] = pc[q] /\ obj'[q] = obj[q]
      BY <1>w, WriteTypes
    <2>2. \A g \in Gens : InUse(g)' => InUse(g)
      BY <1>w, <2>1 DEF InUse
    <2>3. ~(current = 0 /\ AtWork = {})
      BY <1>0, <1>w DEF InUse, AtWork
    <2>4. QED BY <1>k, <1>w, <2>2, <2>3, ForgetKept
  <1>e. ASSUME NEW r \in Readers, NEW how \in Ended, Leave(r, how),
               UNCHANGED <<overlap, conv, forgotten, obj, current, stopping>>,
               overlap \/ (memId' \notin forgotten /\ diskId' \notin forgotten)
        PROVE  ForgetInv'
    <2>1. pc'[r] = how /\ \A q \in Readers \ {r} : pc'[q] = pc[q]
      BY <1>e, LeaveTypes
    <2>2. how \notin {"spawning", "reading", "stopping"}
      BY DEF Ended
    <2>3. \A g \in Gens : InUse(g)' => InUse(g)
      BY <1>e, <2>1, <2>2 DEF InUse
    <2>4. AtWork' \subseteq AtWork
      BY <2>1, <2>2 DEF AtWork
    <2>5. QED BY <1>e, <2>3, <2>4, ForgetKept
  <1>s. ASSUME UNCHANGED <<overlap, conv, forgotten, obj, pc, current, stopping>>,
               overlap \/ (memId' \notin forgotten /\ diskId' \notin forgotten)
        PROVE  ForgetInv'
    <2>1. /\ \A g \in Gens : InUse(g)' => InUse(g)
          /\ AtWork' = AtWork
      BY <1>s DEF InUse, AtWork
    <2>2. QED BY <1>s, <2>1, ForgetKept
  <1>1. ASSUME NEW t \in Turns, TurnStep(t) PROVE ForgetInv'
    <2>0. t \in Readers
      BY Constants
    <2>1. CASE BeginRejected(t)
      <3>1. /\ pc' = [pc EXCEPT ![t] = "rejected"]
            /\ UNCHANGED <<obj, current, stopping, memId, diskId, conv, forgotten, overlap>>
        BY <2>1 DEF BeginRejected, sessionVars, historyVars
      <3>2. \A g \in Gens : InUse(g)' => InUse(g)
        BY <1>0, <2>0, <3>1 DEF InUse
      <3>3. AtWork' \subseteq AtWork
        BY <1>0, <2>0, <3>1 DEF AtWork
      <3>4. QED BY <1>k, <3>1, <3>2, <3>3, ForgetKept
    <2>2. CASE BeginReuse(t)
      <3>1. current \in Gens /\ InUse(current)
        BY <1>0, <2>2 DEF BeginReuse, IsAlive, InUse
      <3>2. QED BY <1>w, <2>0, <2>2, <3>1 DEF BeginReuse, historyVars
    <2>3. CASE BeginFresh(t)
      BY <2>3, ForgetConstruct DEF BeginFresh
    <2>4. CASE BeginDead(t)
      <3>1. /\ pc' = [pc EXCEPT ![t] = "stopping"] /\ current # 0
            /\ UNCHANGED <<obj, current, stopping, memId, diskId, conv, forgotten, overlap>>
        BY <2>4 DEF BeginDead, historyVars
      <3>2. \A g \in Gens : InUse(g)' => InUse(g)
        BY <1>0, <2>0, <3>1 DEF InUse
      <3>3. QED BY <1>k, <3>1, <3>2, ForgetKept
    <2>5. CASE DeadStopped(t)
      BY <2>5, ForgetConstruct DEF DeadStopped
    <2>6. CASE Spawned(t)
      <3>1. obj[t] \in Gens /\ InUse(obj[t])
        BY <1>0, <2>0, <2>6 DEF Spawned, InUse, Placed
      <3>2. QED BY <1>w, <2>0, <2>6, <3>1 DEF Spawned, historyVars
    <2>7. CASE SpawnFails(t)
      BY <1>e, <1>k, <2>0, <2>7 DEF SpawnFails, Ended, sessionVars, historyVars
    <2>8. CASE Abort(t)
      BY <1>e, <1>k, <2>0, <2>8 DEF Abort, Ended, sessionVars
    <2>9. QED BY <1>1, <2>1, <2>2, <2>3, <2>4, <2>5, <2>6, <2>7, <2>8 DEF TurnStep
  <1>2. ASSUME BeginCompact PROVE ForgetInv'
    <2>1. CASE IsAlive(current)
      <3>1. current \in Gens /\ InUse(current)
        BY <1>0, <2>1 DEF IsAlive, InUse
      <3>2. QED BY <1>0, <1>w, <1>2, <2>1, <3>1 DEF BeginCompact, historyVars
    <2>2. CASE ~IsAlive(current)
      <3>1. /\ pc' = [pc EXCEPT ![Compact] = "failed"]
            /\ UNCHANGED <<obj, current, stopping, memId, diskId, conv, forgotten, overlap>>
        BY <1>2, <2>2 DEF BeginCompact, historyVars
      <3>2. \A g \in Gens : InUse(g)' => InUse(g)
        BY <1>0, <3>1 DEF InUse
      <3>3. AtWork' \subseteq AtWork
        BY <1>0, <3>1 DEF AtWork
      <3>4. QED BY <1>k, <3>1, <3>2, <3>3, ForgetKept
    <2>3. QED BY <2>1, <2>2
  <1>3. ASSUME NEW r \in Readers, Read(r) PROVE ForgetInv'
    <2> DEFINE g == obj[r]
    <2> DEFINE m == Head(queue[g])
    <2>1. /\ g \in Gens /\ InUse(g) /\ (m.of = Compact => Mentions(g))
      BY <1>0, <1>3, ReadMentions DEF InUse, Read
    <2>2. /\ Bind(r, m, g)
          /\ Leave(r, "ended") \/ UNCHANGED <<pc, held>>
          /\ UNCHANGED <<overlap, conv, forgotten, obj, current, stopping>>
      BY <1>3 DEF Read
    <2>3. ~overlap => Named(m, g) \notin forgotten
      BY <2>1 DEF ForgetInv, Named
    <2>4. ~overlap => memId' \notin forgotten /\ diskId' \notin forgotten
      <3>1. CASE m.kind = "init"
        <4>1. memId' = Named(m, g) /\ diskId' \in {memId', diskId}
          BY <2>2, <3>1 DEF Bind
        <4>2. QED BY <1>k, <2>3, <4>1
      <3>2. CASE m.kind # "init"
        BY <1>k, <2>2, <3>2 DEF Bind
      <3>3. QED BY <3>1, <3>2
    <2>5. CASE Leave(r, "ended")
      BY <1>e, <2>2, <2>4, <2>5 DEF Ended
    <2>6. CASE UNCHANGED <<pc, held>>
      BY <1>s, <2>2, <2>4, <2>6
    <2>7. QED BY <2>2, <2>5, <2>6
  <1>4. ASSUME NEW r \in Readers, ReadTimeout(r) PROVE ForgetInv'
    BY <1>e, <1>k, <1>4 DEF ReadTimeout, Ended, sessionVars
  <1>5. ASSUME NEW kind \in {"reset", "remove"}, StopBegin(kind) PROVE ForgetInv'
    <2>0. /\ stopping = "no" /\ (overlap' \/ ~overlap)
          /\ kind = "reset" /\ ~overlap' => AtWork = {}
          /\ UNCHANGED <<pc, obj, conv, queue, inbox>>
      BY <1>5 DEF StopBegin
    <2>1. CASE current = 0
      <3>1. Forget(kind) /\ stopping' = "no" /\ current' = current
        BY <1>5, <2>0, <2>1 DEF StopBegin
      <3>2. QED BY <2>0, <2>1, <3>1, ForgetDone
    <2>2. CASE current # 0
      <3>1. current' = 0 /\ stopping' = kind /\ UNCHANGED <<memId, diskId, forgotten>>
        BY <1>5, <2>2 DEF StopBegin
      <3>2. \A g \in Gens : InUse(g)' => InUse(g)
        BY <1>0, <2>0, <3>1 DEF InUse
      <3>3. AtWork' = AtWork
        BY <2>0 DEF AtWork
      <3>4. QED BY <1>k, <2>0, <3>1, <3>2, <3>3, ForgetKept
    <2>3. QED BY <2>1, <2>2
  <1>6. ASSUME StopEnd PROVE ForgetInv'
    <2>1. stopping \in {"reset", "remove"} /\ Forget(stopping) /\ stopping' = "no"
      BY <1>6, TypeFacts DEF StopEnd, TypeInv
    <2>2. UNCHANGED <<pc, obj, current, conv, queue, inbox, overlap>>
      BY <1>6 DEF StopEnd, sessionVars
    <2>3. stopping = "reset" /\ ~overlap => AtWork = {} /\ current = 0
      BY DEF ForgetInv
    <2>4. QED BY <2>1, <2>2, <2>3, ForgetDone
  <1>7. ASSUME Restart PROVE ForgetInv'
    <2>1. /\ \A r \in Readers : pc'[r] \notin {"stopping", "spawning", "reading"}
          /\ current' = 0 /\ memId' = diskId /\ stopping' = "no"
          /\ UNCHANGED <<overlap, conv, forgotten, diskId>>
      BY <1>0, <1>7 DEF Restart, AtWork
    <2>2. \A g \in Gens : ~InUse(g)'
      BY <1>0, <2>1 DEF InUse
    <2>3. QED BY <1>k, <2>1, <2>2, ForgetKept
  <1>8. ASSUME \/ SlashReply
               \/ \E h \in Gens : CliInit(h) \/ CliResult(h) \/ CliExits(h) \/ ReaderEnds(h)
               \/ UNCHANGED vars
        PROVE  ForgetInv'
    <2>1. UNCHANGED <<overlap, conv, forgotten, obj, pc, current, stopping, memId, diskId>>
      BY <1>8 DEF SlashReply, CliInit, CliResult, CliSays, CliExits, ReaderEnds, vars,
                  adapterVars, sessionVars, historyVars
    <2>2. QED BY <1>k, <1>s, <2>1
  <1>9. QED BY <1>1, <1>2, <1>3, <1>4, <1>5, <1>6, <1>7, <1>8 DEF Next

LEMMA ForgetSafe == TypeInv /\ ForgetInv => ResetForgets
  <1> SUFFICES ASSUME TypeInv, ForgetInv PROVE ResetForgets
    OBVIOUS
  <1>1. current # 0 => current \in Gens /\ InUse(current)
    BY TypeFacts, Constants DEF TypeInv, InUse
  <1>2. QED BY <1>1 DEF ForgetInv, ResetForgets
-----------------------------------------------------------------------------
(* Whose answer a turn is given *)

(* The exchange between a turn that reads and its process, when both started *)
(* with nothing left: what was written, how far it is, what waits to be read. *)
Exchange(b, s, q, t) ==
  \/ b = <<t>> /\ s = "idle"  /\ q = <<>>
  \/ b = <<t>> /\ s = "begun" /\ q = <<Msg("init", t)>>
  \/ b = <<t>> /\ s = "begun" /\ q = <<>>
  \/ b = <<>>  /\ s = "idle"  /\ q = <<Msg("init", t), Msg("result", t)>>
  \/ b = <<>>  /\ s = "idle"  /\ q = <<Msg("result", t)>>

LEMMA Pair == ASSUME NEW x, NEW y PROVE Append(<<x>>, y) = <<x, y>>
  <1> DEFINE S == {x, y}
  <1>1. <<x>> \in Seq(S) /\ <<x, y>> \in Seq(S) /\ y \in S
    OBVIOUS
  <1> HIDE DEF S
  <1>2. \A s \in Seq(S) : s = [i \in 1..Len(s) |-> s[i]]
    OBVIOUS
  <1>3. Append(<<x>>, y) = [i \in 1..2 |-> IF i = 1 THEN x ELSE y]
    <2>1. Len(<<x>>) = 1 /\ <<x>>[1] = x
      OBVIOUS
    <2>2. /\ Append(<<x>>, y) \in Seq(S) /\ Len(Append(<<x>>, y)) = 2
          /\ \A i \in 1..2 : Append(<<x>>, y)[i] = IF i = 1 THEN x ELSE y
      BY <1>1, <2>1
    <2>3. QED BY <1>2, <2>2
  <1>4. <<x, y>> = [i \in 1..2 |-> IF i = 1 THEN x ELSE y]
    <2>1. <<x, y>>[1] = x /\ <<x, y>>[2] = y /\ Len(<<x, y>>) = 2
      OBVIOUS
    <2>2. QED BY <1>1, <1>2, <2>1
  <1>5. QED BY <1>3, <1>4

LEMMA Singletons ==
  ASSUME NEW x, NEW y
  PROVE  /\ Head(<<x>>) = x /\ Tail(<<x>>) = <<>> /\ <<x>> # <<>>
         /\ Head(<<x, y>>) = x /\ Tail(<<x, y>>) = <<y>>
         /\ Append(<<>>, x) = <<x>> /\ Append(<<x>>, y) = <<x, y>>
  <1>1. Head(<<x>>) = x /\ Tail(<<x>>) = <<>> /\ <<x>> # <<>> /\ Append(<<>>, x) = <<x>>
    OBVIOUS
  <1>2. Head(<<x, y>>) = x /\ Tail(<<x, y>>) = <<y>>
    OBVIOUS
  <1>3. QED BY <1>1, <1>2, Pair

LEMMA ExchangeInit ==
  ASSUME NEW t, NEW b, NEW q, Exchange(b, "idle", q, t), b # <<>>
  PROVE  Exchange(b, "begun", Append(q, Msg("init", Head(b))), t)
  <1>1. b = <<t>> /\ q = <<>>
    BY DEF Exchange
  <1>2. QED BY <1>1, Singletons DEF Exchange

LEMMA ExchangeResult ==
  ASSUME NEW t, NEW b, NEW q, Exchange(b, "begun", q, t), b # <<>>
  PROVE  Exchange(Tail(b), "idle", Append(q, Msg("result", Head(b))), t)
  <1>1. b = <<t>> /\ q \in {<<>>, <<Msg("init", t)>>}
    BY DEF Exchange
  <1>2. Tail(b) = <<>> /\ Head(b) = t
    BY <1>1, Singletons
  <1>3. CASE q = <<>>
    <2>1. Append(q, Msg("result", t)) = <<Msg("result", t)>>
      BY <1>3, Singletons
    <2>2. QED BY <1>2, <2>1 DEF Exchange
  <1>4. CASE q = <<Msg("init", t)>>
    <2>1. Append(q, Msg("result", t)) = <<Msg("init", t), Msg("result", t)>>
      BY <1>4, Pair
    <2>2. QED BY <1>2, <2>1 DEF Exchange
  <1>5. QED BY <1>1, <1>3, <1>4

LEMMA ExchangeRead ==
  ASSUME NEW t, NEW b, NEW s, NEW q, Exchange(b, s, q, t), q # <<>>
  PROVE  /\ Head(q).of = t
         /\ Head(q).kind = "result" => b = <<>> /\ s = "idle" /\ Tail(q) = <<>>
         /\ Head(q).kind # "result" => Exchange(b, s, Tail(q), t)
  <1>1. /\ Msg("init", t).of = t /\ Msg("result", t).of = t
        /\ Msg("init", t).kind = "init" /\ Msg("result", t).kind = "result"
    BY DEF Msg
  <1>2. CASE b = <<t>> /\ s = "begun" /\ q = <<Msg("init", t)>>
    <2>1. Head(q) = Msg("init", t) /\ Tail(q) = <<>>
      BY <1>2, Singletons
    <2>2. QED BY <1>1, <1>2, <2>1 DEF Exchange
  <1>3. CASE b = <<>> /\ s = "idle" /\ q = <<Msg("init", t), Msg("result", t)>>
    <2>1. Head(q) = Msg("init", t) /\ Tail(q) = <<Msg("result", t)>>
      BY <1>3, Singletons
    <2>2. QED BY <1>1, <1>3, <2>1 DEF Exchange
  <1>4. CASE b = <<>> /\ s = "idle" /\ q = <<Msg("result", t)>>
    <2>1. Head(q) = Msg("result", t) /\ Tail(q) = <<>>
      BY <1>4, Singletons
    <2>2. QED BY <1>1, <1>4, <2>1
  <1>5. QED BY <1>2, <1>3, <1>4 DEF Exchange

(* A reader has no object and no answers before it begins. *)
FreshInv ==
  \A r \in Readers : /\ pc[r] \in {"new", "stopping"} => obj[r] = 0
                     /\ pc[r] = "spawning" \/ obj[r] = 0 => got[r] = {}

(* No reader of g was cut off, and /compact does not read it. *)
Shielded(g) == g \notin cut /\ g # obj[Compact]

ReadsFrom(t, g) == pc[t] = "reading" /\ obj[t] = g
SpawnsAs(t, g)  == pc[t] = "spawning" /\ obj[t] = g

(* On such an object everything is the present turn's, and between two turns *)
(* nothing is left.                                                          *)
OwnObject(g) ==
  /\ g = current /\ (\A t \in Turns : ~ReadsFrom(t, g)) => Silent(g)
  /\ \A t \in Turns : ReadsFrom(t, g) => Exchange(inbox[g], told[g], queue[g], t)
  /\ \A t \in Turns : SpawnsAs(t, g) => Silent(g)

OwnInv ==
  lockGen = 1 => /\ \A g \in Gens : Shielded(g) => OwnObject(g)
                 /\ \A t \in Turns : got[t] \subseteq {t} \/ ~Shielded(obj[t])

LEMMA OwnInit == Init => FreshInv /\ OwnInv
  <1> SUFFICES ASSUME Init PROVE FreshInv /\ OwnInv
    OBVIOUS
  <1>1. /\ \A r \in Readers : obj[r] = 0 /\ got[r] = {} /\ pc[r] = "new"
        /\ current = 0 /\ Turns \subseteq Readers
        /\ \A g \in Gens : g # 0
    BY Constants DEF Init
  <1>2. \A g \in Gens : OwnObject(g)
    BY <1>1 DEF OwnObject, ReadsFrom, SpawnsAs
  <1>3. QED BY <1>1, <1>2 DEF FreshInv, OwnInv

LEMMA FreshStep == TypeInv /\ FreshInv /\ [Next]_vars => FreshInv'
  <1> SUFFICES ASSUME TypeInv, FreshInv, [Next]_vars PROVE FreshInv'
    OBVIOUS
  <1>0. /\ pc \in [Readers -> Phases] /\ obj \in [Readers -> 0..MaxGen] /\ current \in 0..MaxGen
        /\ got \in [Readers -> SUBSET Readers]
        /\ Placed /\ Compact \in Readers /\ Turns \subseteq Readers /\ Gens = 1..MaxGen
    BY TypeFacts, Constants DEF TypeInv
  <1>w. ASSUME NEW r \in Readers, NEW h \in Gens, Write(r, h), UNCHANGED got PROVE FreshInv'
    <2>1. /\ pc'[r] = "reading" /\ obj'[r] = h /\ h # 0
          /\ \A q \in Readers \ {r} : pc'[q] = pc[q] /\ obj'[q] = obj[q]
      BY <1>w, WriteTypes, Constants
    <2>2. QED BY <1>w, <2>1 DEF FreshInv
  <1>c. ASSUME NEW t \in Turns, Construct(t), pc[t] \in {"new", "stopping"}, UNCHANGED got
        PROVE  FreshInv'
    <2>1. /\ pc'[t] = "spawning" /\ obj'[t] \in Gens
          /\ \A q \in Readers \ {t} : pc'[q] = pc[q] /\ obj'[q] = obj[q]
      BY <1>c, ConstructTypes
    <2>2. QED BY <1>0, <1>c, <2>1 DEF FreshInv
  <1>e. ASSUME UNCHANGED <<obj, got>>,
               \A r \in Readers : pc'[r] \in Ended \cup {pc[r]}
                                  \/ (pc[r] = "new" /\ pc'[r] = "stopping")
        PROVE  FreshInv'
    <2>1. Ended \cap {"new", "stopping", "spawning"} = {}
      BY DEF Ended
    <2>2. QED BY <1>e, <2>1 DEF FreshInv
  <1>1. ASSUME NEW t \in Turns, TurnStep(t) PROVE FreshInv'
    <2>0. t \in Readers
      BY Constants
    <2>1. CASE BeginReuse(t)
      <3>1. current \in Gens
        BY <1>0, <2>1 DEF BeginReuse, IsAlive
      <3>2. QED BY <1>w, <2>0, <2>1, <3>1 DEF BeginReuse, historyVars
    <2>2. CASE BeginFresh(t) \/ DeadStopped(t)
      BY <1>c, <2>2 DEF BeginFresh, DeadStopped, TakeLock
    <2>3. CASE Spawned(t)
      <3>1. obj[t] \in Gens
        BY <1>0, <2>0, <2>3 DEF Spawned, Placed
      <3>2. QED BY <1>w, <2>0, <2>3, <3>1 DEF Spawned, historyVars
    <2>4. CASE BeginRejected(t) \/ BeginDead(t)
      BY <1>0, <1>e, <2>0, <2>4
         DEF BeginRejected, BeginDead, TakeLock, historyVars, Ended
    <2>5. CASE SpawnFails(t) \/ Abort(t)
      <3>1. Leave(t, "failed") \/ Leave(t, "aborted")
        BY <2>5 DEF SpawnFails, Abort
      <3>2. \A r \in Readers : pc'[r] \in Ended \cup {pc[r]}
        BY <1>0, <2>0, <3>1 DEF Leave, Ended
      <3>3. UNCHANGED <<obj, got>>
        BY <2>5 DEF SpawnFails, Abort, historyVars
      <3>4. QED BY <1>e, <3>2, <3>3
    <2>6. QED BY <1>1, <2>1, <2>2, <2>3, <2>4, <2>5 DEF TurnStep
  <1>2. ASSUME BeginCompact PROVE FreshInv'
    <2>1. CASE IsAlive(current)
      <3>1. current \in Gens
        BY <1>0, <2>1 DEF IsAlive
      <3>2. QED BY <1>0, <1>w, <1>2, <2>1, <3>1 DEF BeginCompact, historyVars
    <2>2. CASE ~IsAlive(current)
      BY <1>0, <1>e, <1>2, <2>2 DEF BeginCompact, historyVars, Ended
    <2>3. QED BY <2>1, <2>2
  <1>3. ASSUME NEW r \in Readers, Read(r) PROVE FreshInv'
    <2>1. /\ obj[r] \in Gens /\ pc[r] = "reading" /\ obj' = obj
          /\ \A q \in Readers \ {r} : got'[q] = got[q]
          /\ Leave(r, "ended") \/ UNCHANGED <<pc, held>>
      BY <1>0, <1>3 DEF Read, Placed
    <2>2. pc'[r] \in {"reading", "ended"} /\ \A q \in Readers \ {r} : pc'[q] = pc[q]
      BY <1>0, <2>1 DEF Leave
    <2>3. obj'[r] # 0
      BY <1>0, <2>1
    <2>4. QED BY <2>1, <2>2, <2>3 DEF FreshInv
  <1>4. ASSUME NEW r \in Readers, ReadTimeout(r) PROVE FreshInv'
    BY <1>0, <1>e, <1>4 DEF ReadTimeout, Leave, Ended
  <1>5. ASSUME Restart PROVE FreshInv'
    BY <1>0, <1>e, <1>5 DEF Restart, Ended
  <1>6. ASSUME \/ \E kind \in {"reset", "remove"} : StopBegin(kind)
               \/ StopEnd \/ SlashReply
               \/ \E h \in Gens : CliInit(h) \/ CliResult(h) \/ CliExits(h) \/ ReaderEnds(h)
               \/ UNCHANGED vars
        PROVE  FreshInv'
    <2>1. UNCHANGED <<pc, obj, got>>
      BY <1>6 DEF StopBegin, StopEnd, SlashReply, CliInit, CliResult, CliSays, CliExits,
                  ReaderEnds, vars, adapterVars, historyVars
    <2>2. QED BY <1>e, <2>1
  <1>7. QED BY <1>1, <1>2, <1>3, <1>4, <1>5, <1>6 DEF Next
(* A turn that works or gets the first lock object is the only one that works. *)
LEMMA Alone ==
  ASSUME TypeInv, LockInv, lockGen = 1, NEW t \in Turns, pc[t] \in Working \/ TakeLock(t),
         NEW u \in Turns \ {t}
  PROVE  ~(pc[u] \in Working)
  <1>1. CASE pc[t] \in Working
    BY <1>1, AloneAtWork
  <1>2. CASE TakeLock(t)
    BY <1>2, AloneAtWork DEF TakeLock
  <1>3. QED BY <1>1, <1>2

(* What shields an object is only ever lost. *)
LEMMA ShieldStep ==
  ASSUME TypeInv, FreshInv, [Next]_vars
  PROVE  /\ cut \subseteq cut'
         /\ obj'[Compact] = obj[Compact] \/ obj[Compact] = 0
         /\ lockGen' = 1 => lockGen = 1
  <1>0. /\ obj \in [Readers -> 0..MaxGen] /\ pc \in [Readers -> Phases]
        /\ Compact \in Readers /\ Compact \notin Turns /\ Turns \subseteq Readers
        /\ lockGen \in Nat /\ lockGen > 0
    BY TypeFacts, Constants DEF TypeInv
  <1>1. ASSUME NEW t \in Turns, TurnStep(t)
        PROVE  cut \subseteq cut' /\ obj'[Compact] = obj[Compact] /\ lockGen' = lockGen
    BY <1>0, <1>1 DEF TurnStep, BeginRejected, BeginReuse, BeginFresh, BeginDead, DeadStopped,
                      Spawned, SpawnFails, Abort, Write, Construct, historyVars
  <1>2. ASSUME BeginCompact
        PROVE  cut \subseteq cut' /\ obj[Compact] = 0 /\ lockGen' = lockGen
    BY <1>0, <1>2 DEF BeginCompact, historyVars, FreshInv
  <1>3. ASSUME NEW r \in Readers, Read(r) \/ ReadTimeout(r)
        PROVE  cut \subseteq cut' /\ obj' = obj /\ lockGen' = lockGen
    BY <1>3 DEF Read, ReadTimeout
  <1>4. ASSUME NEW kind \in {"reset", "remove"}, StopBegin(kind) \/ StopEnd
        PROVE  cut \subseteq cut' /\ obj' = obj /\ (lockGen' = 1 => lockGen = 1)
    <2>1. cut' = cut /\ obj' = obj
      BY <1>4 DEF StopBegin, StopEnd
    <2>2. lockGen' \in Nat /\ lockGen' >= lockGen
      BY <1>0, <1>4, ForgetTypes, TypeFacts DEF StopBegin, StopEnd, TypeInv
    <2>3. QED BY <1>0, <2>1, <2>2
  <1>5. ASSUME \/ SlashReply \/ Restart
               \/ \E h \in Gens : CliInit(h) \/ CliResult(h) \/ CliExits(h) \/ ReaderEnds(h)
               \/ UNCHANGED vars
        PROVE  UNCHANGED <<cut, obj, lockGen>>
    BY <1>5 DEF SlashReply, Restart, CliInit, CliResult, CliSays, CliExits, ReaderEnds, vars,
                adapterVars, historyVars
  <1>6. QED BY <1>1, <1>2, <1>3, <1>4, <1>5 DEF Next

LEMMA OwnKept ==
  ASSUME NEW g \in Gens, OwnObject(g),
         queue'[g] = queue[g], inbox'[g] = inbox[g], told'[g] = told[g],
         g = current' => g = current,
         \A t \in Turns : (ReadsFrom(t, g)' <=> ReadsFrom(t, g)) /\ (SpawnsAs(t, g)' => SpawnsAs(t, g))
  PROVE  OwnObject(g)'
  <1>1. /\ g = current /\ (\A t \in Turns : ~ReadsFrom(t, g)) => Silent(g)
        /\ \A t \in Turns : ReadsFrom(t, g) => Exchange(inbox[g], told[g], queue[g], t)
        /\ \A t \in Turns : SpawnsAs(t, g) => Silent(g)
    BY DEF OwnObject
  <1>2. Silent(g)' <=> Silent(g)
    BY DEF Silent
  <1>3. \A t : Exchange(inbox[g], told[g], queue[g], t)
               => Exchange(inbox'[g], told'[g], queue'[g], t)
    OBVIOUS
  <1>4. /\ g = current' /\ (\A t \in Turns : ~ReadsFrom(t, g)') => Silent(g)'
        /\ \A t \in Turns : SpawnsAs(t, g)' => Silent(g)'
    BY <1>1, <1>2
  <1>5. \A t \in Turns : ReadsFrom(t, g)' => Exchange(inbox'[g], told'[g], queue'[g], t)
    BY <1>1, <1>3
  <1>6. QED BY <1>4, <1>5 DEF OwnObject

(* A turn that writes to a silent object begins an exchange of its own. *)
LEMMA OwnWrite ==
  ASSUME TypeInv, NEW t \in Turns, NEW h \in Gens, Write(t, h), UNCHANGED <<queue, told>>,
         current' = h,
         \A u \in Turns \ {t} : ~(pc[u] \in Working),
         Silent(h) \/ ~Shielded(h)',
         NEW g \in Gens, Shielded(g)'
  PROVE  OwnObject(g)'
  <1>1. /\ pc'[t] = "reading" /\ obj'[t] = h /\ inbox'[h] = Append(inbox[h], t)
        /\ \A q \in Readers \ {t} : pc'[q] = pc[q] /\ obj'[q] = obj[q]
        /\ Turns \subseteq Readers
    BY WriteTypes, Constants
  <1>2. \A u \in Turns : ~SpawnsAs(u, g)' /\ (ReadsFrom(u, g)' => u = t /\ g = h)
    BY <1>1, Constants DEF SpawnsAs, ReadsFrom, Working
  <1>3. CASE g = h
    <2>1. inbox'[h] = <<t>> /\ told'[h] = "idle" /\ queue'[h] = <<>>
      BY <1>1, <1>3, Singletons DEF Silent
    <2>2. Exchange(inbox'[h], told'[h], queue'[h], t)
      BY <2>1 DEF Exchange
    <2>3. ReadsFrom(t, g)'
      BY <1>1, <1>3 DEF ReadsFrom
    <2>4. QED BY <1>2, <1>3, <2>2, <2>3 DEF OwnObject
  <1>4. CASE g # h
    BY <1>2, <1>4 DEF OwnObject
  <1>5. QED BY <1>3, <1>4

(* A constructed object is silent, and nothing else is touched. *)
LEMMA OwnConstruct ==
  ASSUME TypeInv, MadeInv, NEW t \in Turns, Construct(t),
         UNCHANGED <<queue, inbox, told, current>>,
         pc[t] \in {"new", "stopping"},
         NEW g \in Gens, Shielded(g) => OwnObject(g), Shielded(g)', Shielded(g),
         \A u \in Turns \ {t} : ~(pc[u] \in Working)
  PROVE  OwnObject(g)'
  <1>1. /\ pc'[t] = "spawning" /\ obj'[t] = made' /\ made' = made + 1 /\ made \in 0..MaxGen
        /\ \A q \in Readers \ {t} : pc'[q] = pc[q] /\ obj'[q] = obj[q]
        /\ Turns \subseteq Readers /\ current \in 0..MaxGen /\ made' \in Gens
    BY ConstructTypes, Constants, TypeFacts DEF TypeInv
  <1>2. \A u \in Turns : ~ReadsFrom(u, g)' /\ ~ReadsFrom(u, g) /\ (SpawnsAs(u, g)' => g = made')
    BY <1>1 DEF SpawnsAs, ReadsFrom, Working
  <1>3. Silent(g)' <=> Silent(g)
    BY DEF Silent
  <1>4. CASE g = made'
    <2>1. Silent(g)
      BY <1>1, <1>4 DEF MadeInv
    <2>2. QED BY <1>2, <1>3, <2>1 DEF OwnObject
  <1>5. CASE g # made'
    BY <1>2, <1>3, <1>5 DEF OwnObject
  <1>6. QED BY <1>4, <1>5

LEMMA OwnTurn ==
  ASSUME TypeInv, LockInv, MadeInv, lockGen = 1, NEW t \in Turns, TurnStep(t),
         NEW g \in Gens, Shielded(g), Shielded(g)', \A h \in Gens : Shielded(h) => OwnObject(h),
         \A h \in Gens : Shielded(h)' => Shielded(h)
  PROVE  OwnObject(g)'
  <1>0. /\ pc \in [Readers -> Phases] /\ obj \in [Readers -> 0..MaxGen] /\ current \in 0..MaxGen
        /\ Placed /\ t \in Readers /\ Turns \subseteq Readers /\ Gens = 1..MaxGen
    BY TypeFacts, Constants DEF TypeInv
  <1>1. CASE BeginRejected(t)
    <2>1. pc' = [pc EXCEPT ![t] = "rejected"] /\ pc[t] = "new" /\ obj' = obj
      BY <1>1 DEF BeginRejected
    <2>2. \A u \in Turns : (ReadsFrom(u, g)' <=> ReadsFrom(u, g)) /\ (SpawnsAs(u, g)' => SpawnsAs(u, g))
      BY <1>0, <2>1 DEF ReadsFrom, SpawnsAs
    <2>3. UNCHANGED <<queue, inbox, told, current>>
      BY <1>1 DEF BeginRejected, sessionVars
    <2>4. QED BY <2>2, <2>3, OwnKept
  <1>2. CASE BeginReuse(t)
    <2>0. TakeLock(t) /\ Write(t, current) /\ UNCHANGED <<queue, told, current>> /\ IsAlive(current)
      BY <1>2 DEF BeginReuse
    <2>1. current \in Gens
      BY <1>0, <2>0 DEF IsAlive
    <2>2. \A u \in Turns \ {t} : ~(pc[u] \in Working)
      BY <2>0, Alone
    <2>3. \A u \in Turns : ~ReadsFrom(u, current)
      BY <2>0, <2>2 DEF ReadsFrom, Working, TakeLock
    <2>4. Silent(current) \/ ~Shielded(current)
      BY <2>1, <2>3 DEF OwnObject
    <2>5. Shielded(current)' => Silent(current)
      BY <2>0, <2>1, <2>4
    <2>6. QED BY <2>0, <2>1, <2>2, <2>5, OwnWrite
  <1>3. CASE BeginFresh(t)
    <2>1. TakeLock(t) /\ Construct(t) /\ UNCHANGED <<queue, inbox, told, current>> /\ pc[t] = "new"
      BY <1>3 DEF BeginFresh, TakeLock
    <2>2. \A u \in Turns \ {t} : ~(pc[u] \in Working)
      BY <2>1, Alone
    <2>3. QED BY <2>1, <2>2, OwnConstruct
  <1>4. CASE BeginDead(t)
    <2>1. /\ pc' = [pc EXCEPT ![t] = "stopping"] /\ pc[t] = "new"
          /\ UNCHANGED <<obj, queue, inbox, told, current>>
      BY <1>4 DEF BeginDead, TakeLock
    <2>2. \A u \in Turns : (ReadsFrom(u, g)' <=> ReadsFrom(u, g)) /\ (SpawnsAs(u, g)' => SpawnsAs(u, g))
      BY <1>0, <2>1 DEF ReadsFrom, SpawnsAs
    <2>3. QED BY <2>1, <2>2, OwnKept
  <1>5. CASE DeadStopped(t)
    <2>1. Construct(t) /\ UNCHANGED <<queue, inbox, told, current>> /\ pc[t] = "stopping"
      BY <1>5 DEF DeadStopped
    <2>2. \A u \in Turns \ {t} : ~(pc[u] \in Working)
      BY <2>1, Alone DEF Working
    <2>3. QED BY <2>1, <2>2, OwnConstruct
  <1>6. CASE Spawned(t)
    <2>1. /\ pc[t] = "spawning" /\ Write(t, obj[t]) /\ UNCHANGED <<queue, told>>
          /\ current' = obj[t] /\ obj[t] \in Gens
      BY <1>0, <1>6 DEF Spawned, Placed
    <2>2. \A u \in Turns \ {t} : ~(pc[u] \in Working)
      BY <2>1, Alone DEF Working
    <2>3. Shielded(obj[t]) => Silent(obj[t])
      BY <2>1 DEF OwnObject, SpawnsAs
    <2>4. obj'[t] = obj[t]
      BY <1>0, <2>1, WriteTypes
    <2>5. \A h \in Gens : Shielded(h)' => Shielded(h)
      OBVIOUS
    <2>6. PICK h \in Gens : h = obj[t]
      BY <2>1
    <2>7. Silent(h) \/ ~Shielded(h)'
      BY <2>3, <2>5, <2>6
    <2>8. Write(t, h) /\ current' = h
      BY <2>1, <2>6
    <2>9. QED BY <2>1, <2>2, <2>7, <2>8, OwnWrite
  <1>7. CASE SpawnFails(t)
    <2>1. /\ pc' = [pc EXCEPT ![t] = "failed"] /\ pc[t] = "spawning"
          /\ UNCHANGED <<obj, queue, inbox, told, current>>
      BY <1>7 DEF SpawnFails, Leave, sessionVars
    <2>2. \A u \in Turns : (ReadsFrom(u, g)' <=> ReadsFrom(u, g)) /\ (SpawnsAs(u, g)' => SpawnsAs(u, g))
      BY <1>0, <2>1 DEF ReadsFrom, SpawnsAs
    <2>3. QED BY <2>1, <2>2, OwnKept
  <1>8. CASE Abort(t)
    <2>1. /\ pc' = [pc EXCEPT ![t] = "aborted"]
          /\ cut' = IF pc[t] = "reading" THEN cut \cup {obj[t]} ELSE cut
          /\ UNCHANGED <<obj, queue, inbox, told, current>>
      BY <1>8 DEF Abort, Leave, sessionVars
    <2>2. ~ReadsFrom(t, g)
      BY <2>1 DEF ReadsFrom, Shielded
    <2>3. \A u \in Turns : (ReadsFrom(u, g)' <=> ReadsFrom(u, g)) /\ (SpawnsAs(u, g)' => SpawnsAs(u, g))
      BY <1>0, <2>1, <2>2 DEF ReadsFrom, SpawnsAs
    <2>4. QED BY <2>1, <2>3, OwnKept
  <1>9. QED BY <1>1, <1>2, <1>3, <1>4, <1>5, <1>6, <1>7, <1>8 DEF TurnStep
(* /compact touches an object that is not shielded from then on. *)
LEMMA OwnCompact ==
  ASSUME TypeInv, BeginCompact, NEW g \in Gens, OwnObject(g), Shielded(g)'
  PROVE  OwnObject(g)'
  <1>0. /\ pc \in [Readers -> Phases] /\ obj \in [Readers -> 0..MaxGen] /\ current \in 0..MaxGen
        /\ Compact \in Readers /\ Turns \subseteq Readers /\ Compact \notin Turns
        /\ Gens = 1..MaxGen
    BY TypeFacts, Constants DEF TypeInv
  <1>1. UNCHANGED <<queue, told, current>>
    BY DEF BeginCompact
  <1>2. inbox'[g] = inbox[g] /\ \A u \in Turns : pc'[u] = pc[u] /\ obj'[u] = obj[u]
    <2>1. CASE IsAlive(current)
      <3>1. current \in Gens /\ Write(Compact, current)
        BY <1>0, <2>1 DEF BeginCompact, IsAlive
      <3>2. /\ \A h \in Gens \ {current} : inbox'[h] = inbox[h]
            /\ obj'[Compact] = current
            /\ \A q \in Readers \ {Compact} : pc'[q] = pc[q] /\ obj'[q] = obj[q]
        BY <1>0, <3>1, WriteTypes
      <3>3. g # current
        BY <3>2 DEF Shielded
      <3>4. QED BY <1>0, <3>2, <3>3
    <2>2. CASE ~IsAlive(current)
      BY <1>0, <2>2 DEF BeginCompact
    <2>3. QED BY <2>1, <2>2
  <1>3. QED BY <1>1, <1>2, OwnKept DEF ReadsFrom, SpawnsAs

LEMMA OwnRead ==
  ASSUME TypeInv, LockInv, lockGen = 1, NEW r \in Readers, Read(r),
         NEW g \in Gens, Shielded(g), Shielded(g)', OwnObject(g)
  PROVE  OwnObject(g)'
  <1> DEFINE h == obj[r]
  <1> DEFINE m == Head(queue[h])
  <1>0. /\ pc \in [Readers -> Phases] /\ queue \in [Gens -> Seq(Message)] /\ Placed
        /\ Turns \subseteq Readers /\ r \in Turns \cup {Compact}
    BY TypeFacts, Constants DEF TypeInv, Readers
  <1>1. /\ pc[r] = "reading" /\ h \in Gens /\ queue[h] # <<>>
        /\ queue' = [queue EXCEPT ![h] = Tail(@)]
        /\ UNCHANGED <<obj, inbox, told, current, alive>>
        /\ IF m.kind = "result" \/ ~alive[h] THEN Leave(r, "ended") ELSE UNCHANGED <<pc, held>>
        /\ cut' = IF m.kind # "result" /\ ~alive[h] THEN cut \cup {h} ELSE cut
    BY <1>0 DEF Read, Placed
  <1>2. pc'[r] \in {"reading", "ended"} /\ \A q \in Readers \ {r} : pc'[q] = pc[q]
    BY <1>0, <1>1 DEF Leave
  <1>3. CASE g # h
    <2>1. queue'[g] = queue[g]
      BY <1>0, <1>1, <1>3
    <2>2. \A u \in Turns : (ReadsFrom(u, g)' <=> ReadsFrom(u, g)) /\ (SpawnsAs(u, g)' => SpawnsAs(u, g))
      BY <1>0, <1>1, <1>2, <1>3 DEF ReadsFrom, SpawnsAs
    <2>3. QED BY <1>1, <2>1, <2>2, OwnKept
  <1>4. CASE g = h
    <2>1. r \in Turns
      BY <1>0, <1>4 DEF Shielded
    <2>2. Exchange(inbox[g], told[g], queue[g], r)
      BY <1>1, <1>4, <2>1 DEF OwnObject, ReadsFrom
    <2>3. /\ m.kind = "result" => inbox[g] = <<>> /\ told[g] = "idle" /\ Tail(queue[g]) = <<>>
          /\ m.kind # "result" => Exchange(inbox[g], told[g], Tail(queue[g]), r)
      <3>1. queue[g] # <<>> /\ m = Head(queue[g])
        BY <1>1, <1>4
      <3>2. \A b, s, q : Exchange(b, s, q, r) /\ q # <<>> =>
               /\ Head(q).kind = "result" => b = <<>> /\ s = "idle" /\ Tail(q) = <<>>
               /\ Head(q).kind # "result" => Exchange(b, s, Tail(q), r)
        BY ExchangeRead
      <3>3. QED BY <2>2, <3>1, <3>2
    <2>4. queue'[g] = Tail(queue[g]) /\ inbox'[g] = inbox[g] /\ told'[g] = told[g]
      BY <1>0, <1>1, <1>4
    <2>5. \A u \in Turns \ {r} : ~ReadsFrom(u, g)' /\ ~SpawnsAs(u, g)'
      <3>1. \A u \in Turns \ {r} : ~(pc[u] \in Working)
        BY <1>1, <2>1, Alone DEF Working
      <3>2. QED BY <1>0, <1>2, <3>1 DEF ReadsFrom, SpawnsAs, Working
    <2>6. ~SpawnsAs(r, g)'
      BY <1>2 DEF SpawnsAs
    <2>7. CASE m.kind = "result"
      <3>1. pc'[r] # "reading"
        BY <1>0, <1>1, <2>7 DEF Leave
      <3>2. ~ReadsFrom(r, g)'
        BY <3>1 DEF ReadsFrom
      <3>3. Silent(g)'
        BY <2>3, <2>4, <2>7 DEF Silent
      <3>4. QED BY <2>5, <2>6, <3>2, <3>3 DEF OwnObject
    <2>8. CASE m.kind # "result"
      <3>1. alive[h]
        BY <1>1, <1>4, <2>8 DEF Shielded
      <3>2. ReadsFrom(r, g)'
        BY <1>1, <1>4, <2>8, <3>1 DEF ReadsFrom
      <3>3. Exchange(inbox'[g], told'[g], queue'[g], r)
        BY <2>3, <2>4, <2>8
      <3>4. QED BY <2>1, <2>5, <2>6, <3>2, <3>3 DEF OwnObject
    <2>9. QED BY <2>7, <2>8
  <1>5. QED BY <1>3, <1>4

LEMMA OwnTimeout ==
  ASSUME TypeInv, NEW r \in Readers, ReadTimeout(r),
         NEW g \in Gens, Shielded(g)', OwnObject(g)
  PROVE  OwnObject(g)'
  <1>0. pc \in [Readers -> Phases] /\ Turns \subseteq Readers
    BY TypeFacts, Constants DEF TypeInv
  <1>1. /\ pc[r] = "reading" /\ pc' = [pc EXCEPT ![r] = "ended"] /\ cut' = cut \cup {obj[r]}
        /\ UNCHANGED <<obj, queue, inbox, told, current>>
    BY DEF ReadTimeout, Leave, sessionVars
  <1>2. g # obj[r]
    BY <1>1 DEF Shielded
  <1>3. \A u \in Turns : (ReadsFrom(u, g)' <=> ReadsFrom(u, g)) /\ (SpawnsAs(u, g)' => SpawnsAs(u, g))
    BY <1>0, <1>1, <1>2 DEF ReadsFrom, SpawnsAs
  <1>4. QED BY <1>1, <1>3, OwnKept

LEMMA OwnCli ==
  ASSUME TypeInv, NEW h \in Gens, CliInit(h) \/ CliResult(h), NEW g \in Gens, OwnObject(g)
  PROVE  OwnObject(g)'
  <1>0. /\ queue \in [Gens -> Seq(Message)] /\ inbox \in [Gens -> Seq(Readers)]
        /\ told \in [Gens -> {"idle", "begun"}]
    BY TypeFacts DEF TypeInv
  <1>1. /\ inbox[h] # <<>> /\ UNCHANGED <<pc, obj, current>>
        /\ \A i \in Gens \ {h} : queue'[i] = queue[i] /\ inbox'[i] = inbox[i] /\ told'[i] = told[i]
    BY <1>0 DEF CliInit, CliResult, CliSays, Running, adapterVars
  <1>2. CASE g # h
    BY <1>1, <1>2, OwnKept DEF ReadsFrom, SpawnsAs
  <1>3. CASE g = h
    <2>1. ~Silent(g)
      BY <1>1, <1>3 DEF Silent
    <2>2. \A u \in Turns : /\ ReadsFrom(u, g)' <=> ReadsFrom(u, g)
                           /\ SpawnsAs(u, g)' <=> SpawnsAs(u, g)
      BY <1>1 DEF ReadsFrom, SpawnsAs
    <2>3. ASSUME NEW u \in Turns, ReadsFrom(u, g)'
          PROVE  Exchange(inbox'[g], told'[g], queue'[g], u)
      <3>1. Exchange(inbox[g], told[g], queue[g], u)
        BY <2>2, <2>3 DEF OwnObject
      <3>2. CASE CliInit(h)
        <4>1. /\ told[g] = "idle" /\ told'[g] = "begun" /\ inbox'[g] = inbox[g]
              /\ queue'[g] = Append(queue[g], Msg("init", Head(inbox[g])))
          BY <1>0, <1>3, <3>2 DEF CliInit, CliSays
        <4>2. QED BY <1>1, <1>3, <3>1, <4>1, ExchangeInit
      <3>3. CASE CliResult(h)
        <4>1. /\ told[g] = "begun" /\ told'[g] = "idle" /\ inbox'[g] = Tail(inbox[g])
              /\ queue'[g] = Append(queue[g], Msg("result", Head(inbox[g])))
          BY <1>0, <1>3, <3>3 DEF CliResult, CliSays
        <4>2. QED BY <1>1, <1>3, <3>1, <4>1, ExchangeResult
      <3>4. QED BY <3>2, <3>3
    <2>4. \A u \in Turns : ~SpawnsAs(u, g)'
      BY <2>1, <2>2 DEF OwnObject
    <2>5. ~(g = current' /\ \A u \in Turns : ~ReadsFrom(u, g)')
      BY <1>1, <2>1, <2>2 DEF OwnObject
    <2>6. QED BY <2>3, <2>4, <2>5 DEF OwnObject
  <1>4. QED BY <1>2, <1>3

LEMMA OwnOther ==
  ASSUME TypeInv,
         \/ \E kind \in {"reset", "remove"} : StopBegin(kind)
         \/ StopEnd \/ SlashReply \/ Restart
         \/ \E h \in Gens : CliExits(h) \/ ReaderEnds(h)
         \/ UNCHANGED vars,
         NEW g \in Gens, OwnObject(g)
  PROVE  OwnObject(g)'
  <1>0. pc \in [Readers -> Phases] /\ Turns \subseteq Readers /\ Gens = 1..MaxGen
    BY TypeFacts, Constants DEF TypeInv
  <1>1. UNCHANGED <<obj, queue, inbox, told>> /\ current' \in {0, current}
    BY DEF StopBegin, StopEnd, SlashReply, Restart, CliExits, ReaderEnds, vars, adapterVars,
           sessionVars
  <1>2. g # 0
    BY <1>0
  <1>3. CASE pc' = pc
    BY <1>1, <1>2, <1>3, OwnKept DEF ReadsFrom, SpawnsAs
  <1>4. CASE Restart
    <2>1. current' = 0 /\ \A u \in Turns : pc'[u] \notin {"spawning", "reading"}
      BY <1>0, <1>4 DEF Restart, AtWork
    <2>2. QED BY <1>2, <2>1 DEF OwnObject, ReadsFrom, SpawnsAs
  <1>5. QED
    BY <1>3, <1>4 DEF StopBegin, StopEnd, SlashReply, CliExits, ReaderEnds, vars, adapterVars

(* A turn that has read anything but its own read it from an unshielded object. *)
LEMMA GotStep ==
  ASSUME TypeInv, FreshInv, OwnInv, lockGen = 1, [Next]_vars, NEW t \in Turns
  PROVE  got'[t] \subseteq {t} \/ ~Shielded(obj[t])'
  <1>0. /\ pc \in [Readers -> Phases] /\ obj \in [Readers -> 0..MaxGen]
        /\ got \in [Readers -> SUBSET Readers] /\ queue \in [Gens -> Seq(Message)]
        /\ t \in Readers /\ Compact \in Readers /\ t # Compact /\ Placed
    BY TypeFacts, Constants DEF TypeInv
  <1>1. got[t] \subseteq {t} \/ ~Shielded(obj[t])
    BY DEF OwnInv
  <1>2. /\ pc[t] \in {"new", "stopping", "spawning"} => got[t] = {}
        /\ obj[t] = 0 => got[t] = {}
    BY <1>0 DEF FreshInv
  <1>3. obj'[t] = obj[t] \/ got'[t] = {}
    <2>1. ASSUME NEW u \in Turns, TurnStep(u) PROVE obj'[t] = obj[t] \/ got'[t] = {}
      BY <1>0, <1>2, <2>1
         DEF TurnStep, BeginRejected, BeginReuse, BeginFresh, BeginDead, DeadStopped, Spawned,
             SpawnFails, Abort, TakeLock, Write, Construct, historyVars
    <2>2. ASSUME BeginCompact PROVE obj'[t] = obj[t]
      BY <1>0, <2>2 DEF BeginCompact, Write
    <2>3. ASSUME \/ \E r \in Readers : Read(r) \/ ReadTimeout(r)
                 \/ \E kind \in {"reset", "remove"} : StopBegin(kind)
                 \/ StopEnd \/ SlashReply \/ Restart
                 \/ \E h \in Gens : CliInit(h) \/ CliResult(h) \/ CliExits(h) \/ ReaderEnds(h)
                 \/ UNCHANGED vars
          PROVE  obj' = obj
      BY <2>3 DEF Read, ReadTimeout, StopBegin, StopEnd, SlashReply, Restart, CliInit, CliResult,
                  CliSays, CliExits, ReaderEnds, vars, adapterVars
    <2>4. QED BY <2>1, <2>2, <2>3 DEF Next
  <1>4. CASE Read(t)
    <2>1. obj[t] \in Gens /\ pc[t] = "reading" /\ queue[obj[t]] # <<>> /\ obj' = obj
          /\ got'[t] = got[t] \cup {Head(queue[obj[t]]).of}
      BY <1>0, <1>4 DEF Read, Placed
    <2>2. Shielded(obj[t]) => Head(queue[obj[t]]).of = t
      <3>1. Shielded(obj[t]) => Exchange(inbox[obj[t]], told[obj[t]], queue[obj[t]], t)
        BY <2>1 DEF OwnInv, OwnObject, ReadsFrom
      <3>2. \A b, s, q : Exchange(b, s, q, t) /\ q # <<>> => Head(q).of = t
        BY ExchangeRead
      <3>3. QED BY <2>1, <3>1, <3>2
    <2>3. obj[t] # 0
      BY <2>1, Constants
    <2>4. Shielded(obj[t])' => Shielded(obj[t])
      BY <2>1, <2>3, ShieldStep DEF Shielded
    <2>5. QED BY <1>1, <2>1, <2>2, <2>4
  <1>5. CASE ~Read(t)
    <2>1. got'[t] = got[t]
      <3>1. ASSUME NEW r \in Readers, Read(r) PROVE got'[t] = got[t]
        BY <1>0, <1>5, <3>1 DEF Read
      <3>2. ASSUME ~\E r \in Readers : Read(r) PROVE got' = got
        BY <3>2 DEF Next, TurnStep, BeginRejected, BeginReuse, BeginFresh, BeginDead, DeadStopped,
             Spawned, SpawnFails, Abort, BeginCompact, ReadTimeout, StopBegin, StopEnd, SlashReply,
             Restart, CliInit, CliResult, CliSays, CliExits, ReaderEnds, vars, historyVars
      <3>3. QED BY <3>1, <3>2
    <2>2. CASE obj'[t] = obj[t]
      <3>1. CASE obj[t] = 0
        BY <1>2, <2>1, <3>1
      <3>2. CASE obj[t] # 0
        <4>1. Shielded(obj[t])' => Shielded(obj[t])
          BY <2>2, <3>2, ShieldStep DEF Shielded
        <4>2. QED BY <1>1, <2>1, <4>1
      <3>3. QED BY <3>1, <3>2
    <2>3. QED BY <1>3, <2>2
  <1>6. QED BY <1>4, <1>5

LEMMA OwnStep ==
  TypeInv /\ LockInv /\ MadeInv /\ FreshInv /\ OwnInv /\ [Next]_vars => OwnInv'
  <1> SUFFICES ASSUME TypeInv, LockInv, MadeInv, FreshInv, OwnInv, [Next]_vars, lockGen' = 1
               PROVE  /\ \A g \in Gens : Shielded(g)' => OwnObject(g)'
                      /\ \A t \in Turns : got'[t] \subseteq {t} \/ ~Shielded(obj[t])'
    BY DEF OwnInv
  <1>1. lockGen = 1 /\ \A g \in Gens : Shielded(g) => OwnObject(g)
    BY ShieldStep DEF OwnInv
  <1>2. \A g \in Gens : Shielded(g)' => Shielded(g)
    BY ShieldStep, Constants DEF Shielded
  <1>3. ASSUME NEW g \in Gens, Shielded(g)' PROVE OwnObject(g)'
    <2>1. Shielded(g) /\ OwnObject(g)
      BY <1>1, <1>2, <1>3
    <2>2. ASSUME NEW t \in Turns, TurnStep(t) PROVE OwnObject(g)'
      BY <1>1, <1>2, <1>3, <2>1, <2>2, OwnTurn
    <2>3. ASSUME BeginCompact PROVE OwnObject(g)'
      BY <1>3, <2>1, <2>3, OwnCompact
    <2>4. ASSUME NEW r \in Readers, Read(r) \/ ReadTimeout(r) PROVE OwnObject(g)'
      BY <1>1, <1>3, <2>1, <2>4, OwnRead, OwnTimeout
    <2>5. ASSUME NEW h \in Gens, CliInit(h) \/ CliResult(h) PROVE OwnObject(g)'
      BY <2>1, <2>5, OwnCli
    <2>6. ASSUME \/ \E kind \in {"reset", "remove"} : StopBegin(kind)
                 \/ StopEnd \/ SlashReply \/ Restart
                 \/ \E h \in Gens : CliExits(h) \/ ReaderEnds(h)
                 \/ UNCHANGED vars
          PROVE  OwnObject(g)'
      BY <2>1, <2>6, OwnOther
    <2>7. QED BY <2>2, <2>3, <2>4, <2>5, <2>6 DEF Next
  <1>4. QED BY <1>1, <1>3, GotStep

LEMMA OwnSafe == TypeInv /\ OwnInv => StrayOnlyAfterCut
  BY DEF OwnInv, StrayOnlyAfterCut, Shielded

-----------------------------------------------------------------------------
(* Results *)

ControllerInv ==
  TypeInv /\ LockInv /\ DiskCurrent /\ MadeInv /\ CompactInv /\ ForgetInv /\ FreshInv /\ OwnInv

LEMMA ControllerInvariance == Spec => []ControllerInv
  <1>1. Init => ControllerInv
    BY TypeInit, LockInit, DiskInit, MadeInit, CompactInit, OwnInit DEF ControllerInv
  <1>2. ControllerInv /\ [Next]_vars => ControllerInv'
    BY TypeStep, LockStep, DiskStep, MadeStep, CompactStep, ForgetStep, FreshStep, OwnStep
       DEF ControllerInv
  <1>3. QED BY <1>1, <1>2, PTL DEF Spec

\* However many turns, resets, removals, exits and restarts there are: every variable has
\* its type; one turn at a time reads a session; a turn is given its own answer unless a
\* reader of that process was cut off or /compact read next to it; after a reset that met
\* no turn the old conversation is gone; and the file says what the adapter knows
\* (adapter.py:1367-1375, 2570-2574).
THEOREM SessionsAreSafe == Spec => []ControllerSafe
  <1>1. ControllerInv => ControllerSafe
    BY LockSafe, ForgetSafe, OwnSafe DEF ControllerInv, ControllerSafe, TypeInv
  <1>2. QED BY <1>1, ControllerInvariance, PTL

\* Two turns never hold the same lock object, dropped from the table or not: what a
\* removed slot allows is two turns with two locks, and nothing else
\* (adapter.py:1367-1375).
THEOREM LocksAreExclusive ==
  Spec => [](\A t, u \in Turns : held[t] = held[u] /\ held[t] # 0 => t = u)
  <1>1. ControllerInv => \A t, u \in Turns : held[t] = held[u] /\ held[t] # 0 => t = u
    BY DEF ControllerInv, LockInv
  <1>2. QED BY <1>1, ControllerInvariance, PTL

-----------------------------------------------------------------------------
(* Turns are numbered, and other users' runs are not turns of the bot. *)
ConstantsOK ==
  /\ Chats \subseteq Int /\ Other \notin Chats
  /\ Length \in Nat /\ MaxSocks \in Nat /\ MaxLosses \in Nat

Events == [run : G!Runs, kind : {"delta", "final", "aborted"}, n : 0..Length]
Pieces == G!Runs \X Nat

GatewayTypes ==
  /\ turn \in [Chats -> {"idle", "connect", "post", "posted", "top", "wait", "ended"}]
  /\ result \in [Chats -> {"none", "final", "aborted", "error", "cancelled", "timeout"}]
  /\ known \subseteq Chats /\ deaf \subseteq Chats
  /\ events \in [Chats -> Seq(Events)] /\ wire \in [G!Socks -> Seq(Events)]
  /\ cum \in [Chats -> 0..Length] /\ shown \in [Chats -> Seq(Pieces)]
  /\ sock \in [G!Socks -> {"none", "open", "dead", "gone"}]
  /\ connected \in BOOLEAN /\ recon \in Nat /\ mark \in BOOLEAN /\ aborting \in BOOLEAN
  /\ state \in [G!Runs -> {"none", "going", "over"}] /\ sent \in [G!Runs -> 0..Length]
  /\ disturbed \in 0..MaxLosses /\ reached \in BOOLEAN
  /\ overheard \subseteq Chats /\ doubled \subseteq Chats /\ missed \subseteq Chats
  /\ asked \subseteq Chats

-----------------------------------------------------------------------------
(* Sequences of events: s tells run r in order, from m on, up to m, and      *)
(* before what z tells of it.                                                *)
Ordered(s, r) ==
  \A i, j \in 1..Len(s) : i <= j /\ s[i].run = r /\ s[j].run = r => s[i].n <= s[j].n
From(s, r, m)   == \A i \in 1..Len(s) : s[i].run = r => m <= s[i].n
UpTo(s, r, m)   == \A i \in 1..Len(s) : s[i].run = r => s[i].n <= m
Before(s, z, r) == \A i \in 1..Len(s) : s[i].run = r => From(z, r, s[i].n)

(* s has only events of r; a final message has the whole text; s tells the   *)
(* end of r; s has an abort of one of the bot's turns.                       *)
Own(s, r)       == \A i \in 1..Len(s) : s[i].run = r
FinalsWhole(s)  == \A i \in 1..Len(s) : s[i].kind = "final" => s[i].n = Length
TellsEnd(s, r)  == \E i \in 1..Len(s) : s[i].run = r /\ s[i].kind # "delta"
TellsAbort(s)   == \E i \in 1..Len(s) : s[i].run \in Chats /\ s[i].kind = "aborted"

Active(t)  == turn[t] \notin {"idle", "ended"}
Hearing(t) == turn[t] \in {"post", "posted", "top", "wait"}

(* Turns follow one another. *)
TurnInv ==
  /\ \A t, u \in Chats : u < t /\ turn[t] # "idle" => turn[u] = "ended"
  /\ \A t \in Chats : result[t] # "none" <=> turn[t] = "ended"
  /\ \A t \in Chats : turn[t] = "posted" \/ t \in known => state[t] # "none"

(* Events under way are on open sockets, in order and up to what was sent. *)
WireInv ==
  /\ \A k \in G!Socks : wire[k] # <<>> => sock[k] = "open"
  /\ \A k \in G!Socks : FinalsWhole(wire[k])
  /\ \A k \in G!Socks, r \in G!Runs : Ordered(wire[k], r) /\ UpTo(wire[k], r, sent[r])

(* Only an overheard event in a queue is of another run. *)
QueueInv ==
  /\ \A t \in Chats : FinalsWhole(events[t])
  /\ \A t \in Chats \ overheard : Own(events[t], t)

(* A turn that listens has one socket. *)
OneSocket == \A t \in Chats \ (doubled \cup deaf) : Hearing(t) => ~G!Twice

Clear == Chats \ (overheard \cup doubled)

(* What was shown is the text up to cumulative_text, and what is to come     *)
(* begins there: first in the queue, then on the wire.                       *)
TextSoFar ==
  \A t \in Clear :
    /\ turn[t] # "ended" => shown[t] = G!Whole(t, cum[t])
    /\ turn[t] = "ended" => shown[t] = G!Whole(t, Len(shown[t]))
    /\ result[t] = "final" => shown[t] = G!Whole(t, Length)
TextToCome ==
  \A t \in Clear :
    turn[t] # "ended" =>
      /\ Ordered(events[t], t) /\ From(events[t], t, cum[t]) /\ UpTo(events[t], t, sent[t])
      /\ cum[t] <= sent[t]
      /\ t \notin deaf => \A k \in G!Socks : /\ From(wire[k], t, cum[t])
                                             /\ Before(events[t], wire[k], t)

(* A turn that nothing has cut has a socket, and the end of its run, once it *)
(* is over, is in its queue or on an open socket.                            *)
LossInv ==
  /\ deaf \subseteq missed
  /\ \A t \in Chats \ missed : Hearing(t) => G!Open # {}
  /\ \A t \in Chats \ missed :
       Hearing(t) /\ turn[t] # "post" /\ state[t] = "over" =>
         TellsEnd(events[t], t) \/ \E k \in G!Open : TellsEnd(wire[k], t)
  /\ G!TimeoutOnlyAfterLoss

(* An abort was asked for by a turn that had begun. *)
AskedInv ==
  /\ \A u \in asked : turn[u] # "idle"
  /\ mark => \A t \in Chats : Active(t) => t \in asked
  /\ aborting => asked # {}
  /\ \A k \in G!Socks : TellsAbort(wire[k]) => asked # {}
  /\ \A t \in Chats : TellsAbort(events[t]) => asked # {}
  /\ G!AbortedOnlyIfAsked

ConnInv == G!ConnectedIsRead /\ (reached \/ ~connected)

GatewayInv ==
  /\ GatewayTypes /\ TurnInv /\ WireInv /\ QueueInv /\ OneSocket /\ TextSoFar /\ TextToCome
  /\ LossInv /\ AskedInv /\ ConnInv

-----------------------------------------------------------------------------
(* Lemmas about sequences of events.                                         *)
LEMMA AppendIs ==
  ASSUME NEW S, NEW s \in Seq(S), NEW e \in S
  PROVE  /\ Append(s, e) \in Seq(S) /\ Len(Append(s, e)) = Len(s) + 1 /\ Len(s) \in Nat
         /\ \A i \in 1..Len(s) : Append(s, e)[i] = s[i]
         /\ Append(s, e)[Len(s) + 1] = e
         /\ Append(s, e) # <<>>
  OBVIOUS

LEMMA TailIs ==
  ASSUME NEW S, NEW s \in Seq(S), s # <<>>
  PROVE  /\ Tail(s) \in Seq(S) /\ Len(s) \in Nat /\ Len(s) >= 1
         /\ Len(Tail(s)) = Len(s) - 1
         /\ Head(s) = s[1] /\ Head(s) \in S
         /\ \A i \in 1..Len(Tail(s)) : Tail(s)[i] = s[i + 1] /\ i + 1 \in 1..Len(s)
  <1>1. Len(s) \in Nat /\ Len(s) # 0
    OBVIOUS
  <1>2. QED BY <1>1

LEMMA EventFields ==
  ASSUME ConstantsOK, NEW e \in Events
  PROVE  e.run \in G!Runs /\ e.kind \in {"delta", "final", "aborted"} /\ e.n \in Nat /\ e.n <= Length
  BY DEF ConstantsOK, Events

LEMMA EventIs ==
  ASSUME ConstantsOK, NEW r \in G!Runs, NEW c \in {"delta", "final", "aborted"}, NEW m \in 0..Length
  PROVE  /\ G!Event(r, c, m) \in Events
         /\ G!Event(r, c, m).run = r /\ G!Event(r, c, m).kind = c /\ G!Event(r, c, m).n = m
  BY DEF G!Event, Events

LEMMA ElementIs ==
  ASSUME ConstantsOK, NEW s \in Seq(Events), NEW i \in 1..Len(s)
  PROVE  /\ s[i] \in Events /\ s[i].run \in G!Runs /\ s[i].n \in Nat /\ s[i].n <= Length
         /\ s[i].kind \in {"delta", "final", "aborted"}
  <1>1. s[i] \in Events
    OBVIOUS
  <1>2. QED BY <1>1, EventFields

(* An event that comes no earlier keeps the order. *)
LEMMA AppendOrdered ==
  ASSUME ConstantsOK, NEW s \in Seq(Events), NEW e \in Events, NEW r, Ordered(s, r),
         e.run = r => UpTo(s, r, e.n)
  PROVE  Ordered(Append(s, e), r)
  <1> DEFINE z == Append(s, e)
  <1>1. /\ Len(z) = Len(s) + 1 /\ Len(s) \in Nat
        /\ \A i \in 1..Len(s) : z[i] = s[i]
        /\ z[Len(s) + 1] = e /\ e.n \in Nat
    BY AppendIs, EventFields
  <1> HIDE DEF z
  <1>2. SUFFICES ASSUME NEW i \in 1..Len(z), NEW j \in 1..Len(z), i <= j, z[i].run = r, z[j].run = r
                 PROVE  z[i].n <= z[j].n
    BY DEF Ordered, z
  <1>3. CASE j \in 1..Len(s)
    <2>1. i \in 1..Len(s) /\ z[i] = s[i] /\ z[j] = s[j]
      BY <1>1, <1>2, <1>3
    <2>2. QED BY <1>2, <1>3, <2>1 DEF Ordered
  <1>4. CASE i \in 1..Len(s) /\ j = Len(s) + 1
    BY <1>1, <1>2, <1>4 DEF UpTo
  <1>5. CASE i = Len(s) + 1 /\ j = Len(s) + 1
    BY <1>1, <1>5
  <1>6. QED BY <1>1, <1>2, <1>3, <1>4, <1>5

LEMMA AppendUpTo ==
  ASSUME ConstantsOK, NEW s \in Seq(Events), NEW e \in Events, NEW r, NEW m \in Nat,
         UpTo(s, r, m), e.run = r => e.n <= m
  PROVE  UpTo(Append(s, e), r, m)
  <1>1. /\ Len(Append(s, e)) = Len(s) + 1 /\ Len(s) \in Nat
        /\ \A i \in 1..Len(s) : Append(s, e)[i] = s[i]
        /\ Append(s, e)[Len(s) + 1] = e
    BY AppendIs
  <1>2. QED BY <1>1 DEF UpTo

LEMMA AppendFrom ==
  ASSUME ConstantsOK, NEW s \in Seq(Events), NEW e \in Events, NEW r, NEW m \in Nat,
         From(s, r, m), e.run = r => m <= e.n
  PROVE  From(Append(s, e), r, m)
  <1>1. /\ Len(Append(s, e)) = Len(s) + 1 /\ Len(s) \in Nat
        /\ \A i \in 1..Len(s) : Append(s, e)[i] = s[i]
        /\ Append(s, e)[Len(s) + 1] = e
    BY AppendIs
  <1>2. QED BY <1>1 DEF From

LEMMA AppendFinals ==
  ASSUME ConstantsOK, NEW s \in Seq(Events), NEW e \in Events, FinalsWhole(s),
         e.kind = "final" => e.n = Length
  PROVE  FinalsWhole(Append(s, e))
  <1>1. /\ Len(Append(s, e)) = Len(s) + 1 /\ Len(s) \in Nat
        /\ \A i \in 1..Len(s) : Append(s, e)[i] = s[i]
        /\ Append(s, e)[Len(s) + 1] = e
    BY AppendIs
  <1>2. QED BY <1>1 DEF FinalsWhole

LEMMA AppendOwn ==
  ASSUME NEW s \in Seq(Events), NEW e \in Events, NEW r, Own(s, r), e.run = r
  PROVE  Own(Append(s, e), r)
  <1>1. /\ Len(Append(s, e)) = Len(s) + 1 /\ Len(s) \in Nat
        /\ \A i \in 1..Len(s) : Append(s, e)[i] = s[i]
        /\ Append(s, e)[Len(s) + 1] = e
    BY AppendIs
  <1>2. QED BY <1>1 DEF Own

(* What a sequence tells after an append. *)
LEMMA AppendTellsRun ==
  ASSUME NEW s \in Seq(Events), NEW e \in Events
  PROVE  /\ \A r : TellsEnd(Append(s, e), r) <=> TellsEnd(s, r) \/ (e.run = r /\ e.kind # "delta")
         /\ TellsAbort(Append(s, e)) <=> TellsAbort(s) \/ (e.run \in Chats /\ e.kind = "aborted")
  <1> DEFINE z == Append(s, e)
  <1>1. /\ Len(z) = Len(s) + 1 /\ Len(s) \in Nat
        /\ \A i \in 1..Len(s) : z[i] = s[i]
        /\ z[Len(s) + 1] = e
    BY AppendIs
  <1>2. 1..Len(z) = 1..Len(s) \cup {Len(s) + 1}
    BY <1>1
  <1> HIDE DEF z
  <1>3. ASSUME NEW r PROVE TellsEnd(z, r) <=> TellsEnd(s, r) \/ (e.run = r /\ e.kind # "delta")
    BY <1>1, <1>2 DEF TellsEnd
  <1>4. TellsAbort(z) <=> TellsAbort(s) \/ (e.run \in Chats /\ e.kind = "aborted")
    BY <1>1, <1>2 DEF TellsAbort
  <1>5. QED BY <1>3, <1>4 DEF z

(* The rest of a sequence keeps what all of it has, and comes after its head. *)
LEMMA TailKeeps ==
  ASSUME NEW s \in Seq(Events), s # <<>>
  PROVE  /\ \A r : Ordered(s, r) => Ordered(Tail(s), r)
         /\ \A r, m : From(s, r, m) => From(Tail(s), r, m)
         /\ \A r, m : UpTo(s, r, m) => UpTo(Tail(s), r, m)
         /\ \A r : Own(s, r) => Own(Tail(s), r) /\ Head(s).run = r
         /\ FinalsWhole(s) => FinalsWhole(Tail(s)) /\ (Head(s).kind = "final" => Head(s).n = Length)
         /\ \A r : Ordered(s, r) /\ Head(s).run = r => From(Tail(s), r, Head(s).n)
         /\ \A r, m : From(s, r, m) /\ Head(s).run = r => m <= Head(s).n
         /\ \A r, m : UpTo(s, r, m) /\ Head(s).run = r => Head(s).n <= m
  <1> DEFINE z == Tail(s)
  <1>1. /\ Len(s) \in Nat /\ Len(s) >= 1 /\ Len(z) = Len(s) - 1 /\ Head(s) = s[1]
        /\ \A i \in 1..Len(z) : z[i] = s[i + 1] /\ i + 1 \in 1..Len(s)
        /\ 1 \in 1..Len(s)
    BY TailIs
  <1> HIDE DEF z
  <1>2. ASSUME NEW r, Ordered(s, r) PROVE Ordered(z, r)
    <2> SUFFICES ASSUME NEW i \in 1..Len(z), NEW j \in 1..Len(z), i <= j, z[i].run = r, z[j].run = r
                 PROVE  z[i].n <= z[j].n
      BY DEF Ordered
    <2>1. i + 1 <= j + 1 /\ z[i] = s[i + 1] /\ z[j] = s[j + 1]
          /\ i + 1 \in 1..Len(s) /\ j + 1 \in 1..Len(s)
      BY <1>1
    <2>2. QED BY <1>2, <2>1 DEF Ordered
  <1>3. ASSUME NEW r, NEW m PROVE /\ From(s, r, m) => From(z, r, m)
                                  /\ UpTo(s, r, m) => UpTo(z, r, m)
    BY <1>1 DEF From, UpTo
  <1>4. /\ \A r : Own(s, r) => Own(z, r) /\ Head(s).run = r
        /\ FinalsWhole(s) => FinalsWhole(z) /\ (Head(s).kind = "final" => Head(s).n = Length)
    BY <1>1 DEF Own, FinalsWhole
  <1>5. ASSUME NEW r, Ordered(s, r), Head(s).run = r PROVE From(z, r, Head(s).n)
    <2> SUFFICES ASSUME NEW i \in 1..Len(z), z[i].run = r PROVE Head(s).n <= z[i].n
      BY DEF From
    <2>1. z[i] = s[i + 1] /\ i + 1 \in 1..Len(s) /\ 1 <= i + 1
      BY <1>1
    <2>2. QED BY <1>1, <1>5, <2>1 DEF Ordered
  <1>6. ASSUME NEW r, NEW m, Head(s).run = r
        PROVE  (From(s, r, m) => m <= Head(s).n) /\ (UpTo(s, r, m) => Head(s).n <= m)
    BY <1>1, <1>6 DEF From, UpTo
  <1>7. QED BY <1>2, <1>3, <1>4, <1>5, <1>6 DEF z

LEMMA TailTellsRun ==
  ASSUME NEW s \in Seq(Events), s # <<>>
  PROVE  /\ \A r : TellsEnd(s, r) <=>
                   TellsEnd(Tail(s), r) \/ (Head(s).run = r /\ Head(s).kind # "delta")
         /\ TellsAbort(s) <=>
              TellsAbort(Tail(s)) \/ (Head(s).run \in Chats /\ Head(s).kind = "aborted")
  <1> DEFINE z == Tail(s)
  <1>1. /\ Len(s) \in Nat /\ Len(s) >= 1 /\ Len(z) = Len(s) - 1 /\ Head(s) = s[1]
        /\ \A i \in 1..Len(z) : z[i] = s[i + 1] /\ i + 1 \in 1..Len(s)
        /\ 1 \in 1..Len(s)
    BY TailIs
  <1>2. \A i \in 1..Len(s) : i = 1 \/ (i - 1 \in 1..Len(z) /\ z[i - 1] = s[i])
    BY <1>1
  <1> HIDE DEF z
  <1>3. ASSUME NEW r PROVE TellsEnd(s, r) <=> TellsEnd(z, r) \/ (Head(s).run = r /\ Head(s).kind # "delta")
    BY <1>1, <1>2 DEF TellsEnd
  <1>4. TellsAbort(s) <=> TellsAbort(z) \/ (Head(s).run \in Chats /\ Head(s).kind = "aborted")
    BY <1>1, <1>2 DEF TellsAbort
  <1>5. QED BY <1>3, <1>4 DEF z

LEMMA EmptyTells ==
  /\ \A r : Ordered(<<>>, r) /\ Own(<<>>, r) /\ ~TellsEnd(<<>>, r)
  /\ \A r, m : From(<<>>, r, m) /\ UpTo(<<>>, r, m)
  /\ \A s, r : Before(<<>>, s, r) /\ Before(s, <<>>, r)
  /\ FinalsWhole(<<>>) /\ ~TellsAbort(<<>>)
  <1>1. Len(<<>>) = 0 /\ 1..0 = {}
    OBVIOUS
  <1>2. QED BY <1>1 DEF Ordered, Own, TellsEnd, From, UpTo, Before, FinalsWhole, TellsAbort

(* The text up to n and the pieces from n to m are the text up to m.         *)
LEMMA WholeGrows ==
  ASSUME NEW r, NEW n \in Nat, NEW m \in Nat, n <= m
  PROVE  G!Whole(r, n) \o [i \in 1..(m - n) |-> <<r, n + i>>] = G!Whole(r, m)
  <1> DEFINE a == G!Whole(r, n)
             b == [i \in 1..(m - n) |-> <<r, n + i>>]
  <1>1. a \in Seq({r} \X Nat) /\ Len(a) = n /\ \A i \in 1..n : a[i] = <<r, i>>
    BY DEF G!Whole
  <1>2. b \in Seq({r} \X Nat) /\ Len(b) = m - n /\ \A i \in 1..(m - n) : b[i] = <<r, n + i>>
    OBVIOUS
  <1> HIDE DEF a, b
  <1>3. /\ a \o b \in Seq({r} \X Nat) /\ Len(a \o b) = m
        /\ \A i \in 1..m : (a \o b)[i] = IF i <= n THEN a[i] ELSE b[i - n]
    BY <1>1, <1>2
  <1> DEFINE c == a \o b
  <1> HIDE DEF c
  <1>4. ASSUME NEW i \in 1..m PROVE c[i] = <<r, i>>
    <2>1. CASE i <= n
      <3>1. i \in 1..n
        BY <2>1
      <3>2. QED BY <1>1, <1>3, <2>1, <3>1 DEF c
    <2>2. CASE ~(i <= n)
      <3>1. i - n \in 1..(m - n) /\ n + (i - n) = i
        BY <2>2
      <3>2. c[i] = b[i - n]
        BY <1>3, <2>2 DEF c
      <3>3. QED BY <1>2, <3>1, <3>2
    <2>3. QED BY <2>1, <2>2
  <1>5. c = [i \in 1..m |-> <<r, i>>]
    <2>1. c \in Seq({r} \X Nat) /\ Len(c) = m
      BY <1>3 DEF c
    <2>2. c = [i \in 1..m |-> c[i]]
      BY <2>1
    <2>3. QED BY <1>4, <2>2
  <1>6. QED BY <1>5 DEF G!Whole, a, b, c

LEMMA WholeIs ==
  ASSUME NEW r, NEW n \in Nat
  PROVE  /\ G!Whole(r, n) \in Seq({r} \X Nat) /\ Len(G!Whole(r, n)) = n
         /\ G!Whole(r, 0) = <<>>
  BY DEF G!Whole

-----------------------------------------------------------------------------
(* Type correctness.                                                         *)
LEMMA TypeStart == ASSUME ConstantsOK, G!Init PROVE GatewayTypes
  <1>1. Length \in Nat /\ MaxLosses \in Nat /\ 0 \in 0..Length /\ 0 \in 0..MaxLosses
    BY DEF ConstantsOK
  <1>2. /\ events \in [Chats -> Seq(Events)] /\ wire \in [G!Socks -> Seq(Events)]
        /\ shown \in [Chats -> Seq(Pieces)]
    BY DEF G!Init
  <1>3. QED BY <1>1, <1>2 DEF G!Init, GatewayTypes

LEMMA FaultTyped == ASSUME ConstantsOK, GatewayTypes, G!Fault PROVE disturbed' \in 0..MaxLosses
  BY DEF ConstantsOK, GatewayTypes, G!Fault

(* What is sent is typed. *)
LEMMA SendsTyped ==
  ASSUME ConstantsOK, GatewayTypes, NEW e \in Events, G!Sends(e)
  PROVE  /\ wire' \in [G!Socks -> Seq(Events)]
         /\ \A k \in G!Socks : wire'[k] = IF sock[k] = "open" THEN Append(wire[k], e) ELSE wire[k]
  <1>1. \A k \in G!Socks : wire[k] \in Seq(Events) /\ Append(wire[k], e) \in Seq(Events)
    BY AppendIs DEF GatewayTypes
  <1>2. QED BY <1>1 DEF G!Sends, G!Open

(* What a reader or a turn takes from a sequence is typed. *)
LEMMA ReadTyped ==
  ASSUME ConstantsOK, GatewayTypes, NEW k \in G!Socks, G!Read(k)
  PROVE  /\ wire[k] \in Seq(Events) /\ Head(wire[k]) \in Events
         /\ wire' \in [G!Socks -> Seq(Events)] /\ events' \in [Chats -> Seq(Events)]
         /\ overheard' \subseteq Chats
         /\ \A j \in G!Socks : wire'[j] = IF j = k THEN Tail(wire[k]) ELSE wire[j]
         /\ \A t \in Chats : events'[t] = IF G!Hears(t, Head(wire[k]))
                                         THEN Append(events[t], Head(wire[k])) ELSE events[t]
  <1> DEFINE e == Head(wire[k])
  <1>1. wire[k] \in Seq(Events) /\ wire[k] # <<>>
    BY DEF G!Read, GatewayTypes
  <1>2. e \in Events /\ Tail(wire[k]) \in Seq(Events)
    BY <1>1, TailIs
  <1>3. \A t \in Chats : events[t] \in Seq(Events) /\ Append(events[t], e) \in Seq(Events)
    BY <1>2, AppendIs DEF GatewayTypes
  <1>4. /\ events' = [t \in Chats |-> IF G!Hears(t, e) THEN Append(events[t], e) ELSE events[t]]
        /\ overheard' = overheard \cup {t \in Chats : G!Hears(t, e) /\ e.run # t}
        /\ wire' = [wire EXCEPT ![k] = Tail(wire[k])]
    BY DEF G!Read
  <1> HIDE DEF e
  <1>5. events' \in [Chats -> Seq(Events)] /\ overheard' \subseteq Chats
    BY <1>3, <1>4 DEF GatewayTypes
  <1>6. wire' \in [G!Socks -> Seq(Events)]
        /\ \A j \in G!Socks : wire'[j] = IF j = k THEN Tail(wire[k]) ELSE wire[j]
    BY <1>2, <1>4 DEF GatewayTypes
  <1>7. QED BY <1>1, <1>2, <1>4, <1>5, <1>6 DEF e

LEMMA ConsumeTyped ==
  ASSUME ConstantsOK, GatewayTypes, NEW t \in Chats, G!Consume(t)
  PROVE  /\ events[t] \in Seq(Events) /\ events[t] # <<>> /\ Head(events[t]) \in Events
         /\ Tail(events[t]) \in Seq(Events)
         /\ Head(events[t]).n \in Nat /\ Head(events[t]).n <= Length
         /\ Head(events[t]).kind \in {"delta", "final", "aborted"}
         /\ G!NewPieces(t, Head(events[t])) \in Seq(Pieces)
  <1> DEFINE e == Head(events[t])
  <1>1. events[t] \in Seq(Events) /\ events[t] # <<>> /\ cum[t] \in Nat
    BY DEF G!Consume, GatewayTypes, ConstantsOK
  <1>2. e \in Events /\ Tail(events[t]) \in Seq(Events)
    BY <1>1, TailIs
  <1>3. e.run \in G!Runs /\ e.n \in Nat /\ e.n <= Length /\ e.kind \in {"delta", "final", "aborted"}
    BY <1>2, EventFields
  <1> HIDE DEF e
  <1>4. G!NewPieces(t, e) \in Seq(Pieces)
    <2>1. CASE e.n <= cum[t]
      BY <2>1 DEF G!NewPieces
    <2>2. CASE ~(e.n <= cum[t])
      <3>1. e.n - cum[t] \in Nat
        BY <1>1, <1>3, <2>2
      <3>2. [i \in 1..(e.n - cum[t]) |-> <<e.run, cum[t] + i>>] \in Seq(Pieces)
        BY <1>1, <1>3, <3>1 DEF Pieces
      <3>3. QED BY <2>2, <3>2 DEF G!NewPieces
    <2>3. QED BY <2>1, <2>2
  <1>5. QED BY <1>1, <1>2, <1>3, <1>4 DEF e

LEMMA EndsTyped ==
  ASSUME ConstantsOK, GatewayTypes, NEW t \in Chats,
         NEW how \in {"final", "aborted", "error", "cancelled", "timeout"}, G!Ends(t, how)
  PROVE  /\ turn' = [turn EXCEPT ![t] = "ended"] /\ result' = [result EXCEPT ![t] = how]
         /\ turn' \in [Chats -> {"idle", "connect", "post", "posted", "top", "wait", "ended"}]
         /\ result' \in [Chats -> {"none", "final", "aborted", "error", "cancelled", "timeout"}]
         /\ events' \in [Chats -> Seq(Events)] /\ events' = [events EXCEPT ![t] = <<>>]
         /\ cum' \in [Chats -> 0..Length] /\ cum' = [cum EXCEPT ![t] = 0]
  BY DEF ConstantsOK, GatewayTypes, G!Ends, G!Leaves, G!Goto

LEMMA GatewayTypesStep == ASSUME ConstantsOK, GatewayTypes, G!Next PROVE GatewayTypes'
  <1>1. CASE G!OtherRun
    BY <1>1 DEF G!OtherRun, G!Started, GatewayTypes, G!turnVars, G!connVars, G!histVars
  <1>2. CASE G!OtherAborted
    <2>1. sent[Other] \in 0..Length /\ Other \in G!Runs
      BY DEF GatewayTypes, G!Runs
    <2>2. wire' \in [G!Socks -> Seq(Events)]
      BY <1>2, <2>1, EventIs, SendsTyped DEF G!OtherAborted
    <2>3. QED BY <1>2, <2>2, FaultTyped DEF G!OtherAborted, GatewayTypes, G!turnVars, G!histVars
  <1>3. ASSUME NEW r \in G!Runs, G!Says(r) PROVE GatewayTypes'
    <2>1. sent[r] \in 0..Length
      BY DEF GatewayTypes
    <2>2. /\ wire' \in [G!Socks -> Seq(Events)] /\ sent' \in [G!Runs -> 0..Length]
          /\ state' \in [G!Runs -> {"none", "going", "over"}]
      <3>1. CASE sent[r] < Length /\ sent' = [sent EXCEPT ![r] = @ + 1]
                 /\ G!Sends(G!Event(r, "delta", sent[r] + 1)) /\ UNCHANGED state
        <4>1. sent[r] + 1 \in 0..Length
          BY <2>1, <3>1 DEF ConstantsOK
        <4>2. QED BY <3>1, <4>1, EventIs, SendsTyped DEF GatewayTypes
      <3>2. CASE sent' = [sent EXCEPT ![r] = Length] /\ state' = [state EXCEPT ![r] = "over"]
                 /\ G!Sends(G!Event(r, "final", Length))
        <4>1. Length \in 0..Length
          BY DEF ConstantsOK
        <4>2. QED BY <3>2, <4>1, EventIs, SendsTyped DEF GatewayTypes
      <3>3. QED BY <1>3, <3>1, <3>2 DEF G!Says
    <2>3. QED BY <1>3, <2>2 DEF G!Says, GatewayTypes, G!turnVars, G!histVars
  <1>4. CASE G!AbortArrives
    <2>1. wire' \in [G!Socks -> Seq(Events)] /\ state' \in [G!Runs -> {"none", "going", "over"}]
      <3>1. CASE UNCHANGED <<state, wire>>
        BY <3>1 DEF GatewayTypes
      <3>2. ASSUME NEW r \in Chats, state' = [state EXCEPT ![r] = "over"],
                   G!Sends(G!Event(r, "aborted", sent[r]))
            PROVE  wire' \in [G!Socks -> Seq(Events)] /\ state' \in [G!Runs -> {"none", "going", "over"}]
        <4>1. r \in G!Runs /\ sent[r] \in 0..Length
          BY DEF GatewayTypes, G!Runs
        <4>2. QED BY <3>2, <4>1, EventIs, SendsTyped DEF GatewayTypes
      <3>3. QED BY <1>4, <3>1, <3>2 DEF G!AbortArrives
    <2>2. QED BY <1>4, <2>1 DEF G!AbortArrives, GatewayTypes, G!turnVars, G!histVars
  <1>5. ASSUME NEW k \in G!Socks, G!Read(k) PROVE GatewayTypes'
    BY <1>5, ReadTyped DEF G!Read, GatewayTypes, G!runVars
  <1>6. ASSUME NEW k \in G!Socks, G!Breaks(k) \/ G!ReaderEnds(k) PROVE GatewayTypes'
    <2>1. CASE G!Breaks(k)
      BY <2>1, FaultTyped DEF G!Breaks, GatewayTypes, G!turnVars, G!runVars
    <2>2. CASE G!ReaderEnds(k)
      <3>1. connected' \in BOOLEAN
        BY <2>2, Zenon DEF G!ReaderEnds
      <3>2. QED BY <2>2, <3>1 DEF G!ReaderEnds, GatewayTypes, G!turnVars, G!runVars
    <2>3. QED BY <1>6, <2>1, <2>2
  <1>7. CASE G!Reconnect
    BY <1>7 DEF G!Reconnect, G!Opens, G!Listening, GatewayTypes, G!turnVars, G!runVars
  <1>8. CASE G!ApplyConfig
    <2>1. connected' \in BOOLEAN /\ reached' \in BOOLEAN
      BY <1>8, Zenon DEF G!ApplyConfig
    <2>2. QED BY <1>8, <2>1, FaultTyped DEF G!ApplyConfig, GatewayTypes, G!turnVars, G!runVars
  <1>9. ASSUME NEW t \in Chats, G!TurnStart(t) \/ G!Connected(t) \/ G!NotConnected(t) PROVE GatewayTypes'
    <2>1. CASE G!TurnStart(t)
      BY <2>1 DEF G!TurnStart, G!Goto, GatewayTypes, G!connVars, G!runVars
    <2>2. CASE G!Connected(t)
      BY <2>2 DEF G!Connected, G!Opens, G!Listening, G!Goto, GatewayTypes, G!runVars
    <2>3. CASE G!NotConnected(t)
      <3>1. disturbed' \in 0..MaxLosses
        BY <2>3, FaultTyped DEF G!NotConnected, GatewayTypes
      <3>2. QED BY <2>3, <3>1 DEF G!NotConnected, G!Goto, GatewayTypes, G!connVars, G!runVars
    <2>4. QED BY <1>9, <2>1, <2>2, <2>3
  <1>10. ASSUME NEW t \in Chats, G!Post(t) \/ G!GotRunId(t) \/ G!Cancel(t) PROVE GatewayTypes'
    <2>1. CASE G!Post(t)
      BY <2>1 DEF G!Post, G!Started, G!Goto, GatewayTypes, G!connVars, G!histVars
    <2>2. CASE G!GotRunId(t)
      BY <2>2 DEF G!GotRunId, G!Goto, GatewayTypes, G!connVars, G!runVars, G!histVars
    <2>3. CASE G!Cancel(t)
      BY <2>3, FaultTyped DEF G!Cancel, GatewayTypes, G!turnVars, G!connVars, G!runVars
    <2>4. QED BY <1>10, <2>1, <2>2, <2>3
  <1>11. ASSUME NEW t \in Chats, G!PostFails(t) \/ G!TimesOut(t) \/ G!Interrupted(t) PROVE GatewayTypes'
    <2>1. PICK how \in {"error", "cancelled", "timeout"} : G!Ends(t, how)
      BY <1>11 DEF G!PostFails, G!TimesOut, G!Interrupted
    <2>2. /\ turn' \in [Chats -> {"idle", "connect", "post", "posted", "top", "wait", "ended"}]
          /\ result' \in [Chats -> {"none", "final", "aborted", "error", "cancelled", "timeout"}]
          /\ events' \in [Chats -> Seq(Events)] /\ cum' \in [Chats -> 0..Length]
      BY <2>1, EndsTyped
    <2>3. disturbed' \in 0..MaxLosses
      BY <1>11, FaultTyped DEF G!PostFails, G!TimesOut, G!Interrupted, GatewayTypes
    <2>4. UNCHANGED <<known, shown, deaf, G!connVars, mark, aborting, G!runVars, G!histVars>>
      BY <1>11 DEF G!PostFails, G!TimesOut, G!Interrupted
    <2>5. QED BY <2>2, <2>3, <2>4 DEF GatewayTypes, G!connVars, G!runVars, G!histVars
  <1>12. ASSUME NEW t \in Chats, G!Top(t) PROVE GatewayTypes'
    <2>1. CASE G!Ends(t, "cancelled")
      BY <1>12, <2>1, EndsTyped DEF G!Top, GatewayTypes, G!connVars, G!runVars, G!histVars
    <2>2. CASE G!Goto(t, "wait") /\ UNCHANGED <<result, events, cum>>
      BY <1>12, <2>2 DEF G!Top, G!Goto, GatewayTypes, G!connVars, G!runVars, G!histVars
    <2>3. QED BY <1>12, <2>1, <2>2 DEF G!Top
  <1>13. ASSUME NEW t \in Chats, G!Consume(t) PROVE GatewayTypes'
    <2> DEFINE e == Head(events[t])
    <2>1. /\ Tail(events[t]) \in Seq(Events) /\ e.n \in Nat /\ e.n <= Length
          /\ e.kind \in {"delta", "final", "aborted"} /\ G!NewPieces(t, e) \in Seq(Pieces)
      BY <1>13, ConsumeTyped
    <2>2. shown' \in [Chats -> Seq(Pieces)]
      BY <1>13, <2>1 DEF G!Consume, GatewayTypes
    <2>3. CASE e.kind = "delta"
      <3>1. cum' \in [Chats -> 0..Length] /\ events' \in [Chats -> Seq(Events)]
        <4>1. e.n \in 0..Length
          BY <2>1 DEF ConstantsOK
        <4>2. QED BY <1>13, <2>1, <2>3, <4>1 DEF G!Consume, GatewayTypes
      <3>2. QED BY <1>13, <2>2, <2>3, <3>1 DEF G!Consume, G!Goto, GatewayTypes, G!connVars, G!runVars, G!histVars
    <2>4. CASE e.kind # "delta"
      <3>1. G!Ends(t, e.kind) /\ e.kind \in {"final", "aborted"}
        BY <1>13, <2>1, <2>4 DEF G!Consume
      <3>2. QED BY <1>13, <2>2, <3>1, EndsTyped DEF G!Consume, GatewayTypes, G!connVars, G!runVars, G!histVars
    <2>5. QED BY <2>3, <2>4
  <1>14. QED BY <1>1, <1>2, <1>3, <1>4, <1>5, <1>6, <1>7, <1>8, <1>9, <1>10, <1>11, <1>12, <1>13
            DEF G!Next, G!System

-----------------------------------------------------------------------------
(* Turns follow one another.                                                 *)
InOrder   == \A t, u \in Chats : u < t /\ turn[t] # "idle" => turn[u] = "ended"
ResultSet == \A t \in Chats : result[t] # "none" <=> turn[t] = "ended"
RunBegun  == \A t \in Chats : turn[t] = "posted" \/ t \in known => state[t] # "none"

LEMMA TurnIs == TurnInv <=> InOrder /\ ResultSet /\ RunBegun
  BY DEF TurnInv, InOrder, ResultSet, RunBegun

LEMMA MoveKeepsOrder ==
  ASSUME ConstantsOK, GatewayTypes, InOrder, NEW t \in Chats, NEW l,
         turn' = [turn EXCEPT ![t] = l], l # "idle", turn[t] # "ended",
         turn[t] = "idle" => \A u \in Chats : u < t => turn[u] = "ended"
  PROVE  InOrder'
  <1>1. \A u \in Chats : turn'[u] = IF u = t THEN l ELSE turn[u]
    BY DEF GatewayTypes
  <1>2. SUFFICES ASSUME NEW v \in Chats, NEW u \in Chats, u < v, turn'[v] # "idle"
                 PROVE  turn'[u] = "ended"
    BY DEF InOrder
  <1>3. u \in Int /\ v \in Int /\ t \in Int /\ u # v
    BY <1>2 DEF ConstantsOK
  <1>4. CASE v = t
    BY <1>1, <1>2, <1>3, <1>4 DEF InOrder
  <1>5. CASE v # t
    BY <1>1, <1>2, <1>3, <1>5 DEF InOrder
  <1>6. QED BY <1>4, <1>5

(* How a step changes the turns: not at all, one begins, goes on or ends.    *)
Began(t) ==
  /\ turn[t] = "idle" /\ (\A u \in Chats : u < t => turn[u] = "ended")
  /\ turn' \in {[turn EXCEPT ![t] = "post"], [turn EXCEPT ![t] = "connect"]} /\ result' = result
WentOn(t, l) == Active(t) /\ turn' = [turn EXCEPT ![t] = l] /\ result' = result
RunEnded(t, how) ==
  /\ Active(t) /\ turn' = [turn EXCEPT ![t] = "ended"] /\ result' = [result EXCEPT ![t] = how]

LEMMA TurnMoves ==
  ASSUME G!Next
  PROVE  \/ UNCHANGED <<turn, result>>
         \/ \E t \in Chats : Began(t)
         \/ \E t \in Chats : \E l \in {"post", "posted", "top", "wait"} : WentOn(t, l)
         \/ \E t \in Chats : \E how \in {"final", "aborted", "error", "cancelled", "timeout"} :
              RunEnded(t, how)
         \/ \E t \in Chats : G!Consume(t)
  <1>1. CASE G!OtherRun \/ G!OtherAborted \/ G!AbortArrives \/ G!Reconnect \/ G!ApplyConfig
    BY <1>1 DEF G!OtherRun, G!OtherAborted, G!AbortArrives, G!Reconnect, G!ApplyConfig, G!turnVars
  <1>2. CASE (\E r \in G!Runs : G!Says(r)) \/ \E k \in G!Socks : G!Read(k) \/ G!Breaks(k) \/ G!ReaderEnds(k)
    BY <1>2 DEF G!Says, G!Read, G!Breaks, G!ReaderEnds, G!turnVars
  <1>3. ASSUME NEW t \in Chats, G!TurnStart(t) PROVE Began(t)
    BY <1>3 DEF G!TurnStart, G!Goto, Began
  <1>4. ASSUME NEW t \in Chats, G!Connected(t) \/ G!NotConnected(t) PROVE WentOn(t, "post")
    BY <1>4 DEF G!Connected, G!NotConnected, G!Goto, WentOn, Active
  <1>5. ASSUME NEW t \in Chats, G!Post(t) PROVE WentOn(t, "posted")
    BY <1>5 DEF G!Post, G!Goto, WentOn, Active
  <1>6. ASSUME NEW t \in Chats, G!GotRunId(t) PROVE WentOn(t, "top")
    BY <1>6 DEF G!GotRunId, G!Goto, WentOn, Active
  <1>7. ASSUME NEW t \in Chats, G!Top(t) PROVE WentOn(t, "wait") \/ RunEnded(t, "cancelled")
    BY <1>7 DEF G!Top, G!Ends, G!Leaves, G!Goto, WentOn, RunEnded, Active
  <1>8. ASSUME NEW t \in Chats, G!PostFails(t) PROVE RunEnded(t, "error")
    BY <1>8 DEF G!PostFails, G!Ends, G!Leaves, G!Goto, RunEnded, Active
  <1>9. ASSUME NEW t \in Chats, G!TimesOut(t) PROVE RunEnded(t, "timeout")
    BY <1>9 DEF G!TimesOut, G!Ends, G!Leaves, G!Goto, RunEnded, Active
  <1>10. ASSUME NEW t \in Chats, G!Interrupted(t) PROVE RunEnded(t, "cancelled")
    BY <1>10 DEF G!Interrupted, G!Ends, G!Leaves, G!Goto, RunEnded, Active
  <1>11. ASSUME NEW t \in Chats, G!Cancel(t) PROVE UNCHANGED <<turn, result>>
    BY <1>11 DEF G!Cancel, G!turnVars
  <1>12. QED BY <1>1, <1>2, <1>3, <1>4, <1>5, <1>6, <1>7, <1>8, <1>9, <1>10, <1>11 DEF G!Next, G!System

LEMMA ConsumeMoves ==
  ASSUME ConstantsOK, GatewayTypes, NEW t \in Chats, G!Consume(t)
  PROVE  IF Head(events[t]).kind = "delta" THEN WentOn(t, "top")
         ELSE RunEnded(t, Head(events[t]).kind) /\ Head(events[t]).kind \in {"final", "aborted"}
  <1>1. Head(events[t]).kind \in {"delta", "final", "aborted"} /\ turn[t] = "wait"
    BY ConsumeTyped DEF G!Consume
  <1>2. QED BY <1>1 DEF G!Consume, G!Ends, G!Leaves, G!Goto, WentOn, RunEnded, Active

(* The same, with the outcome of Consume told.                               *)
LEMMA TurnMovesTo ==
  ASSUME ConstantsOK, GatewayTypes, G!Next
  PROVE  \/ UNCHANGED <<turn, result>>
         \/ \E t \in Chats : Began(t)
         \/ \E t \in Chats : \E l \in {"post", "posted", "top", "wait"} : WentOn(t, l)
         \/ \E t \in Chats : \E how \in {"final", "aborted", "error", "cancelled", "timeout"} :
              RunEnded(t, how)
  <1>1. ASSUME NEW t \in Chats, G!Consume(t)
        PROVE  WentOn(t, "top") \/ \E how \in {"final", "aborted"} : RunEnded(t, how)
    BY <1>1, ConsumeMoves
  <1>2. QED BY <1>1, TurnMoves

LEMMA InOrderStep == ASSUME ConstantsOK, GatewayTypes, InOrder, G!Next PROVE InOrder'
  <1>1. CASE UNCHANGED <<turn, result>>
    BY <1>1 DEF InOrder
  <1>2. ASSUME NEW t \in Chats, Began(t) PROVE InOrder'
    <2>1. turn' = [turn EXCEPT ![t] = "post"] \/ turn' = [turn EXCEPT ![t] = "connect"]
      BY <1>2 DEF Began
    <2>2. QED BY <1>2, <2>1, MoveKeepsOrder DEF Began
  <1>3. ASSUME NEW t \in Chats, NEW l \in {"post", "posted", "top", "wait"}, WentOn(t, l)
        PROVE  InOrder'
    BY <1>3, MoveKeepsOrder DEF WentOn, Active
  <1>4. ASSUME NEW t \in Chats, NEW how, RunEnded(t, how) PROVE InOrder'
    BY <1>4, MoveKeepsOrder DEF RunEnded, Active
  <1>5. QED BY <1>1, <1>2, <1>3, <1>4, TurnMovesTo

LEMMA ResultSetStep == ASSUME ConstantsOK, GatewayTypes, ResultSet, G!Next PROVE ResultSet'
  <1>1. CASE UNCHANGED <<turn, result>>
    BY <1>1 DEF ResultSet
  <1>2. ASSUME NEW t \in Chats, Began(t) PROVE ResultSet'
    BY <1>2 DEF Began, ResultSet, GatewayTypes
  <1>3. ASSUME NEW t \in Chats, NEW l \in {"post", "posted", "top", "wait"}, WentOn(t, l)
        PROVE  ResultSet'
    BY <1>3 DEF WentOn, Active, ResultSet, GatewayTypes
  <1>4. ASSUME NEW t \in Chats, NEW how \in {"final", "aborted", "error", "cancelled", "timeout"},
               RunEnded(t, how)
        PROVE  ResultSet'
    BY <1>4 DEF RunEnded, ResultSet, GatewayTypes
  <1>5. QED BY <1>1, <1>2, <1>3, <1>4, TurnMovesTo

(* A run that has begun stays so, and only a posted turn begins one of its own. *)
LEMMA RunBegunStep == ASSUME ConstantsOK, GatewayTypes, RunBegun, G!Next PROVE RunBegun'
  <1>0. Chats \subseteq G!Runs
    BY DEF G!Runs
  <1>1. ASSUME NEW t \in Chats, G!Post(t) PROVE RunBegun'
    BY <1>0, <1>1 DEF G!Post, G!Started, G!Goto, RunBegun, GatewayTypes
  <1>2. ASSUME NEW t \in Chats, G!GotRunId(t) PROVE RunBegun'
    BY <1>0, <1>2 DEF G!GotRunId, G!Goto, RunBegun, GatewayTypes, G!runVars
  <1>3. CASE G!OtherRun \/ G!OtherAborted
    BY <1>0, <1>3 DEF G!OtherRun, G!OtherAborted, G!Started, RunBegun, GatewayTypes, G!turnVars
  <1>4. CASE G!AbortArrives \/ \E r \in G!Runs : G!Says(r)
    BY <1>0, <1>4 DEF G!AbortArrives, G!Says, RunBegun, GatewayTypes, G!turnVars
  <1>5. CASE G!Reconnect \/ G!ApplyConfig \/ \E k \in G!Socks : G!Read(k) \/ G!Breaks(k) \/ G!ReaderEnds(k)
    BY <1>5 DEF G!Reconnect, G!ApplyConfig, G!Read, G!Breaks, G!ReaderEnds, RunBegun, G!turnVars, G!runVars
  <1>6. ASSUME NEW t \in Chats, G!TurnStart(t) \/ G!Connected(t) \/ G!NotConnected(t) PROVE RunBegun'
    BY <1>6 DEF G!TurnStart, G!Connected, G!NotConnected, G!Goto, RunBegun, GatewayTypes, G!runVars
  <1>7. ASSUME NEW t \in Chats, G!Top(t) \/ G!TimesOut(t) \/ G!Interrupted(t) \/ G!PostFails(t)
        PROVE  RunBegun'
    BY <1>7 DEF G!Top, G!TimesOut, G!Interrupted, G!PostFails, G!Ends, G!Leaves, G!Goto, RunBegun, GatewayTypes, G!runVars
  <1>8. ASSUME NEW t \in Chats, G!Consume(t) PROVE RunBegun'
    <2>1. WentOn(t, "top") \/ \E how : RunEnded(t, how)
      BY <1>8, ConsumeMoves
    <2>2. \A u \in Chats : turn'[u] = "posted" => turn[u] = "posted"
      BY <2>1 DEF WentOn, RunEnded, GatewayTypes
    <2>3. QED BY <1>8, <2>2 DEF G!Consume, RunBegun, G!runVars
  <1>9. ASSUME NEW t \in Chats, G!Cancel(t) PROVE RunBegun'
    BY <1>9 DEF G!Cancel, RunBegun, G!turnVars, G!runVars
  <1>10. QED BY <1>1, <1>2, <1>3, <1>4, <1>5, <1>6, <1>7, <1>8, <1>9 DEF G!Next, G!System

LEMMA GatewayTurnStep == ASSUME ConstantsOK, GatewayTypes, TurnInv, G!Next PROVE TurnInv'
  <1>1. InOrder' /\ ResultSet' /\ RunBegun'
    BY TurnIs, InOrderStep, ResultSetStep, RunBegunStep
  <1>2. QED BY <1>1 DEF TurnInv, InOrder, ResultSet, RunBegun

-----------------------------------------------------------------------------
(* Events under way.                                                         *)

(* What the gateway sends is an event of a run that goes on from what was sent. *)
SendsNext(e) ==
  /\ e \in Events /\ G!Sends(e)
  /\ e.kind = "final" => e.n = Length
  /\ e.kind = "aborted" /\ e.run \in Chats => aborting
  /\ sent[e.run] <= e.n /\ sent' = [sent EXCEPT ![e.run] = e.n]
  /\ state' = [state EXCEPT ![e.run] = IF e.kind = "delta" THEN "going" ELSE "over"]
  /\ state[e.run] = "going"
  /\ UNCHANGED <<G!turnVars, deaf, sock, connected, recon, mark, G!histVars>>

LEMMA SendingIs ==
  ASSUME ConstantsOK, GatewayTypes
  PROVE  /\ \A r \in G!Runs : G!Says(r) => \E e \in Events : SendsNext(e)
         /\ G!OtherAborted => \E e \in Events : SendsNext(e)
         /\ G!AbortArrives => \/ \E e \in Events : SendsNext(e)
                              \/ UNCHANGED <<G!turnVars, deaf, G!connVars, mark, G!runVars, disturbed, G!histVars>>
  <1>1. ASSUME NEW r \in G!Runs, G!Says(r) PROVE \E e \in Events : SendsNext(e)
    <2>0. sent[r] \in 0..Length /\ Length \in Nat /\ state[r] = "going"
      BY <1>1 DEF G!Says, GatewayTypes, ConstantsOK
    <2>1. CASE sent[r] < Length /\ sent' = [sent EXCEPT ![r] = @ + 1]
               /\ G!Sends(G!Event(r, "delta", sent[r] + 1)) /\ UNCHANGED state
      <3> DEFINE e == G!Event(r, "delta", sent[r] + 1)
      <3>1. sent[r] + 1 \in 0..Length
        BY <2>0, <2>1
      <3>2. e \in Events /\ e.run = r /\ e.kind = "delta" /\ e.n = sent[r] + 1
        BY <3>1, EventIs
      <3>3. G!Sends(e)
        BY <2>1
      <3> HIDE DEF e
      <3>4. state' = [state EXCEPT ![r] = "going"]
        BY <2>0, <2>1 DEF GatewayTypes
      <3>5. sent[e.run] <= e.n /\ sent' = [sent EXCEPT ![e.run] = e.n]
        BY <2>0, <2>1, <3>2
      <3>6. UNCHANGED <<G!turnVars, deaf, sock, connected, recon, mark, G!histVars>>
        BY <1>1 DEF G!Says
      <3>7. SendsNext(e)
        BY <2>0, <3>2, <3>3, <3>4, <3>5, <3>6 DEF SendsNext
      <3>8. QED BY <3>2, <3>7
    <2>2. CASE sent' = [sent EXCEPT ![r] = Length] /\ state' = [state EXCEPT ![r] = "over"]
               /\ G!Sends(G!Event(r, "final", Length))
      <3> DEFINE e == G!Event(r, "final", Length)
      <3>1. Length \in 0..Length
        BY <2>0
      <3>2. e \in Events /\ e.run = r /\ e.kind = "final" /\ e.n = Length
        BY <3>1, EventIs
      <3>3. G!Sends(e)
        BY <2>2
      <3> HIDE DEF e
      <3>4. SendsNext(e)
        BY <1>1, <2>0, <2>2, <3>2, <3>3 DEF SendsNext, G!Says
      <3>5. QED BY <3>2, <3>4
    <2>3. QED BY <1>1, <2>1, <2>2 DEF G!Says
  <1>2. ASSUME NEW r \in G!Runs, state[r] = "going", r \in Chats => aborting,
               state' = [state EXCEPT ![r] = "over"], G!Sends(G!Event(r, "aborted", sent[r])),
               UNCHANGED <<G!turnVars, deaf, sock, connected, recon, mark, sent, G!histVars>>
        PROVE  \E e \in Events : SendsNext(e)
    <2> DEFINE e == G!Event(r, "aborted", sent[r])
    <2>1. sent[r] \in 0..Length
      BY DEF GatewayTypes
    <2>2. e \in Events /\ e.run = r /\ e.kind = "aborted" /\ e.n = sent[r]
      BY <2>1, EventIs
    <2>3. G!Sends(e)
      BY <1>2
    <2> HIDE DEF e
    <2>4. sent' = [sent EXCEPT ![r] = sent[r]]
      BY <1>2 DEF GatewayTypes
    <2>5. sent[e.run] <= e.n /\ sent' = [sent EXCEPT ![e.run] = e.n]
      BY <2>1, <2>2, <2>4 DEF ConstantsOK
    <2>6. SendsNext(e)
      BY <1>2, <2>2, <2>3, <2>5 DEF SendsNext
    <2>7. QED BY <2>2, <2>6
  <1>3. Other \in G!Runs /\ Chats \subseteq G!Runs /\ Other \notin Chats
    BY DEF G!Runs, ConstantsOK
  <1>4. ASSUME G!OtherAborted PROVE \E e \in Events : SendsNext(e)
    BY <1>2, <1>3, <1>4 DEF G!OtherAborted
  <1>5. ASSUME NEW r \in Chats, G!AbortArrives, state[r] = "going",
               state' = [state EXCEPT ![r] = "over"], G!Sends(G!Event(r, "aborted", sent[r]))
        PROVE  \E e \in Events : SendsNext(e)
    BY <1>2, <1>3, <1>5 DEF G!AbortArrives
  <1>6. ASSUME G!AbortArrives
        PROVE  \/ \E e \in Events : SendsNext(e)
               \/ UNCHANGED <<G!turnVars, deaf, G!connVars, mark, G!runVars, disturbed, G!histVars>>
    BY <1>5, <1>6 DEF G!AbortArrives, G!connVars, G!runVars
  <1>7. QED BY <1>1, <1>4, <1>6

LEMMA SendKeepsWires ==
  ASSUME ConstantsOK, GatewayTypes, WireInv, NEW e \in Events, SendsNext(e)
  PROVE  WireInv'
  <1>1. /\ \A k \in G!Socks : wire'[k] = IF sock[k] = "open" THEN Append(wire[k], e) ELSE wire[k]
        /\ \A k \in G!Socks : wire[k] \in Seq(Events)
        /\ UNCHANGED sock
    BY SendsTyped DEF SendsNext, GatewayTypes
  <1>2. e.run \in G!Runs /\ e.n \in Nat /\ (e.kind = "final" => e.n = Length)
    BY EventFields DEF SendsNext
  <1>3. \A r \in G!Runs : sent[r] \in Nat /\ sent'[r] = IF r = e.run THEN e.n ELSE sent[r]
    BY <1>2 DEF SendsNext, GatewayTypes, ConstantsOK
  <1>4. sent[e.run] <= e.n
    BY DEF SendsNext
  <1>5. ASSUME NEW k \in G!Socks
        PROVE  /\ wire'[k] # <<>> => sock'[k] = "open"
               /\ FinalsWhole(wire'[k])
               /\ \A r \in G!Runs : Ordered(wire'[k], r) /\ UpTo(wire'[k], r, sent'[r])
    <2>1. wire[k] # <<>> => sock[k] = "open"
      BY DEF WireInv
    <2>2. FinalsWhole(wire[k])
      BY DEF WireInv
    <2>3. ASSUME NEW r \in G!Runs
          PROVE  Ordered(wire[k], r) /\ UpTo(wire[k], r, sent[r]) /\ UpTo(wire[k], r, sent'[r])
      <3>1. Ordered(wire[k], r) /\ UpTo(wire[k], r, sent[r])
        BY DEF WireInv
      <3>2. sent[r] <= sent'[r] /\ sent[r] \in Nat /\ sent'[r] \in Nat
        BY <1>2, <1>3, <1>4
      <3>3. \A i \in 1..Len(wire[k]) : wire[k][i].n \in Nat
        BY <1>1, ElementIs
      <3>4. UpTo(wire[k], r, sent'[r])
        BY <3>1, <3>2, <3>3 DEF UpTo
      <3>5. QED BY <3>1, <3>4
    <2>4. CASE sock[k] # "open"
      BY <1>1, <2>1, <2>2, <2>3, <2>4
    <2>5. CASE sock[k] = "open"
      <3>1. wire'[k] = Append(wire[k], e)
        BY <1>1, <2>5
      <3>2. FinalsWhole(Append(wire[k], e))
        BY <1>1, <1>2, <2>2, AppendFinals
      <3>3. ASSUME NEW r \in G!Runs
            PROVE  Ordered(Append(wire[k], e), r) /\ UpTo(Append(wire[k], e), r, sent'[r])
        <4>1. e.run = r => UpTo(wire[k], r, e.n) /\ e.n <= sent'[r]
          BY <1>2, <1>3, <2>3
        <4>2. sent'[r] \in Nat
          BY <1>2, <1>3
        <4>3. QED BY <1>1, <2>3, <4>1, <4>2, AppendOrdered, AppendUpTo
      <3>4. QED BY <1>1, <2>5, <3>1, <3>2, <3>3
    <2>6. QED BY <2>4, <2>5
  <1>6. QED BY <1>5 DEF WireInv

LEMMA WireStep == ASSUME ConstantsOK, GatewayTypes, WireInv, G!Next PROVE WireInv'
  <1>1. CASE \E e \in Events : SendsNext(e)
    BY <1>1, SendKeepsWires
  <1>2. CASE UNCHANGED <<sock, wire, sent>>
    BY <1>2 DEF WireInv
  <1>3. ASSUME NEW k \in G!Socks, G!Read(k) PROVE WireInv'
    <2>1. /\ wire[k] \in Seq(Events) /\ wire[k] # <<>> /\ sock[k] = "open"
          /\ \A j \in G!Socks : wire'[j] = IF j = k THEN Tail(wire[k]) ELSE wire[j]
          /\ UNCHANGED <<sock, sent>>
      BY <1>3, ReadTyped DEF G!Read, G!runVars
    <2>2. FinalsWhole(Tail(wire[k]))
          /\ \A r \in G!Runs : Ordered(Tail(wire[k]), r) /\ UpTo(Tail(wire[k]), r, sent[r])
      BY <2>1, TailKeeps DEF WireInv
    <2>3. QED BY <2>1, <2>2 DEF WireInv
  <1>4. ASSUME \A k \in G!Socks : wire'[k] = wire[k] \/ wire'[k] = <<>>,
               \A k \in G!Socks : wire'[k] # <<>> /\ sock[k] = "open" => sock'[k] = "open",
               UNCHANGED sent
        PROVE  WireInv'
    BY <1>4, EmptyTells DEF WireInv
  <1>5. ASSUME NEW k \in G!Socks, G!Breaks(k) PROVE WireInv'
    BY <1>4, <1>5 DEF G!Breaks, GatewayTypes, G!runVars
  <1>6. ASSUME NEW k \in G!Socks, G!ReaderEnds(k) PROVE WireInv'
    BY <1>4, <1>6 DEF G!ReaderEnds, GatewayTypes, G!runVars
  <1>7. CASE G!ApplyConfig
    BY <1>4, <1>7 DEF G!ApplyConfig, GatewayTypes, G!runVars
  <1>8. CASE G!Opens /\ UNCHANGED sent
    BY <1>4, <1>8 DEF G!Opens, GatewayTypes
  <1>9. CASE G!OtherRun \/ G!OtherAborted \/ G!AbortArrives \/ (\E r \in G!Runs : G!Says(r)) \/ G!Reconnect
    <2>1. CASE G!OtherRun
      BY <1>2, <2>1 DEF G!OtherRun, G!Started, G!connVars
    <2>2. CASE G!AbortArrives
      BY <1>1, <1>2, <2>2, SendingIs DEF G!runVars, G!vars, G!connVars
    <2>3. CASE G!Reconnect
      BY <1>8, <2>3 DEF G!Reconnect, G!runVars
    <2>4. QED BY <1>1, <1>9, <2>1, <2>2, <2>3, SendingIs
  <1>10. ASSUME NEW t \in Chats,
                G!TurnStart(t) \/ G!NotConnected(t) \/ G!Post(t) \/ G!PostFails(t) \/ G!GotRunId(t) \/ G!Top(t)
                \/ G!Consume(t) \/ G!TimesOut(t) \/ G!Cancel(t) \/ G!Interrupted(t)
         PROVE  WireInv'
    BY <1>2, <1>10 DEF G!TurnStart, G!NotConnected, G!Post, G!Started, G!PostFails, G!GotRunId, G!Top, G!Consume,
                       G!TimesOut, G!Cancel, G!Interrupted, G!connVars, G!runVars
  <1>11. ASSUME NEW t \in Chats, G!Connected(t) PROVE WireInv'
    BY <1>8, <1>11 DEF G!Connected, G!runVars
  <1>12. QED BY <1>3, <1>5, <1>6, <1>7, <1>9, <1>10, <1>11 DEF G!Next, G!System

(* Only what a turn hears comes into its queue.                              *)
LEMMA QueueMoves ==
  ASSUME ConstantsOK, GatewayTypes, G!Next
  PROVE  \/ \E k \in G!Socks : G!Read(k)
         \/ /\ UNCHANGED overheard
            /\ \A t \in Chats : \/ events'[t] = events[t] \/ events'[t] = <<>>
                                \/ events[t] # <<>> /\ events'[t] = Tail(events[t])
  <1> DEFINE Q == \A t \in Chats : \/ events'[t] = events[t] \/ events'[t] = <<>>
                                   \/ events[t] # <<>> /\ events'[t] = Tail(events[t])
  <1>1. ASSUME NEW t \in Chats, NEW how, G!Ends(t, how) PROVE Q
    BY <1>1 DEF G!Ends, GatewayTypes
  <1>2. CASE G!OtherRun \/ G!OtherAborted \/ G!AbortArrives \/ G!Reconnect \/ G!ApplyConfig
    BY <1>2 DEF G!OtherRun, G!OtherAborted, G!AbortArrives, G!Reconnect, G!ApplyConfig, G!turnVars, G!histVars
  <1>3. CASE (\E r \in G!Runs : G!Says(r)) \/ \E k \in G!Socks : G!Breaks(k) \/ G!ReaderEnds(k)
    BY <1>3 DEF G!Says, G!Breaks, G!ReaderEnds, G!turnVars, G!histVars
  <1>4. ASSUME NEW t \in Chats,
               G!TurnStart(t) \/ G!Connected(t) \/ G!NotConnected(t) \/ G!Post(t) \/ G!GotRunId(t) \/ G!Cancel(t)
        PROVE  UNCHANGED overheard /\ Q
    BY <1>4 DEF G!TurnStart, G!Connected, G!NotConnected, G!Post, G!GotRunId, G!Cancel, G!turnVars, G!histVars
  <1>5. ASSUME NEW t \in Chats, G!PostFails(t) \/ G!TimesOut(t) \/ G!Interrupted(t) \/ G!Top(t)
        PROVE  UNCHANGED overheard /\ Q
    BY <1>1, <1>5 DEF G!PostFails, G!TimesOut, G!Interrupted, G!Top, G!histVars
  <1>6. ASSUME NEW t \in Chats, G!Consume(t) PROVE UNCHANGED overheard /\ Q
    <2>1. CASE events' = [events EXCEPT ![t] = Tail(@)]
      BY <1>6, <2>1 DEF G!Consume, GatewayTypes, G!histVars
    <2>2. CASE G!Ends(t, Head(events[t]).kind)
      BY <1>1, <1>6, <2>2 DEF G!Consume, G!histVars
    <2>3. QED BY <1>6, <2>1, <2>2 DEF G!Consume
  <1>7. QED BY <1>2, <1>3, <1>4, <1>5, <1>6 DEF G!Next, G!System

LEMMA QueueStep == ASSUME ConstantsOK, GatewayTypes, WireInv, QueueInv, G!Next PROVE QueueInv'
  <1>0. \A t \in Chats : events[t] \in Seq(Events)
    BY DEF GatewayTypes
  <1>1. ASSUME NEW k \in G!Socks, G!Read(k) PROVE QueueInv'
    <2> DEFINE e == Head(wire[k])
    <2>1. /\ wire[k] \in Seq(Events) /\ wire[k] # <<>> /\ e \in Events
          /\ \A t \in Chats : events'[t] = IF G!Hears(t, e) THEN Append(events[t], e) ELSE events[t]
          /\ overheard' = overheard \cup {t \in Chats : G!Hears(t, e) /\ e.run # t}
      BY <1>1, ReadTyped DEF G!Read
    <2>2. e.kind = "final" => e.n = Length
      BY <2>1, TailKeeps DEF WireInv
    <2> HIDE DEF e
    <2>3. ASSUME NEW t \in Chats
          PROVE  FinalsWhole(events'[t]) /\ (t \notin overheard' => Own(events'[t], t))
      <3>1. CASE ~G!Hears(t, e)
        BY <2>1, <3>1 DEF QueueInv
      <3>2. CASE G!Hears(t, e)
        <4>1. FinalsWhole(Append(events[t], e))
          BY <1>0, <2>1, <2>2, AppendFinals DEF QueueInv
        <4>2. ASSUME t \notin overheard' PROVE Own(Append(events[t], e), t)
          <5>1. e.run = t /\ Own(events[t], t)
            BY <2>1, <3>2, <4>2 DEF QueueInv
          <5>2. QED BY <1>0, <2>1, <5>1, AppendOwn
        <4>3. QED BY <2>1, <3>2, <4>1, <4>2
      <3>3. QED BY <3>1, <3>2
    <2>4. QED BY <2>3 DEF QueueInv
  <1>2. ASSUME NEW t \in Chats, UNCHANGED overheard,
               \/ events'[t] = events[t] \/ events'[t] = <<>>
               \/ events[t] # <<>> /\ events'[t] = Tail(events[t])
        PROVE  FinalsWhole(events'[t]) /\ (t \notin overheard' => Own(events'[t], t))
    <2>1. CASE events'[t] = events[t]
      BY <1>2, <2>1 DEF QueueInv
    <2>2. CASE events'[t] = <<>>
      BY <2>2, EmptyTells
    <2>3. CASE events[t] # <<>> /\ events'[t] = Tail(events[t])
      BY <1>0, <1>2, <2>3, TailKeeps DEF QueueInv
    <2>4. QED BY <1>2, <2>1, <2>2, <2>3
  <1>3. CASE UNCHANGED overheard
             /\ \A t \in Chats : \/ events'[t] = events[t] \/ events'[t] = <<>>
                                 \/ events[t] # <<>> /\ events'[t] = Tail(events[t])
    <2>1. ASSUME NEW t \in Chats
          PROVE  FinalsWhole(events'[t]) /\ (t \notin overheard' => Own(events'[t], t))
      <3>1. \/ events'[t] = events[t] \/ events'[t] = <<>>
            \/ events[t] # <<>> /\ events'[t] = Tail(events[t])
        BY <1>3
      <3>2. UNCHANGED overheard
        BY <1>3
      <3>3. QED BY <1>2, <3>1, <3>2
    <2>2. QED BY <2>1 DEF QueueInv
  <1>4. QED BY <1>1, <1>3, QueueMoves

-----------------------------------------------------------------------------
(* A turn that listens has one socket.                                       *)
LEMMA OneSocketStep == ASSUME ConstantsOK, GatewayTypes, OneSocket, G!Next PROVE OneSocket'
  <1>1. ASSUME \A k \in G!Socks : sock'[k] = "open" => sock[k] = "open",
               doubled \subseteq doubled', deaf \subseteq deaf',
               \A t \in Chats : Hearing(t)' => Hearing(t)
        PROVE  OneSocket'
    <2>1. G!Twice' => G!Twice
      BY <1>1 DEF G!Twice, G!Open
    <2>2. QED BY <1>1, <2>1 DEF OneSocket
  <1>2. ASSUME G!Opens, UNCHANGED deaf, NEW T,
               doubled' = IF G!Open # {} THEN doubled \cup T ELSE doubled,
               \A t \in Chats : Hearing(t)' => t \in T
        PROVE  OneSocket'
    <2>1. CASE G!Open = {}
      <3>1. PICK k \in G!Socks : sock' = [sock EXCEPT ![k] = "open"]
        BY <1>2 DEF G!Opens
      <3>2. \A j \in G!Socks : sock'[j] = "open" => j = k
        BY <2>1, <3>1 DEF G!Open, GatewayTypes
      <3>3. ~G!Twice'
        BY <3>2 DEF G!Twice, G!Open
      <3>4. QED BY <3>3 DEF OneSocket
    <2>2. CASE G!Open # {}
      BY <1>2, <2>2 DEF OneSocket
    <2>3. QED BY <2>1, <2>2
  <1>3. CASE G!Reconnect
    <2>1. \A t \in Chats : Hearing(t)' => t \in G!Listening
      BY <1>3 DEF G!Reconnect, Hearing, G!Listening, G!turnVars
    <2>2. QED BY <1>2, <1>3, <2>1 DEF G!Reconnect
  <1>4. ASSUME NEW t \in Chats, G!Connected(t) PROVE OneSocket'
    <2>1. \A u \in Chats : Hearing(u)' => u \in G!Listening \cup {t}
      BY <1>4 DEF G!Connected, G!Goto, Hearing, G!Listening, GatewayTypes
    <2>2. doubled' = IF G!Open # {} THEN doubled \cup (G!Listening \cup {t}) ELSE doubled
      BY <1>4 DEF G!Connected
    <2>3. QED BY <1>2, <1>4, <2>1, <2>2 DEF G!Connected
  <1>5. ASSUME NEW t \in Chats, G!TurnStart(t) \/ G!NotConnected(t) PROVE OneSocket'
    <2>1. /\ UNCHANGED <<sock, deaf>> /\ doubled \subseteq doubled'
          /\ \A u \in Chats : u # t => turn'[u] = turn[u]
      BY <1>5 DEF G!TurnStart, G!NotConnected, G!Goto, GatewayTypes, G!connVars
    <2>2. G!Twice' <=> G!Twice
      BY <2>1 DEF G!Twice, G!Open
    <2>3. Hearing(t)' /\ G!Twice => t \in doubled'
      BY <1>5 DEF G!TurnStart, G!NotConnected, G!Goto, Hearing, GatewayTypes
    <2>4. QED BY <2>1, <2>2, <2>3 DEF OneSocket, Hearing
  <1>6. CASE G!OtherRun \/ G!OtherAborted \/ G!AbortArrives \/ G!ApplyConfig
    BY <1>1, <1>6 DEF G!OtherRun, G!OtherAborted, G!AbortArrives, G!ApplyConfig, Hearing, GatewayTypes,
                      G!turnVars, G!connVars, G!histVars
  <1>7. CASE (\E r \in G!Runs : G!Says(r)) \/ \E k \in G!Socks : G!Read(k) \/ G!Breaks(k) \/ G!ReaderEnds(k)
    BY <1>1, <1>7 DEF G!Says, G!Read, G!Breaks, G!ReaderEnds, Hearing, GatewayTypes, G!turnVars, G!histVars
  <1>8. ASSUME NEW t \in Chats, G!Post(t) \/ G!GotRunId(t) \/ G!Top(t) \/ G!Cancel(t)
        PROVE  OneSocket'
    <2>1. \A u \in Chats : Hearing(u)' => Hearing(u)
      BY <1>8 DEF G!Post, G!GotRunId, G!Top, G!Cancel, G!Ends, G!Leaves, G!Goto, Hearing, GatewayTypes, G!turnVars
    <2>2. UNCHANGED <<sock, doubled, deaf>>
      BY <1>8 DEF G!Post, G!GotRunId, G!Top, G!Cancel, G!connVars, G!histVars
    <2>3. QED BY <1>1, <2>1, <2>2
  <1>9. ASSUME NEW t \in Chats, G!PostFails(t) \/ G!TimesOut(t) \/ G!Interrupted(t) \/ G!Consume(t)
        PROVE  OneSocket'
    <2>1. \A u \in Chats : Hearing(u)' => Hearing(u)
      BY <1>9 DEF G!PostFails, G!TimesOut, G!Interrupted, G!Consume, G!Ends, G!Leaves, G!Goto, Hearing, GatewayTypes
    <2>2. UNCHANGED <<sock, doubled, deaf>>
      BY <1>9 DEF G!PostFails, G!TimesOut, G!Interrupted, G!Consume, G!connVars, G!histVars
    <2>3. QED BY <1>1, <2>1, <2>2
  <1>10. QED BY <1>3, <1>4, <1>5, <1>6, <1>7, <1>8, <1>9 DEF G!Next, G!System

-----------------------------------------------------------------------------
(* The text of a turn.                                                       *)
Told(t) ==
  /\ turn[t] # "ended" => shown[t] = G!Whole(t, cum[t])
  /\ turn[t] = "ended" => shown[t] = G!Whole(t, Len(shown[t]))
  /\ result[t] = "final" => shown[t] = G!Whole(t, Length)
Queued(t) ==
  /\ Ordered(events[t], t) /\ From(events[t], t, cum[t]) /\ UpTo(events[t], t, sent[t])
  /\ cum[t] <= sent[t]
UnderWay(t, k) == From(wire[k], t, cum[t]) /\ Before(events[t], wire[k], t)
ToCome(t) ==
  turn[t] # "ended" => Queued(t) /\ (t \notin deaf => \A k \in G!Socks : UnderWay(t, k))

LEMMA TextIs ==
  /\ TextSoFar <=> \A t \in Clear : Told(t)
  /\ TextToCome <=> \A t \in Clear : ToCome(t)
  BY DEF TextSoFar, TextToCome, Told, ToCome, Queued, UnderWay

(* Nothing is shown or heard, and what is under way may get lost. *)
LEMMA TextStays ==
  ASSUME ConstantsOK, GatewayTypes, TextSoFar, TextToCome,
         UNCHANGED <<result, events, cum, shown, sent>>,
         \A t \in Chats : turn'[t] = "ended" <=> turn[t] = "ended",
         \A k \in G!Socks : wire'[k] = wire[k] \/ wire'[k] = <<>>,
         deaf \subseteq deaf', overheard \subseteq overheard', doubled \subseteq doubled'
  PROVE  TextSoFar' /\ TextToCome'
  <1>1. SUFFICES ASSUME NEW t \in Clear' PROVE Told(t)' /\ ToCome(t)'
    BY DEF TextSoFar, TextToCome, Told, ToCome, Queued, UnderWay
  <1>2. t \in Clear /\ t \in Chats
    BY DEF Clear
  <1>3. Told(t) /\ ToCome(t)
    BY <1>2, TextIs
  <1>4. Told(t)'
    BY <1>2, <1>3 DEF Told
  <1>5. ASSUME turn'[t] # "ended" PROVE Queued(t)' /\ (t \notin deaf' => \A k \in G!Socks : UnderWay(t, k)')
    <2>1. Queued(t)'
      BY <1>2, <1>3, <1>5 DEF ToCome, Queued
    <2>2. ASSUME t \notin deaf', NEW k \in G!Socks PROVE UnderWay(t, k)'
      <3>1. UnderWay(t, k)
        BY <1>2, <1>3, <1>5, <2>2 DEF ToCome
      <3>2. CASE wire'[k] = <<>>
        BY <3>2, EmptyTells DEF UnderWay
      <3>3. CASE wire'[k] = wire[k]
        BY <3>1, <3>3 DEF UnderWay
      <3>4. QED BY <3>2, <3>3
    <2>3. QED BY <2>1, <2>2
  <1>6. QED BY <1>4, <1>5 DEF ToCome

(* What is sent comes after what is under way and in the queues. *)
LEMMA TextOnSend ==
  ASSUME ConstantsOK, GatewayTypes, WireInv, TextSoFar, TextToCome, NEW e \in Events, SendsNext(e)
  PROVE  TextSoFar' /\ TextToCome'
  <1>0. UNCHANGED <<turn, result, events, cum, shown, deaf, overheard, doubled>>
    BY DEF SendsNext, G!turnVars, G!histVars
  <1>1. SUFFICES ASSUME NEW t \in Clear PROVE Told(t)' /\ ToCome(t)'
    BY <1>0 DEF TextSoFar, TextToCome, Told, ToCome, Queued, UnderWay, Clear
  <1>2. t \in Chats /\ t \in G!Runs /\ Told(t) /\ ToCome(t)
    BY TextIs DEF Clear, G!Runs
  <1>3. Told(t)'
    BY <1>0, <1>2 DEF Told
  <1>4. ASSUME turn[t] # "ended"
        PROVE  Queued(t)' /\ (t \notin deaf => \A k \in G!Socks : UnderWay(t, k)')
    <2>0. Queued(t) /\ events[t] \in Seq(Events) /\ cum[t] \in Nat
      BY <1>2, <1>4 DEF ToCome, GatewayTypes, ConstantsOK
    <2>1. e.run \in G!Runs /\ e.n \in Nat
      BY EventFields
    <2>2. sent[t] \in Nat /\ sent'[t] \in Nat /\ sent[t] <= sent'[t] /\ (e.run = t => sent[t] <= e.n)
      BY <1>2, <2>1 DEF SendsNext, GatewayTypes, ConstantsOK
    <2>3. \A i \in 1..Len(events[t]) : events[t][i].n \in Nat
      BY <2>0, ElementIs
    <2>4. Queued(t)'
      <3>1. UpTo(events[t], t, sent'[t])
        BY <2>0, <2>2, <2>3 DEF Queued, UpTo
      <3>2. cum[t] <= sent'[t]
        BY <2>0, <2>2 DEF Queued
      <3>3. QED BY <1>0, <2>0, <3>1, <3>2 DEF Queued
    <2>5. ASSUME t \notin deaf, NEW k \in G!Socks PROVE UnderWay(t, k)'
      <3>1. UnderWay(t, k) /\ wire[k] \in Seq(Events)
        BY <1>2, <1>4, <2>5 DEF ToCome, GatewayTypes
      <3>2. wire'[k] = Append(wire[k], e) \/ wire'[k] = wire[k]
        BY SendsTyped DEF SendsNext
      <3>3. e.run = t => cum[t] <= e.n
        BY <2>0, <2>1, <2>2 DEF Queued
      <3>4. From(Append(wire[k], e), t, cum[t])
        BY <2>0, <3>1, <3>3, AppendFrom DEF UnderWay
      <3>5. ASSUME NEW i \in 1..Len(events[t]), events[t][i].run = t
            PROVE  From(Append(wire[k], e), t, events[t][i].n)
        <4>1. From(wire[k], t, events[t][i].n) /\ events[t][i].n \in Nat
          BY <2>3, <3>1, <3>5 DEF UnderWay, Before
        <4>2. e.run = t => events[t][i].n <= e.n
          BY <2>0, <2>1, <2>2, <2>3, <3>5 DEF Queued, UpTo
        <4>3. QED BY <3>1, <4>1, <4>2, AppendFrom
      <3>6. Before(events[t], Append(wire[k], e), t)
        BY <3>5 DEF Before
      <3>7. QED BY <1>0, <3>1, <3>2, <3>4, <3>6 DEF UnderWay
    <2>6. QED BY <2>4, <2>5
  <1>5. QED BY <1>0, <1>3, <1>4 DEF ToCome

(* What a turn hears is the next of its run: it has one socket.              *)
LEMMA TextOnRead ==
  ASSUME ConstantsOK, GatewayTypes, WireInv, QueueInv, OneSocket, TextSoFar, TextToCome,
         NEW k \in G!Socks, G!Read(k)
  PROVE  TextSoFar' /\ TextToCome'
  <1> DEFINE e == Head(wire[k])
  <1>0. /\ wire[k] \in Seq(Events) /\ wire[k] # <<>> /\ e \in Events /\ sock[k] = "open"
        /\ \A j \in G!Socks : wire'[j] = IF j = k THEN Tail(wire[k]) ELSE wire[j]
        /\ \A t \in Chats : events'[t] = IF G!Hears(t, e) THEN Append(events[t], e) ELSE events[t]
        /\ overheard' = overheard \cup {t \in Chats : G!Hears(t, e) /\ e.run # t}
        /\ UNCHANGED <<turn, result, cum, shown, deaf, sent, doubled>>
    BY ReadTyped DEF G!Read, G!runVars
  <1>1. SUFFICES ASSUME NEW t \in Clear' PROVE Told(t)' /\ ToCome(t)'
    BY DEF TextSoFar, TextToCome, Told, ToCome, Queued, UnderWay
  <1> HIDE DEF e
  <1>2. t \in Chats /\ t \in G!Runs /\ t \in Clear /\ Told(t) /\ ToCome(t)
    <2>1. t \in Clear /\ t \in Chats
      BY <1>0 DEF Clear
    <2>2. QED BY <2>1, TextIs DEF G!Runs
  <1>3. Told(t)'
    BY <1>0, <1>2 DEF Told
  <1>4. ASSUME turn[t] # "ended"
        PROVE  Queued(t)' /\ (t \notin deaf => \A j \in G!Socks : UnderWay(t, j)')
    <2>0. Queued(t) /\ events[t] \in Seq(Events) /\ cum[t] \in Nat /\ sent[t] \in Nat
      BY <1>2, <1>4 DEF ToCome, GatewayTypes, ConstantsOK
    <2>1. /\ \A r, m : From(wire[k], r, m) => From(Tail(wire[k]), r, m)
          /\ \A r, m : From(wire[k], r, m) /\ e.run = r => m <= e.n
          /\ \A r, m : UpTo(wire[k], r, m) /\ e.run = r => e.n <= m
          /\ \A r : Ordered(wire[k], r) /\ e.run = r => From(Tail(wire[k]), r, e.n)
      BY <1>0, TailKeeps DEF e
    <2>2. \A j \in G!Socks : \A m : From(wire[j], t, m) => From(wire'[j], t, m)
      BY <1>0, <2>1
    <2>3. \A j \in G!Socks : Before(events[t], wire[j], t) => Before(events[t], wire'[j], t)
      BY <2>2 DEF Before
    <2>4. CASE ~G!Hears(t, e)
      <3>1. events'[t] = events[t]
        BY <1>0, <1>2, <2>4
      <3>2. Queued(t)'
        BY <1>0, <2>0, <3>1 DEF Queued
      <3>3. ASSUME t \notin deaf, NEW j \in G!Socks PROVE UnderWay(t, j)'
        <4>1. UnderWay(t, j)
          BY <1>2, <1>4, <3>3 DEF ToCome
        <4>2. QED BY <1>0, <2>2, <2>3, <3>1, <4>1 DEF UnderWay
      <3>4. QED BY <3>2, <3>3
    <2>5. CASE G!Hears(t, e)
      <3>1. events'[t] = Append(events[t], e) /\ e.run = t /\ t \notin deaf /\ Hearing(t)
        BY <1>0, <1>1, <1>2, <2>5 DEF G!Hears, G!Listening, Hearing, Clear
      <3>2. UnderWay(t, k) /\ Ordered(wire[k], t) /\ UpTo(wire[k], t, sent[t])
        BY <1>2, <1>4, <3>1 DEF ToCome, WireInv
      <3>3. e.n \in Nat /\ e.n <= sent[t] /\ cum[t] <= e.n /\ From(Tail(wire[k]), t, e.n)
        BY <1>0, <2>1, <3>1, <3>2, EventFields DEF UnderWay
      <3>4. UpTo(events[t], t, e.n)
        BY <2>1, <3>1, <3>2 DEF UnderWay, Before, UpTo
      <3>5. Queued(t)'
        <4>1. /\ Ordered(Append(events[t], e), t) /\ From(Append(events[t], e), t, cum[t])
              /\ UpTo(Append(events[t], e), t, sent[t])
          BY <1>0, <2>0, <3>1, <3>3, <3>4, AppendOrdered, AppendFrom, AppendUpTo DEF Queued
        <4>2. QED BY <1>0, <2>0, <3>1, <4>1 DEF Queued
      <3>6. ASSUME NEW j \in G!Socks PROVE UnderWay(t, j)'
        <4>1. UnderWay(t, j)
          BY <1>2, <1>4, <3>1 DEF ToCome
        <4>2. From(wire'[j], t, e.n)
          <5>1. CASE j = k
            BY <1>0, <3>3, <5>1
          <5>2. CASE j # k
            <6>1. ~G!Twice
              BY <1>0, <1>1, <1>2, <3>1 DEF OneSocket, Clear
            <6>2. sock[j] # "open"
              BY <1>0, <5>2, <6>1 DEF G!Twice, G!Open
            <6>3. wire'[j] = <<>>
              BY <1>0, <5>2, <6>2 DEF WireInv
            <6>4. QED BY <6>3, EmptyTells
          <5>3. QED BY <5>1, <5>2
        <4>3. Before(Append(events[t], e), wire'[j], t)
          <5>1. Before(events[t], wire'[j], t)
            BY <2>3, <4>1 DEF UnderWay
          <5>2. /\ Len(Append(events[t], e)) = Len(events[t]) + 1 /\ Len(events[t]) \in Nat
                /\ \A i \in 1..Len(events[t]) : Append(events[t], e)[i] = events[t][i]
                /\ Append(events[t], e)[Len(events[t]) + 1] = e
            BY <1>0, <2>0, AppendIs
          <5>3. ASSUME NEW i \in 1..Len(Append(events[t], e)), Append(events[t], e)[i].run = t
                PROVE  From(wire'[j], t, Append(events[t], e)[i].n)
            <6>1. CASE i \in 1..Len(events[t])
              BY <5>1, <5>2, <5>3, <6>1 DEF Before
            <6>2. CASE i = Len(events[t]) + 1
              BY <4>2, <5>2, <6>2
            <6>3. QED BY <5>2, <5>3, <6>1, <6>2
          <5>4. QED BY <5>3 DEF Before
        <4>4. QED BY <1>0, <2>2, <3>1, <4>1, <4>3 DEF UnderWay
      <3>7. QED BY <3>5, <3>6
    <2>6. QED BY <2>4, <2>5
  <1>5. QED BY <1>0, <1>3, <1>4 DEF ToCome

(* A turn that ends before its final message keeps what it has shown.        *)
LEMMA TextOnEnd ==
  ASSUME ConstantsOK, GatewayTypes, TextSoFar, TextToCome, NEW t \in Chats, turn[t] # "ended",
         NEW how \in {"error", "cancelled", "timeout"}, G!Ends(t, how),
         UNCHANGED <<shown, sent, wire, deaf, overheard, doubled>>
  PROVE  TextSoFar' /\ TextToCome'
  <1>1. /\ turn'[t] = "ended" /\ result'[t] = how
        /\ \A u \in Chats : u # t => /\ turn'[u] = turn[u] /\ result'[u] = result[u]
                                     /\ events'[u] = events[u] /\ cum'[u] = cum[u]
    BY EndsTyped DEF GatewayTypes
  <1>2. ASSUME NEW u \in Clear, u # t PROVE Told(u)' /\ ToCome(u)'
    <2>1. u \in Chats /\ Told(u) /\ ToCome(u)
      BY <1>2, TextIs DEF Clear
    <2>2. QED BY <1>1, <1>2, <2>1 DEF Told, ToCome, Queued, UnderWay
  <1>3. ASSUME t \in Clear PROVE Told(t)' /\ ToCome(t)'
    <2>1. shown[t] = G!Whole(t, cum[t]) /\ cum[t] \in Nat
      BY <1>3, TextIs DEF Told, GatewayTypes, ConstantsOK
    <2>2. Len(shown[t]) = cum[t]
      BY <2>1, WholeIs
    <2>3. QED BY <1>1, <2>1, <2>2 DEF Told, ToCome
  <1>4. QED BY <1>2, <1>3 DEF TextSoFar, TextToCome, Told, ToCome, Queued, UnderWay, Clear

(* A message adds what is new; the final one completes the text.             *)
LEMMA TextOnConsume ==
  ASSUME ConstantsOK, GatewayTypes, QueueInv, TextSoFar, TextToCome, NEW t \in Chats, G!Consume(t)
  PROVE  TextSoFar' /\ TextToCome'
  <1> DEFINE e == Head(events[t])
  <1>0. /\ events[t] \in Seq(Events) /\ events[t] # <<>> /\ e \in Events
        /\ Tail(events[t]) \in Seq(Events)
        /\ e.n \in Nat /\ e.n <= Length /\ e.kind \in {"delta", "final", "aborted"}
    BY ConsumeTyped
  <1>1. /\ turn[t] = "wait"
        /\ shown' = IF e.kind = "aborted" THEN shown
                    ELSE [shown EXCEPT ![t] = shown[t] \o G!NewPieces(t, e)]
        /\ IF e.kind = "delta"
           THEN /\ G!Goto(t, "top") /\ UNCHANGED result
                /\ cum' = [cum EXCEPT ![t] = e.n]
                /\ events' = [events EXCEPT ![t] = Tail(events[t])]
           ELSE G!Ends(t, e.kind)
        /\ UNCHANGED <<deaf, wire, sent, overheard, doubled>>
    BY DEF G!Consume, G!connVars, G!runVars, G!histVars
  <1>2. /\ \A r, m : From(events[t], r, m) => From(Tail(events[t]), r, m)
        /\ \A r, m : UpTo(events[t], r, m) => UpTo(Tail(events[t]), r, m)
        /\ \A r : Ordered(events[t], r) => Ordered(Tail(events[t]), r)
        /\ \A r : Own(events[t], r) => e.run = r
        /\ FinalsWhole(events[t]) => (e.kind = "final" => e.n = Length)
        /\ \A r : Ordered(events[t], r) /\ e.run = r => From(Tail(events[t]), r, e.n)
        /\ \A r, m : From(events[t], r, m) /\ e.run = r => m <= e.n
        /\ \A r, m : UpTo(events[t], r, m) /\ e.run = r => e.n <= m
    BY <1>0, TailKeeps
  <1>3. /\ \A i \in 1..Len(Tail(events[t])) : Tail(events[t])[i] = events[t][i + 1]
                                             /\ i + 1 \in 1..Len(events[t])
        /\ e = events[t][1] /\ 1 \in 1..Len(events[t])
    BY <1>0, TailIs
  <1> HIDE DEF e
  <1>4. \A u \in Chats : u # t => /\ turn'[u] = turn[u] /\ result'[u] = result[u]
                                  /\ events'[u] = events[u] /\ cum'[u] = cum[u] /\ shown'[u] = shown[u]
    BY <1>1 DEF G!Ends, G!Leaves, G!Goto, GatewayTypes
  <1>5. ASSUME NEW u \in Clear, u # t PROVE Told(u)' /\ ToCome(u)'
    <2>1. u \in Chats /\ Told(u) /\ ToCome(u)
      BY <1>5, TextIs DEF Clear
    <2>2. QED BY <1>1, <1>4, <1>5, <2>1 DEF Told, ToCome, Queued, UnderWay
  <1>6. ASSUME t \in Clear PROVE Told(t)' /\ ToCome(t)'
    <2>1. /\ shown[t] = G!Whole(t, cum[t]) /\ cum[t] \in Nat /\ Queued(t)
          /\ t \notin deaf => \A k \in G!Socks : UnderWay(t, k)
      BY <1>1, <1>6, TextIs DEF Told, ToCome, GatewayTypes, ConstantsOK
    <2>2. e.run = t /\ (e.kind = "final" => e.n = Length)
      BY <1>2, <1>6 DEF QueueInv, Clear
    <2>3. cum[t] <= e.n /\ e.n <= sent[t] /\ From(Tail(events[t]), t, e.n)
      BY <1>2, <2>1, <2>2 DEF Queued
    <2>4. shown[t] \o G!NewPieces(t, e) = G!Whole(t, e.n)
      <3>1. CASE e.n <= cum[t]
        <4>1. e.n = cum[t] /\ G!NewPieces(t, e) = <<>>
          BY <1>0, <2>1, <2>3, <3>1 DEF G!NewPieces
        <4>2. shown[t] \in Seq(Pieces)
          BY DEF GatewayTypes
        <4>3. shown[t] \o <<>> = shown[t]
          BY <4>2
        <4>4. QED BY <2>1, <4>1, <4>3
      <3>2. CASE ~(e.n <= cum[t])
        <4>1. G!NewPieces(t, e) = [i \in 1..(e.n - cum[t]) |-> <<t, cum[t] + i>>]
          BY <2>2, <3>2 DEF G!NewPieces
        <4>2. QED BY <1>0, <2>1, <2>3, <4>1, WholeGrows
      <3>3. QED BY <3>1, <3>2
    <2>5. e.kind # "aborted" => shown'[t] = G!Whole(t, e.n)
      BY <1>1, <2>4 DEF GatewayTypes
    <2>6. CASE e.kind = "delta"
      <3>1. /\ turn'[t] = "top" /\ result'[t] = result[t] /\ cum'[t] = e.n
            /\ events'[t] = Tail(events[t]) /\ shown'[t] = G!Whole(t, e.n)
        BY <1>1, <2>5, <2>6 DEF G!Goto, GatewayTypes
      <3>2. result[t] = "final" => shown'[t] = G!Whole(t, Length)
        <4>1. result[t] = "final" => shown[t] = G!Whole(t, Length)
          BY <1>6, TextIs DEF Told
        <4>2. result[t] = "final" => cum[t] = Length
          BY <2>1, <4>1, WholeIs DEF ConstantsOK
        <4>3. QED BY <1>0, <2>3, <3>1, <4>2 DEF ConstantsOK
      <3>3. Told(t)'
        BY <3>1, <3>2 DEF Told
      <3>4. Queued(t)'
        BY <1>1, <1>2, <2>1, <2>3, <3>1 DEF Queued
      <3>5. ASSUME t \notin deaf, NEW k \in G!Socks PROVE UnderWay(t, k)'
        <4>1. Before(events[t], wire[k], t)
          BY <2>1, <3>5 DEF UnderWay
        <4>2. From(wire[k], t, e.n)
          BY <1>3, <2>2, <4>1 DEF Before
        <4>3. Before(Tail(events[t]), wire[k], t)
          BY <1>3, <4>1 DEF Before
        <4>4. QED BY <1>1, <3>1, <4>2, <4>3 DEF UnderWay
      <3>6. QED BY <1>1, <3>3, <3>4, <3>5 DEF ToCome
    <2>7. CASE e.kind # "delta"
      <3>1. G!Ends(t, e.kind) /\ e.kind \in {"final", "aborted"}
        BY <1>0, <1>1, <2>7
      <3>2. turn'[t] = "ended" /\ result'[t] = e.kind
        BY <3>1, EndsTyped DEF GatewayTypes
      <3>3. CASE e.kind = "final"
        <4>1. shown'[t] = G!Whole(t, Length) /\ Len(shown'[t]) = Length
          BY <2>2, <2>5, <3>3, WholeIs DEF ConstantsOK
        <4>2. QED BY <3>2, <4>1 DEF Told, ToCome
      <3>4. CASE e.kind = "aborted"
        <4>1. shown'[t] = G!Whole(t, cum[t]) /\ Len(shown'[t]) = cum[t]
          BY <1>1, <2>1, <3>4, WholeIs
        <4>2. QED BY <3>2, <3>4, <4>1 DEF Told, ToCome
      <3>5. QED BY <3>1, <3>3, <3>4
    <2>8. QED BY <2>6, <2>7
  <1>7. QED BY <1>1, <1>5, <1>6
        DEF TextSoFar, TextToCome, Told, ToCome, Queued, UnderWay, Clear

LEMMA TextStep ==
  ASSUME ConstantsOK, GatewayTypes, WireInv, QueueInv, OneSocket, TextSoFar, TextToCome, G!Next
  PROVE  TextSoFar' /\ TextToCome'
  <1>1. CASE \E e \in Events : SendsNext(e)
    BY <1>1, TextOnSend
  <1>2. CASE G!OtherRun
    BY <1>2, TextStays DEF G!OtherRun, G!Started, G!turnVars, G!connVars, G!histVars
  <1>3. ASSUME G!AbortArrives, ~(\E e \in Events : SendsNext(e)) PROVE TextSoFar' /\ TextToCome'
    <2>1. UNCHANGED <<G!turnVars, deaf, G!connVars, mark, G!runVars, disturbed, G!histVars>>
      BY <1>3, SendingIs
    <2>2. QED BY <2>1, TextStays DEF G!turnVars, G!connVars, G!runVars, G!histVars
  <1>4. ASSUME NEW k \in G!Socks, G!Read(k) PROVE TextSoFar' /\ TextToCome'
    BY <1>4, TextOnRead
  <1>5. ASSUME NEW k \in G!Socks, G!Breaks(k) \/ G!ReaderEnds(k) PROVE TextSoFar' /\ TextToCome'
    <2>1. \A j \in G!Socks : wire'[j] = wire[j] \/ wire'[j] = <<>>
      BY <1>5 DEF G!Breaks, G!ReaderEnds, GatewayTypes
    <2>2. QED BY <1>5, <2>1, TextStays DEF G!Breaks, G!ReaderEnds, G!turnVars, G!runVars
  <1>6. CASE G!Reconnect
    <2>1. wire' = wire /\ doubled \subseteq doubled'
      BY <1>6 DEF G!Reconnect, G!Opens
    <2>2. QED BY <1>6, <2>1, TextStays DEF G!Reconnect, G!turnVars, G!runVars
  <1>7. CASE G!ApplyConfig
    <2>1. \A j \in G!Socks : wire'[j] = <<>>
      BY <1>7 DEF G!ApplyConfig
    <2>2. deaf \subseteq deaf'
      BY <1>7 DEF G!ApplyConfig
    <2>3. QED BY <1>7, <2>1, <2>2, TextStays DEF G!ApplyConfig, G!turnVars, G!runVars
  <1>8. ASSUME NEW t \in Chats, G!TurnStart(t) \/ G!Connected(t) \/ G!NotConnected(t)
        PROVE  TextSoFar' /\ TextToCome'
    <2>1. \A u \in Chats : turn'[u] = "ended" <=> turn[u] = "ended"
      BY <1>8 DEF G!TurnStart, G!Connected, G!NotConnected, G!Goto, GatewayTypes
    <2>2. /\ UNCHANGED <<result, events, cum, shown, sent, wire, deaf, overheard>>
          /\ doubled \subseteq doubled'
      BY <1>8 DEF G!TurnStart, G!Connected, G!NotConnected, G!Opens, G!connVars, G!runVars
    <2>3. QED BY <2>1, <2>2, TextStays
  <1>9. ASSUME NEW t \in Chats,
               G!Post(t) \/ G!GotRunId(t) \/ G!Cancel(t) \/ (G!Top(t) /\ G!Goto(t, "wait") /\ UNCHANGED <<result, events, cum>>)
        PROVE  TextSoFar' /\ TextToCome'
    <2>1. \A u \in Chats : turn'[u] = "ended" <=> turn[u] = "ended"
      BY <1>9 DEF G!Post, G!GotRunId, G!Cancel, G!Top, G!Goto, GatewayTypes, G!turnVars
    <2>2. UNCHANGED <<result, events, cum, shown, sent, wire, deaf, overheard, doubled>>
      BY <1>9 DEF G!Post, G!Started, G!GotRunId, G!Cancel, G!Top, G!turnVars, G!connVars, G!runVars, G!histVars
    <2>3. QED BY <2>1, <2>2, TextStays
  <1>10. ASSUME NEW t \in Chats,
                G!PostFails(t) \/ G!TimesOut(t) \/ G!Interrupted(t) \/ (G!Top(t) /\ G!Ends(t, "cancelled"))
         PROVE  TextSoFar' /\ TextToCome'
    <2>1. PICK how \in {"error", "cancelled", "timeout"} : G!Ends(t, how)
      BY <1>10 DEF G!PostFails, G!TimesOut, G!Interrupted
    <2>2. turn[t] # "ended"
      BY <1>10 DEF G!PostFails, G!TimesOut, G!Interrupted, G!Top
    <2>3. UNCHANGED <<shown, sent, wire, deaf, overheard, doubled>>
      BY <1>10 DEF G!PostFails, G!TimesOut, G!Interrupted, G!Top, G!connVars, G!runVars, G!histVars
    <2>4. QED BY <2>1, <2>2, <2>3, TextOnEnd
  <1>11. ASSUME NEW t \in Chats, G!Consume(t) PROVE TextSoFar' /\ TextToCome'
    BY <1>11, TextOnConsume
  <1>12. ASSUME NEW t \in Chats, G!Top(t)
         PROVE  G!Ends(t, "cancelled") \/ (G!Goto(t, "wait") /\ UNCHANGED <<result, events, cum>>)
    BY <1>12 DEF G!Top
  <1>13. (\E r \in G!Runs : G!Says(r)) \/ G!OtherAborted => \E e \in Events : SendsNext(e)
    BY SendingIs
  <1>14. QED BY <1>1, <1>2, <1>3, <1>4, <1>5, <1>6, <1>7, <1>8, <1>9, <1>10, <1>11, <1>12, <1>13
            DEF G!Next, G!System

-----------------------------------------------------------------------------
(* What is lost.                                                             *)
EndKept(t) == TellsEnd(events[t], t) \/ \E k \in G!Open : TellsEnd(wire[k], t)
LossFor(t) ==
  t \notin missed /\ Hearing(t) =>
    G!Open # {} /\ (turn[t] # "post" /\ state[t] = "over" => EndKept(t))

LEMMA LossIs ==
  LossInv <=> deaf \subseteq missed /\ (\A t \in Chats : LossFor(t)) /\ G!TimeoutOnlyAfterLoss
  BY DEF LossInv, LossFor, EndKept

LEMMA LossNow ==
  ASSUME deaf' \subseteq missed', G!TimeoutOnlyAfterLoss', \A t \in Chats : LossFor(t)'
  PROVE  LossInv'
  BY DEF LossInv, LossFor, EndKept

(* A turn that does not move, whose sockets and events stay. *)
LEMMA LossStays ==
  ASSUME NEW t \in Chats, LossFor(t), t \in missed => t \in missed',
         Hearing(t)' => Hearing(t) /\ events'[t] = events[t],
         Hearing(t)' /\ turn'[t] # "post" /\ state'[t] = "over" => turn[t] # "post" /\ state[t] = "over",
         UNCHANGED wire, G!Open \subseteq G!Open'
  PROVE  LossFor(t)'
  BY DEF LossFor, EndKept

(* A turn that may have missed something is marked. *)
LEMMA LossCut == ASSUME NEW t \in Chats, Hearing(t)' => t \in missed' PROVE LossFor(t)'
  BY DEF LossFor

LEMMA TimeoutStays ==
  ASSUME G!TimeoutOnlyAfterLoss, missed \subseteq missed',
         \A t \in Chats : result'[t] = "timeout" => result[t] = "timeout" \/ t \in missed'
  PROVE  G!TimeoutOnlyAfterLoss'
  BY DEF G!TimeoutOnlyAfterLoss

LEMMA LossOnSend ==
  ASSUME ConstantsOK, GatewayTypes, LossInv, NEW e \in Events, SendsNext(e)
  PROVE  LossInv'
  <1>0. /\ UNCHANGED <<turn, result, events, deaf, missed, sock>>
        /\ \A k \in G!Socks : wire'[k] = IF sock[k] = "open" THEN Append(wire[k], e) ELSE wire[k]
        /\ \A k \in G!Socks : wire[k] \in Seq(Events)
    BY SendsTyped DEF SendsNext, G!turnVars, G!histVars, GatewayTypes
  <1>1. /\ e.run \in G!Runs /\ e.kind \in {"delta", "final", "aborted"}
        /\ \A r \in G!Runs : state'[r] = IF r = e.run THEN IF e.kind = "delta" THEN "going" ELSE "over"
                                       ELSE state[r]
    BY EventFields DEF SendsNext, GatewayTypes
  <1>2. ASSUME NEW t \in Chats PROVE LossFor(t)'
    <2>1. SUFFICES ASSUME t \notin missed, Hearing(t)
                   PROVE  G!Open # {} /\ (turn[t] # "post" /\ state'[t] = "over" => EndKept(t)')
      BY <1>0 DEF LossFor, Hearing, G!Open
    <2>2. G!Open # {} /\ (turn[t] # "post" /\ state[t] = "over" => EndKept(t))
      BY <2>1, LossIs DEF LossFor
    <2>3. ASSUME turn[t] # "post", state'[t] = "over" PROVE EndKept(t)'
      <3>1. \A k \in G!Socks, r \in G!Runs : TellsEnd(Append(wire[k], e), r)
              <=> TellsEnd(wire[k], r) \/ (e.run = r /\ e.kind # "delta")
        BY <1>0, AppendTellsRun
      <3>2. t \in G!Runs
        BY DEF G!Runs
      <3>3. CASE e.run = t
        <4>1. PICK k \in G!Socks : sock[k] = "open"
          BY <2>2 DEF G!Open
        <4>2. e.kind # "delta"
          BY <1>1, <2>3, <3>2, <3>3
        <4>3. TellsEnd(wire'[k], t)
          BY <1>0, <3>1, <3>2, <3>3, <4>1, <4>2
        <4>4. QED BY <1>0, <4>1, <4>3 DEF EndKept, G!Open
      <3>4. CASE e.run # t
        <4>1. EndKept(t)
          BY <1>1, <2>2, <2>3, <3>2, <3>4
        <4>2. QED BY <1>0, <3>1, <3>2, <4>1 DEF EndKept, G!Open
      <3>5. QED BY <3>3, <3>4
    <2>4. QED BY <2>2, <2>3
  <1>3. deaf' \subseteq missed' /\ G!TimeoutOnlyAfterLoss'
    BY <1>0 DEF LossInv, G!TimeoutOnlyAfterLoss
  <1>4. QED BY <1>2, <1>3, LossNow

LEMMA LossOnRead ==
  ASSUME ConstantsOK, GatewayTypes, LossInv, NEW k \in G!Socks, G!Read(k)
  PROVE  LossInv'
  <1> DEFINE e == Head(wire[k])
  <1>0. /\ wire[k] \in Seq(Events) /\ wire[k] # <<>> /\ e \in Events
        /\ \A j \in G!Socks : wire'[j] = IF j = k THEN Tail(wire[k]) ELSE wire[j]
        /\ \A t \in Chats : events'[t] = IF G!Hears(t, e) THEN Append(events[t], e) ELSE events[t]
        /\ \A t \in Chats : events[t] \in Seq(Events)
        /\ UNCHANGED <<turn, result, deaf, state, missed, sock>>
    BY ReadTyped DEF G!Read, G!runVars, GatewayTypes
  <1>1. \A r : TellsEnd(wire[k], r) <=> TellsEnd(Tail(wire[k]), r) \/ (e.run = r /\ e.kind # "delta")
    BY <1>0, TailTellsRun
  <1> HIDE DEF e
  <1>2. ASSUME NEW t \in Chats PROVE LossFor(t)'
    <2>1. SUFFICES ASSUME t \notin missed, Hearing(t), turn[t] # "post", state[t] = "over"
                   PROVE  EndKept(t)'
      BY <1>0, LossIs DEF LossFor, Hearing, G!Open
    <2>2. EndKept(t) /\ t \notin deaf
      BY <2>1, LossIs DEF LossFor
    <2>3. TellsEnd(Append(events[t], e), t) <=> TellsEnd(events[t], t) \/ (e.run = t /\ e.kind # "delta")
      BY <1>0, AppendTellsRun
    <2>4. CASE TellsEnd(events[t], t)
      BY <1>0, <2>3, <2>4 DEF EndKept
    <2>5. CASE e.run = t /\ e.kind # "delta"
      <3>1. G!Hears(t, e)
        BY <2>1, <2>2, <2>5 DEF G!Hears, G!Listening, Hearing
      <3>2. QED BY <1>0, <2>3, <2>5, <3>1 DEF EndKept
    <2>6. ASSUME ~(e.run = t /\ e.kind # "delta"), NEW j \in G!Open, TellsEnd(wire[j], t)
          PROVE  EndKept(t)'
      <3>1. j \in G!Socks /\ j \in G!Open'
        BY <1>0 DEF G!Open
      <3>2. TellsEnd(wire'[j], t)
        BY <1>0, <1>1, <2>6, <3>1
      <3>3. QED BY <3>1, <3>2 DEF EndKept
    <2>7. QED BY <2>2, <2>4, <2>5, <2>6 DEF EndKept
  <1>3. deaf' \subseteq missed' /\ G!TimeoutOnlyAfterLoss'
    BY <1>0 DEF LossInv, G!TimeoutOnlyAfterLoss
  <1>4. QED BY <1>2, <1>3, LossNow

LEMMA LossOnConsume ==
  ASSUME ConstantsOK, GatewayTypes, LossInv, NEW t \in Chats, G!Consume(t)
  PROVE  LossInv'
  <1> DEFINE e == Head(events[t])
  <1>0. /\ events[t] \in Seq(Events) /\ events[t] # <<>>
        /\ e.kind \in {"delta", "final", "aborted"} /\ turn[t] = "wait"
        /\ UNCHANGED <<deaf, missed, state, wire, sock>>
    BY ConsumeTyped DEF G!Consume, G!connVars, G!runVars, G!histVars
  <1>1. \A r : TellsEnd(events[t], r) <=> TellsEnd(Tail(events[t]), r) \/ (e.run = r /\ e.kind # "delta")
    BY <1>0, TailTellsRun
  <1>2. IF e.kind = "delta" THEN /\ G!Goto(t, "top") /\ UNCHANGED result
                                 /\ events' = [events EXCEPT ![t] = Tail(events[t])]
        ELSE G!Ends(t, e.kind)
    BY DEF G!Consume
  <1> HIDE DEF e
  <1>3. \A u \in Chats : u # t => turn'[u] = turn[u] /\ events'[u] = events[u]
    BY <1>2 DEF G!Ends, G!Leaves, G!Goto, GatewayTypes
  <1>4. ASSUME NEW u \in Chats PROVE LossFor(u)'
    <2>1. LossFor(u)
      BY LossIs
    <2>2. CASE u # t
      BY <1>0, <1>3, <2>1, <2>2 DEF LossFor, EndKept, Hearing, G!Open
    <2>3. CASE u = t /\ e.kind = "delta"
      <3>1. turn'[t] = "top" /\ events'[t] = Tail(events[t])
        BY <1>2, <2>3 DEF G!Goto, GatewayTypes
      <3>2. QED BY <1>0, <1>1, <2>1, <2>3, <3>1 DEF LossFor, EndKept, Hearing, G!Open
    <2>4. CASE u = t /\ e.kind # "delta"
      <3>1. turn'[t] = "ended"
        BY <1>2, <2>4 DEF G!Ends, G!Leaves, G!Goto, GatewayTypes
      <3>2. QED BY <2>4, <3>1 DEF LossFor, Hearing
    <2>5. QED BY <2>2, <2>3, <2>4
  <1>5. \A u \in Chats : result'[u] = "timeout" => result[u] = "timeout"
    BY <1>0, <1>2 DEF G!Ends, G!Leaves, GatewayTypes
  <1>6. deaf' \subseteq missed' /\ G!TimeoutOnlyAfterLoss'
    BY <1>0, <1>5, LossIs DEF G!TimeoutOnlyAfterLoss
  <1>7. QED BY <1>4, <1>6, LossNow

(* A turn times out only when the end of its run is nowhere.                 *)
LEMMA TimesOutCut ==
  ASSUME ConstantsOK, GatewayTypes, LossInv, NEW t \in Chats, G!TimesOut(t)
  PROVE  t \in missed
  <1> SUFFICES ASSUME t \notin missed PROVE FALSE
    OBVIOUS
  <1>1. t \notin deaf /\ Hearing(t) /\ turn[t] # "post" /\ state[t] = "over" /\ events[t] = <<>>
    BY LossIs DEF G!TimesOut, Hearing
  <1>2. EndKept(t)
    BY <1>1, LossIs DEF LossFor
  <1>3. ~TellsEnd(events[t], t)
    BY <1>1, EmptyTells
  <1>4. \A k \in G!Socks : \A i \in 1..Len(wire[k]) : wire[k][i].run # t
    BY <1>1 DEF G!TimesOut
  <1>5. QED BY <1>2, <1>3, <1>4 DEF EndKept, TellsEnd, G!Open

LEMMA LossStep == ASSUME ConstantsOK, GatewayTypes, TurnInv, LossInv, G!Next PROVE LossInv'
  <1>0. deaf \subseteq missed /\ (\A t \in Chats : LossFor(t)) /\ G!TimeoutOnlyAfterLoss
    BY LossIs
  <1>1. ASSUME UNCHANGED <<deaf, missed, wire>>, G!Open \subseteq G!Open',
               \A t \in Chats : result'[t] = "timeout" => result[t] = "timeout" \/ t \in missed,
               \A t \in Chats : Hearing(t)' => Hearing(t) /\ events'[t] = events[t],
               \A t \in Chats : Hearing(t)' /\ turn'[t] # "post" /\ state'[t] = "over" =>
                                turn[t] # "post" /\ state[t] = "over"
        PROVE  LossInv'
    <2>1. \A t \in Chats : LossFor(t)'
      BY <1>0, <1>1, LossStays
    <2>2. G!TimeoutOnlyAfterLoss'
      BY <1>0, <1>1, TimeoutStays
    <2>3. QED BY <1>0, <1>1, <2>1, <2>2, LossNow
  <1>2. CASE \E e \in Events : SendsNext(e)
    BY <1>2, LossOnSend
  <1>3. CASE G!OtherRun
    <2>1. UNCHANGED <<turn, result, events, deaf, missed, wire, sock>>
          /\ \A t \in Chats : state'[t] = state[t]
      BY <1>3 DEF G!OtherRun, G!Started, ConstantsOK, GatewayTypes, G!turnVars, G!connVars, G!histVars
    <2>2. QED BY <1>1, <2>1 DEF Hearing, G!Open
  <1>4. ASSUME G!AbortArrives, ~(\E e \in Events : SendsNext(e)) PROVE LossInv'
    <2>1. UNCHANGED <<G!turnVars, deaf, G!connVars, mark, G!runVars, disturbed, G!histVars>>
      BY <1>4, SendingIs
    <2>2. QED BY <1>1, <2>1 DEF Hearing, G!Open, G!turnVars, G!connVars, G!runVars, G!histVars
  <1>5. ASSUME NEW k \in G!Socks, G!Read(k) PROVE LossInv'
    BY <1>5, LossOnRead
  <1>6. ASSUME (\E k \in G!Socks : G!Breaks(k) \/ G!ReaderEnds(k)) \/ G!ApplyConfig PROVE LossInv'
    <2>1. \A t \in Chats : Hearing(t)' => t \in missed'
      BY <1>6 DEF G!Breaks, G!ReaderEnds, G!ApplyConfig, Hearing, G!turnVars
    <2>2. deaf' \subseteq missed' /\ missed \subseteq missed' /\ UNCHANGED result
      BY <1>0, <1>6 DEF G!Breaks, G!ReaderEnds, G!ApplyConfig, G!turnVars
    <2>3. G!TimeoutOnlyAfterLoss'
      BY <1>0, <2>2, TimeoutStays
    <2>4. QED BY <2>1, <2>2, <2>3, LossCut, LossNow
  <1>7. CASE G!Reconnect
    <2>1. UNCHANGED <<turn, result, events, deaf, missed, state, wire>> /\ G!Open \subseteq G!Open'
      BY <1>7 DEF G!Reconnect, G!Opens, G!Open, GatewayTypes, G!turnVars, G!runVars
    <2>2. QED BY <1>1, <2>1 DEF Hearing
  <1>8. ASSUME NEW t \in Chats, G!TurnStart(t) \/ G!NotConnected(t) PROVE LossInv'
    <2>1. /\ UNCHANGED <<result, events, deaf, state, wire, sock>> /\ missed \subseteq missed'
          /\ \A u \in Chats : u # t => turn'[u] = turn[u]
          /\ turn'[t] \in {"post", "connect"}
      BY <1>8 DEF G!TurnStart, G!NotConnected, G!Goto, GatewayTypes, G!connVars, G!runVars
    <2>2. G!Open' = G!Open
      BY <2>1 DEF G!Open
    <2>3. G!Open = {} => t \in missed'
      BY <1>8 DEF G!TurnStart, G!NotConnected
    <2>4. LossFor(t)'
      BY <2>1, <2>2, <2>3 DEF LossFor, Hearing
    <2>5. ASSUME NEW u \in Chats, u # t PROVE LossFor(u)'
      BY <1>0, <2>1, <2>2, <2>5, LossStays DEF Hearing
    <2>6. G!TimeoutOnlyAfterLoss'
      BY <1>0, <2>1, TimeoutStays
    <2>7. QED BY <1>0, <2>1, <2>4, <2>5, <2>6, LossNow
  <1>9. ASSUME NEW t \in Chats, G!Connected(t) PROVE LossInv'
    <2>1. /\ UNCHANGED <<result, events, deaf, state, wire>> /\ missed \ {t} \subseteq missed' /\ t \notin deaf
          /\ \A u \in Chats : u # t => turn'[u] = turn[u]
          /\ turn[t] = "connect" /\ turn'[t] = "post"
      BY <1>9 DEF G!Connected, G!Opens, G!Goto, GatewayTypes, G!runVars
    <2>2. G!Open \subseteq G!Open' /\ G!Open' # {}
      BY <1>9 DEF G!Connected, G!Opens, G!Open, GatewayTypes
    <2>3. LossFor(t)'
      BY <2>1, <2>2 DEF LossFor
    <2>4. ASSUME NEW u \in Chats, u # t PROVE LossFor(u)'
      BY <1>0, <2>1, <2>2, <2>4, LossStays DEF Hearing
    <2>5. result[t] # "timeout"
      BY <2>1 DEF TurnInv
    <2>6. G!TimeoutOnlyAfterLoss'
      BY <1>0, <2>1, <2>5 DEF G!TimeoutOnlyAfterLoss
    <2>7. QED BY <1>0, <2>1, <2>3, <2>4, <2>6, LossNow
  <1>10. ASSUME NEW t \in Chats, G!Post(t) \/ G!GotRunId(t) \/ G!Cancel(t) PROVE LossInv'
    <2>1. UNCHANGED <<result, events, deaf, missed, wire, sock>>
      BY <1>10 DEF G!Post, G!GotRunId, G!Cancel, G!turnVars, G!connVars, G!histVars
    <2>2. \A u \in Chats : Hearing(u)' => Hearing(u)
      BY <1>10 DEF G!Post, G!GotRunId, G!Cancel, G!Goto, Hearing, GatewayTypes, G!turnVars
    <2>3. \A u \in Chats : Hearing(u)' /\ turn'[u] # "post" /\ state'[u] = "over" =>
                           turn[u] # "post" /\ state[u] = "over"
      BY <1>10 DEF G!Post, G!Started, G!GotRunId, G!Cancel, G!Goto, Hearing, GatewayTypes, G!Runs, G!turnVars, G!runVars
    <2>4. QED BY <1>1, <2>1, <2>2, <2>3 DEF G!Open
  <1>11. ASSUME NEW t \in Chats, G!Top(t) \/ G!PostFails(t) \/ G!TimesOut(t) \/ G!Interrupted(t)
         PROVE  LossInv'
    <2>1. UNCHANGED <<deaf, missed, wire, sock, state>>
      BY <1>11 DEF G!Top, G!PostFails, G!TimesOut, G!Interrupted, G!connVars, G!runVars, G!histVars
    <2>2. \A u \in Chats : Hearing(u)' => /\ Hearing(u) /\ events'[u] = events[u]
                                          /\ (turn'[u] # "post" => turn[u] # "post")
      BY <1>11 DEF G!Top, G!PostFails, G!TimesOut, G!Interrupted, G!Ends, G!Leaves, G!Goto, Hearing, GatewayTypes
    <2>3. G!TimesOut(t) => t \in missed
      BY TimesOutCut
    <2>4. \A u \in Chats : result'[u] = "timeout" => result[u] = "timeout" \/ u \in missed
      BY <1>11, <2>3 DEF G!Top, G!PostFails, G!TimesOut, G!Interrupted, G!Ends, G!Leaves, GatewayTypes
    <2>5. QED BY <1>1, <2>1, <2>2, <2>4 DEF G!Open
  <1>12. ASSUME NEW t \in Chats, G!Consume(t) PROVE LossInv'
    BY <1>12, LossOnConsume
  <1>13. (\E r \in G!Runs : G!Says(r)) \/ G!OtherAborted => \E e \in Events : SendsNext(e)
    BY SendingIs
  <1>14. QED BY <1>2, <1>3, <1>4, <1>5, <1>6, <1>7, <1>8, <1>9, <1>10, <1>11, <1>12, <1>13
            DEF G!Next, G!System

-----------------------------------------------------------------------------
(* Aborts.                                                                   *)
BegunAsked  == \A u \in asked : turn[u] # "idle"
MarkIsAsked == mark => \A t \in Chats : Active(t) => t \in asked
AbortsAsked ==
  /\ aborting => asked # {}
  /\ \A k \in G!Socks : TellsAbort(wire[k]) => asked # {}
  /\ \A t \in Chats : TellsAbort(events[t]) => asked # {}

LEMMA AskedIs == AskedInv <=> BegunAsked /\ MarkIsAsked /\ AbortsAsked /\ G!AbortedOnlyIfAsked
  BY DEF AskedInv, BegunAsked, MarkIsAsked, AbortsAsked

(* Only cancelling adds to what was asked, and nothing takes from it. *)
LEMMA AskedGrows ==
  ASSUME G!Next
  PROVE  \/ UNCHANGED asked /\ (aborting' => aborting) /\ (mark' => mark)
         \/ \E t \in Chats : G!Cancel(t)
  <1>1. CASE G!OtherRun \/ G!OtherAborted \/ G!AbortArrives \/ G!Reconnect \/ G!ApplyConfig
    BY <1>1 DEF G!OtherRun, G!OtherAborted, G!AbortArrives, G!Reconnect, G!ApplyConfig, G!histVars
  <1>2. CASE (\E r \in G!Runs : G!Says(r)) \/ \E k \in G!Socks : G!Read(k) \/ G!Breaks(k) \/ G!ReaderEnds(k)
    BY <1>2 DEF G!Says, G!Read, G!Breaks, G!ReaderEnds, G!histVars
  <1>3. ASSUME NEW t \in Chats,
               G!TurnStart(t) \/ G!Connected(t) \/ G!NotConnected(t) \/ G!Post(t) \/ G!PostFails(t) \/ G!GotRunId(t)
        PROVE  UNCHANGED asked /\ (aborting' => aborting) /\ (mark' => mark)
    BY <1>3 DEF G!TurnStart, G!Connected, G!NotConnected, G!Post, G!PostFails, G!GotRunId, G!histVars
  <1>4. ASSUME NEW t \in Chats, G!Top(t) \/ G!Consume(t) \/ G!TimesOut(t) \/ G!Interrupted(t)
        PROVE  UNCHANGED <<asked, aborting, mark>>
    BY <1>4 DEF G!Top, G!Consume, G!TimesOut, G!Interrupted, G!histVars
  <1>5. QED BY <1>1, <1>2, <1>3, <1>4 DEF G!Next, G!System

LEMMA BegunAskedStep ==
  ASSUME ConstantsOK, GatewayTypes, BegunAsked, G!Next
  PROVE  BegunAsked'
  <1>1. \A u \in Chats : turn[u] # "idle" => turn'[u] # "idle"
    <2>1. CASE UNCHANGED <<turn, result>>
      BY <2>1
    <2>2. ASSUME NEW t \in Chats, Began(t) PROVE \A u \in Chats : turn[u] # "idle" => turn'[u] # "idle"
      BY <2>2 DEF Began, GatewayTypes
    <2>3. ASSUME NEW t \in Chats, NEW l \in {"post", "posted", "top", "wait"}, WentOn(t, l)
          PROVE  \A u \in Chats : turn[u] # "idle" => turn'[u] # "idle"
      BY <2>3 DEF WentOn, GatewayTypes
    <2>4. ASSUME NEW t \in Chats, NEW how, RunEnded(t, how)
          PROVE  \A u \in Chats : turn[u] # "idle" => turn'[u] # "idle"
      BY <2>4 DEF RunEnded, GatewayTypes
    <2>5. QED BY <2>1, <2>2, <2>3, <2>4, TurnMovesTo
  <1>2. CASE UNCHANGED asked
    BY <1>1, <1>2 DEF BegunAsked, GatewayTypes
  <1>3. ASSUME NEW t \in Chats, G!Cancel(t) PROVE BegunAsked'
    BY <1>1, <1>3 DEF G!Cancel, BegunAsked, GatewayTypes
  <1>4. QED BY <1>2, <1>3, AskedGrows

LEMMA MarkStep ==
  ASSUME ConstantsOK, GatewayTypes, InOrder, MarkIsAsked, G!Next
  PROVE  MarkIsAsked'
  <1>1. ASSUME NEW t \in Chats, G!Cancel(t) PROVE MarkIsAsked'
    <2>1. UNCHANGED turn /\ turn[t] \notin {"idle", "ended"} /\ asked' = asked \cup {t}
      BY <1>1 DEF G!Cancel, G!turnVars
    <2>2. \A u \in Chats : Active(u) => u = t
      BY <2>1 DEF Active, InOrder, ConstantsOK
    <2>3. QED BY <2>1, <2>2 DEF MarkIsAsked, Active
  <1>2. ASSUME NEW t \in Chats, G!TurnStart(t) PROVE MarkIsAsked'
    BY <1>2 DEF G!TurnStart, MarkIsAsked
  <1>3. ASSUME UNCHANGED asked, mark' => mark, \A t \in Chats : Active(t)' => Active(t)
        PROVE  MarkIsAsked'
    BY <1>3 DEF MarkIsAsked
  <1>4. ASSUME ~(\E t \in Chats : G!TurnStart(t)) PROVE \A t \in Chats : Active(t)' => Active(t)
    <2>1. ASSUME NEW t \in Chats, G!Connected(t) \/ G!NotConnected(t) \/ G!Post(t) \/ G!GotRunId(t) \/ G!Cancel(t)
          PROVE  \A u \in Chats : Active(u)' => Active(u)
      BY <2>1 DEF G!Connected, G!NotConnected, G!Post, G!GotRunId, G!Cancel, G!Goto, Active, GatewayTypes, G!turnVars
    <2>2. ASSUME NEW t \in Chats,
                 G!Top(t) \/ G!Consume(t) \/ G!TimesOut(t) \/ G!Interrupted(t) \/ G!PostFails(t)
          PROVE  \A u \in Chats : Active(u)' => Active(u)
      BY <2>2 DEF G!Top, G!Consume, G!TimesOut, G!Interrupted, G!PostFails, G!Ends, G!Leaves, G!Goto, Active, GatewayTypes
    <2>3. CASE G!OtherRun \/ G!OtherAborted \/ G!AbortArrives \/ G!Reconnect \/ G!ApplyConfig
      BY <2>3 DEF G!OtherRun, G!OtherAborted, G!AbortArrives, G!Reconnect, G!ApplyConfig, Active, G!turnVars
    <2>4. CASE (\E r \in G!Runs : G!Says(r)) \/ \E k \in G!Socks : G!Read(k) \/ G!Breaks(k) \/ G!ReaderEnds(k)
      BY <2>4 DEF G!Says, G!Read, G!Breaks, G!ReaderEnds, Active, G!turnVars
    <2>5. QED BY <1>4, <2>1, <2>2, <2>3, <2>4 DEF G!Next, G!System
  <1>5. QED BY <1>1, <1>2, <1>3, <1>4, AskedGrows

LEMMA AbortsStep ==
  ASSUME ConstantsOK, GatewayTypes, AbortsAsked, G!Next
  PROVE  AbortsAsked'
  <1>0. \A k \in G!Socks : wire[k] \in Seq(Events)
    BY DEF GatewayTypes
  <1>1. ASSUME asked # {} PROVE AbortsAsked'
    <2>1. asked' # {}
      BY <1>1, AskedGrows DEF G!Cancel
    <2>2. QED BY <2>1 DEF AbortsAsked
  <1>2. ASSUME asked = {} PROVE AbortsAsked'
    <2>0. /\ ~aborting /\ (\A k \in G!Socks : ~TellsAbort(wire[k]))
          /\ \A t \in Chats : ~TellsAbort(events[t])
      BY <1>2 DEF AbortsAsked
    <2>1. ASSUME NEW t \in Chats, G!Cancel(t) PROVE AbortsAsked'
      <3>1. asked' # {}
        BY <2>1 DEF G!Cancel
      <3>2. QED BY <3>1 DEF AbortsAsked
    <2>2. ASSUME NEW e \in Events, SendsNext(e) PROVE \A k \in G!Socks : ~TellsAbort(wire'[k])
      <3>1. \A k \in G!Socks : wire'[k] = IF sock[k] = "open" THEN Append(wire[k], e) ELSE wire[k]
        BY <2>2, SendsTyped DEF SendsNext
      <3>2. ~(e.run \in Chats /\ e.kind = "aborted")
        BY <2>0, <2>2 DEF SendsNext
      <3>3. \A k \in G!Socks : ~TellsAbort(Append(wire[k], e))
        BY <1>0, <2>0, <3>2, AppendTellsRun
      <3>4. QED BY <2>0, <3>1, <3>3
    <2>3. ASSUME NEW k \in G!Socks, G!Read(k)
          PROVE  /\ \A j \in G!Socks : ~TellsAbort(wire'[j])
                 /\ \A t \in Chats : ~TellsAbort(events'[t])
      <3> DEFINE e == Head(wire[k])
      <3>1. /\ wire[k] # <<>> /\ e \in Events
            /\ \A j \in G!Socks : wire'[j] = IF j = k THEN Tail(wire[k]) ELSE wire[j]
            /\ \A t \in Chats : events'[t] = IF G!Hears(t, e) THEN Append(events[t], e) ELSE events[t]
            /\ \A t \in Chats : events[t] \in Seq(Events)
        BY <2>3, ReadTyped DEF G!Read, GatewayTypes
      <3>2. TellsAbort(wire[k]) <=> TellsAbort(Tail(wire[k])) \/ (e.run \in Chats /\ e.kind = "aborted")
        BY <1>0, <3>1, TailTellsRun
      <3> HIDE DEF e
      <3>3. \A t \in Chats : TellsAbort(Append(events[t], e))
              <=> TellsAbort(events[t]) \/ (e.run \in Chats /\ e.kind = "aborted")
        BY <3>1, AppendTellsRun
      <3>4. QED BY <2>0, <3>1, <3>2, <3>3
    <2>4. \A k \in G!Socks : ~TellsAbort(wire'[k])
      <3>1. ASSUME \A k \in G!Socks : wire'[k] = wire[k] \/ wire'[k] = <<>>
            PROVE  \A k \in G!Socks : ~TellsAbort(wire'[k])
        BY <2>0, <3>1, EmptyTells
      <3>2. CASE G!OtherRun \/ G!Reconnect \/ G!ApplyConfig
        BY <3>1, <3>2 DEF G!OtherRun, G!Reconnect, G!Opens, G!ApplyConfig, G!connVars
      <3>3. ASSUME NEW k \in G!Socks, G!Breaks(k) \/ G!ReaderEnds(k)
            PROVE  \A j \in G!Socks : ~TellsAbort(wire'[j])
        <4>1. \A j \in G!Socks : wire'[j] = wire[j] \/ wire'[j] = <<>>
          BY <3>3 DEF G!Breaks, G!ReaderEnds, GatewayTypes
        <4>2. QED BY <3>1, <4>1
      <3>4. CASE \E t \in Chats : G!Connected(t) \/ G!TurnStart(t) \/ G!NotConnected(t) \/ G!Post(t)
                                  \/ G!PostFails(t) \/ G!GotRunId(t) \/ G!Top(t) \/ G!Consume(t)
                                  \/ G!TimesOut(t) \/ G!Cancel(t) \/ G!Interrupted(t)
        <4>1. UNCHANGED wire
          BY <3>4 DEF G!Connected, G!Opens, G!TurnStart, G!NotConnected, G!Post, G!PostFails, G!GotRunId, G!Top,
                      G!Consume, G!TimesOut, G!Cancel, G!Interrupted, G!connVars
        <4>2. QED BY <2>0, <4>1
      <3>5. CASE G!AbortArrives
        <4>1. CASE \E e \in Events : SendsNext(e)
          BY <2>2, <4>1
        <4>2. CASE UNCHANGED <<G!turnVars, deaf, G!connVars, mark, G!runVars, disturbed, G!histVars>>
          BY <2>0, <4>2 DEF G!connVars
        <4>3. QED BY <3>5, <4>1, <4>2, SendingIs
      <3>6. CASE (\E r \in G!Runs : G!Says(r)) \/ G!OtherAborted
        BY <2>2, <3>6, SendingIs
      <3>7. QED BY <2>3, <3>2, <3>3, <3>4, <3>5, <3>6 DEF G!Next, G!System
    <2>5. \A t \in Chats : ~TellsAbort(events'[t])
      <3>1. ASSUME NEW t \in Chats, events[t] # <<>> PROVE ~TellsAbort(Tail(events[t]))
        BY <2>0, <3>1, TailTellsRun DEF GatewayTypes
      <3>2. QED BY <2>0, <2>3, <3>1, QueueMoves, EmptyTells
    <2>6. CASE UNCHANGED asked /\ (aborting' => aborting)
      BY <2>0, <2>4, <2>5, <2>6 DEF AbortsAsked
    <2>7. QED BY <2>1, <2>6, AskedGrows
  <1>3. QED BY <1>1, <1>2

LEMMA AbortedStep ==
  ASSUME ConstantsOK, GatewayTypes, TurnInv, QueueInv, AskedInv, G!Next
  PROVE  G!AbortedOnlyIfAsked'
  <1>0. G!AbortedOnlyIfAsked /\ BegunAsked /\ MarkIsAsked /\ AbortsAsked /\ InOrder
    BY AskedIs, TurnIs
  <1>1. ASSUME overheard \subseteq overheard', asked \subseteq asked',
               \A t \in Chats : result'[t] = "cancelled" => result[t] = "cancelled" \/ t \in asked,
               \A t \in Chats : result'[t] = "aborted" =>
                 \/ result[t] = "aborted" \/ t \in overheard
                 \/ \E u \in asked : u <= t
        PROVE  G!AbortedOnlyIfAsked'
    BY <1>0, <1>1 DEF G!AbortedOnlyIfAsked
  <1>2. asked \subseteq asked'
    BY AskedGrows DEF G!Cancel
  <1>3. overheard \subseteq overheard'
    <2>1. ASSUME NEW k \in G!Socks, G!Read(k) PROVE overheard \subseteq overheard'
      BY <2>1 DEF G!Read
    <2>2. QED BY <2>1, QueueMoves
  <1>4. CASE UNCHANGED result
    BY <1>1, <1>2, <1>3, <1>4
  <1>5. ASSUME NEW t \in Chats, G!Top(t) \/ G!Interrupted(t) PROVE G!AbortedOnlyIfAsked'
    <2>1. G!Top(t) /\ ~UNCHANGED result => mark /\ Active(t)
      BY DEF G!Top, Active
    <2>2. UNCHANGED result \/ t \in asked
      BY <1>0, <1>5, <2>1 DEF G!Interrupted, MarkIsAsked
    <2>3. UNCHANGED result \/ result' = [result EXCEPT ![t] = "cancelled"]
      BY <1>5 DEF G!Top, G!Interrupted, G!Ends, G!Leaves
    <2>4. QED BY <1>1, <1>2, <1>3, <2>2, <2>3 DEF GatewayTypes
  <1>6. ASSUME NEW t \in Chats, G!PostFails(t) \/ G!TimesOut(t) PROVE G!AbortedOnlyIfAsked'
    <2>1. \E how \in {"error", "timeout"} : result' = [result EXCEPT ![t] = how]
      BY <1>6 DEF G!PostFails, G!TimesOut, G!Ends, G!Leaves
    <2>2. QED BY <1>1, <1>2, <1>3, <2>1 DEF GatewayTypes
  <1>7. ASSUME NEW t \in Chats, G!Consume(t) PROVE G!AbortedOnlyIfAsked'
    <2> DEFINE e == Head(events[t])
    <2>1. events[t] \in Seq(Events) /\ events[t] # <<>> /\ e.kind \in {"delta", "final", "aborted"}
      BY <1>7, ConsumeTyped
    <2>2. UNCHANGED result \/ (result' = [result EXCEPT ![t] = e.kind] /\ e.kind # "delta")
      <3>1. IF e.kind = "delta" THEN UNCHANGED result ELSE G!Ends(t, e.kind)
        BY <1>7 DEF G!Consume
      <3>2. QED BY <3>1 DEF G!Ends, G!Leaves
    <2>3. t \notin overheard => e.run = t
      BY <2>1, TailKeeps DEF QueueInv
    <2>4. e.kind = "aborted" /\ t \notin overheard => asked # {}
      BY <1>0, <2>1, <2>3, TailTellsRun DEF AbortsAsked
    <2> HIDE DEF e
    <2>5. ASSUME NEW u \in asked PROVE u <= t
      <3>1. u \in Chats /\ u \in Int /\ t \in Int /\ turn[u] # "idle" /\ turn[t] = "wait"
        BY <1>0, <1>7 DEF BegunAsked, GatewayTypes, ConstantsOK, G!Consume
      <3>2. ~(t < u)
        BY <1>0, <3>1 DEF InOrder
      <3>3. QED BY <3>1, <3>2
    <2>6. QED BY <1>1, <1>2, <1>3, <2>1, <2>2, <2>4, <2>5 DEF GatewayTypes
  <1>8. ASSUME NEW t \in Chats,
               G!TurnStart(t) \/ G!Connected(t) \/ G!NotConnected(t) \/ G!Post(t) \/ G!GotRunId(t) \/ G!Cancel(t)
        PROVE  UNCHANGED result
    BY <1>8 DEF G!TurnStart, G!Connected, G!NotConnected, G!Post, G!GotRunId, G!Cancel, G!turnVars
  <1>9. CASE G!OtherRun \/ G!OtherAborted \/ G!AbortArrives \/ G!Reconnect \/ G!ApplyConfig
             \/ (\E r \in G!Runs : G!Says(r)) \/ \E k \in G!Socks : G!Read(k) \/ G!Breaks(k) \/ G!ReaderEnds(k)
    BY <1>4, <1>9 DEF G!OtherRun, G!OtherAborted, G!AbortArrives, G!Reconnect, G!ApplyConfig, G!Says, G!Read,
                      G!Breaks, G!ReaderEnds, G!turnVars
  <1>10. QED BY <1>4, <1>5, <1>6, <1>7, <1>8, <1>9 DEF G!Next, G!System

LEMMA AskedStep ==
  ASSUME ConstantsOK, GatewayTypes, TurnInv, QueueInv, AskedInv, G!Next
  PROVE  AskedInv'
  <1>1. BegunAsked' /\ MarkIsAsked' /\ AbortsAsked' /\ G!AbortedOnlyIfAsked'
    BY AskedIs, TurnIs, BegunAskedStep, MarkStep, AbortsStep, AbortedStep
  <1>2. QED BY <1>1 DEF AskedInv, BegunAsked, MarkIsAsked, AbortsAsked

-----------------------------------------------------------------------------
(* The connection.                                                           *)
LEMMA ConnStep == ASSUME ConstantsOK, GatewayTypes, ConnInv, G!Next PROVE ConnInv'
  <1>1. CASE UNCHANGED <<sock, connected, reached>>
    BY <1>1 DEF ConnInv, G!ConnectedIsRead
  <1>2. ASSUME G!Opens PROVE ConnInv'
    <2>1. PICK k \in G!Socks : sock' = [sock EXCEPT ![k] = "open"]
      BY <1>2 DEF G!Opens
    <2>2. sock'[k] = "open"
      BY <2>1 DEF GatewayTypes
    <2>3. QED BY <1>2, <2>2 DEF G!Opens, ConnInv, G!ConnectedIsRead
  <1>3. ASSUME NEW k \in G!Socks, G!Breaks(k) PROVE ConnInv'
    <2>1. UNCHANGED <<connected, reached>> /\ sock' = [sock EXCEPT ![k] = "dead"]
      BY <1>3 DEF G!Breaks
    <2>2. \A j \in G!Socks : sock[j] \in {"open", "dead"} => sock'[j] \in {"open", "dead"}
      BY <2>1 DEF GatewayTypes
    <2>3. QED BY <2>1, <2>2 DEF ConnInv, G!ConnectedIsRead
  <1>4. ASSUME (\E k \in G!Socks : G!ReaderEnds(k)) \/ G!ApplyConfig PROVE ConnInv'
    <2>1. ~connected'
      BY <1>4 DEF G!ReaderEnds, G!ApplyConfig
    <2>2. QED BY <2>1 DEF ConnInv, G!ConnectedIsRead
  <1>5. CASE G!OtherRun \/ G!OtherAborted \/ G!AbortArrives \/ (\E r \in G!Runs : G!Says(r)) \/ \E k \in G!Socks : G!Read(k)
    BY <1>1, <1>5 DEF G!OtherRun, G!OtherAborted, G!AbortArrives, G!Says, G!Read, G!connVars, G!histVars
  <1>6. ASSUME NEW t \in Chats,
               G!TurnStart(t) \/ G!NotConnected(t) \/ G!Post(t) \/ G!PostFails(t) \/ G!GotRunId(t) \/ G!Top(t)
               \/ G!Consume(t) \/ G!TimesOut(t) \/ G!Cancel(t) \/ G!Interrupted(t)
        PROVE  UNCHANGED <<sock, connected, reached>>
    BY <1>6 DEF G!TurnStart, G!NotConnected, G!Post, G!PostFails, G!GotRunId, G!Top, G!Consume, G!TimesOut, G!Cancel,
                G!Interrupted, G!connVars, G!histVars
  <1>7. CASE G!Reconnect \/ \E t \in Chats : G!Connected(t)
    BY <1>2, <1>7 DEF G!Reconnect, G!Connected
  <1>8. QED BY <1>1, <1>3, <1>4, <1>5, <1>6, <1>7 DEF G!Next, G!System

-----------------------------------------------------------------------------
LEMMA InvStart == ASSUME ConstantsOK, G!Init PROVE GatewayInv
  <1>1. GatewayTypes
    BY TypeStart
  <1>2. /\ \A t \in Chats : turn[t] = "idle" /\ result[t] = "none" /\ events[t] = <<>> /\ cum[t] = 0
                            /\ shown[t] = <<>> /\ t \in G!Runs
        /\ \A k \in G!Socks : wire[k] = <<>> /\ sock[k] = "none"
        /\ \A r \in G!Runs : sent[r] = 0 /\ state[r] = "none"
        /\ known = {} /\ deaf = {} /\ asked = {} /\ ~connected /\ ~mark /\ ~aborting
    BY DEF G!Init, G!Runs
  <1>3. TurnInv /\ OneSocket /\ LossInv
    BY <1>2 DEF TurnInv, OneSocket, Hearing, LossInv, G!TimeoutOnlyAfterLoss
  <1>4. WireInv /\ QueueInv
    BY <1>2, EmptyTells DEF WireInv, QueueInv
  <1>5. TextSoFar
    BY <1>2, WholeIs DEF TextSoFar, Clear
  <1>6. TextToCome
    BY <1>2, EmptyTells DEF TextToCome, Clear
  <1>7. AskedInv /\ ConnInv
    BY <1>2, EmptyTells DEF AskedInv, Active, G!AbortedOnlyIfAsked, ConnInv, G!ConnectedIsRead
  <1>8. QED BY <1>1, <1>3, <1>4, <1>5, <1>6, <1>7 DEF GatewayInv

LEMMA InvNext == ASSUME ConstantsOK, GatewayInv, G!Next PROVE GatewayInv'
  <1>1. /\ GatewayTypes /\ TurnInv /\ WireInv /\ QueueInv /\ OneSocket /\ TextSoFar /\ TextToCome
        /\ LossInv /\ AskedInv /\ ConnInv
    BY DEF GatewayInv
  <1>2. GatewayTypes' /\ TurnInv' /\ WireInv' /\ QueueInv' /\ OneSocket'
    BY <1>1, GatewayTypesStep, GatewayTurnStep, WireStep, QueueStep, OneSocketStep
  <1>3. TextSoFar' /\ TextToCome'
    BY <1>1, TextStep
  <1>4. LossInv' /\ AskedInv' /\ ConnInv'
    BY <1>1, LossStep, AskedStep, ConnStep
  <1>5. QED BY <1>2, <1>3, <1>4 DEF GatewayInv

LEMMA InvStutter == ASSUME GatewayInv, UNCHANGED G!vars PROVE GatewayInv'
  <1>1. /\ GatewayTypes' /\ TurnInv' /\ WireInv' /\ QueueInv' /\ OneSocket'
    BY DEF GatewayInv, G!vars, G!turnVars, G!connVars, G!runVars, G!histVars, GatewayTypes, TurnInv, WireInv, QueueInv,
           OneSocket, Hearing, G!Twice, G!Open
  <1>2. TextSoFar' /\ TextToCome'
    BY DEF GatewayInv, G!vars, G!turnVars, G!connVars, G!runVars, G!histVars, TextSoFar, TextToCome, Clear
  <1>3. LossInv'
    BY DEF GatewayInv, G!vars, G!turnVars, G!connVars, G!runVars, G!histVars, LossInv, G!TimeoutOnlyAfterLoss, Hearing,
           G!Open
  <1>4. AskedInv' /\ ConnInv'
    BY DEF GatewayInv, G!vars, G!turnVars, G!connVars, G!runVars, G!histVars, AskedInv, G!AbortedOnlyIfAsked, Active,
           ConnInv, G!ConnectedIsRead
  <1>5. QED BY <1>1, <1>2, <1>3, <1>4 DEF GatewayInv

LEMMA GatewayGivesSafe == ASSUME ConstantsOK, GatewayInv PROVE GatewaySafe
  <1>1. G!TypeOK
    BY DEF GatewayInv, GatewayTypes, TurnInv, WireInv, ConnInv, G!TypeOK
  <1>2. ASSUME NEW t \in Clear PROVE shown[t] = G!Whole(t, Len(shown[t]))
    <2>1. t \in Chats /\ Told(t) /\ cum[t] \in Nat
      BY TextIs DEF GatewayInv, GatewayTypes, Clear, ConstantsOK
    <2>2. CASE turn[t] = "ended"
      BY <2>1, <2>2 DEF Told
    <2>3. CASE turn[t] # "ended"
      BY <2>1, <2>3, WholeIs DEF Told
    <2>4. QED BY <2>2, <2>3
  <1>3. G!TextInOrder /\ G!FinalIsWhole
    BY <1>2 DEF GatewayInv, TextSoFar, G!TextInOrder, G!FinalIsWhole, Clear
  <1>4. G!TimeoutOnlyAfterLoss /\ G!AbortedOnlyIfAsked /\ G!ConnectedIsRead
    BY DEF GatewayInv, LossInv, AskedInv, ConnInv
  <1>5. QED BY <1>1, <1>3, <1>4 DEF GatewaySafe

(* For any turns of a bot, any length of a text, and any number of sockets and *)
(* losses: a turn passes on the text of its own run, each piece once and in    *)
(* order, and all of it when it ends normally, unless it heard another run     *)
(* before it knew its own or two sockets told it the same (adapter.py:166-217); *)
(* it waits in vain only after a socket, the connecting or the settings failed *)
(* it (adapter.py:189, ws_connection.py:96-131); a mark or an abort never ends *)
(* a turn that nobody cancelled (adapter.py:134, 230); and while the           *)
(* connection says that it is connected, a reader is at work                   *)
(* (ws_connection.py:44, 127).                                                 *)
THEOREM GatewayIsSafe == SessionsSpec => []GatewaySafe
  <1>1. ConstantsOK
    BY GatewayAssumption DEF ConstantsOK
  <1>2. SessionsInit => GatewayInv
    BY <1>1, InvStart DEF SessionsInit
  <1>3. GatewayInv /\ [SessionsNext]_<<running, vars, gatewayVars>> => GatewayInv'
    <2> SUFFICES ASSUME GatewayInv, [SessionsNext]_<<running, vars, gatewayVars>>
                 PROVE  GatewayInv'
      OBVIOUS
    <2>1. G!Next \/ UNCHANGED gatewayVars
      BY DEF SessionsNext
    <2>2. UNCHANGED gatewayVars => UNCHANGED G!vars
      BY DEF gatewayVars, G!vars, G!turnVars, G!connVars, G!runVars, G!histVars
    <2>3. QED BY <1>1, <2>1, <2>2, InvNext, InvStutter
  <1>4. GatewayInv => GatewaySafe
    BY <1>1, GatewayGivesSafe
  <1>5. QED BY <1>2, <1>3, <1>4, PTL DEF SessionsSpec

(* The same of the adapter by itself.                                          *)
THEOREM GatewayAloneIsSafe == G!Spec => []GatewaySafe
  <1>1. ConstantsOK
    BY GatewayAssumption DEF ConstantsOK
  <1>2. G!Init => GatewayInv
    BY <1>1, InvStart
  <1>3. GatewayInv /\ [G!Next]_G!vars => GatewayInv'
    BY <1>1, InvNext, InvStutter
  <1>4. GatewayInv => GatewaySafe
    BY <1>1, GatewayGivesSafe
  <1>5. QED BY <1>2, <1>3, <1>4, PTL DEF G!Spec
=============================================================================
