---------------------------- MODULE TerminalProofs ----------------------------
(* Theorems about Terminal: for any sessions, conversations and number of     *)
(* turns, exits, deaths, removals, resets and restarts, TerminalsSafe.        *)
EXTENDS MCObserverMode, TLAPS, FiniteSetTheorems, WellFoundedInduction

(* The conversations a session knows of: what runs in its terminal or ran, is *)
(* reported, recorded, or kept by the objects for it.                         *)
Names(s) ==
  {Own[s], on[s], pid[s], hook[s], last[s], real[s], disk[s], obj[s].real, obj[s].persisted,
   new[s].real, new[s].persisted}
  \cup (IF heal.s = s /\ heal.at # "rebuild" THEN {heal.obj.real, heal.obj.persisted} ELSE {})

NamesTaken == \A s \in Sessions : Names(s) \subseteq taken \cup {0}
TypeInv == TypeOK /\ NamesTaken

(* No two sessions share a conversation, as long as neither had to guess. *)
NamesApart ==
  \A s, t \in Sessions \ scanned : s # t => Names(s) \cap Names(t) \subseteq {0}

(* One caller at a time starts a terminal, with an object that it made.       *)
OneStarts ==
  /\ \A s \in Sessions, c, d \in Callers : pc[c][s] = "launch" /\ pc[d][s] = "launch" => c = d
  /\ \A s \in Sessions : /\ Locked(s) => new[s].here
                         /\ pc["turn"][s] # "open"
                         /\ pc["turn"][s] \in {"get", "launch"} => held[s] = "table"

(* A session without a slot is at rest: nobody starts, repairs or holds a     *)
(* terminal for it, and the terminal it may still have is about to be killed. *)
SlotAt(s) ==
  /\ s \in removing => s \notin slots
  /\ s \notin slots =>
       /\ pane[s] # "none" => s \in removing
       /\ ~obj[s].here /\ heal.s # s /\ s \notin heal.todo
       /\ \A c \in Callers : pc[c][s] = "idle"
SlotInv == \A s \in Sessions \ raced : SlotAt(s)

(* While no CLI died and no slot was removed under it, a session is repaired  *)
(* by nobody; its object has a terminal with a CLI, at the prompt if it says  *)
(* ready; its launch command meets a shell; its window is the only one.       *)
ObjectAt(s) ==
  /\ obj[s].here => pane[s] \in {"loading", "prompt"}
  /\ obj[s].ready => obj[s].here /\ pane[s] = "prompt"
HealAt(s) == heal.s # s /\ s \notin heal.todo /\ pc["again"][s] = "idle"
StartAt(s) == Locked(s) => pane[s] = "shell" /\ ~obj[s].here
TurnAt(s) ==
  /\ pc["turn"][s] \in {"have", "detect"} /\ held[s] = "table" => obj[s].here
  /\ pc["turn"][s] = "have" /\ held[s] = "ready" => pane[s] = "prompt"
WindowAt(s) == windows[s] <= 1 /\ (pc["warm"][s] = "open" => windows[s] = 0)
CalmAt(s) ==
  /\ ObjectAt(s) /\ HealAt(s) /\ StartAt(s) /\ TurnAt(s) /\ WindowAt(s)
  /\ s \notin typed /\ s \notin garbled
CalmInv == \A s \in Sessions \ (exited \cup raced) : CalmAt(s)

TerminalInv == TypeInv /\ NamesApart /\ OneStarts /\ SlotInv /\ CalmInv

-----------------------------------------------------------------------------
LEMMA TypeFacts ==
    ASSUME TypeOK, NEW s \in Sessions
    PROVE  /\ pane \in [Sessions -> {"none", "shell", "loading", "prompt"}]
           /\ on \in [Sessions -> Convs \cup {0}] /\ pid \in [Sessions -> Convs \cup {0}]
           /\ hook \in [Sessions -> Convs \cup {0}] /\ last \in [Sessions -> Convs \cup {0}]
           /\ real \in [Sessions -> Convs \cup {0}] /\ disk \in [Sessions -> Convs \cup {0}]
           /\ windows \in [Sessions -> Nat] /\ windows[s] \in Nat
           /\ obj \in [Sessions -> Object] /\ new \in [Sessions -> Object]
           /\ obj[s] \in Object /\ new[s] \in Object /\ heal.obj \in Object
           /\ held \in [Sessions -> {"table", "ready", "unready"}]
           /\ pc \in [Callers -> [Sessions -> {"idle", "get", "launch", "have", "open", "detect"}]]
           /\ \A c \in Callers : pc[c] \in [Sessions -> {"idle", "get", "launch", "have", "open", "detect"}]
           /\ pane[s] \in {"none", "shell"} <=> on[s] = 0
           /\ pane[s] = "none" => windows[s] = 0
           /\ s # 0
  BY TerminalAssumption DEF TypeOK

(* The first conversation that does not exist yet. *)
LEMMA FreshFacts ==
    ASSUME TypeOK, taken # Convs
    PROVE  Fresh \in Convs /\ Fresh \notin taken /\ Fresh # 0
  <1> DEFINE S == Convs \ taken
  <1>1. S \in SUBSET Nat /\ S # {} /\ S \subseteq Convs
    <2>1. taken \subseteq Convs
      BY DEF TypeOK
    <2>2. Convs \subseteq Nat
      BY TerminalAssumption DEF Convs
    <2>3. QED BY <2>1, <2>2
  <1>2. PICK k \in S : \A j \in S : ~ (<<j, k>> \in OpToRel(<, Nat))
    BY <1>1, NatLessThanWellFounded, WFMin
  <1>3. ASSUME NEW j \in S PROVE k <= j
    <2>1. j \in Nat /\ k \in Nat /\ <<j, k>> \in Nat \X Nat
      BY <1>1
    <2>2. j < k => <<j, k>> \in OpToRel(<, Nat)
      BY <2>1 DEF OpToRel
    <2>3. ~ (<<j, k>> \in OpToRel(<, Nat))
      BY <1>2
    <2>4. ~ (j < k)
      BY <2>2, <2>3, Zenon
    <2>5. QED BY <2>1, <2>4
  <1>4. Fresh \in S
    BY <1>3 DEF Fresh
  <1>5. QED BY <1>4, TerminalAssumption DEF Convs

-----------------------------------------------------------------------------
(* Objects.                                                                  *)
LEMMA AbsentFacts ==
    /\ Absent \in Object /\ Absent.real = 0 /\ Absent.persisted = 0
    /\ ~Absent.here /\ ~Absent.ready
  <1>1. Absent \in Object /\ Absent.real = 0 /\ Absent.persisted = 0
    BY DEF Absent, Object
  <1>2. ~Absent.here /\ ~Absent.ready
    BY Zenon DEF Absent
  <1>3. QED BY <1>1, <1>2

LEMMA SetReady ==
    ASSUME NEW o \in Object, NEW b \in BOOLEAN
    PROVE  /\ [o EXCEPT !.ready = b] \in Object /\ [o EXCEPT !.ready = b].ready = b
           /\ [o EXCEPT !.ready = b].here = o.here /\ [o EXCEPT !.ready = b].isNew = o.isNew
           /\ [o EXCEPT !.ready = b].real = o.real
           /\ [o EXCEPT !.ready = b].persisted = o.persisted
  BY DEF Object

LEMMA SetPoll ==
    ASSUME NEW o \in Object, NEW b \in BOOLEAN
    PROVE  /\ [o EXCEPT !.poll = b] \in Object /\ [o EXCEPT !.poll = b].ready = o.ready
           /\ [o EXCEPT !.poll = b].here = o.here /\ [o EXCEPT !.poll = b].isNew = o.isNew
           /\ [o EXCEPT !.poll = b].real = o.real
           /\ [o EXCEPT !.poll = b].persisted = o.persisted
  BY DEF Object

LEMMA LaunchedFacts ==
    ASSUME NEW o \in Object
    PROVE  /\ Launched(o) \in Object /\ Launched(o).ready = FALSE /\ Launched(o).here = o.here
           /\ Launched(o).real = o.real /\ Launched(o).persisted = o.persisted
  BY DEF Object, Launched

LEMMA SnapshotFacts ==
    ASSUME TypeOK, NEW o \in Object
    PROVE  /\ Snapshot(o) \in Object /\ Snapshot(o).ready = o.ready /\ Snapshot(o).here = o.here
           /\ Snapshot(o).real = o.real /\ Snapshot(o).persisted = o.persisted
  <1>1. files \in SUBSET Convs
    BY DEF TypeOK
  <1>2. QED BY <1>1 DEF Object, Snapshot

LEMMA ReusedFacts ==
    ASSUME NEW o \in Object
    PROVE  /\ Reused(o) \in Object /\ Reused(o).here = o.here
           /\ Reused(o).real = o.real /\ Reused(o).persisted = o.persisted
  BY SetReady DEF Reused

LEMMA NewObjectFacts ==
    ASSUME TypeOK, NEW s \in Sessions
    PROVE  /\ NewObject(s) \in Object /\ NewObject(s).here = TRUE
           /\ NewObject(s).real = 0 /\ NewObject(s).persisted = real[s]
  <1>1. real[s] \in Convs \cup {0}
    BY TypeFacts
  <1>2. NewObject(s) \in Object
    BY <1>1, AbsentFacts DEF NewObject, Object
  <1>3. NewObject(s).here = TRUE
    BY Zenon DEF NewObject, Absent
  <1>4. NewObject(s).real = 0 /\ NewObject(s).persisted = real[s]
    BY DEF NewObject, Absent
  <1>5. QED BY <1>2, <1>3, <1>4

-----------------------------------------------------------------------------
(* What the operators that actions share do to the variables.                *)
Panes == {"none", "shell", "loading", "prompt"}
Places == {"idle", "get", "launch", "have", "open", "detect"}
Holds == {"table", "ready", "unready"}
Healing == [at : {"idle", "make", "launch", "recover", "rebuild"}, s : Sessions \cup {0},
            todo : SUBSET Sessions, same : BOOLEAN, obj : Object]

LEMMA KilledFacts ==
    ASSUME TypeOK, NEW S \in SUBSET Sessions, Killed(S)
    PROVE  /\ pane' \in [Sessions -> Panes] /\ on' \in [Sessions -> Convs \cup {0}]
           /\ pid' \in [Sessions -> Convs \cup {0}] /\ windows' \in [Sessions -> Nat]
           /\ \A t \in S : pane'[t] = "none" /\ on'[t] = 0 /\ pid'[t] = 0 /\ windows'[t] = 0
           /\ \A t \in Sessions \ S : pane'[t] = pane[t] /\ on'[t] = on[t] /\ pid'[t] = pid[t]
                                      /\ windows'[t] = windows[t]
  <1>1. /\ pane \in [Sessions -> Panes] /\ on \in [Sessions -> Convs \cup {0}]
        /\ pid \in [Sessions -> Convs \cup {0}] /\ windows \in [Sessions -> Nat]
    BY DEF TypeOK, Panes
  <1>2. QED BY <1>1 DEF Killed, Panes

LEMMA RemadeFacts ==
    ASSUME TypeOK, NEW s \in Sessions, Remade(s)
    PROVE  /\ pane' \in [Sessions -> Panes] /\ on' \in [Sessions -> Convs \cup {0}]
           /\ pid' \in [Sessions -> Convs \cup {0}] /\ windows' \in [Sessions -> Nat]
           /\ pane'[s] = "shell" /\ on'[s] = 0 /\ pid'[s] = 0 /\ windows'[s] = 0
           /\ \A t \in Sessions \ {s} : pane'[t] = pane[t] /\ on'[t] = on[t] /\ pid'[t] = pid[t]
                                        /\ windows'[t] = windows[t]
  <1>1. /\ pane \in [Sessions -> Panes] /\ on \in [Sessions -> Convs \cup {0}]
        /\ pid \in [Sessions -> Convs \cup {0}] /\ windows \in [Sessions -> Nat]
    BY DEF TypeOK, Panes
  <1>2. QED BY <1>1 DEF Remade, Panes

LEMMA SwitchedFacts ==
    ASSUME TypeOK, NEW s \in Sessions, Switched(s)
    PROVE  /\ Fresh \in Convs /\ Fresh \notin taken
           /\ taken' = taken \cup {Fresh} /\ files' = files \cup {Fresh}
           /\ on' \in [Sessions -> Convs \cup {0}] /\ last' \in [Sessions -> Convs \cup {0}]
           /\ hook' \in [Sessions -> Convs \cup {0}] /\ moved' = moved \cup {s}
           /\ on'[s] = Fresh /\ last'[s] = Fresh /\ hook'[s] = Fresh
           /\ \A t \in Sessions \ {s} : on'[t] = on[t] /\ last'[t] = last[t] /\ hook'[t] = hook[t]
  <1>1. /\ on \in [Sessions -> Convs \cup {0}] /\ last \in [Sessions -> Convs \cup {0}]
        /\ hook \in [Sessions -> Convs \cup {0}]
    BY DEF TypeOK
  <1>2. taken # Convs
    BY DEF Switched
  <1>3. Fresh \in Convs /\ Fresh \notin taken
    BY <1>2, FreshFacts
  <1>4. QED BY <1>1, <1>3 DEF Switched

LEMMA GotoFacts ==
    ASSUME TypeOK, NEW c \in Callers, NEW s \in Sessions, NEW l \in Places, Goto(c, s, l)
    PROVE  /\ pc' \in [Callers -> [Sessions -> Places]] /\ pc'[c][s] = l
           /\ \A d \in Callers, t \in Sessions : d # c \/ t # s => pc'[d][t] = pc[d][t]
  <1>1. pc \in [Callers -> [Sessions -> Places]]
    BY DEF TypeOK, Places
  <1>2. QED BY <1>1 DEF Goto

LEMMA ReplacedFacts ==
    ASSUME TypeOK, NEW S \in SUBSET Sessions, Replaced(S)
    PROVE  /\ held' \in [Sessions -> Holds]
           /\ \A t \in Sessions \ S : held'[t] = held[t]
           /\ \A t \in Sessions : /\ held'[t] = "table" => held[t] = "table"
                                  /\ held[t] # "table" => held'[t] = held[t]
                                  /\ pc["turn"][t] \notin {"have", "detect"} => held'[t] = held[t]
                                  /\ held'[t] = "ready" => held[t] = "ready" \/ obj[t].ready
           /\ \A t \in S : held'[t] = "table" => pc["turn"][t] \notin {"have", "detect"}
  <1>1. held \in [Sessions -> Holds]
    BY DEF TypeOK, Holds
  <1>2. QED BY <1>1 DEF Replaced, Holds

LEMMA DetachedFacts ==
    ASSUME TypeOK, NEW s \in Sessions, Detached(s)
    PROVE  /\ heal' \in Healing
           /\ heal'.at = heal.at /\ heal'.s = heal.s /\ heal'.todo = heal.todo
           /\ heal.s # s => heal' = heal
           /\ heal'.obj = heal.obj \/ heal'.obj = obj[s]
  <1>1. heal \in Healing /\ obj[s] \in Object
    BY DEF TypeOK, Healing
  <1>2. QED BY <1>1 DEF Detached, Healing

LEMMA SetRealFacts ==
    ASSUME TypeOK, NEW s \in Sessions, NEW c \in Convs, SetReal(s, c)
    PROVE  /\ real' \in [Sessions -> Convs \cup {0}] /\ disk' = real' /\ claimed' \subseteq Convs
           /\ real'[s] = c /\ \A t \in Sessions \ {s} : real'[t] = real[t]
  <1>1. real \in [Sessions -> Convs \cup {0}] /\ claimed \subseteq Convs
    BY DEF TypeOK
  <1>2. QED BY <1>1 DEF SetReal

(* A table with one object replaced. *)
LEMMA PutObject ==
    ASSUME NEW f \in [Sessions -> Object], NEW s \in Sessions, NEW o \in Object
    PROVE  /\ [f EXCEPT ![s] = o] \in [Sessions -> Object] /\ [f EXCEPT ![s] = o][s] = o
           /\ \A t \in Sessions \ {s} : [f EXCEPT ![s] = o][t] = f[t]
  OBVIOUS

(* What the object finds is a name of its session, unless it was a guess. *)
LEMMA DetectFacts ==
    ASSUME TypeInv, NEW s \in Sessions, NEW o \in Object, Detect(s, o),
           o.real \in Names(s) \cup {0}, o.persisted \in Names(s) \cup {0}
    PROVE  /\ obj' \in [Sessions -> Object]
           /\ \A t \in Sessions \ {s} : obj'[t] = obj[t] /\ real'[t] = real[t]
           /\ obj'[s].here = o.here /\ obj'[s].ready = o.ready
           /\ real' \in [Sessions -> Convs \cup {0}] /\ disk' \in [Sessions -> Convs \cup {0}]
           /\ \A t \in Sessions : disk'[t] = disk[t] \/ disk'[t] = real'[t]
           /\ claimed' \subseteq Convs
           /\ {obj'[s].real, obj'[s].persisted, real'[s]} \subseteq Names(s) \cup files \cup {0}
           /\ \/ /\ scanned' = scanned
                 /\ {obj'[s].real, obj'[s].persisted, real'[s]} \subseteq Names(s) \cup {0}
              \/ scanned' = scanned \cup {s}
  <1>0. /\ TypeOK /\ Names(s) \subseteq taken \cup {0}
        /\ obj \in [Sessions -> Object] /\ obj[s] \in Object
        /\ real \in [Sessions -> Convs \cup {0}] /\ disk \in [Sessions -> Convs \cup {0}]
        /\ claimed \subseteq Convs /\ files \subseteq taken /\ taken \subseteq Convs
    BY TypeFacts DEF TypeInv, NamesTaken, TypeOK
  <1>1. real[s] \in Names(s)
    BY DEF Names
  <1>2. Named(s) \in Names(s) \cup {0} /\ Named(s) \in files \cup {0}
    BY DEF Named, Names
  <1>3. CASE UNCHANGED <<real, disk, claimed, scanned>> /\ obj' = [obj EXCEPT ![s] = o]
    <2>1. /\ obj' \in [Sessions -> Object] /\ obj'[s] = o
          /\ \A t \in Sessions \ {s} : obj'[t] = obj[t]
      BY <1>0, <1>3, PutObject
    <2>2. QED BY <1>0, <1>1, <1>3, <2>1
  <1>4. ASSUME NEW c \in Convs, NEW p \in Convs \cup {0}, SetReal(s, c), c \in files,
               p = 0 \/ p = o.persisted,
               obj' = [obj EXCEPT ![s] = [o EXCEPT !.real = c, !.persisted = p]],
               (scanned' = scanned /\ c \in Names(s)) \/ scanned' = scanned \cup {s}
        PROVE  /\ obj' \in [Sessions -> Object]
               /\ \A t \in Sessions \ {s} : obj'[t] = obj[t] /\ real'[t] = real[t]
               /\ obj'[s].here = o.here /\ obj'[s].ready = o.ready
               /\ real' \in [Sessions -> Convs \cup {0}] /\ disk' \in [Sessions -> Convs \cup {0}]
               /\ \A t \in Sessions : disk'[t] = disk[t] \/ disk'[t] = real'[t]
               /\ claimed' \subseteq Convs
               /\ {obj'[s].real, obj'[s].persisted, real'[s]} \subseteq Names(s) \cup files \cup {0}
               /\ \/ /\ scanned' = scanned
                     /\ {obj'[s].real, obj'[s].persisted, real'[s]} \subseteq Names(s) \cup {0}
                  \/ scanned' = scanned \cup {s}
    <2> DEFINE q == [o EXCEPT !.real = c, !.persisted = p]
    <2>1. q \in Object /\ q.here = o.here /\ q.ready = o.ready /\ q.real = c /\ q.persisted = p
      BY DEF Object
    <2>2. obj' = [obj EXCEPT ![s] = q]
      BY <1>4
    <2> HIDE DEF q
    <2>3. /\ obj' \in [Sessions -> Object] /\ obj'[s] = q
          /\ \A t \in Sessions \ {s} : obj'[t] = obj[t]
      BY <1>0, <2>1, <2>2, PutObject
    <2>4. /\ real' \in [Sessions -> Convs \cup {0}] /\ disk' = real' /\ claimed' \subseteq Convs
          /\ real'[s] = c /\ \A t \in Sessions \ {s} : real'[t] = real[t]
      BY <1>0, <1>4, SetRealFacts
    <2>5. p \in Names(s) \cup {0}
      BY <1>4
    <2>6. QED BY <1>0, <1>4, <2>1, <2>3, <2>4, <2>5
  <1>5. CASE o.real = 0 /\ Named(s) # 0 /\ SetReal(s, Named(s)) /\ UNCHANGED scanned
             /\ obj' = [obj EXCEPT ![s] = [o EXCEPT !.real = Named(s),
                          !.persisted = IF @ = Named(s) THEN 0 ELSE @]]
    <2> DEFINE p == IF o.persisted = Named(s) THEN 0 ELSE o.persisted
    <2>1. Named(s) \in Convs /\ Named(s) \in files /\ Named(s) \in Names(s)
      BY <1>0, <1>2, <1>5
    <2>2. o.persisted \in Convs \cup {0}
      BY DEF Object
    <2>3. p \in Convs \cup {0} /\ (p = 0 \/ p = o.persisted)
      BY <2>2
    <2>4. obj' = [obj EXCEPT ![s] = [o EXCEPT !.real = Named(s), !.persisted = p]]
      BY <1>5
    <2> HIDE DEF p
    <2>5. QED BY <1>4, <1>5, <2>1, <2>3, <2>4
  <1>6. CASE \E c \in Candidates(s) :
               /\ obj' = [obj EXCEPT ![s] = [o EXCEPT !.real = c]]
               /\ SetReal(s, c) /\ scanned' = scanned \cup {s}
    <2>1. PICK c \in Candidates(s) :
               /\ obj' = [obj EXCEPT ![s] = [o EXCEPT !.real = c]]
               /\ SetReal(s, c) /\ scanned' = scanned \cup {s}
      BY <1>6
    <2>2. c \in files /\ c \in Convs
      BY <1>0 DEF Candidates
    <2>3. o.persisted \in Convs \cup {0}
          /\ [o EXCEPT !.real = c] = [o EXCEPT !.real = c, !.persisted = o.persisted]
      BY DEF Object
    <2>4. QED BY <1>4, <2>1, <2>2, <2>3
  <1>7. QED BY <1>3, <1>5, <1>6 DEF Detect

LEMMA ResumesFacts ==
    ASSUME TypeInv, NEW s \in Sessions, NEW o \in Object,
           o.real \in Names(s) \cup {0}, o.persisted \in Names(s) \cup {0}
    PROVE  Resumes(s, o) \in Names(s) \cup {0} /\ Resumes(s, o) \in taken \cup {0}
  <1>1. Own[s] \in Names(s) /\ Names(s) \subseteq taken \cup {0}
    BY DEF Names, TypeInv, NamesTaken
  <1>2. QED BY <1>1 DEF Resumes

(* A command reaches a shell, and what it starts is new or known to the session. *)
LEMMA CommandFacts ==
    ASSUME TypeInv, NEW s \in Sessions, NEW o \in Object, CommandSent(s, o),
           o.real \in Names(s) \cup {0}, o.persisted \in Names(s) \cup {0}
    PROVE  /\ pane' \in [Sessions -> Panes] /\ on' \in [Sessions -> Convs \cup {0}]
           /\ pid' \in [Sessions -> Convs \cup {0}] /\ last' \in [Sessions -> Convs \cup {0}]
           /\ \A t \in Sessions \ {s} : pane'[t] = pane[t] /\ on'[t] = on[t] /\ pid'[t] = pid[t]
                                        /\ last'[t] = last[t]
           /\ taken \subseteq taken' /\ taken' \subseteq Convs
           /\ pane[s] = "shell" => /\ pane'[s] = "loading" /\ on'[s] # 0 /\ garbled' = garbled
                                   /\ {on'[s], pid'[s], last'[s]} \subseteq
                                        Names(s) \cup (taken' \ taken)
           /\ pane[s] # "shell" => pane' = pane /\ on' = on /\ pid' = pid /\ last' = last
           /\ garbled' \in {garbled, garbled \cup {s}} /\ moved' \in {moved, moved \cup {s}}
  <1> DEFINE c == IF Resumes(s, o) = 0 THEN Fresh ELSE Resumes(s, o)
  <1>0. /\ pane \in [Sessions -> Panes] /\ on \in [Sessions -> Convs \cup {0}]
        /\ pid \in [Sessions -> Convs \cup {0}] /\ last \in [Sessions -> Convs \cup {0}]
        /\ taken \subseteq Convs /\ TypeOK
    BY DEF TypeInv, TypeOK, Panes
  <1>1. Resumes(s, o) \in Names(s) \cup {0} /\ Resumes(s, o) \in taken \cup {0}
    BY ResumesFacts
  <1>2. CASE Resumes(s, o) = 0
    <2>1. taken # Convs
      BY <1>2 DEF CommandSent
    <2>2. Fresh \in Convs /\ Fresh \notin taken /\ Fresh # 0
      BY <1>0, <2>1, FreshFacts
    <2>3. c = Fresh
      BY <1>2
    <2>4. QED BY <1>0, <2>2, <2>3 DEF CommandSent, Panes
  <1>3. CASE Resumes(s, o) # 0
    <2>1. c \in Names(s) /\ c \in taken /\ c # 0
      BY <1>1, <1>3
    <2>2. QED BY <1>0, <2>1 DEF CommandSent, Panes
  <1>4. QED BY <1>2, <1>3

-----------------------------------------------------------------------------
(* The parts of TypeInv. *)
Known == Convs \cup {0}
SortsOutside == /\ pane \in [Sessions -> Panes] /\ windows \in [Sessions -> Nat]
                /\ on \in [Sessions -> Known] /\ pid \in [Sessions -> Known]
                /\ hook \in [Sessions -> Known] /\ last \in [Sessions -> Known]
                /\ files \subseteq taken /\ taken \subseteq Convs
SortsRecords == /\ real \in [Sessions -> Known] /\ disk \in [Sessions -> Known]
                /\ claimed \subseteq Convs /\ known \subseteq Sessions
SortsObjects == obj \in [Sessions -> Object] /\ new \in [Sessions -> Object]
SortsTasks   == /\ pc \in [Callers -> [Sessions -> Places]] /\ held \in [Sessions -> Holds]
                /\ warming \subseteq Sessions /\ clearing \subseteq Sessions
SortsHealth  == /\ heal \in Healing /\ loop \in BOOLEAN
                /\ heal.at \in {"make", "launch", "rebuild"} <=> heal.s # 0
SortsMarks   == /\ slots \subseteq Sessions /\ removing \subseteq Sessions
                /\ {moved, exited, scanned, typed, garbled, raced, dropped} \subseteq SUBSET Sessions
SortsEvents  == events \in 0 .. MaxEvents
Sorts == /\ SortsOutside /\ SortsRecords /\ SortsObjects /\ SortsTasks /\ SortsHealth
         /\ SortsMarks /\ SortsEvents

PaneAt(s) == /\ pane[s] \in {"none", "shell"} <=> on[s] = 0
             /\ pane[s] = "none" => windows[s] = 0
PaneInv == \A s \in Sessions : PaneAt(s)

LEMMA TypeParts == TypeInv <=> Sorts /\ PaneInv /\ NamesTaken
  <1>1. TypeOK => Sorts /\ PaneInv
    <2> SUFFICES ASSUME TypeOK PROVE Sorts /\ PaneInv
      OBVIOUS
    <2>1. SortsOutside /\ SortsRecords /\ SortsObjects
      BY DEF TypeOK, SortsOutside, SortsRecords, SortsObjects, Panes, Known
    <2>2. SortsTasks /\ SortsMarks /\ SortsEvents
      BY DEF TypeOK, SortsTasks, SortsMarks, SortsEvents, Places, Holds
    <2>3. SortsHealth
      BY DEF TypeOK, SortsHealth, Healing
    <2>4. PaneInv
      BY DEF TypeOK, PaneInv, PaneAt
    <2>5. QED BY <2>1, <2>2, <2>3, <2>4 DEF Sorts
  <1>2. Sorts /\ PaneInv /\ NamesTaken => TypeOK
    <2> SUFFICES ASSUME Sorts, PaneInv, NamesTaken PROVE TypeOK
      OBVIOUS
    <2>1. \A s \in Sessions :
            {on[s], pid[s], hook[s], last[s], real[s], disk[s], obj[s].real} \subseteq taken \cup {0}
      BY DEF NamesTaken, Names
    <2>2. \A s \in Sessions : /\ pane[s] \in {"none", "shell"} <=> on[s] = 0
                              /\ pane[s] = "none" => windows[s] = 0
      BY DEF PaneInv, PaneAt
    <2>3. /\ pane \in [Sessions -> Panes] /\ windows \in [Sessions -> Nat]
          /\ {on, pid, hook, last, real, disk} \subseteq [Sessions -> Known]
          /\ files \subseteq taken /\ taken \subseteq Convs /\ claimed \subseteq Convs
          /\ {obj, new} \subseteq [Sessions -> Object]
      BY DEF Sorts, SortsOutside, SortsRecords, SortsObjects
    <2>4. /\ heal \in Healing /\ loop \in BOOLEAN
          /\ heal.at \in {"make", "launch", "rebuild"} <=> heal.s # 0
          /\ events \in 0 .. MaxEvents
      BY DEF Sorts, SortsHealth, SortsEvents
    <2>5. /\ pc \in [Callers -> [Sessions -> Places]] /\ held \in [Sessions -> Holds]
          /\ {slots, known, warming, clearing, removing} \subseteq SUBSET Sessions
          /\ {moved, exited, scanned, typed, garbled, raced, dropped} \subseteq SUBSET Sessions
      BY DEF Sorts, SortsTasks, SortsMarks, SortsRecords
    <2>6. QED BY <2>1, <2>2, <2>3, <2>4, <2>5 DEF TypeOK, Panes, Places, Holds, Healing, Known
  <1>3. QED BY <1>1, <1>2 DEF TypeInv

(* What a step may do to a session that it is not about: at most persist its *)
(* record, stop repairing it or abandon its pre-warming.                     *)
Same(t) ==
  /\ pane'[t] = pane[t] /\ on'[t] = on[t] /\ pid'[t] = pid[t] /\ windows'[t] = windows[t]
  /\ hook'[t] = hook[t] /\ last'[t] = last[t] /\ real'[t] = real[t]
  /\ disk'[t] \in {disk[t], real[t]}
  /\ obj'[t] = obj[t] /\ new'[t] = new[t] /\ held'[t] = held[t]
SameTasks(t) ==
  /\ pc'["warm"][t] = pc["warm"][t] /\ pc'["turn"][t] = pc["turn"][t]
  /\ pc'["again"][t] \in {pc["again"][t], "idle"}
  /\ heal'.s = t => heal.s = t /\ heal'.obj = heal.obj /\ heal'.at = heal.at
                    /\ heal'.same = heal.same
  /\ t \in heal'.todo => t \in heal.todo
SameMarks(t) ==
  /\ t \in slots' <=> t \in slots
  /\ t \in removing' <=> t \in removing
  /\ t \in exited' <=> t \in exited
  /\ t \in raced' <=> t \in raced
  /\ t \in typed' <=> t \in typed
  /\ t \in garbled' <=> t \in garbled
Frame(t) == Same(t) /\ SameTasks(t) /\ SameMarks(t)

LEMMA NamesKept == ASSUME NEW t \in Sessions, Frame(t) PROVE Names(t)' \subseteq Names(t)
  <1>1. Own[t] \in Names(t) /\ on[t] \in Names(t) /\ pid[t] \in Names(t) /\ hook[t] \in Names(t)
        /\ last[t] \in Names(t) /\ real[t] \in Names(t) /\ disk[t] \in Names(t)
    BY DEF Names
  <1>2. /\ obj[t].real \in Names(t) /\ obj[t].persisted \in Names(t)
        /\ new[t].real \in Names(t) /\ new[t].persisted \in Names(t)
        /\ heal.s = t /\ heal.at # "rebuild" =>
              heal.obj.real \in Names(t) /\ heal.obj.persisted \in Names(t)
    BY DEF Names
  <1>3. Names(t)' \subseteq
          {Own[t], on[t], pid[t], hook[t], last[t], real[t], disk[t], obj[t].real, obj[t].persisted,
           new[t].real, new[t].persisted}
          \cup (IF heal'.s = t /\ heal.at # "rebuild" THEN {heal.obj.real, heal.obj.persisted} ELSE {})
    BY DEF Names, Frame, Same, SameTasks
  <1>4. heal'.s = t => heal.s = t
    BY DEF Frame, SameTasks
  <1>5. QED BY <1>1, <1>2, <1>3, <1>4

LEMMA PaneKept == ASSUME NEW t \in Sessions, Frame(t), PaneAt(t) PROVE PaneAt(t)'
  BY DEF Frame, Same, PaneAt

LEMMA SlotKept == ASSUME NEW t \in Sessions, Frame(t), SlotAt(t) PROVE SlotAt(t)'
  BY DEF Frame, Same, SameTasks, SameMarks, SlotAt, Callers

LEMMA CalmKept == ASSUME NEW t \in Sessions, Frame(t), CalmAt(t) PROVE CalmAt(t)'
  <1>1. ObjectAt(t)'
    BY DEF Frame, Same, CalmAt, ObjectAt
  <1>2. HealAt(t)'
    BY DEF Frame, SameTasks, CalmAt, HealAt
  <1>3. StartAt(t)'
    BY DEF Frame, Same, SameTasks, CalmAt, StartAt, Locked, Callers
  <1>4. TurnAt(t)' /\ WindowAt(t)'
    BY DEF Frame, Same, SameTasks, CalmAt, TurnAt, WindowAt
  <1>5. QED BY <1>1, <1>2, <1>3, <1>4 DEF CalmAt, Frame, SameMarks

(* One caller at a time, seen from one session. *)
OneAt(t) ==
  /\ \A c, d \in Callers : pc[c][t] = "launch" /\ pc[d][t] = "launch" => c = d
  /\ Locked(t) => new[t].here
  /\ pc["turn"][t] # "open"
  /\ pc["turn"][t] \in {"get", "launch"} => held[t] = "table"

LEMMA OneKept == ASSUME NEW t \in Sessions, Frame(t), OneAt(t) PROVE OneAt(t)'
  BY DEF Frame, Same, SameTasks, OneAt, Locked, Callers

-----------------------------------------------------------------------------
(* A step that is about the sessions of S. *)
NamesFine(s) == /\ Names(s)' \subseteq taken' \cup {0}
                /\ Names(s)' \cap taken \subseteq Names(s) \cup files
                /\ s \in scanned' \/ Names(s)' \cap taken \subseteq Names(s)
Fine(s) == /\ PaneAt(s)' /\ OneAt(s)' /\ NamesFine(s)
           /\ s \notin raced' => SlotAt(s)'
           /\ s \notin exited' \cup raced' => CalmAt(s)'
Good(S) == /\ Sorts' /\ \A s \in S : Fine(s)
           /\ \A t \in Sessions \ S : Frame(t)
           /\ taken \subseteq taken' /\ scanned \subseteq scanned'

LEMMA GoodStep ==
    ASSUME TerminalInv, NEW S \in SUBSET Sessions, Good(S),
           taken' = taken \/ \A s, t \in S : s = t
    PROVE  TerminalInv'
  <1>0. /\ Sorts /\ PaneInv /\ NamesTaken /\ NamesApart /\ OneStarts /\ SlotInv /\ CalmInv
    BY TypeParts DEF TerminalInv
  <1>1. \A t \in Sessions \ S : Frame(t)
    BY DEF Good
  <1>2. \A s \in S : Fine(s)
    BY DEF Good
  <1>3. taken \subseteq taken' /\ scanned \subseteq scanned' /\ Sorts'
    BY DEF Good
  <1>4. ASSUME NEW s \in Sessions
        PROVE  /\ Names(s)' \subseteq taken' \cup {0}
               /\ s \in scanned' \/ Names(s)' \cap taken \subseteq Names(s)
    <2>1. CASE s \in S
      BY <1>2, <2>1 DEF Fine, NamesFine
    <2>2. CASE s \notin S
      <3>1. Names(s)' \subseteq Names(s)
        BY <1>1, <2>2, NamesKept
      <3>2. Names(s) \subseteq taken \cup {0}
        BY <1>0 DEF NamesTaken
      <3>3. QED BY <1>3, <3>1, <3>2
    <2>3. QED BY <2>1, <2>2
  <1>5. PaneInv'
    <2> SUFFICES ASSUME NEW s \in Sessions PROVE PaneAt(s)'
      BY DEF PaneInv
    <2>1. CASE s \in S
      BY <1>2, <2>1 DEF Fine
    <2>2. CASE s \notin S
      BY <1>0, <1>1, <2>2, PaneKept DEF PaneInv
    <2>3. QED BY <2>1, <2>2
  <1>6. NamesTaken'
    BY <1>4 DEF NamesTaken
  <1>7. NamesApart'
    <2> SUFFICES ASSUME NEW s \in Sessions, NEW t \in Sessions, s \notin scanned', t \notin scanned',
                        s # t, NEW x, x \in Names(s)', x \in Names(t)', x # 0
                 PROVE  FALSE
      BY DEF NamesApart
    <2>1. s \notin scanned /\ t \notin scanned
      BY <1>3
    <2>2. Names(s)' \cap taken \subseteq Names(s) /\ Names(t)' \cap taken \subseteq Names(t)
      BY <1>4
    <2>3. x \in taken
      <3>1. CASE taken' = taken
        BY <1>4, <3>1
      <3>2. CASE s \notin S
        <4>1. Names(s)' \subseteq Names(s) /\ Names(s) \subseteq taken \cup {0}
          BY <1>0, <1>1, <3>2, NamesKept DEF NamesTaken
        <4>2. QED BY <4>1
      <3>3. CASE t \notin S
        <4>1. Names(t)' \subseteq Names(t) /\ Names(t) \subseteq taken \cup {0}
          BY <1>0, <1>1, <3>3, NamesKept DEF NamesTaken
        <4>2. QED BY <4>1
      <3>4. QED BY <3>1, <3>2, <3>3
    <2>4. x \in Names(s) /\ x \in Names(t)
      BY <2>2, <2>3
    <2>5. QED BY <1>0, <2>1, <2>4 DEF NamesApart
  <1>8. OneStarts'
    <2>1. ASSUME NEW s \in Sessions PROVE OneAt(s)'
      <3>1. CASE s \in S
        BY <1>2, <3>1 DEF Fine
      <3>2. CASE s \notin S
        <4>1. OneAt(s)
          BY <1>0 DEF OneStarts, OneAt
        <4>2. QED BY <1>1, <3>2, <4>1, OneKept
      <3>3. QED BY <3>1, <3>2
    <2>2. QED BY <2>1 DEF OneStarts, OneAt
  <1>9. SlotInv'
    <2> SUFFICES ASSUME NEW s \in Sessions, s \notin raced' PROVE SlotAt(s)'
      BY DEF SlotInv
    <2>1. CASE s \in S
      BY <1>2, <2>1 DEF Fine
    <2>2. CASE s \notin S
      <3>1. s \notin raced
        BY <1>1, <2>2 DEF Frame, SameMarks
      <3>2. QED BY <1>0, <1>1, <2>2, <3>1, SlotKept DEF SlotInv
    <2>3. QED BY <2>1, <2>2
  <1>10. CalmInv'
    <2> SUFFICES ASSUME NEW s \in Sessions, s \notin exited' \cup raced' PROVE CalmAt(s)'
      BY DEF CalmInv
    <2>1. CASE s \in S
      BY <1>2, <2>1 DEF Fine
    <2>2. CASE s \notin S
      <3>1. s \notin exited \cup raced
        BY <1>1, <2>2 DEF Frame, SameMarks
      <3>2. QED BY <1>0, <1>1, <2>2, <3>1, CalmKept DEF CalmInv
    <2>3. QED BY <2>1, <2>2
  <1>11. TypeInv'
    BY <1>3, <1>5, <1>6, TypeParts, PTL
  <1>12. QED BY <1>7, <1>8, <1>9, <1>10, <1>11 DEF TerminalInv

(* What is known of a session before a step. *)
LEMMA Before ==
    ASSUME TerminalInv, NEW s \in Sessions
    PROVE  /\ Sorts /\ TypeOK /\ TypeInv
           /\ PaneAt(s) /\ OneAt(s) /\ Names(s) \subseteq taken \cup {0}
           /\ s \notin raced => SlotAt(s)
           /\ s \notin exited \cup raced => CalmAt(s)
  <1>1. Sorts /\ TypeOK /\ TypeInv /\ PaneInv /\ NamesTaken
    BY TypeParts DEF TerminalInv, TypeInv
  <1>2. OneAt(s)
    BY DEF TerminalInv, OneStarts, OneAt
  <1>3. QED BY <1>1, <1>2 DEF TerminalInv, PaneInv, NamesTaken, SlotInv, CalmInv

LEMMA ZeroNotTaken == ASSUME TypeOK PROVE 0 \notin taken
  <1>1. taken \subseteq 1 .. MaxConv
    BY DEF TypeOK, Convs
  <1>2. QED BY <1>1, TerminalAssumption

(* What a session may know of after a step: what it knew, and what is new. *)
Old(s) == Names(s) \cup {0} \cup (taken' \ taken)

LEMMA OldHas ==
    ASSUME NEW s \in Sessions
    PROVE  /\ Names(s) \subseteq Old(s) /\ 0 \in Old(s)
           /\ Own[s] \in Names(s) /\ on[s] \in Names(s) /\ pid[s] \in Names(s)
           /\ hook[s] \in Names(s) /\ last[s] \in Names(s) /\ real[s] \in Names(s)
           /\ disk[s] \in Names(s)
           /\ obj[s].real \in Names(s) /\ obj[s].persisted \in Names(s)
           /\ new[s].real \in Names(s) /\ new[s].persisted \in Names(s)
           /\ heal.s = s /\ heal.at # "rebuild" =>
                 heal.obj.real \in Names(s) /\ heal.obj.persisted \in Names(s)
  BY DEF Names, Old

LEMMA NamesOld ==
    ASSUME TypeInv, NEW s \in Sessions, taken \subseteq taken',
           {on'[s], pid'[s], hook'[s], last'[s], real'[s], disk'[s], obj'[s].real,
            obj'[s].persisted, new'[s].real, new'[s].persisted} \subseteq Old(s),
           heal'.s = s /\ heal'.at # "rebuild" =>
             heal'.obj.real \in Old(s) /\ heal'.obj.persisted \in Old(s)
    PROVE  NamesFine(s)
  <1>1. Names(s) \subseteq taken \cup {0} /\ 0 \notin taken
    BY ZeroNotTaken DEF TypeInv, NamesTaken
  <1>2. Own[s] \in Old(s)
    BY OldHas
  <1>3. Names(s)' \subseteq Old(s)
    BY <1>2 DEF Names
  <1>4. QED BY <1>1, <1>3 DEF NamesFine, Old

-----------------------------------------------------------------------------
(* Terminals, windows and the CLI.                                           *)
LEMMA LoadedGood == ASSUME TerminalInv, NEW s \in Sessions, Loaded(s) PROVE Good({s})
  <1>0. /\ Sorts /\ TypeOK /\ TypeInv /\ PaneAt(s) /\ OneAt(s)
        /\ s \notin raced => SlotAt(s)
        /\ s \notin exited \cup raced => CalmAt(s)
    BY Before
  <1>1. Sorts'
    BY <1>0 DEF Loaded, Sorts, SortsOutside, SortsRecords, SortsObjects, SortsTasks, SortsHealth,
                SortsMarks, SortsEvents, records, tasks, health, bounds, marks, Panes
  <1>2. ASSUME NEW t \in Sessions \ {s} PROVE Frame(t)
    BY <1>0 DEF Loaded, Sorts, SortsOutside, Frame, Same, SameTasks, SameMarks,
                records, tasks, health, bounds, marks
  <1>3. pane[s] = "loading" /\ pane'[s] = "prompt" /\ hook'[s] = on[s]
    BY <1>0 DEF Loaded, Sorts, SortsOutside
  <1>4. PaneAt(s)' /\ OneAt(s)'
    BY <1>0, <1>3 DEF Loaded, PaneAt, OneAt, Locked, tasks
  <1>5. NamesFine(s)
    BY <1>0, <1>3, OldHas, NamesOld DEF Loaded, records, health
  <1>6. s \notin raced' => SlotAt(s)'
    BY <1>0, <1>3 DEF Loaded, SlotAt, tasks, health, marks
  <1>7. s \notin exited' \cup raced' => CalmAt(s)'
    <2> SUFFICES ASSUME s \notin exited \cup raced PROVE CalmAt(s)'
      BY DEF Loaded, marks
    <2>1. CalmAt(s)
      BY <1>0
    <2>2. ObjectAt(s)' /\ HealAt(s)'
      BY <1>3, <2>1 DEF Loaded, CalmAt, ObjectAt, HealAt, tasks, health
    <2>3. StartAt(s)' /\ TurnAt(s)' /\ WindowAt(s)'
      BY <1>3, <2>1 DEF Loaded, CalmAt, StartAt, TurnAt, WindowAt, Locked, tasks
    <2>4. QED BY <2>1, <2>2, <2>3 DEF Loaded, CalmAt, marks
  <1>8. QED BY <1>1, <1>2, <1>4, <1>5, <1>6, <1>7 DEF Good, Fine, Loaded, marks

LEMMA EventFacts == ASSUME SortsEvents, Event PROVE SortsEvents'
  BY TerminalAssumption DEF SortsEvents, Event

LEMMA ClaudeExitsGood == ASSUME TerminalInv, NEW s \in Sessions, ClaudeExits(s) PROVE Good({s})
  <1>0. /\ Sorts /\ TypeOK /\ TypeInv /\ PaneAt(s) /\ OneAt(s)
        /\ s \notin raced => SlotAt(s)
    BY Before
  <1>1. Sorts'
    <2>1. SortsOutside'
      BY <1>0 DEF ClaudeExits, Sorts, SortsOutside, Panes, Known
    <2>2. SortsEvents'
      BY <1>0, EventFacts DEF ClaudeExits, Sorts
    <2>3. QED BY <1>0, <2>1, <2>2 DEF ClaudeExits, Sorts, SortsRecords, SortsObjects, SortsTasks,
                 SortsHealth, SortsMarks, records, tasks, health
  <1>2. ASSUME NEW t \in Sessions \ {s} PROVE Frame(t)
    BY <1>0 DEF ClaudeExits, Sorts, SortsOutside, Frame, Same, SameTasks, SameMarks,
                records, tasks, health
  <1>3. pane[s] \in {"loading", "prompt"} /\ pane'[s] = "shell" /\ on'[s] = 0 /\ pid'[s] = 0
    BY <1>0 DEF ClaudeExits, Sorts, SortsOutside
  <1>4. PaneAt(s)' /\ OneAt(s)'
    BY <1>0, <1>3 DEF ClaudeExits, PaneAt, OneAt, Locked, tasks
  <1>5. NamesFine(s)
    BY <1>0, <1>3, OldHas, NamesOld DEF ClaudeExits, records, health
  <1>6. s \notin raced' => SlotAt(s)'
    BY <1>0, <1>3 DEF ClaudeExits, SlotAt, tasks, health
  <1>7. s \in exited'
    BY DEF ClaudeExits
  <1>8. QED BY <1>1, <1>2, <1>4, <1>5, <1>6, <1>7 DEF Good, Fine, ClaudeExits

LEMMA UserClearsGood == ASSUME TerminalInv, NEW s \in Sessions, UserClears(s) PROVE Good({s})
  <1>0. /\ Sorts /\ TypeOK /\ TypeInv /\ PaneAt(s) /\ OneAt(s)
        /\ s \notin raced => SlotAt(s)
        /\ s \notin exited \cup raced => CalmAt(s)
    BY Before
  <1>1. /\ Fresh \in Convs /\ Fresh \notin taken
        /\ taken' = taken \cup {Fresh} /\ files' = files \cup {Fresh}
        /\ on' \in [Sessions -> Known] /\ last' \in [Sessions -> Known]
        /\ hook' \in [Sessions -> Known] /\ moved' = moved \cup {s}
        /\ on'[s] = Fresh /\ last'[s] = Fresh /\ hook'[s] = Fresh
        /\ \A t \in Sessions \ {s} : on'[t] = on[t] /\ last'[t] = last[t] /\ hook'[t] = hook[t]
    BY <1>0, SwitchedFacts DEF UserClears, Known
  <1>2. Sorts'
    <2>1. SortsOutside'
      BY <1>0, <1>1 DEF UserClears, Sorts, SortsOutside
    <2>2. SortsEvents'
      BY <1>0, EventFacts DEF UserClears, Sorts
    <2>3. QED BY <1>0, <1>1, <2>1, <2>2 DEF UserClears, Sorts, SortsRecords, SortsObjects, SortsTasks,
                 SortsHealth, SortsMarks, records, tasks, health
  <1>3. ASSUME NEW t \in Sessions \ {s} PROVE Frame(t)
    BY <1>1 DEF UserClears, Frame, Same, SameTasks, SameMarks, records, tasks, health
  <1>4. PaneAt(s)' /\ OneAt(s)'
    BY <1>0, <1>1, TerminalAssumption DEF UserClears, PaneAt, OneAt, Locked, tasks, Convs
  <1>5. NamesFine(s)
    <2>1. Fresh \in Old(s)
      BY <1>1 DEF Old
    <2>2. QED BY <1>0, <1>1, <2>1, OldHas, NamesOld DEF UserClears, records, health
  <1>6. s \notin raced' => SlotAt(s)'
    BY <1>0 DEF UserClears, SlotAt, tasks, health
  <1>7. s \notin exited' \cup raced' => CalmAt(s)'
    <2> SUFFICES ASSUME s \notin exited \cup raced PROVE CalmAt(s)'
      BY DEF UserClears
    <2>1. CalmAt(s)
      BY <1>0
    <2>2. QED BY <2>1 DEF UserClears, CalmAt, ObjectAt, HealAt, StartAt, TurnAt, WindowAt, Locked,
                          tasks, health
  <1>8. QED BY <1>1, <1>2, <1>3, <1>4, <1>5, <1>6, <1>7 DEF Good, Fine, UserClears

LEMMA StrangerGood == ASSUME TerminalInv, Stranger PROVE Good({})
  <1>0. Sorts /\ TypeOK
    BY TypeParts DEF TerminalInv, TypeInv
  <1>1. Fresh \in Convs
    BY <1>0, FreshFacts DEF Stranger
  <1>2. Sorts'
    <2>1. SortsOutside'
      BY <1>0, <1>1 DEF Stranger, Sorts, SortsOutside
    <2>2. SortsEvents'
      BY <1>0, EventFacts DEF Stranger, Sorts
    <2>3. QED BY <1>0, <2>1, <2>2 DEF Stranger, Sorts, SortsRecords, SortsObjects, SortsTasks,
                 SortsHealth, SortsMarks, records, tasks, health, marks
  <1>3. ASSUME NEW t \in Sessions PROVE Frame(t)
    BY DEF Stranger, Frame, Same, SameTasks, SameMarks, records, tasks, health, marks
  <1>4. QED BY <1>2, <1>3 DEF Good, Stranger, marks

LEMMA HookArrivesGood == ASSUME TerminalInv, NEW s \in Sessions, HookArrives(s) PROVE Good({s})
  <1>0. /\ Sorts /\ TypeOK /\ TypeInv /\ PaneAt(s) /\ OneAt(s)
        /\ s \notin raced => SlotAt(s)
        /\ s \notin exited \cup raced => CalmAt(s)
    BY Before
  <1>1. /\ hook' \in [Sessions -> Known] /\ hook'[s] = 0
        /\ real' \in [Sessions -> Known] /\ disk' \in [Sessions -> Known]
        /\ real'[s] \in {real[s], hook[s]} /\ disk'[s] \in {disk[s], hook[s]}
        /\ \A t \in Sessions \ {s} : /\ hook'[t] = hook[t] /\ real'[t] = real[t]
                                     /\ disk'[t] \in {disk[t], real[t]}
    BY <1>0 DEF HookArrives, Sorts, SortsOutside, SortsRecords, Known
  <1>2. Sorts'
    BY <1>0, <1>1 DEF HookArrives, Sorts, SortsOutside, SortsRecords, SortsObjects, SortsTasks,
                SortsHealth, SortsMarks, SortsEvents, tasks, health, bounds, marks
  <1>3. ASSUME NEW t \in Sessions \ {s} PROVE Frame(t)
    BY <1>1 DEF HookArrives, Frame, Same, SameTasks, SameMarks, tasks, health, marks
  <1>4. PaneAt(s)' /\ OneAt(s)'
    BY <1>0 DEF HookArrives, PaneAt, OneAt, Locked, tasks
  <1>5. NamesFine(s)
    BY <1>0, <1>1, OldHas, NamesOld DEF HookArrives, health
  <1>6. s \notin raced' => SlotAt(s)'
    BY <1>0 DEF HookArrives, SlotAt, tasks, health, marks
  <1>7. s \notin exited' \cup raced' => CalmAt(s)'
    <2> SUFFICES ASSUME s \notin exited \cup raced PROVE CalmAt(s)'
      BY DEF HookArrives, marks
    <2>1. CalmAt(s)
      BY <1>0
    <2>2. QED BY <2>1 DEF HookArrives, CalmAt, ObjectAt, HealAt, StartAt, TurnAt, WindowAt, Locked,
                          tasks, health, marks
  <1>8. QED BY <1>1, <1>2, <1>3, <1>4, <1>5, <1>6, <1>7 DEF Good, Fine, HookArrives, marks

LEMMA ServerDiesGood == ASSUME TerminalInv, ServerDies PROVE Good(Sessions)
  <1>0. Sorts /\ TypeOK /\ TypeInv
    BY TypeParts DEF TerminalInv, TypeInv
  <1>1. /\ pane' \in [Sessions -> Panes] /\ on' \in [Sessions -> Convs \cup {0}]
        /\ pid' \in [Sessions -> Convs \cup {0}] /\ windows' \in [Sessions -> Nat]
        /\ \A t \in Sessions : pane'[t] = "none" /\ on'[t] = 0 /\ pid'[t] = 0 /\ windows'[t] = 0
    BY <1>0, KilledFacts DEF ServerDies
  <1>2. Sorts'
    <2>1. SortsOutside'
      BY <1>0, <1>1 DEF ServerDies, Sorts, SortsOutside, Known
    <2>2. SortsEvents'
      BY <1>0, EventFacts DEF ServerDies, Sorts
    <2>3. QED BY <1>0, <2>1, <2>2 DEF ServerDies, Sorts, SortsRecords, SortsObjects, SortsTasks,
                 SortsHealth, SortsMarks, records, tasks, health
  <1>3. ASSUME NEW s \in Sessions PROVE Fine(s)
    <2>0. OneAt(s) /\ (s \notin raced => SlotAt(s))
      BY Before
    <2>1. PaneAt(s)' /\ OneAt(s)'
      BY <1>1, <2>0 DEF ServerDies, PaneAt, OneAt, Locked, tasks
    <2>2. NamesFine(s)
      BY <1>0, <1>1, OldHas, NamesOld DEF ServerDies, records, health
    <2>3. s \notin raced' => SlotAt(s)'
      BY <1>1, <2>0 DEF ServerDies, SlotAt, tasks, health
    <2>4. s \in exited'
      BY DEF ServerDies
    <2>5. QED BY <2>1, <2>2, <2>3, <2>4 DEF Fine
  <1>4. QED BY <1>2, <1>3 DEF Good, ServerDies

LEMMA RestartGood == ASSUME TerminalInv, Restart PROVE Good(Sessions)
  <1>0. Sorts /\ TypeOK /\ TypeInv /\ Sessions \ slots \in SUBSET Sessions
    BY TypeParts DEF TerminalInv, TypeInv
  <1>1. /\ pane' \in [Sessions -> Panes] /\ on' \in [Sessions -> Convs \cup {0}]
        /\ pid' \in [Sessions -> Convs \cup {0}] /\ windows' \in [Sessions -> Nat]
        /\ \A t \in Sessions \ slots :
              pane'[t] = "none" /\ on'[t] = 0 /\ pid'[t] = 0 /\ windows'[t] = 0
        /\ \A t \in Sessions : t \in slots =>
              pane'[t] = pane[t] /\ on'[t] = on[t] /\ pid'[t] = pid[t] /\ windows'[t] = windows[t]
    <2>1. Killed(Sessions \ slots)
      BY DEF Restart
    <2>2. QED BY <1>0, <2>1, KilledFacts
  <1>2. Idle \in Healing /\ Idle.at = "idle" /\ Idle.s = 0 /\ Idle.todo = {}
    BY AbsentFacts DEF Idle, Healing
  <1>3. Sorts'
    <2>1. SortsOutside' /\ SortsRecords' /\ SortsObjects'
      BY <1>0, <1>1, AbsentFacts DEF Restart, Sorts, SortsOutside, SortsRecords, SortsObjects, Known
    <2>2. SortsEvents'
      BY <1>0, EventFacts DEF Restart, Sorts
    <2>3. SortsTasks' /\ SortsMarks'
      BY <1>0 DEF Restart, Sorts, SortsTasks, SortsMarks, Places, Holds, marks
    <2>4. SortsHealth'
      BY <1>2, TerminalAssumption DEF Restart, SortsHealth
    <2>5. QED BY <2>1, <2>2, <2>3, <2>4 DEF Sorts
  <1>4. ASSUME NEW s \in Sessions PROVE Fine(s)
    <2>0. /\ PaneAt(s)
          /\ s \notin exited \cup raced => CalmAt(s)
      BY Before
    <2>1. /\ obj'[s] = Absent /\ new'[s] = Absent /\ held'[s] = "table" /\ hook'[s] = 0
          /\ \A c \in Callers : pc'[c][s] = IF c = "warm" /\ s \in slots THEN "get" ELSE "idle"
          /\ real' = disk /\ disk' = disk /\ last' = last
      BY DEF Restart
    <2>2. PaneAt(s)'
      BY <1>1, <2>0 DEF PaneAt
    <2>3. OneAt(s)'
      BY <2>1 DEF OneAt, Locked, Callers
    <2>4. NamesFine(s)
      BY <1>0, <1>1, <1>2, <2>1, AbsentFacts, OldHas, NamesOld, TerminalAssumption DEF Restart
    <2>5. s \notin raced' => SlotAt(s)'
      BY <1>1, <1>2, <2>1, AbsentFacts, TerminalAssumption DEF Restart, SlotAt, marks
    <2>6. s \notin exited' \cup raced' => CalmAt(s)'
      <3> SUFFICES ASSUME s \notin exited \cup raced PROVE CalmAt(s)'
        BY DEF Restart, marks
      <3>1. CalmAt(s)
        BY <2>0
      <3>2. ObjectAt(s)' /\ HealAt(s)' /\ StartAt(s)'
        BY <1>2, <2>1, AbsentFacts, TerminalAssumption
           DEF Restart, ObjectAt, HealAt, StartAt, Locked, Callers
      <3>3. TurnAt(s)' /\ WindowAt(s)'
        BY <1>1, <2>1, <3>1 DEF CalmAt, TurnAt, WindowAt, Callers
      <3>4. QED BY <3>1, <3>2, <3>3 DEF Restart, CalmAt, marks
    <2>7. QED BY <2>2, <2>3, <2>4, <2>5, <2>6 DEF Fine
  <1>5. QED BY <1>3, <1>4 DEF Good, Restart, marks

LEMMA NamesScanned ==
    ASSUME TypeInv, NEW s \in Sessions, taken \subseteq taken', s \in scanned',
           {on'[s], pid'[s], hook'[s], last'[s], real'[s], disk'[s], obj'[s].real,
            obj'[s].persisted, new'[s].real, new'[s].persisted} \subseteq Names(s) \cup files \cup {0},
           heal'.s = s /\ heal'.at # "rebuild" =>
             heal'.obj.real \in Names(s) /\ heal'.obj.persisted \in Names(s)
    PROVE  NamesFine(s)
  <1> DEFINE T == Names(s) \cup files \cup {0}
  <1>1. /\ {Own[s], on'[s], pid'[s], hook'[s], last'[s], real'[s], disk'[s], obj'[s].real,
            obj'[s].persisted, new'[s].real, new'[s].persisted} \subseteq T
        /\ heal'.s = s /\ heal'.at # "rebuild" =>
             heal'.obj.real \in T /\ heal'.obj.persisted \in T
    BY OldHas
  <1>2. Names(s)' \subseteq T
    <2> HIDE DEF T
    <2>1. QED BY <1>1 DEF Names
  <1>3. /\ Names(s) \subseteq taken \cup {0} /\ files \subseteq taken /\ 0 \notin taken
    BY ZeroNotTaken DEF TypeInv, NamesTaken, TypeOK
  <1>4. QED BY <1>2, <1>3 DEF NamesFine

-----------------------------------------------------------------------------
(* The object of a session looked for its conversation.                      *)
Learnt(s) == {obj'[s].real, obj'[s].persisted, real'[s]}
Detected(s) ==
  /\ obj' \in [Sessions -> Object]
  /\ \A t \in Sessions \ {s} : obj'[t] = obj[t] /\ real'[t] = real[t]
  /\ obj'[s].here = obj[s].here
  /\ obj'[s].ready => obj[s].ready \/ (obj[s].here /\ pane[s] = "prompt")
  /\ real' \in [Sessions -> Known] /\ disk' \in [Sessions -> Known]
  /\ \A t \in Sessions : disk'[t] = disk[t] \/ disk'[t] = real'[t]
  /\ claimed' \subseteq Convs
  /\ Learnt(s) \subseteq Names(s) \cup files \cup {0}
  /\ \/ scanned' = scanned /\ Learnt(s) \subseteq Names(s) \cup {0}
     \/ scanned' = scanned \cup {s}

LEMMA DetectedStep ==
    ASSUME TerminalInv, NEW s \in Sessions, Detected(s),
           UNCHANGED <<outside, slots, new, known, warming, held, health, removing, bounds,
                       exited, typed, garbled, raced, moved, dropped>>,
           pc' = pc \/ (pc["turn"][s] = "detect" /\ Goto("turn", s, "idle")), clearing' \subseteq clearing
    PROVE  Good({s})
  <1>0. /\ Sorts /\ TypeOK /\ TypeInv /\ PaneAt(s) /\ OneAt(s)
        /\ s \notin raced => SlotAt(s)
        /\ s \notin exited \cup raced => CalmAt(s)
    BY Before
  <1>1. /\ obj' \in [Sessions -> Object]
        /\ \A t \in Sessions \ {s} : obj'[t] = obj[t] /\ real'[t] = real[t]
        /\ obj'[s].here = obj[s].here
        /\ obj'[s].ready => obj[s].ready \/ (obj[s].here /\ pane[s] = "prompt")
        /\ real' \in [Sessions -> Known] /\ disk' \in [Sessions -> Known]
        /\ \A t \in Sessions : disk'[t] = disk[t] \/ disk'[t] = real'[t]
        /\ claimed' \subseteq Convs
    BY DEF Detected
  <1>2. /\ pc' \in [Callers -> [Sessions -> Places]]
        /\ \A c \in Callers, t \in Sessions : c # "turn" \/ t # s => pc'[c][t] = pc[c][t]
        /\ pc'["turn"][s] \in {pc["turn"][s], "idle"}
    <2>1. CASE pc' = pc
      BY <1>0, <2>1 DEF Sorts, SortsTasks
    <2>2. CASE Goto("turn", s, "idle")
      <3>1. "turn" \in Callers /\ "idle" \in Places
        BY DEF Callers, Places
      <3>2. /\ pc' \in [Callers -> [Sessions -> Places]] /\ pc'["turn"][s] = "idle"
            /\ \A c \in Callers, t \in Sessions : c # "turn" \/ t # s => pc'[c][t] = pc[c][t]
        BY <1>0, <2>2, <3>1, GotoFacts
      <3>3. QED BY <3>2
    <2>3. QED BY <2>1, <2>2
  <1>3. scanned \subseteq scanned' /\ scanned' \subseteq Sessions
    BY <1>0 DEF Detected, Sorts, SortsMarks
  <1>4. Sorts'
    <2>1. SortsOutside' /\ SortsRecords' /\ SortsObjects' /\ SortsEvents'
      BY <1>0, <1>1 DEF Sorts, SortsOutside, SortsRecords, SortsObjects, SortsEvents, outside, bounds
    <2>2. SortsTasks' /\ SortsHealth' /\ SortsMarks'
      BY <1>0, <1>2, <1>3 DEF Sorts, SortsTasks, SortsHealth, SortsMarks, health
    <2>3. QED BY <2>1, <2>2 DEF Sorts
  <1>5. ASSUME NEW t \in Sessions \ {s} PROVE Frame(t)
    <2>1. pc'["warm"][t] = pc["warm"][t] /\ pc'["turn"][t] = pc["turn"][t]
          /\ pc'["again"][t] = pc["again"][t]
      BY <1>2 DEF Callers
    <2>2. QED BY <1>1, <2>1 DEF Frame, Same, SameTasks, SameMarks, outside, health
  <1>6. PaneAt(s)' /\ OneAt(s)'
    BY <1>0, <1>2 DEF PaneAt, OneAt, Locked, outside, Callers
  <1>7. NamesFine(s)
    <2>0. taken' = taken /\ disk'[s] \in {disk[s], real'[s]}
      BY <1>1 DEF outside
    <2>1. CASE Learnt(s) \subseteq Names(s) \cup {0}
      <3>1. Learnt(s) \subseteq Old(s)
        BY <2>1 DEF Old
      <3>2. QED BY <1>0, <2>0, <3>1, OldHas, NamesOld DEF Learnt, outside, health
    <2>2. CASE s \in scanned'
      <3>1. Learnt(s) \subseteq Names(s) \cup files \cup {0}
        BY DEF Detected
      <3>2. QED BY <1>0, <2>0, <2>2, <3>1, OldHas, NamesScanned DEF Learnt, outside, health
    <2>3. QED BY <2>1, <2>2 DEF Detected
  <1>8. s \notin raced' => SlotAt(s)'
    BY <1>0, <1>1, <1>2 DEF SlotAt, Callers, outside, health
  <1>9. s \notin exited' \cup raced' => CalmAt(s)'
    <2> SUFFICES ASSUME s \notin exited \cup raced PROVE CalmAt(s)'
      OBVIOUS
    <2>1. CalmAt(s)
      BY <1>0
    <2>2. ObjectAt(s)' /\ HealAt(s)' /\ StartAt(s)'
      BY <1>1, <1>2, <2>1 DEF CalmAt, ObjectAt, HealAt, StartAt, Locked, Callers, outside, health
    <2>3. TurnAt(s)' /\ WindowAt(s)'
      BY <1>1, <1>2, <2>1 DEF CalmAt, TurnAt, WindowAt, Callers, outside
    <2>4. QED BY <2>1, <2>2, <2>3 DEF CalmAt
  <1>10. QED BY <1>3, <1>4, <1>5, <1>6, <1>7, <1>8, <1>9 DEF Good, Fine, outside

(* Nothing was looked for. *)
LEMMA NotDetected ==
    ASSUME TypeInv, NEW s \in Sessions, UNCHANGED <<obj, real, disk, claimed, scanned>>
    PROVE  Detected(s)
  <1>1. Sorts /\ Names(s) \subseteq taken \cup {0}
    BY TypeParts DEF TypeInv, NamesTaken
  <1>2. QED BY <1>1, OldHas DEF Detected, Learnt, Sorts, SortsRecords, SortsObjects

(* The object that looks is the session's own, but for its flags. *)
LEMMA DetectDetected ==
    ASSUME TypeInv, NEW s \in Sessions, NEW o \in Object,
           Detect(s, o) \/ (obj' = [obj EXCEPT ![s] = o] /\ UNCHANGED <<real, disk, claimed, scanned>>),
           o.here = obj[s].here, o.ready => obj[s].ready \/ (obj[s].here /\ pane[s] = "prompt"),
           o.real = obj[s].real, o.persisted = obj[s].persisted
    PROVE  Detected(s)
  <1>0. Sorts /\ Names(s) \subseteq taken \cup {0}
    BY TypeParts DEF TypeInv, NamesTaken
  <1>1. o.real \in Names(s) \cup {0} /\ o.persisted \in Names(s) \cup {0}
    BY OldHas
  <1>2. CASE Detect(s, o)
    BY <1>1, <1>2, DetectFacts DEF Detected, Learnt, Known
  <1>3. CASE obj' = [obj EXCEPT ![s] = o] /\ UNCHANGED <<real, disk, claimed, scanned>>
    <2>1. /\ obj' \in [Sessions -> Object] /\ obj'[s] = o
          /\ \A t \in Sessions \ {s} : obj'[t] = obj[t]
      BY <1>0, <1>3, PutObject DEF Sorts, SortsObjects
    <2>2. Learnt(s) \subseteq Names(s) \cup {0}
      BY <1>1, <1>3, <2>1, OldHas DEF Learnt
    <2>3. QED BY <1>0, <1>3, <2>1, <2>2 DEF Detected, Sorts, SortsRecords
  <1>4. QED BY <1>2, <1>3

LEMMA PollGood == ASSUME TerminalInv, NEW s \in Sessions, Poll(s) PROVE Good({s})
  <1>0. /\ TypeInv /\ obj[s] \in Object /\ obj[s].here /\ (obj[s].ready \/ pane[s] = "prompt")
    BY Before, TypeFacts DEF Poll
  <1> DEFINE o == [obj[s] EXCEPT !.ready = TRUE, !.poll = FALSE]
  <1>1. o \in Object /\ o.here = obj[s].here /\ o.real = obj[s].real /\ o.persisted = obj[s].persisted
    BY <1>0 DEF Object
  <1>2. Detect(s, o) \/ (obj' = [obj EXCEPT ![s] = o] /\ UNCHANGED <<real, disk, claimed, scanned>>)
    BY Zenon DEF Poll
  <1> HIDE DEF o
  <1>3. Detected(s)
    BY <1>0, <1>1, <1>2, DetectDetected
  <1>4. QED BY <1>3, DetectedStep DEF Poll, tasks

LEMMA TurnDetectsGood == ASSUME TerminalInv, NEW s \in Sessions, TurnDetects(s) PROVE Good({s})
  <1>0. TypeInv /\ obj[s] \in Object
    BY Before, TypeFacts
  <1>1. Detected(s)
    <2>1. CASE Detect(s, obj[s])
      BY <1>0, <2>1, DetectDetected
    <2>2. CASE UNCHANGED <<obj, real, disk, claimed, scanned>>
      BY <1>0, <2>2, NotDetected
    <2>3. QED BY <2>1, <2>2 DEF TurnDetects
  <1>2. pc["turn"][s] = "detect" /\ Goto("turn", s, "idle")
    BY DEF TurnDetects
  <1>3. QED BY <1>1, <1>2, DetectedStep DEF TurnDetects

LEMMA ClearDoneGood == ASSUME TerminalInv, NEW s \in Sessions, ClearDone(s) PROVE Good({s})
  <1>0. TypeInv /\ obj[s] \in Object
    BY Before, TypeFacts
  <1>1. Detected(s)
    <2>1. CASE ~obj[s].here
      BY <1>0, <2>1, NotDetected DEF ClearDone
    <2>2. CASE obj[s].here
      <3> DEFINE b == obj[s].ready \/ pane[s] = "prompt"
      <3> DEFINE o == [obj[s] EXCEPT !.ready = b]
      <3>1. o \in Object /\ o.here = obj[s].here /\ o.real = obj[s].real
            /\ o.persisted = obj[s].persisted /\ o.ready = b
        BY <1>0, SetReady
      <3>2. Detect(s, o)
        BY <2>2, Zenon DEF ClearDone
      <3>3. o.ready => obj[s].ready \/ (obj[s].here /\ pane[s] = "prompt")
        BY <2>2, <3>1
      <3> HIDE DEF o
      <3>4. QED BY <1>0, <3>1, <3>2, <3>3, DetectDetected
    <2>3. QED BY <2>1, <2>2
  <1>2. clearing' \subseteq clearing
    BY DEF ClearDone
  <1>3. QED BY <1>1, <1>2, DetectedStep DEF ClearDone

-----------------------------------------------------------------------------
(* A caller goes on.                                                         *)
LEMMA Went ==
    ASSUME TypeOK, NEW c \in Callers, NEW s \in Sessions, NEW l \in Places, Goto(c, s, l)
    PROVE  /\ pc' \in [Callers -> [Sessions -> Places]] /\ pc'[c][s] = l
           /\ \A d \in Callers : d # c => pc'[d][s] = pc[d][s]
           /\ \A t \in Sessions \ {s} : /\ pc'["warm"][t] = pc["warm"][t]
                                        /\ pc'["again"][t] = pc["again"][t]
                                        /\ pc'["turn"][t] = pc["turn"][t]
  BY GotoFacts DEF Callers

LEMMA LookForWindowGood ==
    ASSUME TerminalInv, NEW c \in Callers, NEW s \in Sessions, LookForWindow(c, s)
    PROVE  Good({s})
  <1>0. /\ Sorts /\ TypeOK /\ TypeInv /\ PaneAt(s) /\ OneAt(s)
        /\ s \notin raced => SlotAt(s)
        /\ s \notin exited \cup raced => CalmAt(s)
    BY Before
  <1>1. c \in Warmers /\ pc[c][s] = "have"
    BY DEF LookForWindow
  <1>2. /\ pc' \in [Callers -> [Sessions -> Places]] /\ pc'[c][s] \in {"open", "idle"}
        /\ pc'[c][s] = "open" => windows[s] = 0
        /\ \A d \in Callers : d # c => pc'[d][s] = pc[d][s]
        /\ \A t \in Sessions \ {s} : /\ pc'["warm"][t] = pc["warm"][t]
                                     /\ pc'["again"][t] = pc["again"][t]
                                     /\ pc'["turn"][t] = pc["turn"][t]
    <2>1. "open" \in Places /\ "idle" \in Places
      BY DEF Places
    <2>2. CASE windows[s] = 0
      BY <1>0, <2>1, <2>2, Went DEF LookForWindow
    <2>3. CASE windows[s] # 0
      BY <1>0, <2>1, <2>3, Went DEF LookForWindow
    <2>4. QED BY <2>2, <2>3
  <1>3. Sorts'
    <2>1. known' \subseteq Sessions /\ warming' \subseteq Sessions
      BY <1>0 DEF LookForWindow, Sorts, SortsRecords, SortsTasks
    <2>2. QED BY <1>0, <1>2, <2>1 DEF LookForWindow, Sorts, SortsOutside, SortsRecords, SortsObjects,
             SortsTasks, SortsHealth, SortsMarks, SortsEvents, outside, health, bounds, marks
  <1>4. ASSUME NEW t \in Sessions \ {s} PROVE Frame(t)
    BY <1>2 DEF LookForWindow, Frame, Same, SameTasks, SameMarks, outside, health, marks
  <1>5. PaneAt(s)' /\ OneAt(s)'
    BY <1>0, <1>1, <1>2 DEF LookForWindow, PaneAt, OneAt, Locked, outside, Callers, Warmers
  <1>6. NamesFine(s)
    BY <1>0, OldHas, NamesOld DEF LookForWindow, outside, health
  <1>7. s \notin raced' => SlotAt(s)'
    BY <1>0, <1>1, <1>2 DEF LookForWindow, SlotAt, Callers, outside, health, marks
  <1>8. s \notin exited' \cup raced' => CalmAt(s)'
    <2> SUFFICES ASSUME s \notin exited \cup raced PROVE CalmAt(s)'
      BY DEF LookForWindow, marks
    <2>1. CalmAt(s)
      BY <1>0
    <2>2. c = "warm"
      BY <1>1, <2>1 DEF Warmers, CalmAt, HealAt
    <2>3. ObjectAt(s)' /\ HealAt(s)' /\ StartAt(s)'
      BY <1>2, <2>1, <2>2 DEF LookForWindow, CalmAt, ObjectAt, HealAt, StartAt, Locked, Callers,
                              outside, health
    <2>4. TurnAt(s)' /\ WindowAt(s)'
      BY <1>2, <2>1, <2>2 DEF LookForWindow, CalmAt, TurnAt, WindowAt, Callers, outside
    <2>5. QED BY <2>1, <2>3, <2>4 DEF LookForWindow, CalmAt, marks
  <1>9. QED BY <1>3, <1>4, <1>5, <1>6, <1>7, <1>8 DEF Good, Fine, LookForWindow, outside, marks

LEMMA OpenWindowGood ==
    ASSUME TerminalInv, NEW c \in Callers, NEW s \in Sessions, OpenWindow(c, s)
    PROVE  Good({s})
  <1>0. /\ Sorts /\ TypeOK /\ TypeInv /\ PaneAt(s) /\ OneAt(s)
        /\ s \notin raced => SlotAt(s)
        /\ s \notin exited \cup raced => CalmAt(s)
    BY Before
  <1>1. pc[c][s] = "open" /\ c # "turn" /\ Goto(c, s, "idle") /\ "idle" \in Places
    BY <1>0 DEF OpenWindow, OneAt, Places
  <1>2. /\ pc' \in [Callers -> [Sessions -> Places]] /\ pc'[c][s] = "idle"
        /\ \A d \in Callers : d # c => pc'[d][s] = pc[d][s]
        /\ \A t \in Sessions \ {s} : /\ pc'["warm"][t] = pc["warm"][t]
                                     /\ pc'["again"][t] = pc["again"][t]
                                     /\ pc'["turn"][t] = pc["turn"][t]
    BY <1>0, <1>1, Went
  <1>3. /\ windows' \in [Sessions -> Nat] /\ windows'[s] = IF pane[s] = "none" THEN 0 ELSE windows[s] + 1
        /\ \A t \in Sessions \ {s} : windows'[t] = windows[t]
    <2>1. windows \in [Sessions -> Nat] /\ windows[s] \in Nat
      BY <1>0 DEF Sorts, SortsOutside
    <2>2. (IF pane[s] = "none" THEN 0 ELSE windows[s] + 1) \in Nat
      BY <2>1
    <2>3. windows' = [windows EXCEPT ![s] = IF pane[s] = "none" THEN 0 ELSE windows[s] + 1]
      BY DEF OpenWindow, Opened
    <2>4. QED BY <2>1, <2>2, <2>3
  <1>4. Sorts'
    <2>1. warming' \subseteq Sessions
      BY <1>0 DEF OpenWindow, Sorts, SortsTasks
    <2>2. QED BY <1>0, <1>2, <1>3, <2>1 DEF OpenWindow, Sorts, SortsOutside, SortsRecords, SortsObjects,
             SortsTasks, SortsHealth, SortsMarks, SortsEvents, records, health, bounds, marks
  <1>5. ASSUME NEW t \in Sessions \ {s} PROVE Frame(t)
    BY <1>2, <1>3 DEF OpenWindow, Frame, Same, SameTasks, SameMarks, records, health, marks
  <1>6. PaneAt(s)' /\ OneAt(s)'
    BY <1>0, <1>1, <1>2, <1>3 DEF OpenWindow, PaneAt, OneAt, Locked, Callers
  <1>7. NamesFine(s)
    BY <1>0, OldHas, NamesOld DEF OpenWindow, records, health
  <1>8. s \notin raced' => SlotAt(s)'
    BY <1>0, <1>1, <1>2 DEF OpenWindow, SlotAt, Callers, health, marks
  <1>9. s \notin exited' \cup raced' => CalmAt(s)'
    <2> SUFFICES ASSUME s \notin exited \cup raced PROVE CalmAt(s)'
      BY DEF OpenWindow, marks
    <2>1. CalmAt(s)
      BY <1>0
    <2>2. c = "warm" /\ windows[s] = 0
      BY <1>1, <2>1 DEF Callers, CalmAt, HealAt, WindowAt
    <2>3. ObjectAt(s)' /\ HealAt(s)' /\ StartAt(s)'
      BY <1>2, <2>1, <2>2 DEF OpenWindow, CalmAt, ObjectAt, HealAt, StartAt, Locked, Callers, health
    <2>4. TurnAt(s)'
      BY <1>2, <2>1, <2>2 DEF OpenWindow, CalmAt, TurnAt, Callers
    <2>5. WindowAt(s)'
      BY <1>2, <1>3, <2>2 DEF WindowAt
    <2>6. QED BY <2>1, <2>3, <2>4, <2>5 DEF OpenWindow, CalmAt, marks
  <1>10. QED BY <1>4, <1>5, <1>6, <1>7, <1>8, <1>9 DEF Good, Fine, OpenWindow, marks

LEMMA TurnStartGood == ASSUME TerminalInv, NEW s \in Sessions, TurnStart(s) PROVE Good({s})
  <1>0. /\ Sorts /\ TypeOK /\ TypeInv /\ PaneAt(s) /\ OneAt(s)
        /\ s \notin raced => SlotAt(s)
        /\ s \notin exited \cup raced => CalmAt(s)
    BY Before
  <1>1. "turn" \in Callers /\ "get" \in Places
    BY DEF Callers, Places
  <1>2. /\ pc' \in [Callers -> [Sessions -> Places]] /\ pc'["turn"][s] = "get"
        /\ \A d \in Callers : d # "turn" => pc'[d][s] = pc[d][s]
        /\ \A t \in Sessions \ {s} : /\ pc'["warm"][t] = pc["warm"][t]
                                     /\ pc'["again"][t] = pc["again"][t]
                                     /\ pc'["turn"][t] = pc["turn"][t]
    BY <1>0, <1>1, Went DEF TurnStart
  <1>3. /\ held' \in [Sessions -> Holds] /\ held'[s] = "table"
        /\ \A t \in Sessions \ {s} : held'[t] = held[t]
    BY <1>0 DEF TurnStart, Sorts, SortsTasks, Holds
  <1>4. Sorts'
    <2>1. SortsEvents'
      BY <1>0, EventFacts DEF TurnStart, Sorts
    <2>2. QED BY <1>0, <1>2, <1>3, <2>1 DEF TurnStart, Sorts, SortsOutside, SortsRecords, SortsObjects,
             SortsTasks, SortsHealth, SortsMarks, outside, records, health, marks
  <1>5. ASSUME NEW t \in Sessions \ {s} PROVE Frame(t)
    BY <1>2, <1>3 DEF TurnStart, Frame, Same, SameTasks, SameMarks, outside, records, health, marks
  <1>6. PaneAt(s)' /\ OneAt(s)'
    BY <1>0, <1>2, <1>3 DEF TurnStart, PaneAt, OneAt, Locked, outside, Callers
  <1>7. NamesFine(s)
    BY <1>0, OldHas, NamesOld DEF TurnStart, outside, records, health
  <1>8. s \notin raced' => SlotAt(s)'
    BY <1>0 DEF TurnStart, SlotAt, outside, health, marks
  <1>9. s \notin exited' \cup raced' => CalmAt(s)'
    <2> SUFFICES ASSUME s \notin exited \cup raced PROVE CalmAt(s)'
      BY DEF TurnStart, marks
    <2>1. CalmAt(s)
      BY <1>0
    <2>2. ObjectAt(s)' /\ HealAt(s)' /\ StartAt(s)'
      BY <1>2, <2>1 DEF TurnStart, CalmAt, ObjectAt, HealAt, StartAt, Locked, Callers, outside, health
    <2>3. TurnAt(s)' /\ WindowAt(s)'
      BY <1>2, <2>1 DEF TurnStart, CalmAt, TurnAt, WindowAt, Callers, outside
    <2>4. QED BY <2>1, <2>2, <2>3 DEF TurnStart, CalmAt, marks
  <1>10. QED BY <1>4, <1>5, <1>6, <1>7, <1>8, <1>9 DEF Good, Fine, TurnStart, outside, marks

LEMMA TypeGood == ASSUME TerminalInv, NEW s \in Sessions, Type(s) PROVE Good({s})
  <1>0. /\ Sorts /\ TypeOK /\ TypeInv /\ PaneAt(s) /\ OneAt(s)
        /\ Names(s) \subseteq taken \cup {0}
        /\ s \notin raced => SlotAt(s)
        /\ s \notin exited \cup raced => CalmAt(s)
    BY Before
  <1>1. "turn" \in Callers /\ "detect" \in Places /\ pc["turn"][s] = "have"
    BY DEF Callers, Places, Type
  <1>2. /\ pc' \in [Callers -> [Sessions -> Places]] /\ pc'["turn"][s] = "detect"
        /\ \A d \in Callers : d # "turn" => pc'[d][s] = pc[d][s]
        /\ \A t \in Sessions \ {s} : /\ pc'["warm"][t] = pc["warm"][t]
                                     /\ pc'["again"][t] = pc["again"][t]
                                     /\ pc'["turn"][t] = pc["turn"][t]
    BY <1>0, <1>1, Went DEF Type
  <1>3. /\ obj' \in [Sessions -> Object] /\ obj'[s].here = obj[s].here
        /\ obj'[s].real = obj[s].real /\ obj'[s].persisted = obj[s].persisted
        /\ obj'[s].ready => obj[s].ready \/ held[s] = "table"
        /\ \A t \in Sessions \ {s} : obj'[t] = obj[t]
    <2>0. obj \in [Sessions -> Object] /\ obj[s] \in Object
      BY <1>0, TypeFacts
    <2>1. CASE held[s] = "table"
      <3> DEFINE o == [obj[s] EXCEPT !.ready = TRUE]
      <3>1. o \in Object /\ o.here = obj[s].here /\ o.real = obj[s].real
            /\ o.persisted = obj[s].persisted
        BY <2>0, SetReady
      <3>2. obj' = [obj EXCEPT ![s] = o]
        BY <2>1 DEF Type
      <3> HIDE DEF o
      <3>3. /\ obj' \in [Sessions -> Object] /\ obj'[s] = o
            /\ \A t \in Sessions \ {s} : obj'[t] = obj[t]
        BY <2>0, <3>1, <3>2, PutObject
      <3>4. QED BY <2>1, <3>1, <3>3
    <2>2. CASE held[s] # "table"
      BY <2>0, <2>2 DEF Type
    <2>3. QED BY <2>1, <2>2
  <1>4. files' \subseteq taken
    <2>1. CASE pane[s] = "prompt"
      <3>1. on[s] # 0 /\ on[s] \in taken \cup {0}
        BY <1>0, <2>1, OldHas DEF PaneAt
      <3>2. QED BY <1>0, <2>1, <3>1 DEF Type, Sorts, SortsOutside
    <2>2. CASE pane[s] # "prompt"
      BY <1>0, <2>2 DEF Type, Sorts, SortsOutside
    <2>3. QED BY <2>1, <2>2
  <1>5. typed' \subseteq Sessions /\ \A t \in Sessions \ {s} : t \in typed' <=> t \in typed
    BY <1>0 DEF Type, Sorts, SortsMarks
  <1>6. Sorts'
    BY <1>0, <1>2, <1>3, <1>4, <1>5 DEF Type, Sorts, SortsOutside, SortsRecords, SortsObjects,
             SortsTasks, SortsHealth, SortsMarks, SortsEvents, records, health, bounds
  <1>7. ASSUME NEW t \in Sessions \ {s} PROVE Frame(t)
    BY <1>2, <1>3, <1>5 DEF Type, Frame, Same, SameTasks, SameMarks, records, health
  <1>8. PaneAt(s)' /\ OneAt(s)'
    BY <1>0, <1>2 DEF Type, PaneAt, OneAt, Locked, Callers
  <1>9. NamesFine(s)
    BY <1>0, <1>3, OldHas, NamesOld DEF Type, records, health
  <1>10. s \notin raced' => SlotAt(s)'
    BY <1>0, <1>1 DEF Type, SlotAt, health
  <1>11. s \notin exited' \cup raced' => CalmAt(s)'
    <2> SUFFICES ASSUME s \notin exited \cup raced PROVE CalmAt(s)'
      BY DEF Type
    <2>1. CalmAt(s)
      BY <1>0
    <2>2. pane[s] = "prompt" /\ (held[s] = "table" => obj[s].here)
      BY <1>1, <2>1 DEF Type, ReadyFlag, CalmAt, ObjectAt, TurnAt
    <2>3. ObjectAt(s)' /\ HealAt(s)'
      BY <1>2, <1>3, <2>1, <2>2 DEF Type, CalmAt, ObjectAt, HealAt, Callers, health
    <2>4. StartAt(s)' /\ WindowAt(s)'
      BY <1>2, <1>3, <2>1 DEF Type, CalmAt, StartAt, Locked, WindowAt, Callers
    <2>5. TurnAt(s)'
      BY <1>2, <1>3, <2>2 DEF Type, TurnAt
    <2>6. QED BY <2>1, <2>2, <2>3, <2>4, <2>5 DEF Type, CalmAt
  <1>12. QED BY <1>6, <1>7, <1>8, <1>9, <1>10, <1>11 DEF Good, Fine, Type

LEMMA TypeTimeoutGood == ASSUME TerminalInv, NEW s \in Sessions, TypeTimeout(s) PROVE Good({s})
  <1>0. /\ Sorts /\ TypeOK /\ TypeInv /\ PaneAt(s) /\ OneAt(s)
        /\ s \notin raced => SlotAt(s)
        /\ s \notin exited \cup raced => CalmAt(s)
    BY Before
  <1>1. "turn" \in Callers /\ "idle" \in Places
    BY DEF Callers, Places
  <1>2. /\ pc' \in [Callers -> [Sessions -> Places]] /\ pc'["turn"][s] = "idle"
        /\ \A d \in Callers : d # "turn" => pc'[d][s] = pc[d][s]
        /\ \A t \in Sessions \ {s} : /\ pc'["warm"][t] = pc["warm"][t]
                                     /\ pc'["again"][t] = pc["again"][t]
                                     /\ pc'["turn"][t] = pc["turn"][t]
    BY <1>0, <1>1, Went DEF TypeTimeout
  <1>3. Sorts'
    BY <1>0, <1>2 DEF TypeTimeout, Sorts, SortsOutside, SortsRecords, SortsObjects,
             SortsTasks, SortsHealth, SortsMarks, SortsEvents, outside, records, health, bounds, marks
  <1>4. ASSUME NEW t \in Sessions \ {s} PROVE Frame(t)
    BY <1>2 DEF TypeTimeout, Frame, Same, SameTasks, SameMarks, outside, records, health, marks
  <1>5. PaneAt(s)' /\ OneAt(s)'
    BY <1>0, <1>2 DEF TypeTimeout, PaneAt, OneAt, Locked, outside, Callers
  <1>6. NamesFine(s)
    BY <1>0, OldHas, NamesOld DEF TypeTimeout, outside, records, health
  <1>7. s \notin raced' => SlotAt(s)'
    BY <1>0, <1>2 DEF TypeTimeout, SlotAt, outside, health, marks
  <1>8. s \notin exited' \cup raced' => CalmAt(s)'
    <2> SUFFICES ASSUME s \notin exited \cup raced PROVE CalmAt(s)'
      BY DEF TypeTimeout, marks
    <2>1. CalmAt(s)
      BY <1>0
    <2>2. ObjectAt(s)' /\ HealAt(s)' /\ StartAt(s)'
      BY <1>2, <2>1 DEF TypeTimeout, CalmAt, ObjectAt, HealAt, StartAt, Locked, Callers, outside, health
    <2>3. TurnAt(s)' /\ WindowAt(s)'
      BY <1>2, <2>1 DEF TypeTimeout, CalmAt, TurnAt, WindowAt, Callers, outside
    <2>4. QED BY <2>1, <2>2, <2>3 DEF TypeTimeout, CalmAt, marks
  <1>9. QED BY <1>3, <1>4, <1>5, <1>6, <1>7, <1>8 DEF Good, Fine, TypeTimeout, outside, marks

LEMMA InstalledFacts ==
    ASSUME TypeInv, NEW s \in Sessions, NEW o \in Object, Installed(s, o)
    PROVE  /\ obj' \in [Sessions -> Object] /\ new' \in [Sessions -> Object]
           /\ obj'[s] = o /\ new'[s] = Absent /\ claimed' \subseteq Convs
           /\ \A t \in Sessions \ {s} : obj'[t] = obj[t] /\ new'[t] = new[t] /\ held'[t] = held[t]
           /\ held' \in [Sessions -> Holds]
           /\ pc["turn"][s] \notin {"have", "detect"} => held'[s] = held[s]
           /\ held'[s] = "ready" => held[s] = "ready" \/ obj[s].ready
           /\ heal' \in Healing /\ heal'.at = heal.at /\ heal'.s = heal.s /\ heal'.todo = heal.todo
           /\ heal.s # s => heal' = heal
           /\ heal'.obj = heal.obj \/ heal'.obj = obj[s]
  <1>0. TypeOK /\ Sorts
    BY TypeParts DEF TypeInv
  <1>1. /\ obj' \in [Sessions -> Object] /\ obj'[s] = o /\ \A t \in Sessions \ {s} : obj'[t] = obj[t]
    BY <1>0, PutObject DEF Installed, Sorts, SortsObjects
  <1>2. /\ new' \in [Sessions -> Object] /\ new'[s] = Absent
        /\ \A t \in Sessions \ {s} : new'[t] = new[t]
    BY <1>0, PutObject, AbsentFacts DEF Installed, Sorts, SortsObjects
  <1>3. claimed' \subseteq Convs
    BY <1>0, TerminalAssumption DEF Installed, Claims, Sorts, SortsRecords
  <1>4. /\ held' \in [Sessions -> Holds]
        /\ \A t \in Sessions \ {s} : held'[t] = held[t]
        /\ pc["turn"][s] \notin {"have", "detect"} => held'[s] = held[s]
        /\ held'[s] = "ready" => held[s] = "ready" \/ obj[s].ready
    <2>1. Replaced({s}) /\ {s} \in SUBSET Sessions
      BY DEF Installed
    <2>2. QED BY <1>0, <2>1, ReplacedFacts
  <1>5. /\ heal' \in Healing /\ heal'.at = heal.at /\ heal'.s = heal.s /\ heal'.todo = heal.todo
        /\ heal.s # s => heal' = heal
        /\ heal'.obj = heal.obj \/ heal'.obj = obj[s]
    BY <1>0, DetachedFacts DEF Installed
  <1>6. QED BY <1>1, <1>2, <1>3, <1>4, <1>5

LEMMA GetAliveGood ==
    ASSUME TerminalInv, NEW c \in Callers, NEW s \in Sessions, pc[c][s] = "get", Alive(s),
           Goto(c, s, "have"),
           UNCHANGED <<pane, on, pid, windows, obj, new, claimed, held, heal, files, taken, hook,
                       last, slots, real, disk, known, warming, clearing, loop, removing, events,
                       moved, exited, scanned, typed, garbled, raced, dropped>>
    PROVE  Good({s})
  <1>0. /\ Sorts /\ TypeOK /\ TypeInv /\ PaneAt(s) /\ OneAt(s)
        /\ s \notin raced => SlotAt(s)
        /\ s \notin exited \cup raced => CalmAt(s)
    BY Before
  <1>1. "have" \in Places
    BY DEF Places
  <1>2. /\ pc' \in [Callers -> [Sessions -> Places]] /\ pc'[c][s] = "have"
        /\ \A d \in Callers : d # c => pc'[d][s] = pc[d][s]
        /\ \A t \in Sessions \ {s} : /\ pc'["warm"][t] = pc["warm"][t]
                                     /\ pc'["again"][t] = pc["again"][t]
                                     /\ pc'["turn"][t] = pc["turn"][t]
    BY <1>0, <1>1, Went
  <1>3. Sorts'
    BY <1>0, <1>2 DEF Sorts, SortsOutside, SortsRecords, SortsObjects, SortsTasks, SortsHealth,
                      SortsMarks, SortsEvents
  <1>4. ASSUME NEW t \in Sessions \ {s} PROVE Frame(t)
    BY <1>2 DEF Frame, Same, SameTasks, SameMarks
  <1>5. PaneAt(s)' /\ OneAt(s)'
    BY <1>0, <1>2 DEF PaneAt, OneAt, Locked, Callers
  <1>6. NamesFine(s)
    BY <1>0, OldHas, NamesOld
  <1>7. s \notin raced' => SlotAt(s)'
    BY <1>0, <1>2 DEF SlotAt, Callers
  <1>8. s \notin exited' \cup raced' => CalmAt(s)'
    <2> SUFFICES ASSUME s \notin exited \cup raced PROVE CalmAt(s)'
      OBVIOUS
    <2>1. CalmAt(s)
      BY <1>0
    <2>2. c # "again"
      BY <2>1 DEF CalmAt, HealAt
    <2>3. ObjectAt(s)' /\ HealAt(s)' /\ StartAt(s)'
      BY <1>2, <2>1, <2>2 DEF CalmAt, ObjectAt, HealAt, StartAt, Locked, Callers
    <2>4. TurnAt(s)' /\ WindowAt(s)'
      BY <1>0, <1>2, <2>1 DEF CalmAt, TurnAt, WindowAt, OneAt, Alive, Callers
    <2>5. QED BY <2>1, <2>3, <2>4 DEF CalmAt
  <1>9. QED BY <1>3, <1>4, <1>5, <1>6, <1>7, <1>8 DEF Good, Fine

LEMMA GetReusedGood ==
    ASSUME TerminalInv, NEW c \in Callers, NEW s \in Sessions, pc[c][s] = "get",
           ~Alive(s), ~Locked(s), pane[s] = "prompt",
           Installed(s, Reused(NewObject(s))), Goto(c, s, "have"),
           UNCHANGED <<pane, on, pid, windows, files, taken, hook, last, slots, real, disk, known,
                       warming, clearing, loop, removing, events, moved, exited, scanned, typed,
                       garbled, raced, dropped>>
    PROVE  Good({s})
  <1> DEFINE o == Reused(NewObject(s))
  <1>0. /\ Sorts /\ TypeOK /\ TypeInv /\ PaneAt(s) /\ OneAt(s)
        /\ s \notin raced => SlotAt(s)
        /\ s \notin exited \cup raced => CalmAt(s)
    BY Before
  <1>1. "have" \in Places
    BY DEF Places
  <1>2. /\ pc' \in [Callers -> [Sessions -> Places]] /\ pc'[c][s] = "have"
        /\ \A d \in Callers : d # c => pc'[d][s] = pc[d][s]
        /\ \A t \in Sessions \ {s} : /\ pc'["warm"][t] = pc["warm"][t]
                                     /\ pc'["again"][t] = pc["again"][t]
                                     /\ pc'["turn"][t] = pc["turn"][t]
    BY <1>0, <1>1, Went
  <1>3. o \in Object /\ o.here = TRUE /\ o.real = 0 /\ o.persisted = real[s]
    BY <1>0, NewObjectFacts, ReusedFacts
  <1> HIDE DEF o
  <1>4. /\ obj' \in [Sessions -> Object] /\ new' \in [Sessions -> Object]
        /\ obj'[s] = o /\ new'[s] = Absent /\ claimed' \subseteq Convs
        /\ \A t \in Sessions \ {s} : obj'[t] = obj[t] /\ new'[t] = new[t] /\ held'[t] = held[t]
        /\ held' \in [Sessions -> Holds]
        /\ pc["turn"][s] \notin {"have", "detect"} => held'[s] = held[s]
        /\ heal' \in Healing /\ heal'.at = heal.at /\ heal'.s = heal.s /\ heal'.todo = heal.todo
        /\ heal.s # s => heal' = heal
        /\ heal'.obj = heal.obj \/ heal'.obj = obj[s]
    <2>1. Installed(s, o)
      BY DEF o
    <2>2. QED BY <1>0, <1>3, <2>1, InstalledFacts
  <1>5. Sorts'
    BY <1>0, <1>2, <1>4 DEF Sorts, SortsOutside, SortsRecords, SortsObjects, SortsTasks, SortsHealth,
                            SortsMarks, SortsEvents
  <1>6. ASSUME NEW t \in Sessions \ {s} PROVE Frame(t)
    BY <1>2, <1>4 DEF Frame, Same, SameTasks, SameMarks
  <1>7. PaneAt(s)' /\ OneAt(s)'
    BY <1>0, <1>2, <1>4 DEF PaneAt, OneAt, Locked, Callers
  <1>8. NamesFine(s)
    BY <1>0, <1>3, <1>4, AbsentFacts, OldHas, NamesOld
  <1>9. s \notin raced' => SlotAt(s)'
    BY <1>0 DEF SlotAt
  <1>10. s \notin exited' \cup raced' => CalmAt(s)'
    <2> SUFFICES ASSUME s \notin exited \cup raced PROVE CalmAt(s)'
      OBVIOUS
    <2>1. CalmAt(s)
      BY <1>0
    <2>2. c # "again"
      BY <2>1 DEF CalmAt, HealAt
    <2>3. ObjectAt(s)' /\ HealAt(s)'
      BY <1>2, <1>3, <1>4, <2>1, <2>2 DEF CalmAt, ObjectAt, HealAt, Callers
    <2>4. StartAt(s)' /\ WindowAt(s)'
      BY <1>2, <2>1 DEF CalmAt, StartAt, Locked, WindowAt, Callers
    <2>5. TurnAt(s)'
      BY <1>3, <1>4 DEF TurnAt
    <2>6. QED BY <2>1, <2>3, <2>4, <2>5 DEF CalmAt
  <1>11. QED BY <1>5, <1>6, <1>7, <1>8, <1>9, <1>10 DEF Good, Fine

LEMMA GetMadeGood ==
    ASSUME TerminalInv, NEW c \in Callers, NEW s \in Sessions, pc[c][s] = "get",
           ~Alive(s), ~Locked(s), pane[s] # "prompt", Remade(s),
           new' = [new EXCEPT ![s] = Snapshot(NewObject(s))], obj' = [obj EXCEPT ![s].poll = FALSE],
           Goto(c, s, "launch"),
           UNCHANGED <<claimed, held, heal, files, taken, hook, last, slots, real, disk, known,
                       warming, clearing, loop, removing, events, moved, exited, scanned, typed,
                       garbled, raced, dropped>>
    PROVE  Good({s})
  <1>0. /\ Sorts /\ TypeOK /\ TypeInv /\ PaneAt(s) /\ OneAt(s)
        /\ s \notin raced => SlotAt(s)
        /\ s \notin exited \cup raced => CalmAt(s)
    BY Before
  <1>1. "launch" \in Places
    BY DEF Places
  <1>2. /\ pc' \in [Callers -> [Sessions -> Places]] /\ pc'[c][s] = "launch"
        /\ \A d \in Callers : d # c => pc'[d][s] = pc[d][s]
        /\ \A t \in Sessions \ {s} : /\ pc'["warm"][t] = pc["warm"][t]
                                     /\ pc'["again"][t] = pc["again"][t]
                                     /\ pc'["turn"][t] = pc["turn"][t]
    BY <1>0, <1>1, Went
  <1>3. /\ new' \in [Sessions -> Object] /\ new'[s].here = TRUE
        /\ new'[s].real = 0 /\ new'[s].persisted = real[s]
        /\ \A t \in Sessions \ {s} : new'[t] = new[t]
    <2> DEFINE n == Snapshot(NewObject(s))
    <2>1. n \in Object /\ n.here = TRUE /\ n.real = 0 /\ n.persisted = real[s]
      BY <1>0, NewObjectFacts, SnapshotFacts
    <2> HIDE DEF n
    <2>2. new' = [new EXCEPT ![s] = n]
      BY DEF n
    <2>3. new' \in [Sessions -> Object] /\ new'[s] = n /\ \A t \in Sessions \ {s} : new'[t] = new[t]
      BY <1>0, <2>1, <2>2, PutObject DEF Sorts, SortsObjects
    <2>4. QED BY <2>1, <2>3
  <1>4. /\ obj' \in [Sessions -> Object] /\ obj'[s].here = obj[s].here /\ obj'[s].ready = obj[s].ready
        /\ obj'[s].real = obj[s].real /\ obj'[s].persisted = obj[s].persisted
        /\ \A t \in Sessions \ {s} : obj'[t] = obj[t]
    <2> DEFINE o == [obj[s] EXCEPT !.poll = FALSE]
    <2>0. obj \in [Sessions -> Object] /\ obj[s] \in Object
      BY <1>0, TypeFacts
    <2>1. o \in Object /\ o.here = obj[s].here /\ o.ready = obj[s].ready
          /\ o.real = obj[s].real /\ o.persisted = obj[s].persisted
      BY <2>0, SetPoll
    <2>2. obj' = [obj EXCEPT ![s] = o]
      OBVIOUS
    <2> HIDE DEF o
    <2>3. o \in Object
      BY <2>1
    <2>4. /\ [obj EXCEPT ![s] = o] \in [Sessions -> Object] /\ [obj EXCEPT ![s] = o][s] = o
          /\ \A t \in Sessions \ {s} : [obj EXCEPT ![s] = o][t] = obj[t]
      BY <2>0, <2>3, PutObject
    <2>5. obj' \in [Sessions -> Object] /\ obj'[s] = o /\ \A t \in Sessions \ {s} : obj'[t] = obj[t]
      BY <2>2, <2>4
    <2>6. QED BY <2>1, <2>5
  <1>5. /\ pane' \in [Sessions -> Panes] /\ on' \in [Sessions -> Convs \cup {0}]
        /\ pid' \in [Sessions -> Convs \cup {0}] /\ windows' \in [Sessions -> Nat]
        /\ pane'[s] = "shell" /\ on'[s] = 0 /\ pid'[s] = 0 /\ windows'[s] = 0
        /\ \A t \in Sessions \ {s} : pane'[t] = pane[t] /\ on'[t] = on[t] /\ pid'[t] = pid[t]
                                     /\ windows'[t] = windows[t]
    BY <1>0, RemadeFacts
  <1>6. Sorts'
    BY <1>0, <1>2, <1>3, <1>4, <1>5
       DEF Sorts, SortsOutside, SortsRecords, SortsObjects, SortsTasks, SortsHealth,
           SortsMarks, SortsEvents, Known
  <1>7. ASSUME NEW t \in Sessions \ {s} PROVE Frame(t)
    BY <1>2, <1>3, <1>4, <1>5 DEF Frame, Same, SameTasks, SameMarks
  <1>8. PaneAt(s)' /\ OneAt(s)'
    BY <1>0, <1>2, <1>3, <1>5 DEF PaneAt, OneAt, Locked, Callers
  <1>9. NamesFine(s)
    BY <1>0, <1>3, <1>4, <1>5, OldHas, NamesOld
  <1>10. s \notin raced' => SlotAt(s)'
    BY <1>0 DEF SlotAt
  <1>11. s \notin exited' \cup raced' => CalmAt(s)'
    <2> SUFFICES ASSUME s \notin exited \cup raced PROVE CalmAt(s)'
      OBVIOUS
    <2>1. CalmAt(s)
      BY <1>0
    <2>2. c # "again"
      BY <2>1 DEF CalmAt, HealAt
    <2>3. ~obj[s].here /\ ~obj[s].ready
      BY <2>1 DEF CalmAt, ObjectAt, Alive
    <2>4. ObjectAt(s)' /\ HealAt(s)' /\ StartAt(s)'
      BY <1>2, <1>4, <1>5, <2>1, <2>2, <2>3 DEF CalmAt, ObjectAt, HealAt, StartAt, Callers
    <2>5. TurnAt(s)' /\ WindowAt(s)'
      BY <1>2, <1>5, <2>1, <2>3 DEF CalmAt, TurnAt, WindowAt, Callers
    <2>6. QED BY <2>1, <2>4, <2>5 DEF CalmAt
  <1>12. QED BY <1>6, <1>7, <1>8, <1>9, <1>10, <1>11 DEF Good, Fine

LEMMA GetGood ==
    ASSUME TerminalInv, NEW c \in Callers, NEW s \in Sessions, Get(c, s) PROVE Good({s})
  <1>1. /\ pc[c][s] = "get"
        /\ UNCHANGED <<files, taken, hook, last, slots, real, disk, known, warming, clearing, loop,
                       removing, events, moved, exited, scanned, typed, garbled, raced, dropped>>
    BY DEF Get, bounds, marks
  <1>2. CASE Alive(s) /\ Goto(c, s, "have")
             /\ UNCHANGED <<pane, on, pid, windows, obj, new, claimed, held, heal>>
    BY <1>1, <1>2, GetAliveGood
  <1>3. CASE ~Alive(s) /\ ~Locked(s) /\ pane[s] = "prompt"
             /\ Installed(s, Reused(NewObject(s))) /\ Goto(c, s, "have")
             /\ UNCHANGED <<pane, on, pid, windows>>
    BY <1>1, <1>3, GetReusedGood
  <1>4. CASE ~Alive(s) /\ ~Locked(s) /\ pane[s] # "prompt"
             /\ Remade(s) /\ new' = [new EXCEPT ![s] = Snapshot(NewObject(s))]
             /\ obj' = [obj EXCEPT ![s].poll = FALSE]
             /\ Goto(c, s, "launch") /\ UNCHANGED <<claimed, held, heal>>
    BY <1>1, <1>4, GetMadeGood
  <1>5. QED BY <1>2, <1>3, <1>4 DEF Get

LEMMA LaunchGood ==
    ASSUME TerminalInv, NEW c \in Callers, NEW s \in Sessions, Launch(c, s) PROVE Good({s})
  <1> DEFINE o == Launched(new[s])
  <1>0. /\ Sorts /\ TypeOK /\ TypeInv /\ PaneAt(s) /\ OneAt(s)
        /\ s \notin raced => SlotAt(s)
        /\ s \notin exited \cup raced => CalmAt(s)
    BY Before
  <1>1. /\ "have" \in Places /\ pc[c][s] = "launch" /\ Goto(c, s, "have")
        /\ CommandSent(s, new[s]) /\ Installed(s, o)
    BY DEF Places, Launch
  <1>2. /\ pc' \in [Callers -> [Sessions -> Places]] /\ pc'[c][s] = "have"
        /\ \A d \in Callers : d # c => pc'[d][s] = pc[d][s]
        /\ \A t \in Sessions \ {s} : /\ pc'["warm"][t] = pc["warm"][t]
                                     /\ pc'["again"][t] = pc["again"][t]
                                     /\ pc'["turn"][t] = pc["turn"][t]
    BY <1>0, <1>1, Went
  <1>3. new[s] \in Object /\ new[s].here
    BY <1>0, <1>1, TypeFacts DEF OneAt, Locked
  <1>4. o \in Object /\ o.here = new[s].here /\ o.ready = FALSE /\ o.real = new[s].real
        /\ o.persisted = new[s].persisted
    BY <1>3, LaunchedFacts
  <1> HIDE DEF o
  <1>5. /\ obj' \in [Sessions -> Object] /\ new' \in [Sessions -> Object]
        /\ obj'[s] = o /\ new'[s] = Absent /\ claimed' \subseteq Convs
        /\ \A t \in Sessions \ {s} : obj'[t] = obj[t] /\ new'[t] = new[t] /\ held'[t] = held[t]
        /\ held' \in [Sessions -> Holds]
        /\ pc["turn"][s] \notin {"have", "detect"} => held'[s] = held[s]
        /\ held'[s] = "ready" => held[s] = "ready" \/ obj[s].ready
        /\ heal' \in Healing /\ heal'.at = heal.at /\ heal'.s = heal.s /\ heal'.todo = heal.todo
        /\ heal.s # s => heal' = heal
        /\ heal'.obj = heal.obj \/ heal'.obj = obj[s]
    BY <1>0, <1>1, <1>4, InstalledFacts
  <1>6. /\ pane' \in [Sessions -> Panes] /\ on' \in [Sessions -> Convs \cup {0}]
        /\ pid' \in [Sessions -> Convs \cup {0}] /\ last' \in [Sessions -> Convs \cup {0}]
        /\ \A t \in Sessions \ {s} : pane'[t] = pane[t] /\ on'[t] = on[t] /\ pid'[t] = pid[t]
                                     /\ last'[t] = last[t]
        /\ taken \subseteq taken' /\ taken' \subseteq Convs
        /\ pane[s] = "shell" => /\ pane'[s] = "loading" /\ on'[s] # 0 /\ garbled' = garbled
                                /\ {on'[s], pid'[s], last'[s]} \subseteq Names(s) \cup (taken' \ taken)
        /\ pane[s] # "shell" => pane' = pane /\ on' = on /\ pid' = pid /\ last' = last
        /\ garbled' \in {garbled, garbled \cup {s}} /\ moved' \in {moved, moved \cup {s}}
    BY <1>0, <1>1, <1>3, OldHas, CommandFacts
  <1>7. Sorts'
    <2>1. SortsOutside' /\ SortsRecords' /\ SortsObjects' /\ SortsTasks'
      BY <1>0, <1>2, <1>5, <1>6
         DEF Launch, Sorts, SortsOutside, SortsRecords, SortsObjects, SortsTasks, Known
    <2>2. SortsHealth' /\ SortsMarks' /\ SortsEvents'
      BY <1>0, <1>5, <1>6 DEF Launch, Sorts, SortsHealth, SortsMarks, SortsEvents, bounds
    <2>3. QED BY <2>1, <2>2 DEF Sorts
  <1>8. ASSUME NEW t \in Sessions \ {s} PROVE Frame(t)
    BY <1>2, <1>5, <1>6 DEF Launch, Frame, Same, SameTasks, SameMarks
  <1>9. PaneAt(s)' /\ OneAt(s)'
    <2>1. PaneAt(s)'
      BY <1>0, <1>6 DEF Launch, PaneAt
    <2>2. ~Locked(s)'
      BY <1>0, <1>1, <1>2 DEF OneAt, Locked
    <2>3. OneAt(s)'
      BY <1>0, <1>1, <1>2, <1>5, <2>2 DEF OneAt, Locked, Callers
    <2>4. QED BY <2>1, <2>3
  <1>10. NamesFine(s)
    <2>1. {on'[s], pid'[s], last'[s]} \subseteq Old(s)
      BY <1>6, OldHas DEF Old
    <2>2. QED BY <1>0, <1>3, <1>4, <1>5, <1>6, <2>1, AbsentFacts, OldHas, NamesOld DEF Launch
  <1>11. s \notin raced' => SlotAt(s)'
    BY <1>0, <1>1 DEF Launch, SlotAt
  <1>12. s \notin exited' \cup raced' => CalmAt(s)'
    <2> SUFFICES ASSUME s \notin exited \cup raced PROVE CalmAt(s)'
      BY DEF Launch
    <2>1. CalmAt(s)
      BY <1>0
    <2>2. c # "again" /\ pane[s] = "shell" /\ ~obj[s].here /\ ~obj[s].ready
      BY <1>1, <2>1 DEF CalmAt, HealAt, StartAt, ObjectAt, Locked
    <2>3. ObjectAt(s)' /\ HealAt(s)'
      BY <1>2, <1>3, <1>4, <1>5, <1>6, <2>1, <2>2 DEF CalmAt, ObjectAt, HealAt, Callers
    <2>4. ~Locked(s)'
      BY <1>0, <1>1, <1>2 DEF OneAt, Locked
    <2>5. StartAt(s)' /\ WindowAt(s)'
      BY <1>2, <2>1, <2>4 DEF Launch, CalmAt, StartAt, WindowAt, Callers
    <2>6. TurnAt(s)'
      <3>1. obj'[s].here
        BY <1>3, <1>4, <1>5
      <3>2. CASE c = "turn"
        <4>1. held'[s] = "table"
          BY <1>0, <1>1, <1>5, <3>2 DEF OneAt
        <4>2. QED BY <3>1, <4>1 DEF TurnAt
      <3>3. CASE c # "turn"
        <4>1. pc'["turn"][s] = pc["turn"][s]
          BY <1>2, <3>3 DEF Callers
        <4>2. ~(pc["turn"][s] = "have" /\ held[s] = "ready")
          BY <2>1, <2>2 DEF CalmAt, TurnAt
        <4>3. held'[s] = "ready" => held[s] = "ready"
          BY <1>5, <2>2
        <4>4. QED BY <3>1, <4>1, <4>2, <4>3 DEF TurnAt
      <3>4. QED BY <3>2, <3>3
    <2>7. garbled' = garbled /\ typed' = typed
      BY <1>6, <2>2 DEF Launch
    <2>8. QED BY <2>1, <2>3, <2>5, <2>6, <2>7 DEF CalmAt
  <1>13. QED BY <1>6, <1>7, <1>8, <1>9, <1>10, <1>11, <1>12 DEF Good, Fine, Launch

-----------------------------------------------------------------------------
(* The health loop.                                                          *)
LEMMA IdleFacts ==
    /\ Idle.at = "idle" /\ Idle.s = 0 /\ Idle.todo = {} /\ Idle.obj = Absent /\ Idle \in Healing
    /\ \A s \in Sessions :
         LET h == [Idle EXCEPT !.at = "make", !.s = s]
         IN  h \in Healing /\ h.at = "make" /\ h.s = s /\ h.todo = {} /\ h.obj = Absent
    /\ \A T \in SUBSET Sessions :
         LET h == [Idle EXCEPT !.at = "recover", !.todo = T]
         IN  h \in Healing /\ h.at = "recover" /\ h.s = 0 /\ h.todo = T /\ h.obj = Absent
  <1>1. Idle.at = "idle" /\ Idle.s = 0 /\ Idle.todo = {} /\ Idle.obj = Absent /\ Idle \in Healing
    BY AbsentFacts DEF Idle, Healing
  <1>2. ASSUME NEW s \in Sessions
        PROVE  LET h == [Idle EXCEPT !.at = "make", !.s = s]
               IN  h \in Healing /\ h.at = "make" /\ h.s = s /\ h.todo = {} /\ h.obj = Absent
    BY AbsentFacts DEF Idle, Healing
  <1>3. ASSUME NEW T \in SUBSET Sessions
        PROVE  LET h == [Idle EXCEPT !.at = "recover", !.todo = T]
               IN  h \in Healing /\ h.at = "recover" /\ h.s = 0 /\ h.todo = T /\ h.obj = Absent
    BY AbsentFacts DEF Idle, Healing
  <1>4. QED BY <1>1, <1>2, <1>3

LEMMA HealthCheckGood == ASSUME TerminalInv, NEW s \in Sessions, HealthCheck(s) PROVE Good({s})
  <1>0. /\ Sorts /\ TypeOK /\ TypeInv /\ PaneAt(s) /\ OneAt(s)
        /\ s \notin raced => SlotAt(s)
        /\ s \notin exited \cup raced => CalmAt(s)
    BY Before
  <1>1. /\ heal' \in Healing /\ heal'.at = "make" /\ heal'.s = s /\ heal'.todo = {}
        /\ heal'.obj = Absent /\ s # 0
    BY IdleFacts, TerminalAssumption DEF HealthCheck
  <1>2. obj[s].here /\ pane[s] \in {"none", "shell"}
    BY DEF HealthCheck
  <1>3. Sorts'
    BY <1>0, <1>1 DEF HealthCheck, Sorts, SortsOutside, SortsRecords, SortsObjects,
             SortsTasks, SortsHealth, SortsMarks, SortsEvents, outside, records, tasks, bounds, marks
  <1>4. ASSUME NEW t \in Sessions \ {s} PROVE Frame(t)
    BY <1>1 DEF HealthCheck, Frame, Same, SameTasks, SameMarks, outside, records, tasks, marks
  <1>5. PaneAt(s)' /\ OneAt(s)'
    BY <1>0 DEF HealthCheck, PaneAt, OneAt, Locked, outside, tasks
  <1>6. NamesFine(s)
    BY <1>0, <1>1, AbsentFacts, OldHas, NamesOld DEF HealthCheck, outside, records
  <1>7. s \notin raced' => SlotAt(s)'
    BY <1>0, <1>2 DEF HealthCheck, SlotAt, marks
  <1>8. s \notin exited' \cup raced' => CalmAt(s)'
    BY <1>0, <1>2 DEF HealthCheck, CalmAt, ObjectAt, marks
  <1>9. QED BY <1>3, <1>4, <1>5, <1>6, <1>7, <1>8 DEF Good, Fine, HealthCheck, outside, marks

(* What the loop repairs is an object of its session, kept or replaced. *)
LEMMA HealFacts ==
    ASSUME TerminalInv, heal.at \in {"make", "launch"}
    PROVE  /\ heal.s \in Sessions /\ HealObject \in Object
           /\ HealObject.real \in Names(heal.s) /\ HealObject.persisted \in Names(heal.s)
           /\ heal.s \in exited \cup raced
           /\ heal.s \notin raced => heal.s \in slots
  <1>0. Sorts /\ SlotInv /\ CalmInv
    BY TypeParts DEF TerminalInv
  <1>1. heal \in Healing /\ heal.s # 0
    BY <1>0 DEF Sorts, SortsHealth
  <1>2. heal.s \in Sessions /\ heal.obj \in Object
    BY <1>1 DEF Healing
  <1>3. obj[heal.s] \in Object
    BY <1>0, <1>2 DEF Sorts, SortsObjects
  <1>4. HealObject \in Object
    BY <1>2, <1>3 DEF HealObject
  <1>5. HealObject.real \in Names(heal.s) /\ HealObject.persisted \in Names(heal.s)
    BY <1>2, OldHas DEF HealObject
  <1>6. heal.s \in exited \cup raced
    BY <1>0, <1>2 DEF CalmInv, CalmAt, HealAt
  <1>7. heal.s \notin raced => heal.s \in slots
    BY <1>0, <1>2 DEF SlotInv, SlotAt
  <1>8. QED BY <1>2, <1>4, <1>5, <1>6, <1>7

LEMMA HealUpdated ==
    ASSUME TypeInv, heal.s \in Sessions, NEW o \in Object, HealUpdates(o),
           o.real \in Names(heal.s), o.persisted \in Names(heal.s)
    PROVE  /\ obj' \in [Sessions -> Object]
           /\ obj'[heal.s].real \in Names(heal.s) /\ obj'[heal.s].persisted \in Names(heal.s)
           /\ \A t \in Sessions \ {heal.s} : obj'[t] = obj[t]
  <1>0. obj \in [Sessions -> Object]
    BY TypeFacts, TypeParts DEF TypeInv, Sorts, SortsObjects
  <1>1. CASE obj' = [obj EXCEPT ![heal.s] = o]
    BY <1>0, <1>1, PutObject
  <1>2. CASE obj' = obj
    BY <1>0, <1>2, OldHas
  <1>3. QED BY <1>1, <1>2 DEF HealUpdates

LEMMA HealthMakeGood ==
    ASSUME TerminalInv, NEW s \in Sessions, heal.s = s, HealthMake PROVE Good({s})
  <1>0. /\ heal.s = s /\ HealObject \in Object
        /\ HealObject.real \in Names(s) /\ HealObject.persisted \in Names(s)
        /\ s \in exited \cup raced /\ s # 0
        /\ s \notin raced => s \in slots
        /\ heal.at = "make"
    BY HealFacts, TerminalAssumption DEF HealthMake
  <1>1. /\ Sorts /\ TypeOK /\ TypeInv /\ PaneAt(s) /\ OneAt(s)
        /\ s \notin raced => SlotAt(s)
    BY <1>0, Before
  <1>2. /\ heal' \in Healing /\ heal'.at \in {"idle", "launch"}
        /\ heal'.at = "idle" => heal'.s = 0 /\ heal'.todo = {}
        /\ heal'.at = "launch" => /\ heal'.s = heal.s /\ heal'.obj = heal.obj
                                  /\ heal'.todo = heal.todo
    <2>1. CASE heal' = Idle
      BY <2>1, IdleFacts
    <2>2. CASE heal' = [heal EXCEPT !.at = "launch"]
      BY <1>1, <2>2 DEF Sorts, SortsHealth, Healing
    <2>3. QED BY <2>1, <2>2 DEF HealthMake
  <1>3. /\ obj' \in [Sessions -> Object]
        /\ obj'[s].real \in Names(s) /\ obj'[s].persisted \in Names(s)
        /\ \A t \in Sessions \ {s} : obj'[t] = obj[t]
    <2>1. CASE HealUpdates(Reused(HealObject))
      <3>1. /\ Reused(HealObject) \in Object /\ Reused(HealObject).real \in Names(s)
            /\ Reused(HealObject).persisted \in Names(s)
        BY <1>0, ReusedFacts
      <3>2. QED BY <1>0, <1>1, <2>1, <3>1, HealUpdated
    <2>2. CASE HealUpdates(Snapshot(HealObject))
      <3>1. /\ Snapshot(HealObject) \in Object /\ Snapshot(HealObject).real \in Names(s)
            /\ Snapshot(HealObject).persisted \in Names(s)
        BY <1>0, <1>1, SnapshotFacts
      <3>2. QED BY <1>0, <1>1, <2>2, <3>1, HealUpdated
    <2>3. QED BY <2>1, <2>2 DEF HealthMake
  <1>4. /\ pane' \in [Sessions -> Panes] /\ on' \in [Sessions -> Known]
        /\ pid' \in [Sessions -> Known] /\ windows' \in [Sessions -> Nat]
        /\ \/ UNCHANGED <<pane, on, pid, windows>>
           \/ pane'[s] = "shell" /\ on'[s] = 0 /\ pid'[s] = 0 /\ windows'[s] = 0
        /\ \A t \in Sessions \ {s} : pane'[t] = pane[t] /\ on'[t] = on[t] /\ pid'[t] = pid[t]
                                     /\ windows'[t] = windows[t]
    <2>1. CASE UNCHANGED <<pane, on, pid, windows>>
      BY <1>1, <2>1 DEF Sorts, SortsOutside
    <2>2. CASE Remade(s)
      BY <1>0, <1>1, <2>2, RemadeFacts DEF Known
    <2>3. QED BY <2>1, <2>2 DEF HealthMake
  <1>5. Sorts'
    <2>1. SortsOutside' /\ SortsRecords' /\ SortsObjects' /\ SortsTasks'
      BY <1>1, <1>3, <1>4 DEF HealthMake, Sorts, SortsOutside, SortsRecords, SortsObjects, SortsTasks,
                              records, tasks
    <2>2. SortsHealth'
      BY <1>0, <1>1, <1>2 DEF HealthMake, Sorts, SortsHealth
    <2>3. SortsMarks' /\ SortsEvents'
      BY <1>1 DEF HealthMake, Sorts, SortsMarks, SortsEvents, bounds, marks
    <2>4. QED BY <2>1, <2>2, <2>3 DEF Sorts
  <1>6. ASSUME NEW t \in Sessions \ {s} PROVE Frame(t)
    <2>1. /\ heal'.s = t => heal.s = t /\ heal'.obj = heal.obj /\ heal'.at = heal.at
          /\ t \in heal'.todo => t \in heal.todo
      BY <1>0, <1>2, TerminalAssumption
    <2>2. QED BY <1>3, <1>4, <2>1 DEF HealthMake, Frame, Same, SameTasks, SameMarks,
                 records, tasks, marks
  <1>7. PaneAt(s)' /\ OneAt(s)'
    BY <1>1, <1>4 DEF HealthMake, PaneAt, OneAt, Locked, tasks
  <1>8. NamesFine(s)
    BY <1>0, <1>1, <1>2, <1>3, <1>4, OldHas, NamesOld
       DEF HealthMake, records
  <1>9. s \notin raced' => SlotAt(s)'
    BY <1>0, <1>1 DEF HealthMake, SlotAt, marks
  <1>10. ~(s \notin exited' \cup raced')
    BY <1>0 DEF HealthMake, marks
  <1>11. QED BY <1>0, <1>5, <1>6, <1>7, <1>8, <1>9, <1>10 DEF Good, Fine, HealthMake, marks

LEMMA HealthLaunchGood ==
    ASSUME TerminalInv, NEW s \in Sessions, heal.s = s, HealthLaunch PROVE Good({s})
  <1>0. /\ heal.s = s /\ HealObject \in Object
        /\ HealObject.real \in Names(s) /\ HealObject.persisted \in Names(s)
        /\ s \in exited \cup raced
        /\ s \notin raced => s \in slots
        /\ CommandSent(s, HealObject)
    BY HealFacts DEF HealthLaunch
  <1>1. /\ Sorts /\ TypeOK /\ TypeInv /\ PaneAt(s) /\ OneAt(s)
        /\ s \notin raced => SlotAt(s)
    BY Before
  <1>2. heal' = Idle /\ heal' \in Healing /\ heal'.at = "idle" /\ heal'.s = 0 /\ heal'.todo = {}
    BY IdleFacts DEF HealthLaunch
  <1>3. /\ obj' \in [Sessions -> Object]
        /\ obj'[s].real \in Names(s) /\ obj'[s].persisted \in Names(s)
        /\ \A t \in Sessions \ {s} : obj'[t] = obj[t]
    <2>1. /\ Launched(HealObject) \in Object /\ Launched(HealObject).real \in Names(s)
          /\ Launched(HealObject).persisted \in Names(s)
      BY <1>0, LaunchedFacts
    <2>2. HealUpdates(Launched(HealObject))
      BY DEF HealthLaunch
    <2>3. QED BY <1>0, <1>1, <2>1, <2>2, HealUpdated
  <1>4. /\ pane' \in [Sessions -> Panes] /\ on' \in [Sessions -> Convs \cup {0}]
        /\ pid' \in [Sessions -> Convs \cup {0}] /\ last' \in [Sessions -> Convs \cup {0}]
        /\ \A t \in Sessions \ {s} : pane'[t] = pane[t] /\ on'[t] = on[t] /\ pid'[t] = pid[t]
                                     /\ last'[t] = last[t]
        /\ taken \subseteq taken' /\ taken' \subseteq Convs
        /\ pane[s] = "shell" => /\ pane'[s] = "loading" /\ on'[s] # 0
                                /\ {on'[s], pid'[s], last'[s]} \subseteq Names(s) \cup (taken' \ taken)
        /\ pane[s] # "shell" => pane' = pane /\ on' = on /\ pid' = pid /\ last' = last
        /\ garbled' \in {garbled, garbled \cup {s}} /\ moved' \in {moved, moved \cup {s}}
    BY <1>0, <1>1, CommandFacts
  <1>5. Sorts'
    <2>1. SortsOutside' /\ SortsRecords' /\ SortsObjects' /\ SortsTasks'
      BY <1>1, <1>3, <1>4 DEF HealthLaunch, Sorts, SortsOutside, SortsRecords, SortsObjects,
                              SortsTasks, records, tasks, Known
    <2>2. SortsHealth'
      BY <1>1, <1>2 DEF HealthLaunch, Sorts, SortsHealth
    <2>3. SortsMarks' /\ SortsEvents'
      BY <1>1, <1>4 DEF HealthLaunch, Sorts, SortsMarks, SortsEvents, bounds
    <2>4. QED BY <2>1, <2>2, <2>3 DEF Sorts
  <1>6. ASSUME NEW t \in Sessions \ {s} PROVE Frame(t)
    BY <1>2, <1>3, <1>4, TerminalAssumption
       DEF HealthLaunch, Frame, Same, SameTasks, SameMarks, records, tasks
  <1>7. PaneAt(s)' /\ OneAt(s)'
    BY <1>1, <1>4 DEF HealthLaunch, PaneAt, OneAt, Locked, tasks
  <1>8. NamesFine(s)
    <2>1. {on'[s], pid'[s], last'[s]} \subseteq Old(s)
      BY <1>4, OldHas DEF Old
    <2>2. QED BY <1>1, <1>2, <1>3, <1>4, <2>1, OldHas, NamesOld, TerminalAssumption
              DEF HealthLaunch, records
  <1>9. s \notin raced' => SlotAt(s)'
    BY <1>0, <1>1 DEF HealthLaunch, SlotAt
  <1>10. ~(s \notin exited' \cup raced')
    BY <1>0 DEF HealthLaunch
  <1>11. QED BY <1>4, <1>5, <1>6, <1>7, <1>8, <1>9, <1>10 DEF Good, Fine, HealthLaunch

LEMMA RecoverGood == ASSUME TerminalInv, Recover PROVE Good(Sessions)
  <1>0. Sorts /\ TypeOK /\ TypeInv
    BY TypeParts DEF TerminalInv, TypeInv
  <1> DEFINE T == {s \in Sessions : obj[s].here}
  <1>1. /\ heal' \in Healing /\ heal'.at = "recover" /\ heal'.s = 0 /\ heal'.todo = T
    BY IdleFacts DEF Recover
  <1>2. /\ held' \in [Sessions -> Holds]
        /\ \A t \in Sessions :
             /\ held'[t] = "table" => pc["turn"][t] \notin {"have", "detect"}
             /\ pc["turn"][t] \notin {"have", "detect"} => held'[t] = held[t]
             /\ held'[t] = "ready" => held[t] = "ready" \/ obj[t].ready
    BY <1>0, ReplacedFacts DEF Recover
  <1>3. Sorts'
    <2>1. SortsOutside' /\ SortsRecords' /\ SortsMarks' /\ SortsEvents'
      BY <1>0 DEF Recover, Sorts, SortsOutside, SortsRecords, SortsMarks, SortsEvents,
                  outside, records, bounds, marks
    <2>2. SortsObjects' /\ SortsTasks'
      BY <1>0, <1>2, AbsentFacts DEF Recover, Sorts, SortsObjects, SortsTasks
    <2>3. SortsHealth'
      BY <1>0, <1>1 DEF Recover, Sorts, SortsHealth
    <2>4. QED BY <2>1, <2>2, <2>3 DEF Sorts
  <1>4. ASSUME NEW s \in Sessions PROVE Fine(s)
    <2>0. /\ PaneAt(s) /\ OneAt(s)
          /\ s \notin raced => SlotAt(s)
          /\ s \notin exited \cup raced => CalmAt(s)
      BY Before
    <2>1. pane[s] = "none" /\ obj'[s] = Absent /\ s # 0
      BY TerminalAssumption DEF Recover, NoServer
    <2>2. PaneAt(s)' /\ OneAt(s)'
      BY <1>2, <2>0 DEF Recover, PaneAt, OneAt, Locked, outside
    <2>3. NamesFine(s)
      BY <1>0, <1>1, <2>1, AbsentFacts, OldHas, NamesOld DEF Recover, outside, records
    <2>4. s \notin raced' => SlotAt(s)'
      BY <1>1, <2>0, <2>1, AbsentFacts DEF Recover, SlotAt, outside, marks
    <2>5. s \notin exited' \cup raced' => CalmAt(s)'
      <3> SUFFICES ASSUME s \notin exited \cup raced PROVE CalmAt(s)'
        BY DEF Recover, marks
      <3>1. CalmAt(s)
        BY <2>0
      <3>2. ~obj[s].here /\ ~obj[s].ready
        BY <2>1, <3>1 DEF CalmAt, ObjectAt
      <3>3. ObjectAt(s)' /\ HealAt(s)'
        BY <1>1, <2>1, <3>1, <3>2, AbsentFacts DEF Recover, CalmAt, ObjectAt, HealAt
      <3>4. StartAt(s)' /\ WindowAt(s)'
        BY <2>1, <3>1, AbsentFacts DEF Recover, CalmAt, StartAt, Locked, WindowAt, outside
      <3>5. TurnAt(s)'
        <4>1. ~(pc["turn"][s] = "have" /\ held[s] = "ready")
          BY <2>1, <3>1 DEF CalmAt, TurnAt
        <4>2. QED BY <1>2, <3>2, <4>1 DEF Recover, TurnAt
      <3>6. QED BY <3>1, <3>3, <3>4, <3>5 DEF Recover, CalmAt, marks
    <2>6. QED BY <2>2, <2>3, <2>4, <2>5 DEF Fine
  <1>5. QED BY <1>3, <1>4 DEF Good, Recover, outside, marks

LEMMA RebuildGood == ASSUME TerminalInv, NEW s \in Sessions, Rebuild(s) PROVE Good({s})
  <1>0. /\ Sorts /\ TypeOK /\ TypeInv /\ PaneAt(s) /\ OneAt(s)
        /\ s \notin raced => SlotAt(s)
        /\ s \notin exited \cup raced => CalmAt(s)
    BY Before
  <1>1. heal \in Healing /\ heal.at = "recover" /\ heal.s = 0 /\ s \in heal.todo /\ s # 0
    BY <1>0, TerminalAssumption DEF Rebuild, Sorts, SortsHealth
  <1>2. s \in exited \cup raced /\ (s \notin raced => s \in slots)
    BY <1>0, <1>1 DEF CalmAt, HealAt, SlotAt
  <1>3. /\ heal' \in Healing /\ heal'.obj = heal.obj
        /\ heal'.todo \subseteq heal.todo
        /\ \/ heal'.at = "recover" /\ heal'.s = 0
           \/ heal'.at = "rebuild" /\ heal'.s = s
    <2>1. CASE heal' = [heal EXCEPT !.todo = @ \ {s}]
      BY <1>1, <2>1 DEF Healing
    <2>2. CASE heal' = [heal EXCEPT !.at = "rebuild", !.s = s]
      BY <1>1, <2>2 DEF Healing
    <2>3. QED BY <2>1, <2>2 DEF Rebuild
  <1>4. /\ pc' \in [Callers -> [Sessions -> Places]] /\ warming' \subseteq Sessions
        /\ pc'["turn"][s] = pc["turn"][s] /\ pc'["warm"][s] = pc["warm"][s]
        /\ pc'["again"][s] \in {pc["again"][s], "get"}
        /\ \A t \in Sessions \ {s} : /\ pc'["warm"][t] = pc["warm"][t]
                                     /\ pc'["again"][t] = pc["again"][t]
                                     /\ pc'["turn"][t] = pc["turn"][t]
    <2>1. CASE UNCHANGED <<warming, pc>>
      BY <1>0, <2>1 DEF Sorts, SortsTasks
    <2>2. CASE warming' = warming \cup {s} /\ Goto("again", s, "get")
      <3>1. "again" \in Callers /\ "get" \in Places /\ "turn" \in Callers /\ "warm" \in Callers
        BY DEF Callers, Places
      <3>2. /\ pc' \in [Callers -> [Sessions -> Places]] /\ pc'["again"][s] = "get"
            /\ \A d \in Callers : d # "again" => pc'[d][s] = pc[d][s]
            /\ \A t \in Sessions \ {s} : /\ pc'["warm"][t] = pc["warm"][t]
                                         /\ pc'["again"][t] = pc["again"][t]
                                         /\ pc'["turn"][t] = pc["turn"][t]
        BY <1>0, <2>2, <3>1, Went
      <3>3. warming' \subseteq Sessions
        BY <1>0, <2>2 DEF Sorts, SortsTasks
      <3>4. QED BY <3>1, <3>2, <3>3
    <2>3. QED BY <2>1, <2>2 DEF Rebuild
  <1>5. Sorts'
    <2>1. SortsHealth'
      BY <1>0, <1>1, <1>3 DEF Rebuild, Sorts, SortsHealth
    <2>2. QED BY <1>0, <1>4, <2>1 DEF Rebuild, Sorts, SortsOutside, SortsRecords, SortsObjects,
             SortsTasks, SortsMarks, SortsEvents, outside, records, bounds, marks
  <1>6. ASSUME NEW t \in Sessions \ {s} PROVE Frame(t)
    BY <1>3, <1>4, TerminalAssumption
       DEF Rebuild, Frame, Same, SameTasks, SameMarks, outside, records, marks
  <1>7. PaneAt(s)' /\ OneAt(s)'
    BY <1>0, <1>4 DEF Rebuild, PaneAt, OneAt, Locked, outside, Callers
  <1>8. NamesFine(s)
    BY <1>0, <1>1, <1>3, OldHas, NamesOld DEF Rebuild, outside, records
  <1>9. s \notin raced' => SlotAt(s)'
    BY <1>0, <1>2 DEF Rebuild, SlotAt, marks
  <1>10. ~(s \notin exited' \cup raced')
    BY <1>2 DEF Rebuild, marks
  <1>11. QED BY <1>5, <1>6, <1>7, <1>8, <1>9, <1>10 DEF Good, Fine, Rebuild, outside, marks

LEMMA RebuiltGood == ASSUME TerminalInv, Rebuilt PROVE Good({})
  <1>0. Sorts /\ TypeOK /\ TypeInv
    BY TypeParts DEF TerminalInv, TypeInv
  <1>1. heal' \in Healing /\ heal'.s = 0 /\ heal'.at \in {"idle", "recover"} /\ heal'.todo \subseteq heal.todo
    <2>1. CASE heal' = Idle
      BY <2>1, IdleFacts
    <2>2. CASE heal' = [Idle EXCEPT !.at = "recover", !.todo = heal.todo \ {heal.s}]
      <3>1. heal.todo \ {heal.s} \in SUBSET Sessions
        BY <1>0 DEF Sorts, SortsHealth, Healing
      <3> DEFINE T == heal.todo \ {heal.s}
      <3>2. T \in SUBSET Sessions /\ T \subseteq heal.todo
        BY <3>1
      <3>3. heal' = [Idle EXCEPT !.at = "recover", !.todo = T]
        BY <2>2
      <3> HIDE DEF T
      <3>4. QED BY <3>2, <3>3, IdleFacts
    <2>3. QED BY <2>1, <2>2 DEF Rebuilt
  <1>2. Sorts'
    <2>1. SortsHealth'
      BY <1>0, <1>1 DEF Rebuilt, Sorts, SortsHealth
    <2>2. QED BY <1>0, <2>1 DEF Rebuilt, Sorts, SortsOutside, SortsRecords, SortsObjects,
             SortsTasks, SortsMarks, SortsEvents, outside, records, tasks, bounds, marks
  <1>3. ASSUME NEW t \in Sessions PROVE Frame(t)
    BY <1>1, TerminalAssumption
       DEF Rebuilt, Frame, Same, SameTasks, SameMarks, outside, records, tasks, marks
  <1>4. QED BY <1>2, <1>3 DEF Good, Rebuilt, outside, marks

-----------------------------------------------------------------------------
(* Slots are removed and added.                                              *)
LEMMA RemoveGood == ASSUME TerminalInv, NEW s \in Sessions, Remove(s) PROVE Good({s})
  <1>0. /\ Sorts /\ TypeOK /\ TypeInv /\ PaneAt(s) /\ OneAt(s)
        /\ s \notin exited \cup raced => CalmAt(s)
    BY Before
  <1>1. /\ obj' \in [Sessions -> Object] /\ obj'[s] = Absent
        /\ \A t \in Sessions \ {s} : obj'[t] = obj[t]
    <2>1. obj \in [Sessions -> Object] /\ obj' = [obj EXCEPT ![s] = Absent]
      BY <1>0 DEF Remove, Sorts, SortsObjects
    <2>2. QED BY <2>1, PutObject, AbsentFacts
  <1>2. /\ held' \in [Sessions -> Holds]
        /\ \A t \in Sessions \ {s} : held'[t] = held[t]
        /\ pc["turn"][s] \notin {"have", "detect"} => held'[s] = held[s]
    <2>1. Replaced({s}) /\ {s} \in SUBSET Sessions
      BY DEF Remove
    <2>2. QED BY <1>0, <2>1, ReplacedFacts
  <1>3. /\ heal' \in Healing
        /\ heal'.at = heal.at /\ heal'.s = heal.s /\ heal'.todo = heal.todo
        /\ heal.s # s => heal' = heal
        /\ heal'.obj = heal.obj \/ heal'.obj = obj[s]
    BY <1>0, DetachedFacts DEF Remove
  <1>4. /\ real' \in [Sessions -> Known] /\ real'[s] = 0
        /\ \A t \in Sessions \ {s} : real'[t] = real[t]
        /\ claimed' \subseteq Convs /\ known' \subseteq Sessions
    BY <1>0 DEF Remove, Sorts, SortsRecords, Known
  <1>5. /\ slots' = slots \ {s} /\ removing' = removing \cup {s} /\ raced \subseteq raced'
        /\ raced' \subseteq raced \cup {s} /\ clearing' \subseteq Sessions
        /\ s \notin raced' => /\ heal.s # s /\ s \notin heal.todo
                              /\ \A c \in Callers : pc[c][s] = "idle"
    BY <1>0 DEF Remove, Sorts, SortsTasks
  <1>6. Sorts'
    <2>1. SortsEvents'
      BY <1>0, EventFacts DEF Remove, Sorts
    <2>2. SortsOutside' /\ SortsRecords' /\ SortsObjects'
      BY <1>0, <1>1, <1>4 DEF Remove, Sorts, SortsOutside, SortsRecords, SortsObjects, outside
    <2>3. SortsTasks' /\ SortsHealth'
      BY <1>0, <1>2, <1>3, <1>5 DEF Remove, Sorts, SortsTasks, SortsHealth
    <2>4. SortsMarks'
      BY <1>0, <1>5 DEF Remove, Sorts, SortsMarks
    <2>5. QED BY <2>1, <2>2, <2>3, <2>4 DEF Sorts
  <1>7. ASSUME NEW t \in Sessions \ {s} PROVE Frame(t)
    <2>1. Same(t)
      BY <1>1, <1>2, <1>4 DEF Remove, Same, outside
    <2>2. SameTasks(t)
      BY <1>3 DEF Remove, SameTasks
    <2>3. SameMarks(t)
      BY <1>5 DEF Remove, SameMarks
    <2>4. QED BY <2>1, <2>2, <2>3 DEF Frame
  <1>8. PaneAt(s)' /\ OneAt(s)'
    BY <1>0, <1>2 DEF Remove, PaneAt, OneAt, Locked, outside
  <1>9. NamesFine(s)
    BY <1>0, <1>1, <1>3, <1>4, AbsentFacts, OldHas, NamesOld DEF Remove, outside
  <1>10. s \notin raced' => SlotAt(s)'
    BY <1>1, <1>3, <1>5, AbsentFacts DEF Remove, SlotAt
  <1>11. s \notin exited' \cup raced' => CalmAt(s)'
    <2> SUFFICES ASSUME s \notin exited', s \notin raced' PROVE CalmAt(s)'
      OBVIOUS
    <2>1. CalmAt(s)
      BY <1>0, <1>5 DEF Remove
    <2>2. /\ heal' = heal /\ \A c \in Callers : pc'[c][s] = "idle"
          /\ pc'["warm"][s] = "idle" /\ pc'["again"][s] = "idle" /\ pc'["turn"][s] = "idle"
      BY <1>3, <1>5 DEF Remove, Callers
    <2>3. ObjectAt(s)' /\ HealAt(s)' /\ StartAt(s)'
      BY <1>1, <1>5, <2>1, <2>2, AbsentFacts DEF CalmAt, ObjectAt, HealAt, StartAt, Locked
    <2>4. TurnAt(s)' /\ WindowAt(s)'
      BY <2>1, <2>2 DEF Remove, CalmAt, TurnAt, WindowAt, outside
    <2>5. QED BY <2>1, <2>3, <2>4 DEF Remove, CalmAt
  <1>12. QED BY <1>6, <1>7, <1>8, <1>9, <1>10, <1>11 DEF Good, Fine, Remove, outside

LEMMA RemoveKillGood == ASSUME TerminalInv, NEW s \in Sessions, RemoveKill(s) PROVE Good({s})
  <1>0. /\ Sorts /\ TypeOK /\ TypeInv /\ PaneAt(s) /\ OneAt(s)
        /\ s \notin raced => SlotAt(s)
        /\ s \notin exited \cup raced => CalmAt(s)
    BY Before
  <1>1. /\ pane' \in [Sessions -> Panes] /\ on' \in [Sessions -> Convs \cup {0}]
        /\ pid' \in [Sessions -> Convs \cup {0}] /\ windows' \in [Sessions -> Nat]
        /\ pane'[s] = "none" /\ on'[s] = 0 /\ pid'[s] = 0 /\ windows'[s] = 0
        /\ \A t \in Sessions \ {s} : pane'[t] = pane[t] /\ on'[t] = on[t] /\ pid'[t] = pid[t]
                                     /\ windows'[t] = windows[t]
    <2>1. Killed({s}) /\ {s} \in SUBSET Sessions
      BY DEF RemoveKill
    <2>2. QED BY <1>0, <2>1, KilledFacts
  <1>2. /\ heal' \in Healing
        /\ heal'.at \in {"make", "launch", "rebuild"} <=> heal'.s # 0
        /\ heal' = heal \/ (heal'.s = 0 /\ heal'.todo = {})
        /\ loop' \in BOOLEAN
    <2>1. CASE UNCHANGED health
      BY <1>0, <2>1 DEF Sorts, SortsHealth, health
    <2>2. CASE heal' = Idle /\ loop' = FALSE
      BY <2>2, IdleFacts
    <2>3. QED BY <2>1, <2>2 DEF RemoveKill
  <1>3. /\ pc' \in [Callers -> [Sessions -> Places]] /\ warming' \subseteq Sessions
        /\ \A t \in Sessions : /\ pc'["warm"][t] = pc["warm"][t] /\ pc'["turn"][t] = pc["turn"][t]
                               /\ pc'["again"][t] \in {pc["again"][t], "idle"}
    <2>0. /\ pc \in [Callers -> [Sessions -> Places]] /\ warming \subseteq Sessions
          /\ "again" \in Callers /\ "warm" \in Callers /\ "turn" \in Callers
      BY <1>0 DEF Sorts, SortsTasks, Callers
    <2>1. CASE UNCHANGED <<pc, warming>>
      BY <2>0, <2>1
    <2>2. CASE /\ pc' = [pc EXCEPT !["again"] = [t \in Sessions |-> "idle"]]
               /\ warming' = warming \ {t \in Sessions : pc["again"][t] # "idle"}
      BY <2>0, <2>2 DEF Places
    <2>3. QED BY <2>1, <2>2 DEF RemoveKill
  <1>4. s \in removing /\ removing' = removing \ {s}
    BY DEF RemoveKill
  <1>5. Sorts'
    <2>1. SortsOutside' /\ SortsRecords' /\ SortsObjects' /\ SortsEvents'
      BY <1>0, <1>1 DEF RemoveKill, Sorts, SortsOutside, SortsRecords, SortsObjects, SortsEvents,
                        records, bounds, Known
    <2>2. SortsTasks'
      BY <1>0, <1>3 DEF RemoveKill, Sorts, SortsTasks
    <2>3. SortsHealth'
      BY <1>2 DEF SortsHealth
    <2>4. SortsMarks'
      BY <1>0, <1>4 DEF RemoveKill, Sorts, SortsMarks, marks
    <2>5. QED BY <2>1, <2>2, <2>3, <2>4 DEF Sorts
  <1>6. ASSUME NEW t \in Sessions \ {s} PROVE Frame(t)
    <2>1. Same(t) /\ SameMarks(t)
      BY <1>1, <1>4 DEF RemoveKill, Same, SameMarks, records, marks
    <2>2. SameTasks(t)
      BY <1>2, <1>3, TerminalAssumption DEF SameTasks
    <2>3. QED BY <2>1, <2>2 DEF Frame
  <1>7. PaneAt(s)' /\ OneAt(s)'
    BY <1>0, <1>1, <1>3 DEF RemoveKill, PaneAt, OneAt, Locked, Callers
  <1>8. NamesFine(s)
    BY <1>0, <1>1, <1>2, OldHas, NamesOld, TerminalAssumption DEF RemoveKill, records
  <1>9. s \notin raced => /\ s \notin slots /\ ~obj[s].here /\ heal.s # s /\ s \notin heal.todo
                          /\ \A c \in Callers : pc'[c][s] = "idle"
    BY <1>0, <1>3, <1>4 DEF SlotAt, Callers
  <1>10. s \notin raced' => SlotAt(s)'
    BY <1>1, <1>2, <1>4, <1>9, TerminalAssumption DEF RemoveKill, SlotAt, marks
  <1>11. s \notin exited' \cup raced' => CalmAt(s)'
    <2> SUFFICES ASSUME s \notin exited \cup raced PROVE CalmAt(s)'
      BY DEF RemoveKill, marks
    <2>1. CalmAt(s)
      BY <1>0
    <2>2. ~obj[s].here /\ ~obj[s].ready
      BY <1>9, <2>1 DEF CalmAt, ObjectAt
    <2>3. ObjectAt(s)' /\ HealAt(s)' /\ StartAt(s)'
      BY <1>2, <1>9, <2>2, TerminalAssumption
         DEF RemoveKill, ObjectAt, HealAt, StartAt, Locked, Callers
    <2>4. TurnAt(s)' /\ WindowAt(s)'
      BY <1>1, <1>9 DEF TurnAt, WindowAt, Callers
    <2>5. QED BY <2>1, <2>3, <2>4 DEF RemoveKill, CalmAt, marks
  <1>12. QED BY <1>5, <1>6, <1>7, <1>8, <1>10, <1>11 DEF Good, Fine, RemoveKill, marks

LEMMA AddSlotGood == ASSUME TerminalInv, NEW s \in Sessions, AddSlot(s) PROVE Good({s})
  <1>0. /\ Sorts /\ TypeOK /\ TypeInv /\ PaneAt(s) /\ OneAt(s)
        /\ s \notin raced => SlotAt(s)
        /\ s \notin exited \cup raced => CalmAt(s)
    BY Before
  <1>1. SortsEvents'
    <2>1. Cardinality(slots) \in Nat
      BY <1>0, TerminalAssumption, FS_Subset, FS_CardinalityType DEF Sorts, SortsMarks
    <2>2. QED BY <1>0, <2>1, TerminalAssumption DEF AddSlot, Sorts, SortsEvents
  <1>2. /\ pc' \in [Callers -> [Sessions -> Places]]
        /\ warming' \subseteq Sessions /\ loop' \in BOOLEAN
        /\ pc'["turn"][s] = pc["turn"][s] /\ pc'["again"][s] = pc["again"][s]
        /\ pc'["warm"][s] \in {pc["warm"][s], "get"}
        /\ \A t \in Sessions \ {s} : /\ pc'["warm"][t] = pc["warm"][t]
                                     /\ pc'["again"][t] = pc["again"][t]
                                     /\ pc'["turn"][t] = pc["turn"][t]
    <2>1. CASE UNCHANGED <<warming, pc, loop>>
      BY <1>0, <2>1 DEF Sorts, SortsTasks, SortsHealth
    <2>2. CASE warming' = warming \cup {s} /\ Goto("warm", s, "get") /\ loop' = TRUE
      <3>1. "again" \in Callers /\ "get" \in Places /\ "turn" \in Callers /\ "warm" \in Callers
        BY DEF Callers, Places
      <3>2. /\ pc' \in [Callers -> [Sessions -> Places]] /\ pc'["warm"][s] = "get"
            /\ \A d \in Callers : d # "warm" => pc'[d][s] = pc[d][s]
            /\ \A t \in Sessions \ {s} : /\ pc'["warm"][t] = pc["warm"][t]
                                         /\ pc'["again"][t] = pc["again"][t]
                                         /\ pc'["turn"][t] = pc["turn"][t]
        BY <1>0, <2>2, <3>1, Went
      <3>3. warming' \subseteq Sessions /\ loop' \in BOOLEAN
        BY <1>0, <2>2 DEF Sorts, SortsTasks
      <3>4. QED BY <3>1, <3>2, <3>3
    <2>3. QED BY <2>1, <2>2 DEF AddSlot
  <1>3. /\ s \notin slots /\ slots' = slots \cup {s} /\ raced \subseteq raced'
        /\ raced' \subseteq raced \cup {s} /\ (s \notin raced' => s \notin removing)
    BY DEF AddSlot
  <1>4. Sorts'
    <2>1. SortsOutside' /\ SortsRecords' /\ SortsObjects' /\ SortsHealth'
      BY <1>0, <1>2 DEF AddSlot, Sorts, SortsOutside, SortsRecords, SortsObjects, SortsHealth,
                        outside, records
    <2>2. SortsTasks' /\ SortsMarks'
      BY <1>0, <1>2, <1>3 DEF AddSlot, Sorts, SortsTasks, SortsMarks
    <2>3. QED BY <1>1, <2>1, <2>2 DEF Sorts
  <1>5. ASSUME NEW t \in Sessions \ {s} PROVE Frame(t)
    BY <1>2, <1>3 DEF AddSlot, Frame, Same, SameTasks, SameMarks, outside, records
  <1>6. PaneAt(s)' /\ OneAt(s)'
    BY <1>0, <1>2 DEF AddSlot, PaneAt, OneAt, Locked, Callers, outside
  <1>7. NamesFine(s)
    BY <1>0, OldHas, NamesOld DEF AddSlot, outside, records
  <1>8. s \notin raced' => SlotAt(s)'
    BY <1>3 DEF AddSlot, SlotAt
  <1>9. s \notin exited' \cup raced' => CalmAt(s)'
    <2> SUFFICES ASSUME s \notin exited', s \notin raced' PROVE CalmAt(s)'
      OBVIOUS
    <2>1. CalmAt(s) /\ SlotAt(s)
      BY <1>0, <1>3 DEF AddSlot
    <2>2. ~Locked(s)' /\ pc'["warm"][s] # "open" /\ pc'["turn"][s] = "idle"
      BY <1>2, <1>3, <2>1 DEF SlotAt, Locked, Callers
    <2>3. ObjectAt(s)' /\ HealAt(s)' /\ StartAt(s)'
      BY <1>2, <2>1, <2>2 DEF AddSlot, CalmAt, ObjectAt, HealAt, StartAt, outside
    <2>4. TurnAt(s)' /\ WindowAt(s)'
      BY <2>1, <2>2 DEF AddSlot, CalmAt, TurnAt, WindowAt, outside
    <2>5. QED BY <2>1, <2>3, <2>4 DEF AddSlot, CalmAt
  <1>10. QED BY <1>4, <1>5, <1>6, <1>7, <1>8, <1>9 DEF Good, Fine, AddSlot, outside

-----------------------------------------------------------------------------
(* The conversation is cleared or compacted, or the terminal is given up.    *)
LEMMA ClearedGood ==
    ASSUME TerminalInv, NEW s \in Sessions, Event, Cleared(s),
           UNCHANGED <<slots, new, records, warming, pc, loop, removing, exited, scanned, garbled,
                       raced>>,
           dropped' \in {dropped, dropped \cup {s}}
    PROVE  Good({s})
  <1> DEFINE o == [obj[s] EXCEPT !.ready = pane[s] = "prompt"]
  <1>0. /\ Sorts /\ TypeOK /\ TypeInv /\ PaneAt(s) /\ OneAt(s)
        /\ s \notin raced => SlotAt(s)
        /\ s \notin exited \cup raced => CalmAt(s)
    BY Before
  <1>1. o \in Object /\ o.ready = (pane[s] = "prompt") /\ o.here = obj[s].here
        /\ o.real = obj[s].real /\ o.persisted = obj[s].persisted
    <2>1. obj[s] \in Object /\ (pane[s] = "prompt") \in BOOLEAN
      BY <1>0, TypeFacts
    <2>2. QED BY <2>1, SetReady
  <1>2. obj' = [obj EXCEPT ![s] = o] /\ UNCHANGED <<pane, pid, windows, held, heal>>
        /\ clearing' = clearing \cup {s} /\ Alive(s) /\ (obj[s].ready \/ pane[s] = "prompt")
    BY DEF Cleared
  <1> HIDE DEF o
  <1>3. /\ obj' \in [Sessions -> Object] /\ obj'[s] = o
        /\ \A t \in Sessions \ {s} : obj'[t] = obj[t]
    <2>1. obj \in [Sessions -> Object]
      BY <1>0 DEF Sorts, SortsObjects
    <2>2. QED BY <1>1, <1>2, <2>1, PutObject
  <1>4. /\ on' \in [Sessions -> Known] /\ last' \in [Sessions -> Known] /\ hook' \in [Sessions -> Known]
        /\ {on'[s], last'[s], hook'[s]} \subseteq Old(s)
        /\ pane[s] \in {"none", "shell"} <=> on'[s] = 0
        /\ \A t \in Sessions \ {s} : on'[t] = on[t] /\ last'[t] = last[t] /\ hook'[t] = hook[t]
        /\ taken \subseteq taken' /\ taken' \subseteq Convs /\ files' \subseteq taken'
        /\ moved' \subseteq Sessions
        /\ typed' \in {typed, typed \cup {s}}
        /\ pane[s] = "prompt" => typed' = typed
    <2>1. CASE pane[s] = "prompt"
      <3>1. Switched(s) /\ typed' = typed
        BY <2>1 DEF Cleared
      <3>2. /\ Fresh \in Convs /\ Fresh \notin taken
            /\ taken' = taken \cup {Fresh} /\ files' = files \cup {Fresh}
            /\ on' \in [Sessions -> Known] /\ last' \in [Sessions -> Known]
            /\ hook' \in [Sessions -> Known] /\ moved' = moved \cup {s}
            /\ on'[s] = Fresh /\ last'[s] = Fresh /\ hook'[s] = Fresh
            /\ \A t \in Sessions \ {s} : on'[t] = on[t] /\ last'[t] = last[t] /\ hook'[t] = hook[t]
        BY <1>0, <3>1, SwitchedFacts DEF Known
      <3>3. Fresh \in Old(s) /\ Fresh # 0
        BY <3>2, TerminalAssumption DEF Old, Convs
      <3>4. QED BY <1>0, <2>1, <3>1, <3>2, <3>3 DEF Sorts, SortsOutside, SortsMarks
    <2>2. CASE pane[s] # "prompt"
      <3>1. UNCHANGED <<on, files, taken, hook, last, moved>> /\ typed' = typed \cup {s}
        BY <2>2 DEF Cleared
      <3>2. {on[s], last[s], hook[s]} \subseteq Old(s)
        BY OldHas
      <3>3. QED BY <1>0, <2>2, <3>1, <3>2 DEF Sorts, SortsOutside, SortsMarks, PaneAt
    <2>3. QED BY <2>1, <2>2
  <1>5. Sorts'
    <2>1. SortsEvents'
      BY <1>0, EventFacts DEF Sorts
    <2>2. SortsOutside' /\ SortsRecords' /\ SortsObjects'
      BY <1>0, <1>2, <1>3, <1>4 DEF Sorts, SortsOutside, SortsRecords, SortsObjects, records
    <2>3. SortsTasks' /\ SortsHealth'
      BY <1>0, <1>2 DEF Sorts, SortsTasks, SortsHealth
    <2>4. SortsMarks'
      BY <1>0, <1>4 DEF Sorts, SortsMarks
    <2>5. QED BY <2>1, <2>2, <2>3, <2>4 DEF Sorts
  <1>6. ASSUME NEW t \in Sessions \ {s} PROVE Frame(t)
    <2>1. Same(t)
      BY <1>2, <1>3, <1>4 DEF Same, records
    <2>2. SameTasks(t) /\ SameMarks(t)
      BY <1>2, <1>4 DEF SameTasks, SameMarks
    <2>3. QED BY <2>1, <2>2 DEF Frame
  <1>7. PaneAt(s)' /\ OneAt(s)'
    BY <1>0, <1>2, <1>4 DEF PaneAt, OneAt, Locked
  <1>8. NamesFine(s)
    BY <1>0, <1>1, <1>2, <1>3, <1>4, OldHas, NamesOld DEF records
  <1>9. s \notin raced' => SlotAt(s)'
    BY <1>0, <1>1, <1>2, <1>3 DEF SlotAt
  <1>10. s \notin exited' \cup raced' => CalmAt(s)'
    <2> SUFFICES ASSUME s \notin exited \cup raced PROVE CalmAt(s)'
      OBVIOUS
    <2>1. CalmAt(s)
      BY <1>0
    <2>2. pane[s] = "prompt" /\ obj[s].here
      BY <1>2, <2>1 DEF CalmAt, ObjectAt, Alive
    <2>3. ObjectAt(s)' /\ HealAt(s)' /\ StartAt(s)'
      BY <1>1, <1>2, <1>3, <2>1, <2>2 DEF CalmAt, ObjectAt, HealAt, StartAt, Locked
    <2>4. TurnAt(s)' /\ WindowAt(s)'
      BY <1>1, <1>2, <1>3, <2>1, <2>2 DEF CalmAt, TurnAt, WindowAt
    <2>5. QED BY <1>4, <2>1, <2>2, <2>3, <2>4 DEF CalmAt
  <1>11. QED BY <1>4, <1>5, <1>6, <1>7, <1>8, <1>9, <1>10 DEF Good, Fine

LEMMA DroppedGood ==
    ASSUME TerminalInv, NEW s \in Sessions, Event, Drop(s), s \in slots, obj[s].here,
           \/ ~obj[s].ready /\ pane[s] # "prompt" /\ Killed({s})
           \/ ~Alive(s) /\ UNCHANGED <<pane, on, pid, windows>>,
           UNCHANGED <<slots, new, records, warming, pc, loop, removing, exited, scanned, garbled,
                       raced, files, taken, hook, last, clearing, moved, typed>>
    PROVE  Good({s})
  <1>0. /\ Sorts /\ TypeOK /\ TypeInv /\ PaneAt(s) /\ OneAt(s)
        /\ s \notin raced => SlotAt(s)
        /\ s \notin exited \cup raced => CalmAt(s)
    BY Before
  <1>1. /\ obj' \in [Sessions -> Object] /\ obj'[s] = Absent
        /\ \A t \in Sessions \ {s} : obj'[t] = obj[t]
    <2>1. obj \in [Sessions -> Object] /\ obj' = [obj EXCEPT ![s] = Absent]
      BY <1>0 DEF Drop, Sorts, SortsObjects
    <2>2. QED BY <2>1, PutObject, AbsentFacts
  <1>2. /\ held' \in [Sessions -> Holds]
        /\ \A t \in Sessions \ {s} : held'[t] = held[t]
        /\ pc["turn"][s] \notin {"have", "detect"} => held'[s] = held[s]
        /\ held'[s] = "ready" => held[s] = "ready" \/ obj[s].ready
        /\ held'[s] = "table" => pc["turn"][s] \notin {"have", "detect"}
    <2>1. Replaced({s}) /\ {s} \in SUBSET Sessions
      BY DEF Drop
    <2>2. QED BY <1>0, <2>1, ReplacedFacts
  <1>3. /\ heal' \in Healing
        /\ heal'.at = heal.at /\ heal'.s = heal.s /\ heal'.todo = heal.todo
        /\ heal.s # s => heal' = heal
        /\ heal'.obj = heal.obj \/ heal'.obj = obj[s]
    BY <1>0, DetachedFacts DEF Drop
  <1>4. /\ pane' \in [Sessions -> Panes] /\ on' \in [Sessions -> Known]
        /\ pid' \in [Sessions -> Known] /\ windows' \in [Sessions -> Nat]
        /\ \/ UNCHANGED <<pane, on, pid, windows>>
           \/ pane'[s] = "none" /\ on'[s] = 0 /\ pid'[s] = 0 /\ windows'[s] = 0
        /\ \A t \in Sessions \ {s} : pane'[t] = pane[t] /\ on'[t] = on[t] /\ pid'[t] = pid[t]
                                     /\ windows'[t] = windows[t]
    <2>1. CASE UNCHANGED <<pane, on, pid, windows>>
      BY <1>0, <2>1 DEF Sorts, SortsOutside
    <2>2. CASE Killed({s})
      BY <1>0, <2>2, KilledFacts DEF Known
    <2>3. QED BY <2>1, <2>2
  <1>5. Sorts'
    <2>1. SortsEvents'
      BY <1>0, EventFacts DEF Sorts
    <2>2. SortsOutside' /\ SortsRecords' /\ SortsObjects'
      BY <1>0, <1>1, <1>4 DEF Sorts, SortsOutside, SortsRecords, SortsObjects, records
    <2>3. SortsTasks' /\ SortsHealth'
      BY <1>0, <1>2, <1>3 DEF Sorts, SortsTasks, SortsHealth
    <2>4. SortsMarks'
      BY <1>0 DEF Drop, Sorts, SortsMarks
    <2>5. QED BY <2>1, <2>2, <2>3, <2>4 DEF Sorts
  <1>6. ASSUME NEW t \in Sessions \ {s} PROVE Frame(t)
    <2>1. Same(t)
      BY <1>1, <1>2, <1>4 DEF Same, records
    <2>2. SameTasks(t) /\ SameMarks(t)
      BY <1>3 DEF SameTasks, SameMarks
    <2>3. QED BY <2>1, <2>2 DEF Frame
  <1>7. PaneAt(s)' /\ OneAt(s)'
    BY <1>0, <1>2, <1>4 DEF PaneAt, OneAt, Locked
  <1>8. NamesFine(s)
    BY <1>0, <1>1, <1>3, <1>4, AbsentFacts, OldHas, NamesOld DEF records
  <1>9. s \notin raced' => SlotAt(s)'
    BY <1>0 DEF SlotAt
  <1>10. s \notin exited' \cup raced' => CalmAt(s)'
    <2> SUFFICES ASSUME s \notin exited \cup raced PROVE CalmAt(s)'
      OBVIOUS
    <2>1. CalmAt(s)
      BY <1>0
    <2>2. ~obj[s].ready /\ pane[s] = "loading" /\ Killed({s})
      BY <2>1 DEF CalmAt, ObjectAt, Alive
    <2>3. pane'[s] = "none" /\ windows'[s] = 0 /\ ~Locked(s)'
      <3>1. pane'[s] = "none" /\ windows'[s] = 0
        BY <1>0, <2>2, KilledFacts
      <3>2. ~Locked(s)
        BY <2>1, <2>2 DEF CalmAt, StartAt
      <3>3. QED BY <3>1, <3>2 DEF Locked
    <2>4. ObjectAt(s)' /\ HealAt(s)' /\ StartAt(s)'
      BY <1>1, <1>3, <2>1, <2>3, AbsentFacts DEF CalmAt, ObjectAt, HealAt, StartAt
    <2>5. TurnAt(s)' /\ WindowAt(s)'
      BY <1>2, <2>1, <2>2, <2>3 DEF CalmAt, TurnAt, WindowAt
    <2>6. QED BY <2>1, <2>4, <2>5 DEF CalmAt
  <1>11. QED BY <1>5, <1>6, <1>7, <1>8, <1>9, <1>10 DEF Good, Fine

LEMMA ResetGood == ASSUME TerminalInv, NEW s \in Sessions, Reset(s) PROVE Good({s})
  <1>1. /\ Event /\ s \in slots /\ obj[s].here
        /\ UNCHANGED <<slots, new, records, warming, pc, loop, removing, exited, scanned, garbled,
                       raced>>
    BY DEF Reset
  <1>2. CASE Cleared(s) /\ UNCHANGED dropped
    BY <1>1, <1>2, ClearedGood
  <1>3. CASE /\ Alive(s) /\ ~obj[s].ready /\ pane[s] # "prompt"
             /\ Drop(s) /\ Killed({s})
             /\ UNCHANGED <<files, taken, hook, last, clearing, moved, typed>>
    BY <1>1, <1>3, DroppedGood
  <1>4. CASE ~Alive(s) /\ Drop(s) /\ UNCHANGED <<outside, clearing, moved, typed>>
    BY <1>1, <1>4, DroppedGood DEF outside
  <1>5. QED BY <1>2, <1>3, <1>4 DEF Reset

LEMMA CompactGood == ASSUME TerminalInv, NEW s \in Sessions, Compact(s) PROVE Good({s})
  BY ClearedGood DEF Compact

-----------------------------------------------------------------------------
(* Every step keeps the invariant.                                           *)
LEMMA InitInv == Init => TerminalInv
  <1> SUFFICES ASSUME Init PROVE TerminalInv
    OBVIOUS
  <1>0. Own \in [Sessions -> Known] /\ 0 \notin Sessions /\ IsFiniteSet(Sessions)
    BY TerminalAssumption DEF Known
  <1>1. /\ Idle \in Healing /\ heal = Idle /\ heal.s = 0 /\ heal.at = "idle" /\ heal.todo = {}
    BY IdleFacts DEF Init
  <1>2. /\ \A s \in Sessions : Own[s] \in taken \cup {0}
        /\ files = taken /\ taken \subseteq Convs
    BY <1>0 DEF Init, Known
  <1>3. slots \subseteq Sessions /\ removing = {}
    BY DEF Init
  <1>4. /\ pc \in [Callers -> [Sessions -> Places]]
        /\ \A s \in Sessions, c \in Callers : pc[c][s] = IF c = "warm" /\ s \in slots THEN "get" ELSE "idle"
    BY DEF Init, Places
  <1>5. Sorts
    <2>1. SortsOutside
      BY <1>2 DEF Init, SortsOutside, Panes, Known
    <2>2. SortsRecords /\ SortsEvents
      BY TerminalAssumption DEF Init, SortsRecords, SortsEvents, Known
    <2>3. SortsObjects /\ SortsTasks
      BY <1>3, <1>4, AbsentFacts DEF Init, SortsObjects, SortsTasks, Holds
    <2>4. SortsHealth
      BY <1>1 DEF Init, SortsHealth
    <2>5. SortsMarks
      BY <1>3 DEF Init, SortsMarks
    <2>6. QED BY <2>1, <2>2, <2>3, <2>4, <2>5 DEF Sorts
  <1>6. ASSUME NEW s \in Sessions
        PROVE  /\ pane[s] = "none" /\ on[s] = 0 /\ pid[s] = 0 /\ hook[s] = 0 /\ windows[s] = 0
               /\ last[s] = 0 /\ real[s] = 0 /\ disk[s] = 0 /\ obj[s] = Absent /\ new[s] = Absent
               /\ held[s] = "table" /\ Names(s) \subseteq {Own[s], 0}
    <2>1. /\ pane[s] = "none" /\ on[s] = 0 /\ pid[s] = 0 /\ hook[s] = 0 /\ windows[s] = 0
          /\ last[s] = 0 /\ real[s] = 0 /\ disk[s] = 0 /\ obj[s] = Absent /\ new[s] = Absent
          /\ held[s] = "table"
      BY DEF Init
    <2>2. Names(s) \subseteq {Own[s], 0}
      BY <1>0, <1>1, <2>1, AbsentFacts DEF Names
    <2>3. QED BY <2>1, <2>2
  <1>7. PaneInv /\ NamesTaken
    BY <1>2, <1>6 DEF PaneInv, PaneAt, NamesTaken
  <1>8. TypeInv
    BY <1>5, <1>7, TypeParts
  <1>9. NamesApart
    BY <1>6, TerminalAssumption DEF NamesApart
  <1>10. OneStarts
    BY <1>4, <1>6 DEF OneStarts, Locked, Callers
  <1>11. SlotInv
    BY <1>0, <1>1, <1>3, <1>4, <1>6, AbsentFacts DEF SlotInv, SlotAt
  <1>12. CalmInv
    <2> SUFFICES ASSUME NEW s \in Sessions PROVE CalmAt(s)
      BY DEF CalmInv
    <2>1. pc["again"][s] = "idle" /\ pc["turn"][s] = "idle" /\ pc["warm"][s] \in {"get", "idle"}
          /\ ~Locked(s)
      BY <1>4 DEF Locked, Callers
    <2>2. ObjectAt(s) /\ HealAt(s) /\ StartAt(s)
      BY <1>0, <1>1, <1>6, <2>1, AbsentFacts DEF ObjectAt, HealAt, StartAt
    <2>3. TurnAt(s) /\ WindowAt(s)
      BY <1>6, <2>1 DEF TurnAt, WindowAt
    <2>4. QED BY <2>2, <2>3 DEF CalmAt, Init
  <1>13. QED BY <1>8, <1>9, <1>10, <1>11, <1>12 DEF TerminalInv

LEMMA StutterInv == ASSUME TerminalInv, UNCHANGED vars PROVE TerminalInv'
  <1>1. Good({})
    <2>1. Sorts
      BY TypeParts DEF TerminalInv
    <2>2. Sorts'
      BY <2>1 DEF vars, Sorts, SortsOutside, SortsRecords, SortsObjects, SortsTasks, SortsHealth,
                  SortsMarks, SortsEvents, outside, records, tasks, health, bounds, marks
    <2>3. ASSUME NEW t \in Sessions PROVE Frame(t)
      BY DEF vars, Frame, Same, SameTasks, SameMarks, outside, records, tasks, health, marks
    <2>4. QED BY <2>2, <2>3 DEF Good, vars, outside, marks
  <1>2. taken' = taken
    BY DEF vars, outside
  <1>3. QED BY <1>1, <1>2, GoodStep

LEMMA OneGood ==
    ASSUME TerminalInv, NEW s \in Sessions, Good({s}) PROVE TerminalInv'
  <1>1. {s} \in SUBSET Sessions /\ \A t, u \in {s} : t = u
    OBVIOUS
  <1>2. QED BY <1>1, GoodStep

LEMMA StepInv == ASSUME TerminalInv, [Next]_vars PROVE TerminalInv'
  <1>1. ASSUME NEW s \in Sessions, System(s) PROVE TerminalInv'
    <2>1. ASSUME NEW c \in Callers, Step(c, s) PROVE Good({s})
      BY <2>1, GetGood, LaunchGood, LookForWindowGood, OpenWindowGood DEF Step
    <2>2. ASSUME Loaded(s) \/ HookArrives(s) \/ Poll(s) \/ Type(s) \/ TypeTimeout(s) \/ TurnDetects(s)
          PROVE  Good({s})
      BY <2>2, LoadedGood, HookArrivesGood, PollGood, TypeGood, TypeTimeoutGood, TurnDetectsGood
    <2>3. ASSUME HealthCheck(s) \/ Rebuild(s) \/ RemoveKill(s) \/ ClearDone(s) PROVE Good({s})
      BY <2>3, HealthCheckGood, RebuildGood, RemoveKillGood, ClearDoneGood
    <2>4. Good({s})
      BY <1>1, <2>1, <2>2, <2>3 DEF System
    <2>5. QED BY <2>4, OneGood
  <1>2. ASSUME NEW s \in Sessions, Users(s) PROVE TerminalInv'
    <2>1. Good({s})
      BY <1>2, ClaudeExitsGood, UserClearsGood, TurnStartGood, RemoveGood, AddSlotGood, ResetGood,
         CompactGood DEF Users
    <2>2. QED BY <2>1, OneGood
  <1>3. CASE HealthMake \/ HealthLaunch
    <2>1. heal.at \in {"make", "launch"}
      BY <1>3 DEF HealthMake, HealthLaunch
    <2>2. PICK s \in Sessions : heal.s = s
      BY <2>1, HealFacts
    <2>3. Good({s})
      BY <1>3, <2>2, HealthMakeGood, HealthLaunchGood
    <2>4. QED BY <2>3, OneGood
  <1>4. ASSUME Recover \/ Restart \/ ServerDies PROVE TerminalInv'
    <2>1. Good(Sessions)
      BY <1>4, RecoverGood, RestartGood, ServerDiesGood
    <2>2. taken' = taken /\ Sessions \in SUBSET Sessions
      BY <1>4 DEF Recover, Restart, ServerDies, outside
    <2>3. QED BY <2>1, <2>2, GoodStep
  <1>5. ASSUME Rebuilt \/ Stranger PROVE TerminalInv'
    <2>1. Good({})
      BY <1>5, RebuiltGood, StrangerGood
    <2>2. QED BY <2>1, GoodStep
  <1>6. QED BY <1>1, <1>2, <1>3, <1>4, <1>5, StutterInv DEF Next, Loop

LEMMA InvSafe == ASSUME TerminalInv PROVE TerminalsSafe
  <1>0. TypeOK /\ OneStarts /\ SlotInv /\ CalmInv /\ NamesApart
    BY DEF TerminalInv, TypeInv
  <1>1. OneLauncher
    <2> SUFFICES ASSUME NEW s \in Sessions
                 PROVE  /\ Cardinality({c \in Callers : pc[c][s] = "launch"}) <= 1
                        /\ s \in garbled => s \in exited \cup raced
      BY DEF OneLauncher
    <2> DEFINE L == {c \in Callers : pc[c][s] = "launch"}
    <2>1. L = {} \/ \E c \in Callers : L = {c}
      BY <1>0 DEF OneStarts
    <2>2. Cardinality(L) <= 1
      <3> HIDE DEF L
      <3>1. CASE L = {}
        <4>1. Cardinality(L) = 0
          BY <3>1, FS_EmptySet
        <4>2. QED BY <4>1
      <3>2. CASE \E c \in Callers : L = {c}
        <4>1. Cardinality(L) = 1
          BY <3>2, FS_Singleton
        <4>2. QED BY <4>1
      <3>3. QED BY <2>1, <3>1, <3>2
    <2>3. s \in garbled => s \in exited \cup raced
      BY <1>0 DEF CalmInv, CalmAt
    <2>4. QED BY <2>2, <2>3
  <1>2. OneWindow
    <2> SUFFICES ASSUME NEW s \in Sessions, s \notin exited \cup raced PROVE ~(windows[s] > 1)
      BY DEF OneWindow
    <2>1. windows[s] <= 1 /\ windows[s] \in Nat
      BY <1>0, TypeFacts DEF CalmInv, CalmAt, WindowAt
    <2>2. QED BY <2>1
  <1>3. OwnConversation
    <2> SUFFICES ASSUME NEW s \in Sessions \ scanned, NEW t \in Sessions \ scanned, s # t, real[s] # 0
                 PROVE  real[s] # Own[t] /\ real[s] # on[t]
      BY DEF OwnConversation
    <2>1. real[s] \in Names(s) /\ Own[t] \in Names(t) /\ on[t] \in Names(t)
      BY OldHas
    <2>2. Names(s) \cap Names(t) \subseteq {0}
      BY <1>0 DEF NamesApart
    <2>3. QED BY <2>1, <2>2
  <1>4. MistypedOnlyAfterExit
    <2>1. typed \subseteq Sessions
      BY <1>0 DEF TypeOK
    <2>2. QED BY <1>0, <2>1 DEF MistypedOnlyAfterExit, CalmInv, CalmAt
  <1>5. OrphanOnlyAfterRace
    BY <1>0 DEF OrphanOnlyAfterRace, SlotInv, SlotAt
  <1>6. QED BY <1>0, <1>1, <1>2, <1>3, <1>4, <1>5 DEF TerminalsSafe

-----------------------------------------------------------------------------
(* Whatever the sessions, the conversations and the number of events: the    *)
(* variables keep their types, and every conversation a session knows of     *)
(* exists (tmux_session.py:180, adapter.py:1687).                            *)
THEOREM TypeCorrect == Spec => []TypeOK
  <1>1. Init => TerminalInv
    BY InitInv
  <1>2. TerminalInv /\ [Next]_vars => TerminalInv'
    BY StepInv
  <1>3. TerminalInv => TypeOK
    BY DEF TerminalInv, TypeInv
  <1>4. QED BY <1>1, <1>2, <1>3, PTL DEF Spec

(* A session has one launcher, one window and its own conversation, text is *)
(* typed where a CLI listens, and no terminal is left without a slot, unless *)
(* a CLI or a terminal died, the conversation had to be guessed, or the slot *)
(* was removed, in between (adapter.py:1687, 1903, tmux_session.py:498, 769).*)
THEOREM TerminalsAreSafe == Spec => []TerminalsSafe
  <1>1. Init => TerminalInv
    BY InitInv
  <1>2. TerminalInv /\ [Next]_vars => TerminalInv'
    BY StepInv
  <1>3. TerminalInv => TerminalsSafe
    BY InvSafe
  <1>4. QED BY <1>1, <1>2, <1>3, PTL DEF Spec

-----------------------------------------------------------------------------
(* What a launch resumes.  An object that counts as new is of a session that  *)
(* was created here; another knows a conversation with a file, or has used up *)
(* its record.                                                                *)
ObjectKnows(s, o, F) ==
  /\ o.isNew => Own[s] = 0
  /\ o.real \in F \cup {0}
  /\ o.here /\ ~o.isNew /\ Own[s] = 0 =>
       o.persisted \in F \/ (o.persisted = 0 /\ o.real # 0)
HealKnows(s) ==
  heal.s = s /\ heal.at \in {"make", "launch"} =>
    /\ heal.same => obj[s].here
    /\ ~heal.same => heal.obj.here /\ ObjectKnows(s, heal.obj, files)
KnowsAt(s) ==
  /\ Own[s] \in files \cup {0} /\ on[s] \in {0, last[s]}
  /\ ObjectKnows(s, obj[s], files) /\ ObjectKnows(s, new[s], files)
  /\ ~new[s].started /\ new[s].real = 0
  /\ HealKnows(s)
KnowsInv == \A s \in Sessions : KnowsAt(s)

(* Two sessions share at most conversations with a file.                      *)
ShareInv == \A s, t \in Sessions : s # t => Names(s) \cap Names(t) \subseteq files \cup {0}

(* A session that never left a conversation and never guessed knows only the  *)
(* one it is named after, or, of those with a file, the one it had last.      *)
HomeAt(s) ==
  /\ Own[s] # 0 => Names(s) \subseteq {0, Own[s]}
  /\ Own[s] = 0 => Names(s) \cap files \subseteq {last[s]}
HomeInv == \A s \in Sessions \ (moved \cup scanned) : HomeAt(s)

LaunchInv == TerminalInv /\ KnowsInv /\ ShareInv /\ HomeInv

LEMMA KnowsMore ==
    ASSUME NEW s \in Sessions, NEW o, NEW F, NEW G, F \subseteq G, ObjectKnows(s, o, F)
    PROVE  ObjectKnows(s, o, G)
  BY DEF ObjectKnows

LEMMA KnowsLike ==
    ASSUME NEW s \in Sessions, NEW o, NEW q, NEW F, ObjectKnows(s, o, F),
           q.here = o.here, q.isNew = o.isNew, q.real = o.real, q.persisted = o.persisted
    PROVE  ObjectKnows(s, q, F)
  BY DEF ObjectKnows

LEMMA KnowsAbsent ==
    ASSUME NEW s \in Sessions, NEW F
    PROVE  ObjectKnows(s, Absent, F) /\ ~Absent.started
  <1>1. ~Absent.here /\ ~Absent.isNew /\ ~Absent.started
    BY Zenon DEF Absent
  <1>2. Absent.real = 0
    BY DEF Absent
  <1>3. QED BY <1>1, <1>2 DEF ObjectKnows

(* What a step may do to a session it is about: its terminal goes over to      *)
(* another conversation only from one without a file, or has moved; it hears   *)
(* of a new one only if it was created here.                                   *)
Stays(s) ==
  \/ s \in moved'
  \/ /\ last'[s] = last[s] \/ (files' = files /\ last[s] \notin files)
     /\ Names(s)' \subseteq taken \cup {0} \/ (files' = files /\ Own[s] = 0)
Kept(S) ==
  /\ files \subseteq files' /\ moved \subseteq moved'
  /\ \A x \in files' \cap taken : x \in files \/ \E t \in Sessions : x = on[t]
  /\ \A s \in S : KnowsAt(s)' /\ Stays(s)

LEMMA KnowsKept ==
    ASSUME NEW t \in Sessions, Frame(t), KnowsAt(t), files \subseteq files' PROVE KnowsAt(t)'
  <1>1. /\ on'[t] = on[t] /\ last'[t] = last[t] /\ obj'[t] = obj[t] /\ new'[t] = new[t]
        /\ heal'.s = t => /\ heal.s = t /\ heal'.obj = heal.obj /\ heal'.at = heal.at
                          /\ heal'.same = heal.same
    BY DEF Frame, Same, SameTasks
  <1>2. ObjectKnows(t, obj'[t], files') /\ ObjectKnows(t, new'[t], files')
    BY <1>1, KnowsMore DEF KnowsAt
  <1>3. HealKnows(t)'
    <2> SUFFICES ASSUME heal'.s = t, heal'.at \in {"make", "launch"}
                 PROVE  /\ heal'.same => obj'[t].here
                        /\ ~heal'.same => heal'.obj.here /\ ObjectKnows(t, heal'.obj, files')
      BY DEF HealKnows
    <2>1. HealKnows(t)
      BY DEF KnowsAt
    <2>2. /\ heal.same => obj[t].here
          /\ ~heal.same => heal.obj.here /\ ObjectKnows(t, heal.obj, files)
      BY <1>1, <2>1 DEF HealKnows
    <2>3. CASE heal.same
      BY <1>1, <2>2, <2>3
    <2>4. CASE ~heal.same
      BY <1>1, <2>2, <2>4, KnowsMore
    <2>5. QED BY <2>3, <2>4
  <1>4. QED BY <1>1, <1>2, <1>3 DEF KnowsAt

LEMMA KeptStep ==
    ASSUME LaunchInv, NEW S \in SUBSET Sessions, Good(S), Kept(S),
           taken' = taken \/ \A s, t \in S : s = t
    PROVE  KnowsInv' /\ ShareInv' /\ HomeInv'
  <1>0. /\ KnowsInv /\ ShareInv /\ HomeInv /\ NamesTaken /\ TypeOK
        /\ files \subseteq taken /\ taken \subseteq taken' /\ 0 \notin taken
    BY ZeroNotTaken DEF LaunchInv, TerminalInv, TypeInv, TypeOK, Good
  <1>1. /\ files \subseteq files' /\ moved \subseteq moved' /\ scanned \subseteq scanned'
        /\ \A x \in files' \cap taken : x \in files \/ \E t \in Sessions : x = on[t]
    BY DEF Good, Kept
  <1>2. KnowsInv'
    <2> SUFFICES ASSUME NEW s \in Sessions PROVE KnowsAt(s)'
      BY DEF KnowsInv
    <2>1. CASE s \in S
      BY <2>1 DEF Kept
    <2>2. CASE s \notin S
      BY <1>0, <1>1, <2>2, KnowsKept DEF KnowsInv, Good
    <2>3. QED BY <2>1, <2>2
  <1>3. ASSUME NEW s \in Sessions
        PROVE  /\ Names(s)' \cap taken \subseteq Names(s) \cup files
               /\ s \in scanned' \/ Names(s)' \cap taken \subseteq Names(s)
               /\ Names(s) \subseteq taken \cup {0}
               /\ s \notin S => Names(s)' \subseteq taken \cup {0} /\ last'[s] = last[s]
               /\ s \in S => Stays(s)
    <2>1. Names(s) \subseteq taken \cup {0}
      BY <1>0 DEF NamesTaken
    <2>2. CASE s \in S
      BY <2>1, <2>2 DEF Good, Fine, NamesFine, Kept
    <2>3. CASE s \notin S
      <3>1. Frame(s)
        BY <2>3 DEF Good
      <3>2. Names(s)' \subseteq Names(s) /\ last'[s] = last[s]
        BY <3>1, NamesKept DEF Frame, Same
      <3>3. QED BY <2>1, <2>3, <3>2
    <2>4. QED BY <2>2, <2>3
  <1>4. ShareInv'
    <2> SUFFICES ASSUME NEW s \in Sessions, NEW t \in Sessions, s # t,
                        NEW x, x \in Names(s)', x \in Names(t)', x # 0
                 PROVE  x \in files'
      BY DEF ShareInv
    <2>1. x \in taken
      <3>1. Names(s)' \subseteq taken' \cup {0}
        <4>1. CASE s \in S
          BY <4>1 DEF Good, Fine, NamesFine
        <4>2. CASE s \notin S
          BY <1>0, <1>3, <4>2
        <4>3. QED BY <4>1, <4>2
      <3>2. CASE taken' = taken
        BY <3>1, <3>2
      <3>3. CASE s \notin S \/ t \notin S
        BY <1>3, <3>3
      <3>4. QED BY <3>2, <3>3
    <2>2. x \in Names(s) \cup files /\ x \in Names(t) \cup files
      BY <1>3, <2>1
    <2>3. QED BY <1>0, <1>1, <2>2 DEF ShareInv
  <1>5. HomeInv'
    <2> SUFFICES ASSUME NEW s \in Sessions, s \notin moved', s \notin scanned' PROVE HomeAt(s)'
      BY DEF HomeInv
    <2>1. /\ Names(s)' \cap taken \subseteq Names(s) /\ HomeAt(s) /\ KnowsAt(s)
          /\ last'[s] = last[s] \/ (files' = files /\ last[s] \notin files)
          /\ Names(s)' \subseteq taken \cup {0} \/ (files' = files /\ Own[s] = 0)
      BY <1>0, <1>1, <1>3 DEF HomeInv, KnowsInv, Stays
    <2>2. Own[s] # 0 => Names(s)' \subseteq {0, Own[s]}
      BY <2>1 DEF HomeAt
    <2>3. ASSUME Own[s] = 0, NEW x, x \in Names(s)', x \in files' PROVE x \in {last'[s]}
      <3>0. x # 0
        <4>1. files' \subseteq 1 .. MaxConv
          BY DEF Good, Sorts, SortsOutside, Convs
        <4>2. QED BY <2>3, <4>1, TerminalAssumption
      <3>1. x \in taken
        BY <1>0, <2>1, <2>3, <3>0
      <3>2. x \in Names(s)
        BY <2>1, <2>3, <3>1
      <3>3. CASE x \in files
        <4>1. x = last[s]
          BY <2>1, <2>3, <3>2, <3>3 DEF HomeAt
        <4>2. QED BY <2>1, <3>3, <4>1
      <3>4. CASE x \notin files
        <4>1. PICK t \in Sessions : x = on[t]
          BY <1>1, <2>3, <3>1, <3>4
        <4>2. last'[s] = last[s] /\ x # 0
          BY <1>0, <2>1, <2>3, <3>1, <3>4
        <4>3. t = s
          <5> SUFFICES ASSUME t # s PROVE FALSE
            OBVIOUS
          <5>1. on[t] \in Names(t)
            BY OldHas
          <5>2. x \in files \cup {0}
            BY <1>0, <3>2, <4>1, <5>1 DEF ShareInv
          <5>3. QED BY <3>4, <4>2, <5>2
        <4>4. on[s] \in {0, last[s]}
          BY <2>1 DEF KnowsAt
        <4>5. QED BY <4>1, <4>2, <4>3, <4>4
      <3>5. QED BY <3>3, <3>4
    <2>4. QED BY <2>2, <2>3 DEF HomeAt
  <1>6. QED BY <1>2, <1>4, <1>5

(* A step that leaves the files and the conversations of terminals alone. *)
LEMMA QuietKept ==
    ASSUME LaunchInv, NEW S \in SUBSET Sessions, Good(S),
           UNCHANGED <<taken, moved, files>>,
           \A s \in S : /\ last'[s] = last[s] /\ on'[s] \in {0, on[s]}
                        /\ ObjectKnows(s, obj'[s], files) /\ ObjectKnows(s, new'[s], files)
                        /\ ~new'[s].started /\ new'[s].real = 0 /\ HealKnows(s)'
    PROVE  Kept(S)
  <1>1. ASSUME NEW s \in S PROVE KnowsAt(s)'
    <2>1. KnowsAt(s)
      BY DEF LaunchInv, KnowsInv
    <2>2. QED BY <2>1 DEF KnowsAt
  <1>2. ASSUME NEW s \in S PROVE Stays(s)
    BY DEF Stays, Good, Fine, NamesFine
  <1>3. QED BY <1>1, <1>2 DEF Kept

(* A step that leaves the objects alone, too. *)
LEMMA SameKept ==
    ASSUME LaunchInv, NEW S \in SUBSET Sessions, Good(S),
           UNCHANGED <<taken, moved, files, obj, new>>,
           heal' = heal \/ heal'.at \notin {"make", "launch"},
           \A s \in S : last'[s] = last[s] /\ on'[s] \in {0, on[s]}
    PROVE  Kept(S)
  <1>1. ASSUME NEW s \in S
        PROVE  /\ ObjectKnows(s, obj'[s], files) /\ ObjectKnows(s, new'[s], files)
               /\ ~new'[s].started /\ new'[s].real = 0 /\ HealKnows(s)'
    <2>1. KnowsAt(s)
      BY DEF LaunchInv, KnowsInv
    <2>2. HealKnows(s)'
      BY <2>1 DEF KnowsAt, HealKnows
    <2>3. QED BY <2>1, <2>2 DEF KnowsAt
  <1>2. QED BY <1>1, QuietKept

(* What is known of a session before a step. *)
LEMMA BeforeKnown ==
    ASSUME LaunchInv, NEW s \in Sessions
    PROVE  /\ TerminalInv /\ TypeInv /\ TypeOK /\ Sorts /\ KnowsAt(s) /\ {s} \in SUBSET Sessions
           /\ Names(s) \subseteq taken \cup {0} /\ OneAt(s)
           /\ obj[s] \in Object /\ new[s] \in Object /\ heal \in Healing
  <1>1. TerminalInv /\ KnowsAt(s)
    BY DEF LaunchInv, KnowsInv
  <1>2. TypeInv /\ TypeOK /\ Sorts /\ Names(s) \subseteq taken \cup {0} /\ OneAt(s)
    BY <1>1, Before
  <1>3. QED BY <1>1, <1>2 DEF Sorts, SortsObjects, SortsHealth

LEMMA LoadedKept == ASSUME LaunchInv, NEW s \in Sessions, Loaded(s) PROVE Kept({s})
  <1>1. TerminalInv /\ {s} \in SUBSET Sessions
    BY BeforeKnown
  <1>2. Good({s})
    BY <1>1, LoadedGood
  <1>3. QED BY <1>1, <1>2, SameKept DEF Loaded, health, marks

LEMMA ClaudeExitsKept == ASSUME LaunchInv, NEW s \in Sessions, ClaudeExits(s) PROVE Kept({s})
  <1>1. TerminalInv /\ TypeOK /\ {s} \in SUBSET Sessions
    BY BeforeKnown
  <1>2. Good({s})
    BY <1>1, ClaudeExitsGood
  <1>3. on'[s] = 0
    BY <1>1 DEF ClaudeExits, TypeOK
  <1>4. QED BY <1>1, <1>2, <1>3, SameKept DEF ClaudeExits, health

LEMMA ServerDiesKept == ASSUME LaunchInv, ServerDies PROVE Kept(Sessions)
  <1>1. TerminalInv /\ TypeOK
    BY DEF LaunchInv, TerminalInv, TypeInv
  <1>2. Good(Sessions)
    BY <1>1, ServerDiesGood
  <1>3. ASSUME NEW s \in Sessions PROVE on'[s] \in {0, on[s]} /\ last'[s] = last[s]
    BY DEF ServerDies, Killed
  <1>4. UNCHANGED <<taken, moved, files, obj, new, heal>>
    BY DEF ServerDies, health
  <1>5. QED BY <1>2, <1>3, <1>4, SameKept

LEMMA HookArrivesKept == ASSUME LaunchInv, NEW s \in Sessions, HookArrives(s) PROVE Kept({s})
  <1>1. TerminalInv /\ {s} \in SUBSET Sessions
    BY BeforeKnown
  <1>2. Good({s})
    BY <1>1, HookArrivesGood
  <1>3. QED BY <1>1, <1>2, SameKept DEF HookArrives, health, marks

LEMMA WindowKept ==
    ASSUME LaunchInv, NEW c \in Callers, NEW s \in Sessions, LookForWindow(c, s) \/ OpenWindow(c, s)
    PROVE  Kept({s})
  <1>1. TerminalInv /\ {s} \in SUBSET Sessions
    BY BeforeKnown
  <1>2. Good({s})
    BY <1>1, LookForWindowGood, OpenWindowGood
  <1>3. UNCHANGED <<taken, moved, files, obj, new, heal, on, last>>
    BY DEF LookForWindow, OpenWindow, outside, health, marks
  <1>4. QED BY <1>1, <1>2, <1>3, SameKept

LEMMA TurnStartKept ==
    ASSUME LaunchInv, NEW s \in Sessions, TurnStart(s) \/ TypeTimeout(s) \/ AddSlot(s)
    PROVE  Kept({s})
  <1>1. TerminalInv /\ {s} \in SUBSET Sessions
    BY BeforeKnown
  <1>2. Good({s})
    BY <1>1, TurnStartGood, TypeTimeoutGood, AddSlotGood
  <1>3. UNCHANGED <<taken, moved, files, obj, new, heal, on, last>>
    BY DEF TurnStart, TypeTimeout, AddSlot, outside, health, marks
  <1>4. QED BY <1>1, <1>2, <1>3, SameKept

LEMMA RebuildKept == ASSUME LaunchInv, NEW s \in Sessions, Rebuild(s) PROVE Kept({s})
  <1>1. TerminalInv /\ {s} \in SUBSET Sessions /\ heal \in Healing
    BY BeforeKnown
  <1>2. Good({s})
    BY <1>1, RebuildGood
  <1>3. UNCHANGED <<taken, moved, files, obj, new, on, last>>
    BY DEF Rebuild, outside, marks
  <1>4. heal'.at \in {"recover", "rebuild"}
    BY <1>1 DEF Rebuild, Healing
  <1>5. QED BY <1>1, <1>2, <1>3, <1>4, SameKept

LEMMA RebuiltKept == ASSUME LaunchInv, Rebuilt PROVE Kept({})
  BY DEF Rebuilt, Kept, outside, marks

LEMMA RemoveKillKept == ASSUME LaunchInv, NEW s \in Sessions, RemoveKill(s) PROVE Kept({s})
  <1>1. TerminalInv /\ TypeOK /\ {s} \in SUBSET Sessions
    BY BeforeKnown
  <1>2. Good({s})
    BY <1>1, RemoveKillGood
  <1>3. on'[s] = 0
    BY DEF RemoveKill, Killed
  <1>4. heal' = heal \/ heal'.at = "idle"
    BY IdleFacts DEF RemoveKill, health
  <1>5. QED BY <1>1, <1>2, <1>3, <1>4, SameKept DEF RemoveKill, marks

(* The object keeps what it knows, and files are added. *)
LEMMA KnowsStep ==
    ASSUME NEW s \in Sessions, KnowsAt(s), files \subseteq files', on'[s] \in {0, last'[s]},
           new'[s] = new[s], heal' = heal,
           obj'[s].here = obj[s].here, obj'[s].isNew = obj[s].isNew,
           obj'[s].real = obj[s].real, obj'[s].persisted = obj[s].persisted
    PROVE  KnowsAt(s)'
  <1>1. ObjectKnows(s, obj'[s], files') /\ ObjectKnows(s, new'[s], files')
    <2>1. ObjectKnows(s, obj'[s], files) /\ ObjectKnows(s, new'[s], files)
      BY KnowsLike DEF KnowsAt
    <2>2. QED BY <2>1, KnowsMore
  <1>2. HealKnows(s)'
    <2>1. heal.s = s /\ heal.at \in {"make", "launch"} =>
            /\ heal.same => obj'[s].here
            /\ ~heal.same => heal.obj.here /\ ObjectKnows(s, heal.obj, files')
      BY KnowsMore DEF KnowsAt, HealKnows
    <2>2. QED BY <2>1 DEF HealKnows
  <1>3. QED BY <1>1, <1>2 DEF KnowsAt

LEMMA StrangerKept == ASSUME LaunchInv, Stranger PROVE Kept({})
  <1>1. TypeOK /\ taken # Convs
    BY DEF LaunchInv, TerminalInv, TypeInv, Stranger
  <1>2. Fresh \notin taken
    BY <1>1, FreshFacts
  <1>3. QED BY <1>2 DEF Stranger, Kept, marks

LEMMA SwitchedKept ==
    ASSUME LaunchInv, NEW s \in Sessions, Switched(s), new' = new, heal' = heal,
           obj'[s].here = obj[s].here, obj'[s].isNew = obj[s].isNew,
           obj'[s].real = obj[s].real, obj'[s].persisted = obj[s].persisted
    PROVE  Kept({s})
  <1>1. TypeOK /\ KnowsAt(s)
    BY BeforeKnown
  <1>2. /\ Fresh \notin taken /\ files' = files \cup {Fresh} /\ moved' = moved \cup {s}
        /\ on'[s] = Fresh /\ last'[s] = Fresh
    BY <1>1, SwitchedFacts
  <1>3. KnowsAt(s)'
    BY <1>1, <1>2, KnowsStep
  <1>4. QED BY <1>2, <1>3 DEF Kept, Stays

LEMMA UserClearsKept == ASSUME LaunchInv, NEW s \in Sessions, UserClears(s) PROVE Kept({s})
  BY SwitchedKept DEF UserClears, health

LEMMA ReadyLike ==
    ASSUME SortsObjects, NEW s \in Sessions, NEW b \in BOOLEAN, obj' = [obj EXCEPT ![s].ready = b]
    PROVE  /\ obj'[s].here = obj[s].here /\ obj'[s].isNew = obj[s].isNew
           /\ obj'[s].real = obj[s].real /\ obj'[s].persisted = obj[s].persisted
  <1>1. obj[s] \in Object /\ obj \in [Sessions -> Object]
    BY DEF SortsObjects
  <1>2. obj'[s] = [obj[s] EXCEPT !.ready = b]
    BY <1>1
  <1>3. QED BY <1>1, <1>2, SetReady

LEMMA ClearedKept ==
    ASSUME LaunchInv, NEW s \in Sessions, Cleared(s), new' = new, Good({s})
    PROVE  Kept({s})
  <1>1. TypeOK /\ KnowsAt(s) /\ Sorts
    BY BeforeKnown
  <1>2. /\ obj'[s].here = obj[s].here /\ obj'[s].isNew = obj[s].isNew
        /\ obj'[s].real = obj[s].real /\ obj'[s].persisted = obj[s].persisted
    <2> DEFINE b == pane[s] = "prompt"
    <2>1. obj' = [obj EXCEPT ![s].ready = b] /\ b \in BOOLEAN
      BY DEF Cleared
    <2> HIDE DEF b
    <2>2. QED BY <1>1, <2>1, ReadyLike DEF Sorts
  <1>3. heal' = heal
    BY DEF Cleared
  <1>4. CASE pane[s] = "prompt"
    BY <1>2, <1>3, <1>4, SwitchedKept DEF Cleared
  <1>5. CASE pane[s] # "prompt"
    <2>1. UNCHANGED <<on, files, taken, last, moved>>
      BY <1>5 DEF Cleared
    <2>2. KnowsAt(s)'
      BY <1>1, <1>2, <1>3, <2>1, KnowsStep DEF KnowsAt
    <2>3. Names(s)' \subseteq taken \cup {0}
      BY <2>1 DEF Good, Fine, NamesFine
    <2>4. QED BY <2>1, <2>2, <2>3 DEF Kept, Stays
  <1>6. QED BY <1>4, <1>5

LEMMA TypeKept == ASSUME LaunchInv, NEW s \in Sessions, Type(s) PROVE Kept({s})
  <1>1. TerminalInv /\ TypeOK /\ KnowsAt(s) /\ Sorts
    BY BeforeKnown
  <1>2. Good({s})
    BY <1>1, TypeGood
  <1>3. UNCHANGED <<on, taken, last, moved, new, heal>> /\ files' \in {files, files \cup {on[s]}}
    BY DEF Type, health
  <1>4. /\ obj'[s].here = obj[s].here /\ obj'[s].isNew = obj[s].isNew
        /\ obj'[s].real = obj[s].real /\ obj'[s].persisted = obj[s].persisted
    <2>1. CASE obj' = [obj EXCEPT ![s].ready = TRUE]
      BY <1>1, <2>1, ReadyLike DEF Sorts
    <2>2. CASE obj' = obj
      BY <2>2
    <2>3. QED BY <2>1, <2>2 DEF Type
  <1>5. KnowsAt(s)'
    BY <1>1, <1>3, <1>4, KnowsStep DEF KnowsAt
  <1>6. Names(s)' \subseteq taken \cup {0}
    BY <1>2, <1>3 DEF Good, Fine, NamesFine
  <1>7. QED BY <1>3, <1>5, <1>6 DEF Kept, Stays

(* What is found has a file. *)
LEMMA DetectKnows ==
    ASSUME TypeInv, NEW s \in Sessions, NEW o \in Object, ObjectKnows(s, o, files), Detect(s, o)
    PROVE  ObjectKnows(s, obj'[s], files) /\ obj'[s].here = o.here
  <1>0. obj \in [Sessions -> Object] /\ files \subseteq Convs /\ 0 \notin files
    BY ZeroNotTaken DEF TypeInv, TypeOK
  <1>1. CASE obj' = [obj EXCEPT ![s] = o]
    BY <1>0, <1>1
  <1>2. ASSUME NEW c \in files, NEW p \in Convs \cup {0}, o.real = 0, p = 0 \/ p = o.persisted,
               obj' = [obj EXCEPT ![s] = [o EXCEPT !.real = c, !.persisted = p]]
        PROVE  ObjectKnows(s, obj'[s], files) /\ obj'[s].here = o.here
    <2> DEFINE q == [o EXCEPT !.real = c, !.persisted = p]
    <2>1. q.here = o.here /\ q.isNew = o.isNew /\ q.real = c /\ q.persisted = p
      BY DEF Object
    <2>2. obj'[s] = q
      BY <1>0, <1>2
    <2> HIDE DEF q
    <2>3. c # 0
      BY <1>0
    <2>4. ObjectKnows(s, q, files)
      BY <1>2, <2>1, <2>3 DEF ObjectKnows
    <2>5. QED BY <2>1, <2>2, <2>4
  <1>3. CASE o.real = 0 /\ Named(s) # 0
             /\ obj' = [obj EXCEPT ![s] = [o EXCEPT !.real = Named(s),
                          !.persisted = IF @ = Named(s) THEN 0 ELSE @]]
    <2> DEFINE p == IF o.persisted = Named(s) THEN 0 ELSE o.persisted
    <2>1. Named(s) \in files
      BY <1>3 DEF Named
    <2>2. p \in Convs \cup {0} /\ (p = 0 \/ p = o.persisted)
      BY DEF Object
    <2>3. obj' = [obj EXCEPT ![s] = [o EXCEPT !.real = Named(s), !.persisted = p]]
      BY <1>3
    <2> HIDE DEF p
    <2>4. QED BY <1>2, <1>3, <2>1, <2>2, <2>3
  <1>4. CASE o.real = 0 /\ \E c \in Candidates(s) : obj' = [obj EXCEPT ![s] = [o EXCEPT !.real = c]]
    <2>1. PICK c \in Candidates(s) : obj' = [obj EXCEPT ![s] = [o EXCEPT !.real = c]]
      BY <1>4
    <2>2. c \in files
      BY DEF Candidates
    <2>3. o.persisted \in Convs \cup {0}
          /\ [o EXCEPT !.real = c] = [o EXCEPT !.real = c, !.persisted = o.persisted]
      BY DEF Object
    <2>4. QED BY <1>2, <1>4, <2>1, <2>2, <2>3
  <1>5. QED BY <1>1, <1>3, <1>4 DEF Detect

LEMMA DetectedKept ==
    ASSUME LaunchInv, NEW s \in Sessions, NEW o \in Object, Good({s}),
           Detect(s, o) \/ obj' = [obj EXCEPT ![s] = o],
           UNCHANGED <<outside, new, heal, moved>>,
           o.here = obj[s].here, o.isNew = obj[s].isNew, o.real = obj[s].real,
           o.persisted = obj[s].persisted
    PROVE  Kept({s})
  <1>1. TypeInv /\ KnowsAt(s) /\ {s} \in SUBSET Sessions /\ obj \in [Sessions -> Object]
    BY BeforeKnown DEF Sorts, SortsObjects
  <1>2. ObjectKnows(s, o, files)
    BY <1>1, KnowsLike DEF KnowsAt
  <1>3. ObjectKnows(s, obj'[s], files) /\ obj'[s].here = obj[s].here
    <2>1. CASE Detect(s, o)
      BY <1>1, <1>2, <2>1, DetectKnows
    <2>2. CASE obj' = [obj EXCEPT ![s] = o]
      BY <1>1, <1>2, <2>2
    <2>3. QED BY <2>1, <2>2
  <1>4. HealKnows(s)'
    BY <1>1, <1>3 DEF KnowsAt, HealKnows, outside
  <1>5. ObjectKnows(s, new'[s], files) /\ ~new'[s].started /\ new'[s].real = 0
    BY <1>1 DEF KnowsAt
  <1>6. UNCHANGED <<taken, files, on, last>>
    BY DEF outside
  <1>7. QED BY <1>1, <1>3, <1>4, <1>5, <1>6, QuietKept

LEMMA PollKept == ASSUME LaunchInv, NEW s \in Sessions, Poll(s) PROVE Kept({s})
  <1>0. TerminalInv /\ obj[s] \in Object
    BY BeforeKnown
  <1>1. Good({s})
    BY <1>0, PollGood
  <1> DEFINE o == [obj[s] EXCEPT !.ready = TRUE, !.poll = FALSE]
  <1>2. /\ o \in Object /\ o.here = obj[s].here /\ o.isNew = obj[s].isNew
        /\ o.real = obj[s].real /\ o.persisted = obj[s].persisted
    BY <1>0 DEF Object
  <1>3. Detect(s, o) \/ obj' = [obj EXCEPT ![s] = o]
    BY Zenon DEF Poll
  <1> HIDE DEF o
  <1>4. UNCHANGED <<outside, new, heal, moved>>
    BY DEF Poll, health
  <1>5. QED BY <1>1, <1>2, <1>3, <1>4, DetectedKept

LEMMA TurnDetectsKept == ASSUME LaunchInv, NEW s \in Sessions, TurnDetects(s) PROVE Kept({s})
  <1>0. TerminalInv /\ obj[s] \in Object /\ obj \in [Sessions -> Object]
    BY BeforeKnown DEF Sorts, SortsObjects
  <1>1. Good({s})
    BY <1>0, TurnDetectsGood
  <1>2. Detect(s, obj[s]) \/ obj' = [obj EXCEPT ![s] = obj[s]]
    BY <1>0 DEF TurnDetects
  <1>3. UNCHANGED <<outside, new, heal, moved>>
    BY DEF TurnDetects, health
  <1>4. QED BY <1>0, <1>1, <1>2, <1>3, DetectedKept

LEMMA ClearDoneKept == ASSUME LaunchInv, NEW s \in Sessions, ClearDone(s) PROVE Kept({s})
  <1>0. TerminalInv /\ obj[s] \in Object /\ obj \in [Sessions -> Object]
    BY BeforeKnown DEF Sorts, SortsObjects
  <1>1. Good({s})
    BY <1>0, ClearDoneGood
  <1>2. UNCHANGED <<outside, new, heal, moved>>
    BY DEF ClearDone, health
  <1>3. CASE ~obj[s].here
    <2>1. obj' = [obj EXCEPT ![s] = obj[s]]
      BY <1>0, <1>3 DEF ClearDone
    <2>2. QED BY <1>0, <1>1, <1>2, <2>1, DetectedKept
  <1>4. CASE obj[s].here
    <2> DEFINE b == obj[s].ready \/ pane[s] = "prompt"
    <2> DEFINE o == [obj[s] EXCEPT !.ready = b]
    <2>1. /\ o \in Object /\ o.here = obj[s].here /\ o.isNew = obj[s].isNew
          /\ o.real = obj[s].real /\ o.persisted = obj[s].persisted
      BY <1>0, SetReady
    <2>2. Detect(s, o)
      BY <1>4, Zenon DEF ClearDone
    <2> HIDE DEF o
    <2>3. QED BY <1>1, <1>2, <2>1, <2>2, DetectedKept
  <1>5. QED BY <1>3, <1>4

(* The health loop keeps the object that the table loses. *)
LEMMA DetachedKnows ==
    ASSUME NEW s \in Sessions, heal \in Healing, KnowsAt(s), Detached(s), files' = files
    PROVE  HealKnows(s)'
  <1> SUFFICES ASSUME heal'.s = s, heal'.at \in {"make", "launch"}
               PROVE  /\ heal'.same => obj'[s].here
                      /\ ~heal'.same => heal'.obj.here /\ ObjectKnows(s, heal'.obj, files)
    BY DEF HealKnows
  <1>1. HealKnows(s) /\ ObjectKnows(s, obj[s], files)
    BY DEF KnowsAt
  <1>2. CASE heal.s = s /\ heal.same
    <2>1. heal'.obj = obj[s] /\ ~heal'.same /\ heal'.at = heal.at
      BY <1>2 DEF Detached, Healing
    <2>2. obj[s].here
      BY <1>1, <1>2, <2>1 DEF HealKnows
    <2>3. QED BY <1>1, <2>1, <2>2
  <1>3. CASE ~(heal.s = s /\ heal.same)
    <2>1. heal' = heal
      BY <1>3, Zenon DEF Detached
    <2>2. heal.s = s /\ ~heal.same /\ heal.at \in {"make", "launch"}
      BY <1>3, <2>1
    <2>3. QED BY <1>1, <2>1, <2>2 DEF HealKnows
  <1>4. QED BY <1>2, <1>3

LEMMA RemoveKept == ASSUME LaunchInv, NEW s \in Sessions, Remove(s) PROVE Kept({s})
  <1>0. /\ TerminalInv /\ KnowsAt(s) /\ {s} \in SUBSET Sessions /\ heal \in Healing
        /\ obj \in [Sessions -> Object]
    BY BeforeKnown DEF Sorts, SortsObjects
  <1>1. Good({s})
    BY <1>0, RemoveGood
  <1>2. UNCHANGED <<taken, moved, files, on, last, new>>
    BY DEF Remove, outside
  <1>3. HealKnows(s)'
    BY <1>0, <1>2, DetachedKnows DEF Remove
  <1>4. obj'[s] = Absent
    BY <1>0 DEF Remove
  <1>5. ObjectKnows(s, new'[s], files) /\ ~new'[s].started /\ new'[s].real = 0
    BY <1>0, <1>2 DEF KnowsAt
  <1>6. QED BY <1>0, <1>1, <1>2, <1>3, <1>4, <1>5, KnowsAbsent, QuietKept

LEMMA ResetKept == ASSUME LaunchInv, NEW s \in Sessions, Reset(s) PROVE Kept({s})
  <1>0. /\ TerminalInv /\ TypeOK /\ KnowsAt(s) /\ {s} \in SUBSET Sessions /\ heal \in Healing
        /\ obj \in [Sessions -> Object]
    BY BeforeKnown DEF Sorts, SortsObjects
  <1>1. Good({s}) /\ new' = new
    BY <1>0, ResetGood DEF Reset
  <1>2. CASE Cleared(s)
    BY <1>1, <1>2, ClearedKept
  <1>3. CASE Drop(s) /\ UNCHANGED <<files, taken, last, moved>> /\ (Killed({s}) \/ on' = on)
    <2>1. on'[s] \in {0, on[s]}
      BY <1>3 DEF Killed
    <2>2. HealKnows(s)'
      BY <1>0, <1>3, DetachedKnows DEF Drop
    <2>3. obj'[s] = Absent
      BY <1>0, <1>3 DEF Drop
    <2>4. ObjectKnows(s, new'[s], files) /\ ~new'[s].started /\ new'[s].real = 0
      BY <1>0, <1>1 DEF KnowsAt
    <2>5. QED BY <1>0, <1>1, <1>3, <2>1, <2>2, <2>3, <2>4, KnowsAbsent, QuietKept
  <1>4. QED BY <1>2, <1>3 DEF Reset, outside

LEMMA CompactKept == ASSUME LaunchInv, NEW s \in Sessions, Compact(s) PROVE Kept({s})
  <1>1. TerminalInv
    BY BeforeKnown
  <1>2. Good({s})
    BY <1>1, CompactGood
  <1>3. QED BY <1>2, ClearedKept DEF Compact

LEMMA RestartKept == ASSUME LaunchInv, Restart PROVE Kept(Sessions)
  <1>0. TerminalInv
    BY DEF LaunchInv
  <1>1. Good(Sessions)
    BY <1>0, RestartGood
  <1>2. UNCHANGED <<taken, moved, files>>
    BY DEF Restart, marks
  <1>3. ASSUME NEW s \in Sessions
        PROVE  /\ last'[s] = last[s] /\ on'[s] \in {0, on[s]}
               /\ ObjectKnows(s, obj'[s], files) /\ ObjectKnows(s, new'[s], files)
               /\ ~new'[s].started /\ new'[s].real = 0 /\ HealKnows(s)'
    <2>1. obj'[s] = Absent /\ new'[s] = Absent /\ last' = last /\ heal' = Idle
      BY DEF Restart
    <2>2. on'[s] \in {0, on[s]}
      BY DEF Restart, Killed
    <2>3. HealKnows(s)'
      BY <2>1, IdleFacts DEF HealKnows
    <2>4. QED BY <2>1, <2>2, <2>3, KnowsAbsent, AbsentFacts
  <1>4. QED BY <1>1, <1>2, <1>3, QuietKept

LEMMA RecoverKept == ASSUME LaunchInv, Recover PROVE Kept(Sessions)
  <1>0. TerminalInv
    BY DEF LaunchInv
  <1>1. Good(Sessions)
    BY <1>0, RecoverGood
  <1>2. UNCHANGED <<taken, moved, files, on, last, new>>
    BY DEF Recover, outside, marks
  <1>3. ASSUME NEW s \in Sessions
        PROVE  /\ ObjectKnows(s, obj'[s], files) /\ ObjectKnows(s, new'[s], files)
               /\ ~new'[s].started /\ new'[s].real = 0 /\ HealKnows(s)'
    <2>1. obj'[s] = Absent
      BY DEF Recover
    <2>2. heal'.at = "recover"
      BY IdleFacts DEF Recover, Healing
    <2>3. HealKnows(s)'
      BY <2>2 DEF HealKnows
    <2>4. KnowsAt(s)
      BY BeforeKnown
    <2>5. QED BY <1>2, <2>1, <2>3, <2>4, KnowsAbsent DEF KnowsAt
  <1>4. QED BY <1>1, <1>2, <1>3, QuietKept

LEMMA HealthCheckKept == ASSUME LaunchInv, NEW s \in Sessions, HealthCheck(s) PROVE Kept({s})
  <1>0. TerminalInv /\ KnowsAt(s) /\ {s} \in SUBSET Sessions
    BY BeforeKnown
  <1>1. Good({s})
    BY <1>0, HealthCheckGood
  <1>2. UNCHANGED <<taken, moved, files, on, last, obj, new>> /\ obj[s].here
    BY DEF HealthCheck, outside, marks
  <1>3. heal'.same = TRUE
    BY DEF HealthCheck, Idle
  <1>4. HealKnows(s)'
    BY <1>2, <1>3 DEF HealKnows
  <1>5. QED BY <1>0, <1>1, <1>2, <1>4, QuietKept DEF KnowsAt

LEMMA FlagFacts ==
    ASSUME TypeOK, NEW o \in Object
    PROVE  /\ Launched(o).isNew = o.isNew
           /\ Reused(o).isNew = o.isNew /\ Reused(o).started = o.started
           /\ Snapshot(o).isNew = o.isNew /\ Snapshot(o).started = o.started
  <1>1. files \in SUBSET Convs
    BY DEF TypeOK
  <1>2. QED BY <1>1 DEF Launched, Reused, Snapshot, Object

LEMMA KnowsNewObject ==
    ASSUME LaunchInv, NEW s \in Sessions
    PROVE  ObjectKnows(s, NewObject(s), files) /\ ~NewObject(s).started
  <1>1. Own[s] \in files \cup {0} /\ 0 \notin files /\ TypeOK
    BY BeforeKnown, ZeroNotTaken DEF KnowsAt, TypeOK
  <1>2. NewObject(s).real = 0 /\ NewObject(s).persisted = real[s]
    BY <1>1, NewObjectFacts
  <1>3. NewObject(s).isNew <=> Own[s] \notin files /\ real[s] \notin files
    BY Zenon DEF NewObject, Absent
  <1>4. ~NewObject(s).started
    BY Zenon DEF NewObject, Absent
  <1>5. QED BY <1>1, <1>2, <1>3, <1>4 DEF ObjectKnows

LEMMA InstalledKnows ==
    ASSUME LaunchInv, NEW s \in Sessions, NEW o \in Object, Installed(s, o), files' = files,
           ObjectKnows(s, o, files)
    PROVE  /\ ObjectKnows(s, obj'[s], files) /\ ObjectKnows(s, new'[s], files)
           /\ ~new'[s].started /\ new'[s].real = 0 /\ HealKnows(s)'
  <1>1. TypeInv /\ KnowsAt(s) /\ heal \in Healing
    BY BeforeKnown
  <1>2. obj'[s] = o /\ new'[s] = Absent
    BY <1>1, InstalledFacts
  <1>3. HealKnows(s)'
    BY <1>1, DetachedKnows DEF Installed
  <1>4. QED BY <1>2, <1>3, KnowsAbsent, AbsentFacts

LEMMA GetKept ==
    ASSUME LaunchInv, NEW c \in Callers, NEW s \in Sessions, Get(c, s) PROVE Kept({s})
  <1>0. /\ TerminalInv /\ TypeOK /\ KnowsAt(s) /\ {s} \in SUBSET Sessions /\ NewObject(s) \in Object
        /\ ObjectKnows(s, NewObject(s), files) /\ ~NewObject(s).started
        /\ obj \in [Sessions -> Object] /\ new \in [Sessions -> Object] /\ NewObject(s).real = 0
    BY BeforeKnown, KnowsNewObject, NewObjectFacts DEF Sorts, SortsObjects
  <1>1. Good({s})
    BY <1>0, GetGood
  <1>2. UNCHANGED <<taken, moved, files, last>>
    BY DEF Get, marks
  <1>3. CASE UNCHANGED <<on, obj, new, heal>>
    BY <1>0, <1>1, <1>2, <1>3, SameKept
  <1>4. CASE Installed(s, Reused(NewObject(s))) /\ on' = on
    <2>1. Reused(NewObject(s)) \in Object /\ ObjectKnows(s, Reused(NewObject(s)), files)
      BY <1>0, ReusedFacts, FlagFacts, KnowsLike
    <2>2. QED BY <1>0, <1>1, <1>2, <1>4, <2>1, InstalledKnows, QuietKept
  <1>5. CASE /\ Remade(s) /\ new' = [new EXCEPT ![s] = Snapshot(NewObject(s))]
             /\ obj' = [obj EXCEPT ![s].poll = FALSE] /\ heal' = heal
    <2>1. on'[s] = 0
      BY <1>0, <1>5, RemadeFacts
    <2>2. /\ Snapshot(NewObject(s)) \in Object /\ ObjectKnows(s, Snapshot(NewObject(s)), files)
          /\ ~Snapshot(NewObject(s)).started /\ Snapshot(NewObject(s)).real = 0
      BY <1>0, SnapshotFacts, FlagFacts, KnowsLike
    <2>3. new'[s] = Snapshot(NewObject(s))
      BY <1>0, <1>5
    <2>4. /\ obj'[s].here = obj[s].here /\ obj'[s].isNew = obj[s].isNew
          /\ obj'[s].real = obj[s].real /\ obj'[s].persisted = obj[s].persisted
      <3>1. obj'[s] = [obj[s] EXCEPT !.poll = FALSE] /\ obj[s] \in Object
        BY <1>0, <1>5
      <3>2. QED BY <3>1, SetPoll
    <2>5. ObjectKnows(s, obj'[s], files)
      BY <1>0, <2>4, KnowsLike DEF KnowsAt
    <2>6. HealKnows(s)'
      BY <1>0, <1>2, <1>5, <2>4 DEF KnowsAt, HealKnows
    <2>7. QED BY <1>0, <1>1, <1>2, <2>1, <2>2, <2>3, <2>5, <2>6, QuietKept
  <1>6. QED BY <1>3, <1>4, <1>5 DEF Get

(* What is started is new only for a session that was created here. *)
LEMMA CommandStays ==
    ASSUME LaunchInv, NEW s \in Sessions, NEW o \in Object, CommandSent(s, o), files' = files,
           ObjectKnows(s, o, files), o.real \in Names(s) \cup {0}, o.persisted \in Names(s) \cup {0},
           Good({s})
    PROVE  on'[s] \in {0, last'[s]} /\ Stays(s) /\ moved \subseteq moved'
  <1>0. /\ TypeInv /\ KnowsAt(s) /\ Names(s) \subseteq taken \cup {0}
        /\ on \in [Sessions -> Known] /\ last \in [Sessions -> Known]
    BY BeforeKnown DEF Sorts, SortsOutside
  <1> DEFINE c == IF Resumes(s, o) = 0 THEN Fresh ELSE Resumes(s, o)
  <1>1. Resumes(s, o) \in taken \cup {0}
    BY <1>0, ResumesFacts
  <1>2. Resumes(s, o) = 0 => Own[s] = 0
    BY DEF Resumes, ObjectKnows
  <1>3. Names(s)' \subseteq taken' \cup {0}
    BY DEF Good, Fine, NamesFine
  <1>4. CASE pane[s] # "shell"
    <2>1. UNCHANGED <<on, last, taken, moved>>
      BY <1>4 DEF CommandSent
    <2>2. QED BY <1>0, <1>3, <2>1 DEF Stays, KnowsAt
  <1>5. CASE pane[s] = "shell"
    <2>1. /\ on'[s] = c /\ last'[s] = c /\ taken' = taken \cup {c}
          /\ moved' = IF last[s] \in files \ {c} THEN moved \cup {s} ELSE moved
      BY <1>0, <1>5 DEF CommandSent
    <2>2. moved \subseteq moved' /\ (s \in moved' \/ last[s] \notin files \/ last[s] = c)
      BY <2>1
    <2>3. Own[s] = 0 \/ c \in taken \cup {0}
      BY <1>1, <1>2
    <2> HIDE DEF c
    <2>4. Names(s)' \subseteq taken \cup {0} \/ (files' = files /\ Own[s] = 0)
      BY <1>3, <2>1, <2>3
    <2>5. QED BY <2>1, <2>2, <2>4 DEF Stays
  <1>6. QED BY <1>4, <1>5

LEMMA LaunchKept ==
    ASSUME LaunchInv, NEW c \in Callers, NEW s \in Sessions, Launch(c, s) PROVE Kept({s})
  <1>0. /\ TerminalInv /\ TypeOK /\ KnowsAt(s) /\ {s} \in SUBSET Sessions /\ new[s] \in Object
    BY BeforeKnown
  <1>1. Good({s}) /\ files' = files
    BY <1>0, LaunchGood DEF Launch
  <1>2. ObjectKnows(s, new[s], files) /\ new[s].real \in Names(s) /\ new[s].persisted \in Names(s)
    BY <1>0, OldHas DEF KnowsAt
  <1>3. on'[s] \in {0, last'[s]} /\ Stays(s) /\ moved \subseteq moved'
    BY <1>0, <1>1, <1>2, CommandStays DEF Launch
  <1>4. /\ ObjectKnows(s, obj'[s], files) /\ ObjectKnows(s, new'[s], files)
        /\ ~new'[s].started /\ new'[s].real = 0 /\ HealKnows(s)'
    <2>1. Launched(new[s]) \in Object /\ ObjectKnows(s, Launched(new[s]), files)
      BY <1>0, <1>2, LaunchedFacts, FlagFacts, KnowsLike
    <2>2. QED BY <1>1, <2>1, InstalledKnows DEF Launch
  <1>5. KnowsAt(s)'
    BY <1>0, <1>1, <1>3, <1>4 DEF KnowsAt
  <1>6. QED BY <1>1, <1>3, <1>5 DEF Kept

(* The object that the health loop repairs. *)
LEMMA HealKnown ==
    ASSUME LaunchInv, NEW s \in Sessions, heal.s = s, heal.at \in {"make", "launch"}
    PROVE  /\ HealObject \in Object /\ HealObject.here /\ ObjectKnows(s, HealObject, files)
           /\ HealObject.real \in Names(s) /\ HealObject.persisted \in Names(s)
  <1>1. TerminalInv /\ KnowsAt(s)
    BY BeforeKnown
  <1>2. /\ HealObject \in Object
        /\ HealObject.real \in Names(s) /\ HealObject.persisted \in Names(s)
    BY <1>1, HealFacts
  <1>3. CASE heal.same
    <2>1. HealObject = obj[s]
      BY <1>3 DEF HealObject
    <2>2. QED BY <1>1, <1>2, <1>3, <2>1 DEF KnowsAt, HealKnows
  <1>4. CASE ~heal.same
    <2>1. HealObject = heal.obj
      BY <1>4 DEF HealObject
    <2>2. QED BY <1>1, <1>2, <1>4, <2>1 DEF KnowsAt, HealKnows
  <1>5. QED BY <1>3, <1>4

LEMMA HealUpdatesKnows ==
    ASSUME LaunchInv, NEW s \in Sessions, heal.s = s, heal.at \in {"make", "launch"},
           NEW o \in Object, HealUpdates(o), o.here = HealObject.here, o.isNew = HealObject.isNew,
           o.real = HealObject.real, o.persisted = HealObject.persisted
    PROVE  /\ obj'[s].here = obj[s].here /\ ObjectKnows(s, obj'[s], files)
  <1>1. KnowsAt(s) /\ obj \in [Sessions -> Object] /\ ObjectKnows(s, HealObject, files)
    BY BeforeKnown, HealKnown DEF Sorts, SortsObjects
  <1>2. CASE heal.same
    <2>1. HealObject = obj[s] /\ obj'[s] = o
      BY <1>1, <1>2 DEF HealObject, HealUpdates
    <2>2. QED BY <1>1, <2>1, KnowsLike
  <1>3. CASE ~heal.same
    <2>1. obj' = obj
      BY <1>3 DEF HealUpdates
    <2>2. QED BY <1>1, <2>1 DEF KnowsAt
  <1>4. QED BY <1>2, <1>3

LEMMA HealthMakeKept ==
    ASSUME LaunchInv, NEW s \in Sessions, heal.s = s, HealthMake PROVE Kept({s})
  <1>0. /\ TerminalInv /\ TypeOK /\ KnowsAt(s) /\ {s} \in SUBSET Sessions /\ heal \in Healing
        /\ heal.at = "make" /\ HealObject \in Object
    BY BeforeKnown, HealKnown DEF HealthMake
  <1>1. Good({s})
    BY <1>0, HealthMakeGood
  <1>2. UNCHANGED <<taken, moved, files, last, new>>
    BY DEF HealthMake, marks
  <1>3. CASE HealUpdates(Reused(HealObject)) /\ heal' = Idle /\ on' = on
    <2>1. Reused(HealObject) \in Object
      BY <1>0, ReusedFacts
    <2>2. ObjectKnows(s, obj'[s], files)
      BY <1>0, <1>3, <2>1, ReusedFacts, FlagFacts, HealUpdatesKnows
    <2>3. HealKnows(s)'
      BY <1>3, IdleFacts DEF HealKnows
    <2>4. QED BY <1>0, <1>1, <1>2, <1>3, <2>2, <2>3, QuietKept DEF KnowsAt
  <1>4. CASE /\ Remade(s) /\ HealUpdates(Snapshot(HealObject))
             /\ heal' = [heal EXCEPT !.at = "launch"]
    <2>1. Snapshot(HealObject) \in Object
      BY <1>0, SnapshotFacts
    <2>2. ObjectKnows(s, obj'[s], files) /\ obj'[s].here = obj[s].here
      BY <1>0, <1>4, <2>1, SnapshotFacts, FlagFacts, HealUpdatesKnows
    <2>3. heal'.same = heal.same /\ heal'.obj = heal.obj /\ heal'.s = heal.s
      BY <1>0, <1>4 DEF Healing
    <2>4. HealKnows(s)'
      BY <1>0, <1>2, <2>2, <2>3 DEF HealKnows, KnowsAt
    <2>5. on'[s] = 0
      BY <1>0, <1>4, RemadeFacts
    <2>6. QED BY <1>0, <1>1, <1>2, <2>2, <2>4, <2>5, QuietKept DEF KnowsAt
  <1>5. QED BY <1>0, <1>3, <1>4 DEF HealthMake

LEMMA HealthLaunchKept ==
    ASSUME LaunchInv, NEW s \in Sessions, heal.s = s, HealthLaunch PROVE Kept({s})
  <1>0. /\ TerminalInv /\ TypeOK /\ KnowsAt(s) /\ heal.at = "launch" /\ HealObject \in Object
        /\ ObjectKnows(s, HealObject, files)
        /\ HealObject.real \in Names(s) /\ HealObject.persisted \in Names(s)
    BY BeforeKnown, HealKnown DEF HealthLaunch
  <1>1. Good({s}) /\ files' = files /\ new' = new /\ heal' = Idle
    BY <1>0, HealthLaunchGood DEF HealthLaunch
  <1>2. on'[s] \in {0, last'[s]} /\ Stays(s) /\ moved \subseteq moved'
    BY <1>0, <1>1, CommandStays DEF HealthLaunch
  <1>3. ObjectKnows(s, obj'[s], files)
    <2>1. Launched(HealObject) \in Object
      BY <1>0, LaunchedFacts
    <2>2. QED BY <1>0, <2>1, LaunchedFacts, FlagFacts, HealUpdatesKnows DEF HealthLaunch
  <1>4. HealKnows(s)'
    BY <1>1, IdleFacts DEF HealKnows
  <1>5. KnowsAt(s)'
    BY <1>0, <1>1, <1>2, <1>3, <1>4 DEF KnowsAt
  <1>6. QED BY <1>1, <1>2, <1>5 DEF Kept

LEMMA InitKnown == Init => LaunchInv
  <1> SUFFICES ASSUME Init PROVE LaunchInv
    OBVIOUS
  <1>0. TerminalInv
    BY InitInv
  <1>1. heal = Idle /\ files = {Own[s] : s \in Sessions} \ {0}
    BY DEF Init
  <1>2. ASSUME NEW s \in Sessions
        PROVE  /\ on[s] = 0 /\ pid[s] = 0 /\ hook[s] = 0 /\ last[s] = 0 /\ real[s] = 0 /\ disk[s] = 0
               /\ obj[s] = Absent /\ new[s] = Absent /\ Names(s) \subseteq {Own[s], 0}
               /\ Own[s] \in files \cup {0}
    <2>1. /\ on[s] = 0 /\ pid[s] = 0 /\ hook[s] = 0 /\ last[s] = 0 /\ real[s] = 0 /\ disk[s] = 0
          /\ obj[s] = Absent /\ new[s] = Absent
      BY DEF Init
    <2>2. Names(s) \subseteq {Own[s], 0}
      <3>1. heal.s # s
        BY <1>1, IdleFacts, TerminalAssumption
      <3>2. /\ obj[s].real = 0 /\ obj[s].persisted = 0 /\ new[s].real = 0 /\ new[s].persisted = 0
        BY <2>1, AbsentFacts
      <3>3. pid[s] = 0 /\ on[s] = 0 /\ hook[s] = 0 /\ last[s] = 0 /\ real[s] = 0 /\ disk[s] = 0
        BY <2>1
      <3>4. QED BY <3>1, <3>2, <3>3 DEF Names
    <2>3. QED BY <1>1, <2>1, <2>2
  <1>3. KnowsInv
    <2> SUFFICES ASSUME NEW s \in Sessions PROVE KnowsAt(s)
      BY DEF KnowsInv
    <2>1. HealKnows(s)
      BY <1>1, IdleFacts DEF HealKnows
    <2>2. QED BY <1>2, <2>1, KnowsAbsent, AbsentFacts DEF KnowsAt
  <1>4. ShareInv
    BY <1>2 DEF ShareInv
  <1>5. HomeInv
    BY <1>1, <1>2 DEF HomeInv, HomeAt
  <1>6. QED BY <1>0, <1>3, <1>4, <1>5 DEF LaunchInv

LEMMA OneKnown ==
    ASSUME LaunchInv, NEW s \in Sessions, Good({s}), Kept({s}) PROVE LaunchInv'
  <1>1. {s} \in SUBSET Sessions /\ \A t, u \in {s} : t = u
    OBVIOUS
  <1>2. TerminalInv'
    BY OneGood DEF LaunchInv
  <1>3. QED BY <1>1, <1>2, KeptStep DEF LaunchInv

(* Every step is about one session, about all, or about none. *)
LEMMA SystemKept ==
    ASSUME LaunchInv, NEW s \in Sessions, System(s) \/ Users(s) PROVE Good({s}) /\ Kept({s})
  <1>0. TerminalInv
    BY DEF LaunchInv
  <1>1. ASSUME NEW c \in Callers, Step(c, s) PROVE Good({s}) /\ Kept({s})
    <2>1. Good({s})
      BY <1>0, <1>1, GetGood, LaunchGood, LookForWindowGood, OpenWindowGood DEF Step
    <2>2. Kept({s})
      BY <1>1, GetKept, LaunchKept, WindowKept DEF Step
    <2>3. QED BY <2>1, <2>2
  <1>2. ASSUME Loaded(s) \/ HookArrives(s) \/ Poll(s) \/ Type(s) \/ TypeTimeout(s) \/ TurnDetects(s)
        PROVE  Good({s}) /\ Kept({s})
    <2>1. Good({s})
      BY <1>0, <1>2, LoadedGood, HookArrivesGood, PollGood, TypeGood, TypeTimeoutGood, TurnDetectsGood
    <2>2. Kept({s})
      BY <1>2, LoadedKept, HookArrivesKept, PollKept, TypeKept, TurnStartKept, TurnDetectsKept
    <2>3. QED BY <2>1, <2>2
  <1>3. ASSUME HealthCheck(s) \/ Rebuild(s) \/ RemoveKill(s) \/ ClearDone(s)
        PROVE  Good({s}) /\ Kept({s})
    <2>1. Good({s})
      BY <1>0, <1>3, HealthCheckGood, RebuildGood, RemoveKillGood, ClearDoneGood
    <2>2. Kept({s})
      BY <1>3, HealthCheckKept, RebuildKept, RemoveKillKept, ClearDoneKept
    <2>3. QED BY <2>1, <2>2
  <1>4. ASSUME Users(s) PROVE Good({s}) /\ Kept({s})
    <2>1. Good({s})
      BY <1>0, <1>4, ClaudeExitsGood, UserClearsGood, TurnStartGood, RemoveGood, AddSlotGood, ResetGood,
         CompactGood DEF Users
    <2>2. Kept({s})
      BY <1>4, ClaudeExitsKept, UserClearsKept, TurnStartKept, RemoveKept, ResetKept,
         CompactKept DEF Users
    <2>3. QED BY <2>1, <2>2
  <1>5. QED BY <1>1, <1>2, <1>3, <1>4 DEF System

LEMMA StepKnown == ASSUME LaunchInv, [Next]_vars PROVE LaunchInv'
  <1>0. TerminalInv /\ TerminalInv'
    BY StepInv DEF LaunchInv
  <1>1. ASSUME NEW s \in Sessions, System(s) \/ Users(s) PROVE LaunchInv'
    BY <1>1, SystemKept, OneKnown
  <1>2. CASE HealthMake \/ HealthLaunch
    <2>1. heal.at \in {"make", "launch"}
      BY <1>2 DEF HealthMake, HealthLaunch
    <2>2. PICK s \in Sessions : heal.s = s
      BY <1>0, <2>1, HealFacts
    <2>3. Good({s}) /\ Kept({s})
      BY <1>0, <1>2, <2>2, HealthMakeGood, HealthLaunchGood, HealthMakeKept, HealthLaunchKept
    <2>4. QED BY <2>3, OneKnown
  <1>3. ASSUME Recover \/ Restart \/ ServerDies PROVE LaunchInv'
    <2>1. Good(Sessions) /\ Kept(Sessions)
      BY <1>0, <1>3, RecoverGood, RestartGood, ServerDiesGood, RecoverKept, RestartKept, ServerDiesKept
    <2>2. taken' = taken /\ Sessions \in SUBSET Sessions
      BY <1>3 DEF Recover, Restart, ServerDies, outside
    <2>3. QED BY <1>0, <2>1, <2>2, KeptStep DEF LaunchInv
  <1>4. ASSUME Rebuilt \/ Stranger PROVE LaunchInv'
    <2>1. Good({}) /\ Kept({})
      BY <1>0, <1>4, RebuiltGood, StrangerGood, RebuiltKept, StrangerKept
    <2>2. QED BY <1>0, <2>1, KeptStep DEF LaunchInv
  <1>5. CASE UNCHANGED vars
    <2>1. KnowsInv'
      BY <1>5 DEF LaunchInv, KnowsInv, KnowsAt, HealKnows, vars, outside, health
    <2>2. /\ \A s \in Sessions : Names(s)' = Names(s)
          /\ files' = files /\ last' = last /\ moved' = moved /\ scanned' = scanned
      BY <1>5 DEF Names, vars, outside, records, health, marks
    <2>3. ShareInv' /\ HomeInv'
      BY <2>2 DEF LaunchInv, ShareInv, HomeInv, HomeAt
    <2>4. QED BY <1>0, <2>1, <2>3 DEF LaunchInv
  <1>6. QED BY <1>1, <1>2, <1>3, <1>4, <1>5 DEF Next, Loop

(* What a command resumes is the conversation that the terminal had last. *)
LEMMA CommandKeeps ==
    ASSUME LaunchInv, NEW s \in Sessions, NEW o \in Object, CommandSent(s, o),
           ObjectKnows(s, o, files), o.here, ~o.isNew, ~Spent(o),
           o.real \in Names(s), o.persisted \in Names(s),
           on'[s] # on[s], last[s] \in files, s \notin moved \cup scanned
    PROVE  on'[s] = last[s]
  <1>0. /\ HomeAt(s) /\ TypeOK /\ 0 \notin files /\ on \in [Sessions -> Known]
        /\ Own[s] \in Names(s) /\ last[s] \in Names(s)
    BY BeforeKnown, ZeroNotTaken, OldHas DEF LaunchInv, HomeInv, Sorts, SortsOutside, TypeOK
  <1>1. Resumes(s, o) = last[s]
    <2>1. CASE Own[s] # 0
      <3>1. last[s] = Own[s] /\ o.real \in {0, Own[s]} /\ o.persisted \in {0, Own[s]}
        BY <1>0, <2>1 DEF HomeAt
      <3>2. QED BY <3>1 DEF Resumes
    <2>2. CASE Own[s] = 0
      <3>1. \A x \in Names(s) : x \in files => x = last[s]
        BY <1>0, <2>2 DEF HomeAt
      <3>2. /\ o.real \in files \cup {0}
            /\ o.persisted \in files \/ (o.persisted = 0 /\ o.real # 0)
        BY <2>2 DEF ObjectKnows
      <3>3. CASE o.started /\ o.real # 0
        BY <3>1, <3>2, <3>3 DEF Resumes
      <3>4. CASE ~(o.started /\ o.real # 0) /\ o.persisted # 0
        BY <3>1, <3>2, <3>4 DEF Resumes
      <3>5. CASE ~(o.started /\ o.real # 0) /\ o.persisted = 0
        <4>1. o.real # 0 /\ ~o.started
          BY <1>0, <3>2, <3>5
        <4>2. QED BY <3>5, <4>1 DEF Spent
      <3>6. QED BY <3>3, <3>4, <3>5
    <2>3. QED BY <2>1, <2>2
  <1>2. Resumes(s, o) # 0
    BY <1>0, <1>1
  <1>3. QED BY <1>0, <1>1, <1>2 DEF CommandSent

(* A step that starts no CLI. *)
LEMMA NoneStarted ==
    ASSUME TypeOK, NEW s \in Sessions,
           \/ Loaded(s) \/ HookArrives(s) \/ Poll(s) \/ Type(s) \/ TypeTimeout(s) \/ TurnDetects(s)
           \/ HealthCheck(s) \/ Rebuild(s) \/ RemoveKill(s) \/ ClearDone(s) \/ Users(s)
           \/ \E c \in Callers : Get(c, s) \/ LookForWindow(c, s) \/ OpenWindow(c, s)
    PROVE  on[s] # 0 \/ on'[s] = 0
  <1> SUFFICES ASSUME on[s] = 0 PROVE on'[s] = 0
    OBVIOUS
  <1>0. pane[s] # "prompt" /\ on \in [Sessions -> Convs \cup {0}] /\ s \in Sessions
    BY DEF TypeOK
  <1>1. CASE Loaded(s) \/ HookArrives(s) \/ Poll(s) \/ Type(s) \/ TypeTimeout(s) \/ TurnDetects(s)
    BY <1>1 DEF Loaded, HookArrives, Poll, Type, TypeTimeout, TurnDetects, outside
  <1>2. CASE HealthCheck(s) \/ Rebuild(s) \/ ClearDone(s)
    BY <1>2 DEF HealthCheck, Rebuild, ClearDone, outside
  <1>3. CASE RemoveKill(s)
    BY <1>3 DEF RemoveKill, Killed
  <1>4. CASE \E c \in Callers : Get(c, s) \/ LookForWindow(c, s) \/ OpenWindow(c, s)
    BY <1>0, <1>4 DEF Get, LookForWindow, OpenWindow, Remade, outside
  <1>5. CASE Users(s)
    <2>1. CASE ClaudeExits(s)
      BY <1>0, <2>1 DEF ClaudeExits
    <2>2. CASE UserClears(s)
      BY <1>0, <2>2 DEF UserClears
    <2>3. CASE TurnStart(s) \/ Remove(s) \/ AddSlot(s)
      BY <2>3 DEF TurnStart, Remove, AddSlot, outside
    <2>4. CASE Reset(s) \/ Compact(s)
      BY <1>0, <2>4 DEF Reset, Compact, Cleared, Killed, outside
    <2>5. QED BY <1>5, <2>1, <2>2, <2>3, <2>4 DEF Users
  <1>6. QED BY <1>1, <1>2, <1>3, <1>4, <1>5

(* What LaunchKeeps says of a session. *)
KeepsAt(s) ==
  on[s] = 0 /\ on'[s] # 0 /\ last[s] \in files =>
    \/ on'[s] = last[s]
    \/ s \in moved \cup scanned
    \/ new[s].isNew
    \/ heal.s = s /\ (HealObject.isNew \/ Spent(HealObject))

LEMMA NoneKeeps == ASSUME NEW s \in Sessions, on[s] # 0 \/ on'[s] = 0 PROVE KeepsAt(s)
  BY DEF KeepsAt

LEMMA OthersKeep ==
    ASSUME TerminalInv, NEW S \in SUBSET Sessions, Good(S), NEW t \in Sessions, t \notin S
    PROVE  KeepsAt(t)
  <1>1. on'[t] = on[t]
    BY DEF Good, Frame, Same
  <1>2. QED BY <1>1 DEF KeepsAt

LEMMA LaunchStep == ASSUME LaunchInv, NEW s \in Sessions, [Next]_vars PROVE KeepsAt(s)
  <1>0. /\ TerminalInv /\ TypeOK /\ KnowsAt(s) /\ OneAt(s) /\ new[s] \in Object
        /\ on \in [Sessions -> Known]
    BY BeforeKnown DEF Sorts, SortsOutside
  <1>1. ASSUME NEW c \in Callers, Launch(c, s) PROVE KeepsAt(s)
    <2>1. new[s].here
      BY <1>0, <1>1 DEF Launch, OneAt, Locked
    <2>2. ObjectKnows(s, new[s], files) /\ ~Spent(new[s])
      BY <1>0 DEF KnowsAt, Spent
    <2>3. new[s].real \in Names(s) /\ new[s].persisted \in Names(s) /\ CommandSent(s, new[s])
      BY <1>1, OldHas DEF Launch
    <2>4. QED BY <1>0, <2>1, <2>2, <2>3, CommandKeeps DEF KeepsAt
  <1>2. ASSUME HealthLaunch, heal.s = s PROVE KeepsAt(s)
    <2>1. /\ HealObject \in Object /\ HealObject.here /\ ObjectKnows(s, HealObject, files)
          /\ HealObject.real \in Names(s) /\ HealObject.persisted \in Names(s)
          /\ CommandSent(s, HealObject)
      BY <1>2, HealKnown DEF HealthLaunch
    <2>2. QED BY <1>0, <1>2, <2>1, CommandKeeps DEF KeepsAt
  <1>3. ASSUME NEW t \in Sessions, System(t) \/ Users(t) PROVE KeepsAt(s)
    <2>1. CASE t # s
      <3>1. Good({t}) /\ {t} \in SUBSET Sessions
        BY <1>3, SystemKept
      <3>2. QED BY <1>0, <2>1, <3>1, OthersKeep
    <2>2. CASE t = s
      BY <1>0, <1>1, <1>3, <2>2, NoneStarted, NoneKeeps DEF System, Step
    <2>3. QED BY <2>1, <2>2
  <1>4. CASE HealthMake \/ HealthLaunch
    <2>1. heal.at \in {"make", "launch"}
      BY <1>4 DEF HealthMake, HealthLaunch
    <2>2. PICK t \in Sessions : heal.s = t
      BY <1>0, <2>1, HealFacts
    <2>3. CASE t # s
      <3>1. Good({t}) /\ {t} \in SUBSET Sessions
        BY <1>0, <1>4, <2>2, HealthMakeGood, HealthLaunchGood
      <3>2. QED BY <1>0, <2>3, <3>1, OthersKeep
    <2>4. CASE t = s /\ HealthMake
      <3>1. on[s] # 0 \/ on'[s] = 0
        BY <1>0, <2>2, <2>4 DEF HealthMake, Remade
      <3>2. QED BY <3>1, NoneKeeps
    <2>5. CASE t = s /\ HealthLaunch
      BY <1>2, <2>2, <2>5
    <2>6. QED BY <1>4, <2>3, <2>4, <2>5
  <1>5. CASE Recover \/ Restart \/ ServerDies \/ Rebuilt \/ Stranger \/ UNCHANGED vars
    <2>1. on[s] # 0 \/ on'[s] = 0
      BY <1>0, <1>5 DEF Recover, Restart, ServerDies, Rebuilt, Stranger, Killed, vars, outside
    <2>2. QED BY <2>1, NoneKeeps
  <1>6. QED BY <1>3, <1>4, <1>5 DEF Next, Loop

(* A terminal that starts its CLI again goes on with the conversation it had  *)
(* last: for any number of exits, deaths, removals, resets and restarts of    *)
(* the backend, with the exceptions of LaunchKeeps (tmux_session.py:200, 398).*)
THEOREM LaunchesKeep == Spec => LaunchKeeps
  <1>1. Init => LaunchInv
    BY InitKnown
  <1>2. LaunchInv /\ [Next]_vars => LaunchInv'
    BY StepKnown
  <1>3. LaunchInv /\ [Next]_vars => [\A s \in Sessions : KeepsAt(s)]_vars
    BY LaunchStep
  <1>4. LaunchKeeps <=> [][\A s \in Sessions : KeepsAt(s)]_vars
    BY DEF LaunchKeeps, KeepsAt
  <1>5. QED BY <1>1, <1>2, <1>3, <1>4, PTL DEF Spec

-----------------------------------------------------------------------------
(* The questions put to the users: for any prompts, requests, retries, number *)
(* of questions, reloads and restarts, what MCObserverMode calls              *)
(* QuestionsSafe.  Q is its instance of Questions.                            *)

\* A script waits for the one request that was registered for its prompt, and has a post
\* left while it is under way.
ScriptsPost ==
  /\ \A p \in Prompts : script[p] \notin Q!ScriptOver => tries[p] < MaxRetries
  /\ \A p \in Prompts : at[p] # 0 <=> script[p] = "waiting"
  /\ \A p \in Prompts : at[p] # 0 => origin[at[p]] = {p} /\ req[at[p]] # "none"

\* What was never registered has no prompt, no card and no decision, and a decision
\* belongs to a request that is replied or over.
RequestsFresh ==
  /\ \A r \in Q!Reqs : req[r] = "none" => origin[r] = {} /\ Q!HookCard(r) \notin cards
  /\ \A r \in Q!Reqs : req[r] \in {"none", "open"} => verdict[r] = "none"
  /\ \A r \in Q!Reqs : req[r] = "replied" => verdict[r] # "none"

ForgottenByRestart == ~knows => restarted

\* Questions that are unsettled together are known to be, and what was never asked has
\* no card and no reply.
AsksFresh ==
  /\ \A j, k \in Q!Asks : j # k /\ j \in Q!Unsettled /\ k \in Q!Unsettled => j \in crowded
  /\ \A k \in Q!Asks : ask[k] = "none" => Q!SdkCard(k) \notin cards
  /\ \A k \in Q!Asks : ask[k] \in {"none", "open"} => gave[k] = 0
  /\ \A k \in Q!Asks : ask[k] \in {"replied", "answered"} => gave[k] # 0
  /\ \A k \in Q!Asks : gave[k] = k => Q!SdkCard(k) \notin cards
  /\ \A k \in Q!Asks : ask[k] = "denied" => k \in late

QuestionsInv ==
  /\ Q!TypeOK /\ ScriptsPost /\ RequestsFresh /\ ForgottenByRestart /\ AsksFresh
  /\ Q!OpenIsShown /\ Q!StrandedOnlyAfterTimeout /\ Q!DecisionIsUsers
  /\ Q!OpenIsReachable /\ Q!MisdirectedOnlyLate


LEMMA QuestionsStart == Q!Init => QuestionsInv
<1> SUFFICES ASSUME Q!Init PROVE QuestionsInv
  OBVIOUS
<1>1. /\ knows = TRUE /\ serving = TRUE /\ restarted = FALSE /\ cards = {} /\ reply = 0
      /\ crowded = {} /\ late = {} /\ abandoned = {} /\ faults = 0 /\ conn = "ready"
      /\ \A p \in Prompts : script[p] = "none" /\ tries[p] = 0 /\ at[p] = 0
      /\ \A r \in Q!Reqs : req[r] = "none" /\ origin[r] = {} /\ verdict[r] = "none"
      /\ \A k \in Q!Asks : ask[k] = "none" /\ gave[k] = 0
  BY DEF Q!Init
<1>2. Q!TypeOK
  <2>1. {knows, serving} \subseteq BOOLEAN /\ restarted \in BOOLEAN
    BY <1>1, Zenon
  <2>2. 0 \in 0..MaxReqs /\ 0 \in 0..MaxRetries /\ 0 \in 0..MaxAsks /\ 0 \in 0..MaxFaults
    BY QuestionBounds
  <2> QED BY <2>1, <2>2 DEF Q!Init, Q!TypeOK
<1>3. ScriptsPost /\ RequestsFresh /\ ForgottenByRestart /\ AsksFresh
  BY <1>1, QuestionBounds
     DEF ScriptsPost, Q!ScriptOver, RequestsFresh, ForgottenByRestart, AsksFresh, Q!Unsettled
<1>4. Q!OpenIsShown /\ Q!StrandedOnlyAfterTimeout /\ Q!DecisionIsUsers
  BY <1>1 DEF Q!OpenIsShown, Q!StrandedOnlyAfterTimeout, Q!DecisionIsUsers, Q!Open
<1>5. Q!OpenIsReachable /\ Q!MisdirectedOnlyLate
  BY <1>1 DEF Q!OpenIsReachable, Q!MisdirectedOnlyLate, Q!Strays, Q!Excused
<1> QED BY <1>2, <1>3, <1>4, <1>5 DEF QuestionsInv

LEMMA ShowTypes ==
  ASSUME cards \subseteq ({"hook"} \X Q!Reqs) \cup ({"sdk"} \X Q!Asks),
         NEW x \in ({"hook"} \X Q!Reqs) \cup ({"sdk"} \X Q!Asks), Q!Show(x)
  PROVE  cards' \subseteq ({"hook"} \X Q!Reqs) \cup ({"sdk"} \X Q!Asks)
BY DEF Q!Show

LEMMA ScriptTypes ==
  ASSUME Q!TypeOK, NEW p \in Prompts,
         Q!Prompt(p) \/ (Q!PostFails(p) /\ ScriptsPost) \/ Q!HandleHook(p)
  PROVE  Q!TypeOK'
<1>1. CASE Q!Prompt(p)
  BY <1>1 DEF Q!TypeOK, Q!Prompt, Q!askVars, Q!backendVars, Q!clientVars, Q!ScriptOver
<1>2. CASE Q!PostFails(p) /\ ScriptsPost
  <2>1. tries[p] \in Nat /\ tries[p] + 1 \in 0..MaxRetries
    BY <1>2, QuestionBounds DEF Q!TypeOK, Q!PostFails, ScriptsPost, Q!ScriptOver
  <2>2. abandoned' \subseteq Q!Reqs
    <3>1. at[p] \in 0..MaxReqs /\ abandoned \subseteq Q!Reqs
      BY DEF Q!TypeOK
    <3>2. {at[p]} \ {0} \subseteq Q!Reqs
      BY <3>1, QuestionBounds DEF Q!Reqs
    <3> QED BY <1>2, <3>1, <3>2 DEF Q!PostFails
  <2>3. script' \in [Prompts -> {"none", "posting", "waiting"} \cup Q!ScriptOver]
        /\ tries' \in [Prompts -> 0..MaxRetries] /\ at' \in [Prompts -> 0..MaxReqs]
    BY <1>2, <2>1, QuestionBounds DEF Q!TypeOK, Q!PostFails, Q!ScriptOver
  <2> QED
    BY <1>2, <2>2, <2>3 DEF Q!TypeOK, Q!PostFails, Q!askVars, Q!backendVars, Q!clientVars
<1>3. CASE Q!HandleHook(p) /\ knows
  <2>1. PICK r \in Q!Reqs : Q!Asked(p, r)
    BY <1>3 DEF Q!HandleHook
  <2>2. cards' \subseteq ({"hook"} \X Q!Reqs) \cup ({"sdk"} \X Q!Asks)
    BY <2>1, ShowTypes DEF Q!TypeOK, Q!Asked, Q!HookCard
  <2>3. /\ req' \in [Q!Reqs -> {"none", "open", "replied", "over"}]
        /\ origin' \in [Q!Reqs -> SUBSET Prompts] /\ at' \in [Prompts -> 0..MaxReqs]
        /\ script' \in [Prompts -> {"none", "posting", "waiting"} \cup Q!ScriptOver]
    BY <2>1 DEF Q!TypeOK, Q!Asked, Q!Reqs
  <2> QED
    BY <1>3, <2>2, <2>3 DEF Q!TypeOK, Q!HandleHook, Q!askVars, Q!backendVars
<1>4. CASE Q!HandleHook(p) /\ ~knows
  BY <1>4 DEF Q!TypeOK, Q!HandleHook, Q!askVars, Q!backendVars, Q!ScriptOver
<1> QED BY <1>1, <1>2, <1>3, <1>4

LEMMA RequestTypes ==
  ASSUME Q!TypeOK, NEW r \in Q!Reqs, Q!HookAnswered(r) \/ Q!HookTimeout(r) \/ Q!UserDecides(r)
  PROVE  Q!TypeOK'
<1>1. ASSUME NEW d \in {"allowed", "denied"}, Q!Respond(r, d)
      PROVE  /\ req' \in [Q!Reqs -> {"none", "open", "replied", "over"}]
             /\ at' \in [Prompts -> 0..MaxReqs]
             /\ script' \in [Prompts -> {"none", "posting", "waiting"} \cup Q!ScriptOver]
  BY <1>1, QuestionBounds DEF Q!TypeOK, Q!Respond, Q!ScriptOver
<1>2. CASE Q!HookAnswered(r) \/ Q!HookTimeout(r)
  <2>1. \E d \in {"allowed", "denied"} : Q!Respond(r, d)
    BY <1>2 DEF Q!HookAnswered, Q!HookTimeout
  <2>2. /\ req' \in [Q!Reqs -> {"none", "open", "replied", "over"}]
        /\ at' \in [Prompts -> 0..MaxReqs]
        /\ script' \in [Prompts -> {"none", "posting", "waiting"} \cup Q!ScriptOver]
    BY <1>1, <2>1
  <2> QED
    BY <1>2, <2>2 DEF Q!TypeOK, Q!HookAnswered, Q!HookTimeout, Q!askVars, Q!backendVars, Q!clientVars
<1>3. CASE Q!UserDecides(r)
  BY <1>3 DEF Q!TypeOK, Q!UserDecides, Q!askVars, Q!backendVars
<1> QED BY <1>2, <1>3

LEMMA AskTypes ==
  ASSUME Q!TypeOK, NEW k \in Q!Asks,
         Q!AskStart(k) \/ Q!UserReplies(k) \/ Q!AskAnswered(k) \/ Q!AskTimeout(k)
  PROVE  Q!TypeOK'
<1>0. k \in 0..MaxAsks /\ 0 \in 0..MaxAsks
  BY QuestionBounds DEF Q!Asks
<1>1. CASE Q!AskStart(k)
  <2>1. cards' \subseteq ({"hook"} \X Q!Reqs) \cup ({"sdk"} \X Q!Asks)
    BY <1>1, ShowTypes DEF Q!TypeOK, Q!AskStart, Q!SdkCard
  <2>2. crowded' \subseteq Q!Asks
    BY <1>1 DEF Q!TypeOK, Q!AskStart, Q!Unsettled
  <2> QED
    BY <1>0, <1>1, <2>1, <2>2 DEF Q!TypeOK, Q!AskStart, Q!Register, Q!hookVars, Q!backendVars
<1>2. CASE Q!UserReplies(k)
  BY <1>0, <1>2 DEF Q!TypeOK, Q!UserReplies, Q!hookVars, Q!backendVars
<1>3. CASE Q!AskAnswered(k) \/ Q!AskTimeout(k)
  BY <1>0, <1>3 DEF Q!TypeOK, Q!AskAnswered, Q!AskTimeout, Q!hookVars, Q!backendVars, Q!clientVars
<1> QED BY <1>1, <1>2, <1>3

LEMMA LinkTypes ==
  ASSUME Q!TypeOK,
         Q!ClientReload \/ Q!Connect \/ Q!Resend \/ Q!BackendStops \/ Q!BackendStarts \/ Q!SessionKnown
  PROVE  Q!TypeOK'
<1>1. CASE Q!ClientReload
  <2>1. faults' \in 0..MaxFaults
    BY <1>1, QuestionBounds DEF Q!TypeOK, Q!ClientReload
  <2> QED BY <1>1, <2>1 DEF Q!TypeOK, Q!ClientReload, Q!hookVars, Q!askVars, Q!backendVars
<1>2. CASE Q!Connect \/ Q!Resend
  BY <1>2 DEF Q!TypeOK, Q!Connect, Q!Resend, Q!Open, Q!HookCard, Q!hookVars, Q!askVars, Q!backendVars
<1>3. CASE Q!BackendStops
  <2>1. faults' \in 0..MaxFaults /\ 0 \in 0..MaxAsks
    BY <1>3, QuestionBounds DEF Q!TypeOK, Q!BackendStops
  <2>2. /\ req' \in [Q!Reqs -> {"none", "open", "replied", "over"}]
        /\ ask' \in [Q!Asks -> {"none", "open", "replied", "answered", "denied", "gone"}]
    BY <1>3 DEF Q!TypeOK, Q!BackendStops
  <2>3. restarted' \in BOOLEAN /\ {knows', serving'} \subseteq BOOLEAN
    BY <1>3, Zenon DEF Q!BackendStops
  <2> QED BY <1>3, <2>1, <2>2, <2>3 DEF Q!TypeOK, Q!BackendStops
<1>4. CASE Q!BackendStarts \/ Q!SessionKnown
  <2>1. restarted' \in BOOLEAN /\ {knows', serving'} \subseteq BOOLEAN
    BY <1>4, Zenon DEF Q!TypeOK, Q!BackendStarts, Q!SessionKnown
  <2> QED BY <1>4, <2>1 DEF Q!TypeOK, Q!BackendStarts, Q!SessionKnown, Q!hookVars, Q!askVars, Q!clientVars
<1> QED BY <1>1, <1>2, <1>3, <1>4

(* What happens to questions changes nothing of the prompts, and the other way round. *)
LEMMA PromptsStay ==
  ASSUME ScriptsPost, RequestsFresh, ForgottenByRestart, Q!OpenIsShown,
         Q!StrandedOnlyAfterTimeout, Q!DecisionIsUsers,
         UNCHANGED Q!hookVars, UNCHANGED conn, knows' = knows, restarted' = restarted,
         \A r \in Q!Reqs : Q!HookCard(r) \in cards' <=> Q!HookCard(r) \in cards
  PROVE  /\ ScriptsPost' /\ RequestsFresh' /\ ForgottenByRestart' /\ Q!OpenIsShown'
         /\ Q!StrandedOnlyAfterTimeout' /\ Q!DecisionIsUsers'
<1>1. ScriptsPost' /\ RequestsFresh' /\ ForgottenByRestart'
  BY DEF ScriptsPost, RequestsFresh, ForgottenByRestart, Q!hookVars, Q!HookCard
<1>2. Q!OpenIsShown' /\ Q!StrandedOnlyAfterTimeout' /\ Q!DecisionIsUsers'
  BY DEF Q!OpenIsShown, Q!StrandedOnlyAfterTimeout, Q!DecisionIsUsers, Q!Open, Q!hookVars, Q!HookCard
<1> QED BY <1>1, <1>2

LEMMA QuestionsStay ==
  ASSUME AsksFresh, Q!OpenIsReachable, Q!MisdirectedOnlyLate, UNCHANGED Q!askVars,
         \A k \in Q!Asks : Q!SdkCard(k) \in cards' => Q!SdkCard(k) \in cards
  PROVE  AsksFresh' /\ Q!OpenIsReachable' /\ Q!MisdirectedOnlyLate'
<1>1. AsksFresh'
  BY DEF AsksFresh, Q!Unsettled, Q!askVars, Q!SdkCard
<1>2. Q!OpenIsReachable' /\ Q!MisdirectedOnlyLate'
  BY DEF Q!OpenIsReachable, Q!MisdirectedOnlyLate, Q!Strays, Q!Excused, Q!askVars
<1> QED BY <1>1, <1>2

LEMMA CardsApart ==
  ASSUME NEW r, NEW k
  PROVE  Q!HookCard(r) # Q!SdkCard(k)
BY DEF Q!HookCard, Q!SdkCard

LEMMA ScriptStep ==
  ASSUME QuestionsInv, NEW p \in Prompts, Q!Prompt(p) \/ Q!PostFails(p) \/ Q!HandleHook(p)
  PROVE  /\ ScriptsPost' /\ RequestsFresh' /\ ForgottenByRestart' /\ Q!OpenIsShown'
         /\ Q!StrandedOnlyAfterTimeout' /\ Q!DecisionIsUsers'
<1> USE DEF QuestionsInv
<1>0. /\ script \in [Prompts -> {"none", "posting", "waiting"} \cup Q!ScriptOver]
      /\ tries \in [Prompts -> 0..MaxRetries] /\ at \in [Prompts -> 0..MaxReqs]
      /\ req \in [Q!Reqs -> {"none", "open", "replied", "over"}] /\ DOMAIN origin = Q!Reqs
  BY DEF Q!TypeOK
<1>1. CASE Q!Prompt(p)
  <2>1. /\ script[p] = "none" /\ script' = [script EXCEPT ![p] = "posting"]
        /\ UNCHANGED <<tries, at, req, origin, verdict, abandoned>>
        /\ UNCHANGED <<knows, restarted, conn, cards>>
    BY <1>1 DEF Q!Prompt, Q!backendVars, Q!clientVars
  <2>2. ScriptsPost' /\ RequestsFresh' /\ ForgottenByRestart'
    BY <1>0, <2>1 DEF ScriptsPost, RequestsFresh, ForgottenByRestart, Q!HookCard, Q!ScriptOver
  <2>3. Q!OpenIsShown' /\ Q!StrandedOnlyAfterTimeout' /\ Q!DecisionIsUsers'
    BY <1>0, <2>1 DEF Q!OpenIsShown, Q!StrandedOnlyAfterTimeout, Q!DecisionIsUsers, Q!Open, Q!HookCard
  <2> QED BY <2>2, <2>3
<1>2. CASE Q!PostFails(p)
  <2>1. /\ script[p] \in {"posting", "waiting"}
        /\ tries' = [tries EXCEPT ![p] = @ + 1]
        /\ script' = [script EXCEPT ![p] = IF tries[p] + 1 >= MaxRetries
                                           THEN "escaped" ELSE "posting"]
        /\ abandoned' = abandoned \cup ({at[p]} \ {0}) /\ at' = [at EXCEPT ![p] = 0]
        /\ UNCHANGED <<req, origin, verdict, knows, restarted, conn, cards>>
    BY <1>2 DEF Q!PostFails, Q!backendVars, Q!clientVars
  <2>2. ScriptsPost'
    BY <1>0, <2>1, QuestionBounds DEF ScriptsPost, Q!ScriptOver
  <2>3. RequestsFresh' /\ ForgottenByRestart' /\ Q!OpenIsShown'
    BY <2>1 DEF RequestsFresh, ForgottenByRestart, Q!HookCard, Q!OpenIsShown, Q!Open
  <2>4. Q!StrandedOnlyAfterTimeout'
    <3> SUFFICES ASSUME NEW r \in Q!Reqs, req[r] = "open", r \notin abandoned'
                 PROVE  \E q \in origin[r] : at'[q] = r
      BY <2>1 DEF Q!StrandedOnlyAfterTimeout, Q!Open
    <3>1. PICK q \in origin[r] : at[q] = r
      BY <2>1 DEF Q!StrandedOnlyAfterTimeout, Q!Open
    <3>2. q # p /\ q \in Prompts
      BY <2>1, <3>1, QuestionBounds DEF Q!Reqs, Q!TypeOK
    <3> QED BY <1>0, <2>1, <3>1, <3>2
  <2>5. Q!DecisionIsUsers'
    BY <1>0, <2>1 DEF Q!DecisionIsUsers
  <2> QED BY <2>2, <2>3, <2>4, <2>5
<1>3. CASE Q!HandleHook(p) /\ knows
  <2>1. PICK r \in Q!Reqs : Q!Asked(p, r)
    BY <1>3 DEF Q!HandleHook
  <2>2. /\ req[r] = "none" /\ req' = [req EXCEPT ![r] = "open"]
        /\ origin' = [origin EXCEPT ![r] = {p}] /\ at' = [at EXCEPT ![p] = r]
        /\ script' = [script EXCEPT ![p] = "waiting"]
        /\ cards' = IF conn = "down" THEN cards ELSE cards \cup {Q!HookCard(r)}
        /\ script[p] = "posting"
        /\ UNCHANGED <<tries, verdict, abandoned, knows, restarted, conn>>
    BY <1>3, <2>1 DEF Q!HandleHook, Q!Asked, Q!Show, Q!backendVars
  <2>3. \A x \in Q!Reqs : Q!HookCard(x) = Q!HookCard(r) => x = r
    BY DEF Q!HookCard
  <2>4. at[p] = 0 /\ tries[p] < MaxRetries /\ r # 0 /\ r \in 0..MaxReqs
    <3>1. at[p] = 0 /\ tries[p] < MaxRetries
      BY <2>2 DEF ScriptsPost, Q!ScriptOver
    <3> QED BY <3>1, QuestionBounds DEF Q!Reqs
  <2>5. ScriptsPost'
    BY <1>0, <2>2, <2>4 DEF ScriptsPost, Q!ScriptOver
  <2>6. RequestsFresh' /\ ForgottenByRestart'
    BY <1>0, <2>2, <2>3 DEF RequestsFresh, ForgottenByRestart
  <2>7. Q!OpenIsShown' 
    BY <1>0, <2>2, <2>3 DEF Q!OpenIsShown, Q!Open
  <2>8. Q!StrandedOnlyAfterTimeout'
    <3> SUFFICES ASSUME NEW x \in Q!Reqs, req'[x] = "open", x \notin abandoned
                 PROVE  \E q \in origin'[x] : at'[q] = x
      BY <2>2 DEF Q!StrandedOnlyAfterTimeout, Q!Open
    <3>1. CASE x = r
      BY <1>0, <2>2, <3>1
    <3>2. CASE x # r
      <4>1. PICK q \in origin[x] : at[q] = x
        BY <1>0, <2>2, <3>2 DEF Q!StrandedOnlyAfterTimeout, Q!Open
      <4>2. q # p
        BY <2>4, <4>1, QuestionBounds DEF Q!Reqs
      <4> QED BY <1>0, <2>2, <3>2, <4>1, <4>2
    <3> QED BY <3>1, <3>2
  <2>9. Q!DecisionIsUsers'
    <3> SUFFICES ASSUME NEW q \in Prompts
                 PROVE  /\ script'[q] = "allowed" => \E x \in Q!Reqs : q \in origin'[x] /\ verdict'[x] = "allow"
                        /\ script'[q] = "passed" => restarted'
      BY DEF Q!DecisionIsUsers
    <3>1. script'[q] \in {"allowed", "passed"} => script'[q] = script[q]
      BY <1>0, <2>2
    <3>2. \A x \in Q!Reqs : q \in origin[x] => q \in origin'[x]
      BY <1>0, <2>2 DEF RequestsFresh
    <3> QED BY <2>2, <3>1, <3>2 DEF Q!DecisionIsUsers
  <2> QED BY <2>5, <2>6, <2>7, <2>8, <2>9
<1>4. CASE Q!HandleHook(p) /\ ~knows
  <2>1. /\ script' = [script EXCEPT ![p] = "passed"] /\ script[p] = "posting" /\ restarted
        /\ UNCHANGED <<tries, req, origin, at, verdict, abandoned>>
        /\ UNCHANGED <<knows, restarted, conn, cards>>
    BY <1>4 DEF Q!HandleHook, ForgottenByRestart, Q!backendVars
  <2>2. ScriptsPost' /\ RequestsFresh' /\ ForgottenByRestart'
    BY <1>0, <2>1 DEF ScriptsPost, RequestsFresh, ForgottenByRestart, Q!HookCard, Q!ScriptOver
  <2>3. Q!OpenIsShown' /\ Q!StrandedOnlyAfterTimeout'
    BY <1>0, <2>1 DEF Q!OpenIsShown, Q!StrandedOnlyAfterTimeout, Q!Open, Q!HookCard
  <2>4. Q!DecisionIsUsers'
    BY <1>0, <2>1 DEF Q!DecisionIsUsers
  <2> QED BY <2>2, <2>3, <2>4
<1> QED BY <1>1, <1>2, <1>3, <1>4

LEMMA RespondStep ==
  ASSUME QuestionsInv, NEW r \in Q!Reqs, NEW d \in {"allowed", "denied"}, Q!Respond(r, d),
         req[r] \in {"open", "replied"}, d = "allowed" => verdict[r] = "allow",
         UNCHANGED <<tries, origin, verdict, abandoned, knows, restarted, conn, cards>>
  PROVE  /\ ScriptsPost' /\ RequestsFresh' /\ ForgottenByRestart' /\ Q!OpenIsShown'
         /\ Q!StrandedOnlyAfterTimeout' /\ Q!DecisionIsUsers'
<1> USE DEF QuestionsInv
<1>0. /\ script \in [Prompts -> {"none", "posting", "waiting"} \cup Q!ScriptOver]
      /\ tries \in [Prompts -> 0..MaxRetries] /\ at \in [Prompts -> 0..MaxReqs]
      /\ req \in [Q!Reqs -> {"none", "open", "replied", "over"}] /\ r # 0
  BY QuestionBounds DEF Q!TypeOK, Q!Reqs
<1>1. /\ req' = [req EXCEPT ![r] = "over"]
      /\ script' = [p \in Prompts |-> IF at[p] = r THEN d ELSE script[p]]
      /\ at' = [p \in Prompts |-> IF at[p] = r THEN 0 ELSE at[p]]
  BY DEF Q!Respond
<1>2. ScriptsPost'
  BY <1>0, <1>1 DEF ScriptsPost, Q!ScriptOver
<1>3. RequestsFresh' /\ ForgottenByRestart' /\ Q!OpenIsShown'
  BY <1>0, <1>1 DEF RequestsFresh, ForgottenByRestart, Q!OpenIsShown, Q!Open, Q!HookCard
<1>4. Q!StrandedOnlyAfterTimeout'
  BY <1>0, <1>1 DEF Q!StrandedOnlyAfterTimeout, Q!Open, Q!TypeOK
<1>5. Q!DecisionIsUsers'
  BY <1>0, <1>1 DEF Q!DecisionIsUsers, ScriptsPost
<1> QED BY <1>2, <1>3, <1>4, <1>5

LEMMA RequestStep ==
  ASSUME QuestionsInv, NEW r \in Q!Reqs, Q!HookAnswered(r) \/ Q!HookTimeout(r) \/ Q!UserDecides(r)
  PROVE  /\ ScriptsPost' /\ RequestsFresh' /\ ForgottenByRestart' /\ Q!OpenIsShown'
         /\ Q!StrandedOnlyAfterTimeout' /\ Q!DecisionIsUsers'
<1> USE DEF QuestionsInv
<1>1. CASE Q!HookAnswered(r)
  <2>1. verdict[r] \in {"allow", "deny"}
    BY <1>1 DEF Q!HookAnswered, RequestsFresh, Q!TypeOK
  <2> QED BY <1>1, <2>1, RespondStep DEF Q!HookAnswered, Q!backendVars, Q!clientVars
<1>2. CASE Q!HookTimeout(r)
  BY <1>2, RespondStep DEF Q!HookTimeout, Q!backendVars, Q!clientVars
<1>3. CASE Q!UserDecides(r) /\ req[r] = "open"
  <2>0. /\ req \in [Q!Reqs -> {"none", "open", "replied", "over"}]
        /\ verdict \in [Q!Reqs -> {"none", "allow", "deny"}]
    BY DEF Q!TypeOK
  <2>1. PICK v \in {"allow", "deny"} : verdict' = [verdict EXCEPT ![r] = v]
    BY <1>3 DEF Q!UserDecides
  <2>2. /\ req' = [req EXCEPT ![r] = "replied"] /\ cards' = cards \ {Q!HookCard(r)}
        /\ UNCHANGED <<script, tries, at, origin, abandoned, knows, restarted, conn>>
    BY <1>3 DEF Q!UserDecides, Q!backendVars
  <2>3. \A x \in Q!Reqs : Q!HookCard(x) = Q!HookCard(r) => x = r
    BY DEF Q!HookCard
  <2>4. ScriptsPost' /\ RequestsFresh' /\ ForgottenByRestart'
    BY <1>3, <2>0, <2>1, <2>2 DEF ScriptsPost, RequestsFresh, ForgottenByRestart, Q!HookCard
  <2>5. Q!OpenIsShown' /\ Q!StrandedOnlyAfterTimeout'
    BY <1>3, <2>0, <2>2, <2>3 DEF Q!OpenIsShown, Q!StrandedOnlyAfterTimeout, Q!Open, Q!HookCard
  <2>6. Q!DecisionIsUsers'
    BY <1>3, <2>0, <2>1, <2>2 DEF Q!DecisionIsUsers, RequestsFresh
  <2> QED BY <2>4, <2>5, <2>6
<1>4. CASE Q!UserDecides(r) /\ req[r] # "open"
  <2>1. /\ UNCHANGED <<script, tries, at, req, origin, verdict, abandoned, knows, restarted, conn>>
        /\ cards' = cards \ {Q!HookCard(r)}
    BY <1>4 DEF Q!UserDecides, Q!backendVars
  <2>2. \A x \in Q!Reqs : Q!HookCard(x) = Q!HookCard(r) => x = r
    BY DEF Q!HookCard
  <2>3. ScriptsPost' /\ RequestsFresh' /\ ForgottenByRestart'
    BY <2>1 DEF ScriptsPost, RequestsFresh, ForgottenByRestart, Q!HookCard
  <2>4. Q!OpenIsShown' /\ Q!StrandedOnlyAfterTimeout' /\ Q!DecisionIsUsers'
    BY <1>4, <2>1, <2>2 DEF Q!OpenIsShown, Q!StrandedOnlyAfterTimeout, Q!DecisionIsUsers, Q!Open, Q!HookCard
  <2> QED BY <2>3, <2>4
<1> QED BY <1>1, <1>2, <1>3, <1>4

LEMMA AskStep ==
  ASSUME QuestionsInv, NEW k \in Q!Asks,
         Q!AskStart(k) \/ Q!UserReplies(k) \/ Q!AskAnswered(k) \/ Q!AskTimeout(k)
  PROVE  AsksFresh' /\ Q!OpenIsReachable' /\ Q!MisdirectedOnlyLate'
<1> USE DEF QuestionsInv
<1>0. /\ ask \in [Q!Asks -> {"none", "open", "replied", "answered", "denied", "gone"}]
      /\ gave \in [Q!Asks -> 0..MaxAsks] /\ k # 0
      /\ \A x, y : Q!SdkCard(x) = Q!SdkCard(y) => x = y
  BY QuestionBounds DEF Q!TypeOK, Q!Asks, Q!SdkCard
<1>1. CASE Q!AskStart(k)
  <2>1. /\ ask[k] = "none" /\ ask' = [ask EXCEPT ![k] = "open"] /\ reply' = k
        /\ crowded' = IF Q!Unsettled = {} THEN crowded ELSE crowded \cup Q!Unsettled \cup {k}
        /\ cards' \subseteq cards \cup {Q!SdkCard(k)} /\ UNCHANGED <<gave, late>>
    BY <1>1 DEF Q!AskStart, Q!Register, Q!Show
  <2>2. AsksFresh'
    <3>1. \A x, y \in Q!Asks : x # y /\ x \in Q!Unsettled' /\ y \in Q!Unsettled' => x \in crowded'
      BY <1>0, <2>1 DEF AsksFresh, Q!Unsettled
    <3>2. \A x \in Q!Asks : ask'[x] = "none" => Q!SdkCard(x) \notin cards'
      BY <1>0, <2>1 DEF AsksFresh
    <3>3. \A x \in Q!Asks : /\ ask'[x] \in {"none", "open"} => gave'[x] = 0
                            /\ ask'[x] \in {"replied", "answered"} => gave'[x] # 0
                            /\ ask'[x] = "denied" => x \in late'
      BY <1>0, <2>1 DEF AsksFresh
    <3>4. \A x \in Q!Asks : gave'[x] = x => Q!SdkCard(x) \notin cards'
      BY <1>0, <2>1 DEF AsksFresh
    <3> QED BY <3>1, <3>2, <3>3, <3>4 DEF AsksFresh
  <2>3. Q!OpenIsReachable'
    BY <1>0, <2>1 DEF Q!OpenIsReachable, Q!Unsettled
  <2>4. Q!Excused \subseteq Q!Excused' /\ (Q!Excused' = {} => Q!Excused = {})
    BY <1>0, <2>1 DEF Q!Excused
  <2>5. Q!MisdirectedOnlyLate'
    BY <2>1, <2>4 DEF Q!MisdirectedOnlyLate, Q!Strays
  <2> QED BY <2>2, <2>3, <2>5
<1>2. CASE Q!UserReplies(k) /\ reply # 0 /\ ask[reply] = "open"
  <2>1. /\ Q!SdkCard(k) \in cards /\ cards' = cards \ {Q!SdkCard(k)} /\ reply' = 0
        /\ ask' = [ask EXCEPT ![reply] = "replied"] /\ gave' = [gave EXCEPT ![reply] = k]
        /\ UNCHANGED <<crowded, late>> /\ reply \in Q!Asks /\ ask[reply] = "open"
    BY <1>2 DEF Q!UserReplies, Q!TypeOK, Q!Asks
  <2>2. AsksFresh'
    <3>1. \A x, y \in Q!Asks : x # y /\ x \in Q!Unsettled' /\ y \in Q!Unsettled' => x \in crowded'
      BY <1>0, <2>1 DEF AsksFresh, Q!Unsettled
    <3>2. \A x \in Q!Asks : ask'[x] = "none" => Q!SdkCard(x) \notin cards'
      BY <1>0, <2>1 DEF AsksFresh
    <3>3. \A x \in Q!Asks : /\ ask'[x] \in {"none", "open"} => gave'[x] = 0
                            /\ ask'[x] \in {"replied", "answered"} => gave'[x] # 0
                            /\ ask'[x] = "denied" => x \in late'
      BY <1>0, <2>1 DEF AsksFresh
    <3>4. \A x \in Q!Asks : gave'[x] = x => Q!SdkCard(x) \notin cards'
      BY <1>0, <2>1 DEF AsksFresh
    <3> QED BY <3>1, <3>2, <3>3, <3>4 DEF AsksFresh
  <2>3. Q!OpenIsReachable'
    BY <1>0, <2>1 DEF Q!OpenIsReachable
  <2>4. Q!Excused' = Q!Excused
    BY <1>0, <2>1 DEF Q!Excused
  <2> DEFINE Astray(x) == gave'[x] \notin {0, x}
  <2>5. \A x \in Q!Asks : x # reply => (Astray(x) <=> Q!Strays(x))
    BY <1>0, <2>1 DEF Q!Strays
  <2>6. ~Q!Strays(reply)
    BY <2>1 DEF Q!Strays, AsksFresh
  <2>7. k # reply => k \in Q!Excused \/ Q!Strays(k)
    <3> SUFFICES ASSUME k # reply PROVE k \in Q!Excused \/ Q!Strays(k)
      OBVIOUS
    <3>1. ask[k] # "none"
      BY <2>1 DEF AsksFresh
    <3>2. CASE ask[k] \in {"open", "replied"}
      BY <2>1, <3>2 DEF AsksFresh, Q!Unsettled, Q!Excused
    <3>3. CASE ask[k] = "answered"
      BY <2>1, <3>3 DEF AsksFresh, Q!Strays
    <3>4. CASE ask[k] \in {"denied", "gone"}
      BY <3>4 DEF AsksFresh, Q!Excused
    <3> QED BY <1>0, <3>1, <3>2, <3>3, <3>4
  <2>8. gave'[reply] = k
    BY <1>0, <2>1
  <2>9. \A x \in Q!Asks : Astray(x) => gave'[x] \in Q!Excused \/ Astray(gave'[x])
    <3> SUFFICES ASSUME NEW x \in Q!Asks, Astray(x)
                 PROVE  gave'[x] \in Q!Excused \/ Astray(gave'[x])
      OBVIOUS
    <3>1. CASE x = reply
      BY <2>1, <2>5, <2>7, <2>8, <3>1
    <3>2. CASE x # reply
      <4>1. gave'[x] = gave[x] /\ gave[x] \in Q!Asks
        BY <1>0, <2>1, <3>2, QuestionBounds DEF Q!Strays, Q!Asks
      <4>2. gave[x] \in Q!Excused \/ Q!Strays(gave[x])
        BY <2>5, <3>2 DEF Q!MisdirectedOnlyLate
      <4> QED BY <2>5, <2>6, <4>1, <4>2 DEF Q!Strays
    <3> QED BY <3>1, <3>2
  <2>10. Q!Excused = {} => \A x \in Q!Asks : ~Astray(x)
    <3> SUFFICES ASSUME Q!Excused = {}, NEW x \in Q!Asks PROVE ~Astray(x)
      OBVIOUS
    <3>1. \A y \in Q!Asks : ~Q!Strays(y)
      BY DEF Q!MisdirectedOnlyLate
    <3>2. CASE x = reply
      BY <2>7, <2>8, <3>1, <3>2 DEF Q!Strays
    <3>3. CASE x # reply
      BY <2>5, <3>1, <3>3
    <3> QED BY <3>2, <3>3
  <2>11. Q!MisdirectedOnlyLate'
    BY <2>4, <2>9, <2>10 DEF Q!MisdirectedOnlyLate, Q!Strays
  <2> QED BY <2>2, <2>3, <2>11
<1>3. CASE Q!UserReplies(k) /\ ~(reply # 0 /\ ask[reply] = "open")
  <2>1. /\ cards' = cards \ {Q!SdkCard(k)} /\ reply' = 0
        /\ UNCHANGED <<ask, gave, crowded, late>>
    BY <1>3 DEF Q!UserReplies
  <2>2. \A x \in Q!Asks : ask[x] = "open" => x \in crowded
    BY <1>3, QuestionBounds DEF Q!OpenIsReachable, Q!Asks
  <2>3. AsksFresh' /\ Q!MisdirectedOnlyLate'
    BY <2>1 DEF AsksFresh, Q!MisdirectedOnlyLate, Q!Strays, Q!Excused, Q!Unsettled, Q!SdkCard
  <2> QED BY <2>1, <2>2, <2>3 DEF Q!OpenIsReachable
<1>4. CASE Q!AskAnswered(k) \/ Q!AskTimeout(k)
  <2>1. /\ reply' = 0 /\ UNCHANGED <<gave, crowded, cards>> /\ late \subseteq late'
        /\ \/ ask[k] = "replied" /\ ask' = [ask EXCEPT ![k] = "answered"] /\ late' = late
           \/ ask[k] = "open" /\ ask' = [ask EXCEPT ![k] = "denied"] /\ k \in late'
    BY <1>4 DEF Q!AskAnswered, Q!AskTimeout, Q!clientVars
  <2>2. AsksFresh'
    <3>1. \A x, y \in Q!Asks : x # y /\ x \in Q!Unsettled' /\ y \in Q!Unsettled' => x \in crowded'
      BY <1>0, <2>1 DEF AsksFresh, Q!Unsettled
    <3>2. \A x \in Q!Asks : ask'[x] = "none" => Q!SdkCard(x) \notin cards'
      BY <1>0, <2>1 DEF AsksFresh
    <3>3. \A x \in Q!Asks : /\ ask'[x] \in {"none", "open"} => gave'[x] = 0
                            /\ ask'[x] = "denied" => x \in late'
                            /\ gave'[x] = x => Q!SdkCard(x) \notin cards'
      BY <1>0, <2>1 DEF AsksFresh
    <3>4. \A x \in Q!Asks : ask'[x] \in {"replied", "answered"} => gave'[x] # 0
      BY <1>0, <2>1 DEF AsksFresh
    <3> QED BY <3>1, <3>2, <3>3, <3>4 DEF AsksFresh
  <2>3. Q!OpenIsReachable'
    <3> SUFFICES ASSUME NEW x \in Q!Asks, ask'[x] = "open" PROVE x \in crowded
      BY <2>1 DEF Q!OpenIsReachable
    <3>1. x # k /\ ask[x] = "open" /\ ask[k] \in {"open", "replied"}
      BY <1>0, <2>1
    <3> QED BY <3>1 DEF AsksFresh, Q!Unsettled
  <2>4. Q!Excused \subseteq Q!Excused' /\ (Q!Excused' = {} => Q!Excused = {})
    BY <1>0, <2>1 DEF Q!Excused
  <2>5. Q!MisdirectedOnlyLate'
    BY <2>1, <2>4 DEF Q!MisdirectedOnlyLate, Q!Strays
  <2> QED BY <2>2, <2>3, <2>5
<1> QED BY <1>1, <1>2, <1>3, <1>4

LEMMA LinkStep ==
  ASSUME QuestionsInv,
         Q!ClientReload \/ Q!Connect \/ Q!Resend \/ Q!BackendStops \/ Q!BackendStarts \/ Q!SessionKnown
  PROVE  /\ ScriptsPost' /\ RequestsFresh' /\ ForgottenByRestart' /\ Q!OpenIsShown'
         /\ Q!StrandedOnlyAfterTimeout' /\ Q!DecisionIsUsers'
         /\ AsksFresh' /\ Q!OpenIsReachable' /\ Q!MisdirectedOnlyLate'
<1> USE DEF QuestionsInv
<1>0. /\ ask \in [Q!Asks -> {"none", "open", "replied", "answered", "denied", "gone"}]
      /\ req \in [Q!Reqs -> {"none", "open", "replied", "over"}]
  BY DEF Q!TypeOK
<1>1. CASE Q!ClientReload
  <2>1. /\ UNCHANGED <<Q!hookVars, Q!askVars, Q!backendVars>> /\ conn' = "down" /\ cards' = {}
    BY <1>1 DEF Q!ClientReload
  <2>2. ScriptsPost' /\ RequestsFresh' /\ ForgottenByRestart'
    BY <2>1 DEF ScriptsPost, RequestsFresh, ForgottenByRestart, Q!hookVars, Q!backendVars
  <2>3. Q!OpenIsShown' /\ Q!StrandedOnlyAfterTimeout' /\ Q!DecisionIsUsers'
    BY <2>1 DEF Q!OpenIsShown, Q!StrandedOnlyAfterTimeout, Q!DecisionIsUsers, Q!Open, Q!hookVars, Q!backendVars
  <2> QED BY <2>1, <2>2, <2>3, QuestionsStay
<1>2. CASE Q!Connect \/ Q!Resend
  <2>1. /\ UNCHANGED <<Q!hookVars, Q!askVars, Q!backendVars>> /\ cards \subseteq cards'
        /\ cards' \subseteq cards \cup {Q!HookCard(r) : r \in Q!Open}
        /\ conn' = "ready" => cards' = cards \cup {Q!HookCard(r) : r \in Q!Open}
    BY <1>2 DEF Q!Connect, Q!Resend
  <2>2. ScriptsPost' /\ RequestsFresh' /\ ForgottenByRestart'
    BY <1>0, <2>1 DEF ScriptsPost, RequestsFresh, ForgottenByRestart, Q!hookVars, Q!backendVars,
       Q!Open, Q!HookCard
  <2>3. Q!OpenIsShown' /\ Q!StrandedOnlyAfterTimeout' /\ Q!DecisionIsUsers'
    BY <2>1 DEF Q!OpenIsShown, Q!StrandedOnlyAfterTimeout, Q!DecisionIsUsers, Q!Open, Q!hookVars, Q!backendVars
  <2>4. \A k \in Q!Asks : Q!SdkCard(k) \in cards' => Q!SdkCard(k) \in cards
    BY <2>1, CardsApart
  <2> QED BY <2>1, <2>2, <2>3, <2>4, QuestionsStay
<1>3. CASE Q!BackendStops
  <2>1. /\ restarted' = TRUE /\ conn' = "down" /\ reply' = 0
        /\ req' = [r \in Q!Reqs |-> IF req[r] \in {"open", "replied"} THEN "over" ELSE req[r]]
        /\ ask' = [k \in Q!Asks |-> IF k \in Q!Unsettled THEN "gone" ELSE ask[k]]
        /\ UNCHANGED <<script, tries, at, origin, verdict, abandoned, gave, crowded, late, cards>>
    BY <1>3 DEF Q!BackendStops
  <2>2. ScriptsPost' /\ RequestsFresh' /\ ForgottenByRestart'
    <3>1. /\ \A r \in Q!Reqs : req'[r] = "none" <=> req[r] = "none"
          /\ \A r \in Q!Reqs : req'[r] # "replied" /\ (req'[r] = "open" => req[r] = "open")
      BY <1>0, <2>1
    <3>2. \A p \in Prompts : at[p] # 0 => at[p] \in Q!Reqs
      BY QuestionBounds DEF Q!TypeOK, Q!Reqs
    <3> QED BY <2>1, <3>1, <3>2 DEF ScriptsPost, RequestsFresh, ForgottenByRestart, Q!HookCard
  <2>3. Q!OpenIsShown' /\ Q!StrandedOnlyAfterTimeout' /\ Q!DecisionIsUsers'
    BY <1>0, <2>1 DEF Q!OpenIsShown, Q!StrandedOnlyAfterTimeout, Q!DecisionIsUsers, Q!Open
  <2>4. AsksFresh' /\ Q!OpenIsReachable'
    BY <1>0, <2>1 DEF AsksFresh, Q!OpenIsReachable, Q!Unsettled, Q!SdkCard
  <2>5. Q!Excused \subseteq Q!Excused'
    BY <1>0, <2>1 DEF Q!Excused, Q!Unsettled
  <2>6. Q!MisdirectedOnlyLate'
    BY <2>1, <2>5 DEF Q!MisdirectedOnlyLate, Q!Strays
  <2> QED BY <2>2, <2>3, <2>4, <2>6
<1>4. CASE Q!BackendStarts \/ Q!SessionKnown
  <2>1. UNCHANGED <<Q!hookVars, Q!askVars, Q!clientVars, restarted>> /\ (knows' = knows \/ knows' = TRUE)
    BY <1>4 DEF Q!BackendStarts, Q!SessionKnown
  <2>2. ScriptsPost' /\ RequestsFresh' /\ ForgottenByRestart'
    BY <2>1 DEF ScriptsPost, RequestsFresh, ForgottenByRestart, Q!HookCard, Q!hookVars, Q!clientVars
  <2>3. Q!OpenIsShown' /\ Q!StrandedOnlyAfterTimeout' /\ Q!DecisionIsUsers'
    BY <2>1 DEF Q!OpenIsShown, Q!StrandedOnlyAfterTimeout, Q!DecisionIsUsers, Q!Open, Q!hookVars, Q!clientVars
  <2> QED BY <2>1, <2>2, <2>3, QuestionsStay DEF Q!clientVars
<1> QED BY <1>1, <1>2, <1>3, <1>4

LEMMA QuestionsStep ==
  ASSUME QuestionsInv, Q!Next
  PROVE  QuestionsInv'
<1>0. Q!TypeOK /\ ScriptsPost
  BY DEF QuestionsInv
<1>1. ASSUME NEW p \in Prompts, Q!Prompt(p) \/ Q!PostFails(p) \/ Q!HandleHook(p)
      PROVE  QuestionsInv'
  <2>1. \A k \in Q!Asks : Q!SdkCard(k) \in cards' => Q!SdkCard(k) \in cards
    BY <1>1, CardsApart DEF Q!Prompt, Q!PostFails, Q!HandleHook, Q!Asked, Q!Show, Q!clientVars
  <2>2. UNCHANGED Q!askVars
    BY <1>1 DEF Q!Prompt, Q!PostFails, Q!HandleHook
  <2>3. AsksFresh' /\ Q!OpenIsReachable' /\ Q!MisdirectedOnlyLate'
    BY <2>1, <2>2, QuestionsStay DEF QuestionsInv
  <2>4. Q!TypeOK'
    BY <1>0, <1>1, ScriptTypes
  <2> QED BY <1>1, <2>3, <2>4, ScriptStep DEF QuestionsInv
<1>2. ASSUME NEW r \in Q!Reqs, Q!HookAnswered(r) \/ Q!HookTimeout(r) \/ Q!UserDecides(r)
      PROVE  QuestionsInv'
  <2>1. UNCHANGED Q!askVars /\ \A k \in Q!Asks : Q!SdkCard(k) \in cards' => Q!SdkCard(k) \in cards
    BY <1>2 DEF Q!HookAnswered, Q!HookTimeout, Q!UserDecides, Q!clientVars
  <2>2. AsksFresh' /\ Q!OpenIsReachable' /\ Q!MisdirectedOnlyLate'
    BY <2>1, QuestionsStay DEF QuestionsInv
  <2>3. Q!TypeOK'
    BY <1>0, <1>2, RequestTypes
  <2> QED BY <1>2, <2>2, <2>3, RequestStep DEF QuestionsInv
<1>3. ASSUME NEW k \in Q!Asks, Q!AskStart(k) \/ Q!UserReplies(k) \/ Q!AskAnswered(k) \/ Q!AskTimeout(k)
      PROVE  QuestionsInv'
  <2>1. UNCHANGED Q!hookVars /\ UNCHANGED conn /\ knows' = knows /\ restarted' = restarted
    BY <1>3 DEF Q!AskStart, Q!UserReplies, Q!AskAnswered, Q!AskTimeout, Q!backendVars, Q!clientVars
  <2>2. \A r \in Q!Reqs : Q!HookCard(r) \in cards' <=> Q!HookCard(r) \in cards
    BY <1>3, CardsApart DEF Q!AskStart, Q!Show, Q!UserReplies, Q!AskAnswered, Q!AskTimeout, Q!clientVars
  <2>3. /\ ScriptsPost' /\ RequestsFresh' /\ ForgottenByRestart' /\ Q!OpenIsShown'
        /\ Q!StrandedOnlyAfterTimeout' /\ Q!DecisionIsUsers'
    BY <2>1, <2>2, PromptsStay DEF QuestionsInv
  <2>4. Q!TypeOK'
    BY <1>0, <1>3, AskTypes
  <2> QED BY <1>3, <2>3, <2>4, AskStep DEF QuestionsInv
<1>4. ASSUME Q!ClientReload \/ Q!Connect \/ Q!Resend \/ Q!BackendStops \/ Q!BackendStarts \/ Q!SessionKnown
      PROVE  QuestionsInv'
  BY <1>0, <1>4, LinkTypes, LinkStep DEF QuestionsInv
<1> QED BY <1>1, <1>2, <1>3, <1>4 DEF Q!Next

LEMMA QuestionsStutter ==
  ASSUME QuestionsInv, UNCHANGED Q!vars
  PROVE  QuestionsInv'
<1>1. UNCHANGED <<Q!hookVars, Q!askVars, Q!backendVars, Q!clientVars>>
  BY DEF Q!vars
<1>2. Q!TypeOK'
  BY <1>1 DEF QuestionsInv, Q!TypeOK, Q!hookVars, Q!askVars, Q!backendVars, Q!clientVars
<1> QED BY <1>1, <1>2, PromptsStay, QuestionsStay DEF QuestionsInv, Q!backendVars, Q!clientVars

(* The specification of the run takes steps of the questions, or leaves them. *)
LEMMA ModeQuestionsInv == ModeSpec => []QuestionsInv
<1>1. ModeInit => QuestionsInv
  BY QuestionsStart DEF ModeInit
<1>2. ASSUME QuestionsInv, [ModeNext]_<<running, vars, questionVars>>
      PROVE  QuestionsInv'
  <2>1. CASE Q!Next
    BY <1>2, <2>1, QuestionsStep
  <2>2. CASE UNCHANGED questionVars
    <3>1. UNCHANGED Q!vars
      BY <2>2 DEF questionVars, Q!vars, Q!hookVars, Q!askVars, Q!backendVars, Q!clientVars
    <3> QED BY <1>2, <3>1, QuestionsStutter
  <2> QED BY <1>2, <2>1, <2>2 DEF ModeNext
<1> QED BY <1>1, <1>2, PTL DEF ModeSpec

(* Every connected client shows every open question, a question that was alone can be    *)
(* answered while it is open, a prompt is allowed only by a reply to its own card, a      *)
(* request outlives its script only when the script gave up, and a reply resolves another *)
(* question only by way of one that was late, lost or asked beside another                *)
(* (adapter.py:1315, 2261).                                                               *)
THEOREM QuestionsAreSafe == ModeSpec => []QuestionsSafe
<1>1. QuestionsInv => QuestionsSafe
  BY DEF QuestionsInv, QuestionsSafe
<1> QED BY <1>1, ModeQuestionsInv, PTL
=============================================================================
