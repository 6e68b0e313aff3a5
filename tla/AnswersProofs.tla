---------------------------- MODULE AnswersProofs ----------------------------
(***************************************************************************)
(* How an answer comes to the user's ear, for any messages, pieces,         *)
(* lengths, recordings and number of faults, calls and taps: VoiceSafe of   *)
(* the player and of the recorder, and EntriesMatch of the observer.        *)
(*                                                                         *)
(* The player is one record and its handlers are operators from record to  *)
(* record, so the proof is about them: what every player is (Fine), what   *)
(* it is while nothing of before has sounded (InTime) and while nothing    *)
(* was paused on a wrong offset (HeardTo), and how each operator keeps     *)
(* them.  The actions only bring in the rest of the state.                 *)
(*                                                                         *)
(* The watcher reads entry by entry, so the second proof is about one      *)
(* entry first (Reads), then about all of them (ReadOf, Labels, ReadTo),    *)
(* and last about the actions, one lemma each.                              *)
(***************************************************************************)
EXTENDS MCAnswers, TLAPS, WellFoundedInduction, FiniteSetTheorems

-----------------------------------------------------------------------------
(* What a player is. *)

AskRec    == [of : V!Pieces, gen : Nat, at : Nat, main : BOOLEAN, n : {1, 2}]
DecodeRec == [of : V!Pieces, gen : Nat, from : 0..Length, resumed : BOOLEAN]
SourceRec == [of : V!Pieces, gen : Nat, pos : 0..Length, resumed : BOOLEAN]
SpeechRec == [of : V!Pieces, gen : Nat, resumed : BOOLEAN]

PlayerRec ==
  [state : {"idle", "playing", "paused"}, queue : Seq(V!Pieces), idx : Nat, gen : Nat,
   audio : SUBSET V!Pieces, asks : SUBSET AskRec, ahead : SUBSET Nat,
   decodes : SUBSET DecodeRec, sources : SUBSET SourceRec, current : V!Handle,
   buffer : BOOLEAN, offset : 0..Length, since : 0..Length,
   speech : {V!Silence} \cup SpeechRec, due : SUBSET V!Pieces]

(* What will lead the player on: an answer to an ask, a decoding or a source. *)
Mains(p)    == {x \in p.asks : x.main /\ x.gen = p.gen}
Sounding(p) == {x \in p.decodes \cup p.sources : x.gen = p.gen}

(* Nothing is of a generation to come; a player that does not rest is at a    *)
(* piece of its queue.                                                        *)
Gens(p) == \A x \in p.asks \cup p.decodes \cup p.sources : x.gen <= p.gen
Indexed(p) ==
  /\ p.state = "idle" => p.queue = <<>>
  /\ p.state = "playing" => p.queue # <<>>
  /\ IF p.queue = <<>> THEN p.idx = 0 ELSE p.idx \in 1..Len(p.queue)

(* The one lead of a player that plays, and that it is for the piece it is at. *)
ByAsk(p)    == (\E a : Mains(p) = {a}) /\ Sounding(p) = {} /\ p.speech = V!Silence
BySound(p)  == Mains(p) = {} /\ (\E d : Sounding(p) = {d}) /\ p.speech = V!Silence
BySpeech(p) == Mains(p) = {} /\ Sounding(p) = {} /\ p.speech # V!Silence /\ p.speech.gen = p.gen
NoLead(p)   == Mains(p) = {} /\ Sounding(p) = {} /\ p.speech = V!Silence
Lead(p)     == IF p.state = "playing" THEN ByAsk(p) \/ BySound(p) \/ BySpeech(p) ELSE NoLead(p)
OfCurrent(p) ==
  /\ \A x \in Mains(p) \cup Sounding(p) : x.of = p.queue[p.idx]
  /\ p.speech # V!Silence => p.speech.of = p.queue[p.idx]

(* No piece is queued twice, and what is owed is the queue from the index on.  *)
Once(s) == \A i, j \in 1..Len(s) : s[i] = s[j] => i = j
FromOn(s, k) == {s[i] : i \in (1..Len(s)) \ (1..k)}

Fine(p) ==
  /\ p \in PlayerRec /\ Gens(p) /\ Indexed(p) /\ Lead(p) /\ OfCurrent(p)
  /\ Once(p.queue) /\ p.due = FromOn(p.queue, p.idx - 1)

(* While nothing of before has sounded: what sounds is the current source, the *)
(* clock tells how far it is, and an offset is that of a piece to be resumed.  *)
InTime(p) ==
  /\ \A s \in p.sources :
       /\ s.gen = p.gen /\ V!Key(s) = p.current /\ p.buffer
       /\ p.offset + p.since >= s.pos /\ (s.pos < Length => p.offset + p.since = s.pos)
  /\ \A d \in p.decodes : d.gen = p.gen => d.from = p.offset
  /\ p.offset # 0 =>
       /\ p.queue # <<>> /\ Mains(p) = {}
       /\ \A x \in Sounding(p) : x.resumed
       /\ p.speech # V!Silence => p.speech.resumed

(* Heard is what lies before the offset and before what sounds.                *)
HeardTo(p, h) ==
  /\ \A u \in 0..p.offset - 1 : u \in h[p.queue[p.idx]]
  /\ \A s \in p.sources : \A u \in 0..s.pos - 1 : u \in h[s.of]

-----------------------------------------------------------------------------
Asked(p, i, main, a) ==
  /\ V!Ask(p, i, main) = [p EXCEPT !.asks = p.asks \cup {a}]
  /\ a.of = p.queue[i] /\ a.gen = p.gen /\ a.main = main

LEMMA AskAsks ==
  ASSUME NEW p \in PlayerRec, NEW i \in 1..Len(p.queue), NEW main \in BOOLEAN
  PROVE  \E a \in AskRec : Asked(p, i, main, a)
<1> DEFINE ask(n) == [of |-> p.queue[i], gen |-> p.gen, at |-> i, main |-> main, n |-> n]
           k == IF ask(1) \in p.asks THEN 2 ELSE 1
<1>1. p.queue[i] \in V!Pieces /\ p.gen \in Nat
  BY DEF PlayerRec
<1>2. ask(k) \in AskRec
  <2>1. k \in {1, 2}
    OBVIOUS
  <2> HIDE DEF k
  <2> QED
    BY <1>1, <2>1 DEF AskRec
<1>3. V!Ask(p, i, main) = [p EXCEPT !.asks = p.asks \cup {ask(k)}]
  BY DEF V!Ask
<1> QED
  BY <1>2, <1>3 DEF Asked

\* q is p with more prefetches under way.
Quietly(p, q) ==
  /\ q \in PlayerRec /\ q = [p EXCEPT !.asks = q.asks, !.ahead = q.ahead]
  /\ Mains(q) = Mains(p) /\ \A x \in q.asks : x \in p.asks \/ x.gen = p.gen

LEMMA QuietlyFields ==
  ASSUME NEW p \in PlayerRec, NEW q, Quietly(p, q)
  PROVE  /\ q.state = p.state /\ q.queue = p.queue /\ q.idx = p.idx /\ q.gen = p.gen
         /\ q.audio = p.audio /\ q.decodes = p.decodes /\ q.sources = p.sources
         /\ q.current = p.current /\ q.buffer = p.buffer /\ q.offset = p.offset
         /\ q.since = p.since /\ q.speech = p.speech /\ q.due = p.due
         /\ Sounding(q) = Sounding(p) /\ Mains(q) = Mains(p)
         /\ q \in PlayerRec /\ \A x \in q.asks : x \in p.asks \/ x.gen = p.gen
<1> DEFINE A == q.asks
           H == q.ahead
<1>1. q = [p EXCEPT !.asks = A, !.ahead = H]
  BY DEF Quietly
<1>2. /\ Mains(q) = Mains(p)
      /\ q \in PlayerRec /\ \A x \in q.asks : x \in p.asks \/ x.gen = p.gen
  BY DEF Quietly
<1> HIDE DEF A, H
<1> QED
  BY <1>1, <1>2 DEF PlayerRec, Sounding

LEMMA PrefetchIsQuiet ==
  ASSUME NEW p \in PlayerRec
  PROVE  Quietly(p, V!Prefetch(p))
<1> DEFINE i == p.idx + 1
           r == [p EXCEPT !.ahead = @ \cup {i}]
<1>1. CASE p.idx > 0 /\ i <= Len(p.queue) /\ i \notin p.ahead /\ p.queue[i] \notin p.audio
  <2>1. i \in 1..Len(p.queue) /\ i \in Nat
    BY <1>1 DEF PlayerRec
  <2>2. r \in PlayerRec /\ r.asks = p.asks /\ r.gen = p.gen /\ r.queue = p.queue
    BY <2>1 DEF PlayerRec
  <2>3. FALSE \in BOOLEAN
    OBVIOUS
  <2> HIDE DEF r, i
  <2>4a. PICK a \in AskRec : Asked(r, i, FALSE, a)
    BY <2>1, <2>2, <2>3, AskAsks
  <2>4. /\ V!Ask(r, i, FALSE) = [r EXCEPT !.asks = r.asks \cup {a}]
        /\ a.gen = r.gen /\ a.main = FALSE
    BY <2>4a DEF Asked
  <2>5. V!Prefetch(p) = [r EXCEPT !.asks = r.asks \cup {a}]
    BY <1>1, <2>4 DEF V!Prefetch, r, i
  <2>6. [r EXCEPT !.asks = r.asks \cup {a}] \in PlayerRec
    BY <2>2, <2>4 DEF PlayerRec
  <2>7. /\ V!Prefetch(p) = [p EXCEPT !.asks = V!Prefetch(p).asks, !.ahead = V!Prefetch(p).ahead]
        /\ V!Prefetch(p).asks = p.asks \cup {a} /\ V!Prefetch(p).gen = p.gen
    BY <2>2, <2>5 DEF PlayerRec, r
  <2>8. Mains(V!Prefetch(p)) = Mains(p)
    BY <2>2, <2>4, <2>7 DEF Mains
  <2> QED
    BY <2>2, <2>4, <2>5, <2>6, <2>7, <2>8 DEF Quietly
<1>2. CASE ~(p.idx > 0 /\ i <= Len(p.queue) /\ i \notin p.ahead /\ p.queue[i] \notin p.audio)
  <2>1. V!Prefetch(p) = p
    BY <1>2 DEF V!Prefetch
  <2>2. p = [p EXCEPT !.asks = p.asks, !.ahead = p.ahead]
    BY DEF PlayerRec
  <2> QED
    BY <2>1, <2>2 DEF Quietly
<1> QED
  BY <1>1, <1>2

LEMMA QuietlyFine ==
  ASSUME NEW p, Fine(p), NEW q, Quietly(p, q)
  PROVE  Fine(q)
<1>0. p \in PlayerRec /\ p.gen \in Nat
  BY DEF Fine, PlayerRec
<1>1. /\ q.state = p.state /\ q.queue = p.queue /\ q.idx = p.idx /\ q.gen = p.gen
      /\ q.decodes = p.decodes /\ q.sources = p.sources /\ q.speech = p.speech
      /\ q.due = p.due /\ Sounding(q) = Sounding(p) /\ Mains(q) = Mains(p)
  BY <1>0, QuietlyFields
<1>2. Gens(q)
  BY <1>0, <1>1 DEF Gens, Fine, Quietly
<1> QED
  BY <1>1, <1>2 DEF Fine, Quietly, Indexed, Lead, ByAsk, BySound, BySpeech, NoLead, OfCurrent

LEMMA QuietlyInTime ==
  ASSUME NEW p \in PlayerRec, NEW q, Quietly(p, q)
  PROVE  /\ InTime(p) => InTime(q)
         /\ \A h : HeardTo(p, h) => HeardTo(q, h)
<1>1. /\ q.state = p.state /\ q.queue = p.queue /\ q.idx = p.idx /\ q.gen = p.gen
      /\ q.decodes = p.decodes /\ q.sources = p.sources /\ q.speech = p.speech
      /\ q.current = p.current /\ q.buffer = p.buffer /\ q.offset = p.offset /\ q.since = p.since
      /\ Sounding(q) = Sounding(p) /\ Mains(q) = Mains(p)
  BY QuietlyFields
<1> QED
  BY <1>1 DEF InTime, HeardTo

-----------------------------------------------------------------------------
\* q is p with one more decoding under way.
Decodes(p, q, piece, from, resumed) ==
  LET d == [of |-> piece, gen |-> p.gen, from |-> from, resumed |-> resumed]
  IN  /\ q \in PlayerRec
      /\ q.state = p.state /\ q.queue = p.queue /\ q.idx = p.idx /\ q.gen = p.gen
      /\ q.asks = p.asks /\ q.decodes = p.decodes \cup {d} /\ q.sources = p.sources
      /\ q.current = p.current /\ q.buffer = p.buffer /\ q.offset = p.offset /\ q.since = p.since
      /\ q.speech = p.speech /\ q.due = p.due /\ q.audio = p.audio
      /\ Sounding(q) = Sounding(p) \cup {d} /\ Mains(q) = Mains(p)

LEMMA PlayB64Decodes ==
  ASSUME NEW p \in PlayerRec, NEW piece \in V!Pieces, NEW from \in 0..Length, NEW resumed \in BOOLEAN
  PROVE  Decodes(p, V!PlayB64(p, piece, from, resumed), piece, from, resumed)
<1> DEFINE d == [of |-> piece, gen |-> p.gen, from |-> from, resumed |-> resumed]
           q == V!PlayB64(p, piece, from, resumed)
<1>1. p.gen \in Nat
  BY DEF PlayerRec
<1>2. d \in DecodeRec /\ d.gen = p.gen
  BY <1>1 DEF DecodeRec
<1>3. q = [p EXCEPT !.decodes = p.decodes \cup {d}]
  BY DEF V!PlayB64
<1>4. Decodes(p, q, piece, from, resumed) <=>
        /\ q \in PlayerRec
        /\ q.state = p.state /\ q.queue = p.queue /\ q.idx = p.idx /\ q.gen = p.gen
        /\ q.asks = p.asks /\ q.decodes = p.decodes \cup {d} /\ q.sources = p.sources
        /\ q.current = p.current /\ q.buffer = p.buffer /\ q.offset = p.offset /\ q.since = p.since
        /\ q.speech = p.speech /\ q.due = p.due /\ q.audio = p.audio
        /\ Sounding(q) = Sounding(p) \cup {d} /\ Mains(q) = Mains(p)
  BY DEF Decodes
<1> HIDE DEF q, d
<1>5. /\ q \in PlayerRec
      /\ q.state = p.state /\ q.queue = p.queue /\ q.idx = p.idx /\ q.gen = p.gen
      /\ q.asks = p.asks /\ q.decodes = p.decodes \cup {d} /\ q.sources = p.sources
      /\ q.current = p.current /\ q.buffer = p.buffer /\ q.offset = p.offset /\ q.since = p.since
      /\ q.speech = p.speech /\ q.due = p.due /\ q.audio = p.audio
  BY <1>2, <1>3 DEF PlayerRec
<1>6. Sounding(q) = Sounding(p) \cup {d} /\ Mains(q) = Mains(p)
  BY <1>2, <1>5 DEF Sounding, Mains
<1> QED
  BY <1>4, <1>5, <1>6 DEF q

\* q is p with the piece at its index begun.
Begun(p, q) ==
  /\ q \in PlayerRec /\ q.state = "playing" /\ q.queue = p.queue /\ q.idx = p.idx
  /\ q.gen = p.gen /\ q.sources = p.sources /\ q.current = p.current /\ q.buffer = p.buffer
  /\ q.offset = p.offset /\ q.since = p.since /\ q.speech = p.speech /\ q.due = p.due
  /\ Gens(q) /\ (ByAsk(q) \/ BySound(q)) /\ OfCurrent(q)
  /\ \A d \in q.decodes : d.gen = q.gen => d.from = 0

LEMMA PlayItemBegins ==
  ASSUME NEW p \in PlayerRec, NoLead(p), Gens(p), p.idx \in 1..Len(p.queue)
  PROVE  Begun(p, V!PlayItem(p))
<1> DEFINE piece == p.queue[p.idx]
           r == [p EXCEPT !.state = "playing"]
<1>1. piece \in V!Pieces /\ p.gen \in Nat /\ 0 \in 0..Length /\ FALSE \in BOOLEAN /\ TRUE \in BOOLEAN
  BY VoiceAssumption DEF PlayerRec
<1>2. /\ r \in PlayerRec /\ r.state = "playing" /\ r.queue = p.queue /\ r.idx = p.idx
      /\ r.gen = p.gen /\ r.sources = p.sources /\ r.current = p.current /\ r.buffer = p.buffer
      /\ r.offset = p.offset /\ r.since = p.since /\ r.speech = p.speech /\ r.due = p.due
      /\ r.asks = p.asks /\ r.decodes = p.decodes /\ r.audio = p.audio
  BY DEF PlayerRec
<1>3. Mains(r) = {} /\ Sounding(r) = {} /\ r.speech = V!Silence /\ Gens(r)
  BY <1>2 DEF NoLead, Mains, Sounding, Gens
<1>4. V!PlayItem(p) = IF piece \in p.audio THEN V!PlayB64(V!Prefetch(r), piece, 0, FALSE)
                    ELSE V!Prefetch(V!Ask(r, r.idx, TRUE))
  BY DEF V!PlayItem
<1> HIDE DEF r
<1>5. CASE piece \in p.audio
  <2> DEFINE q == V!Prefetch(r)
             t == V!PlayB64(q, piece, 0, FALSE)
             d == [of |-> piece, gen |-> p.gen, from |-> 0, resumed |-> FALSE]
  <2>1. Quietly(r, q)
    BY <1>2, PrefetchIsQuiet
  <2>2. /\ q.state = r.state /\ q.queue = r.queue /\ q.idx = r.idx /\ q.gen = r.gen
        /\ q.decodes = r.decodes /\ q.sources = r.sources
        /\ q.current = r.current /\ q.buffer = r.buffer /\ q.offset = r.offset
        /\ q.since = r.since /\ q.speech = r.speech /\ q.due = r.due
        /\ Sounding(q) = Sounding(r) /\ Mains(q) = Mains(r)
    BY <1>2, <2>1, QuietlyFields
  <2>3. q \in PlayerRec /\ \A x \in q.asks : x \in r.asks \/ x.gen = r.gen
    BY <1>2, <2>1, QuietlyFields
  <2> HIDE DEF q
  <2>4. Decodes(q, t, piece, 0, FALSE)
    BY <1>1, <2>3, PlayB64Decodes
  <2>5. /\ t \in PlayerRec
        /\ t.state = q.state /\ t.queue = q.queue /\ t.idx = q.idx /\ t.gen = q.gen
        /\ t.asks = q.asks /\ t.decodes = q.decodes \cup {d} /\ t.sources = q.sources
        /\ t.current = q.current /\ t.buffer = q.buffer /\ t.offset = q.offset /\ t.since = q.since
        /\ t.speech = q.speech /\ t.due = q.due
        /\ Sounding(t) = Sounding(q) \cup {d} /\ Mains(t) = Mains(q)
    BY <1>2, <2>2, <2>4 DEF Decodes
  <2>6. d.gen = p.gen /\ d.of = piece /\ d.from = 0
    OBVIOUS
  <2> HIDE DEF t, d
  <2>7. Sounding(t) = {d} /\ Mains(t) = {} /\ t.speech = V!Silence
    BY <1>3, <2>2, <2>5
  <2>8. Gens(t)
    BY <1>1, <1>2, <1>3, <2>2, <2>3, <2>5, <2>6 DEF Gens
  <2>9. \A x \in t.decodes : x.gen = t.gen => x.from = 0
    BY <1>2, <2>2, <2>5, <2>6, <2>7 DEF Sounding
  <2>10. BySound(t) /\ OfCurrent(t)
    BY <1>2, <2>2, <2>5, <2>6, <2>7 DEF BySound, OfCurrent
  <2> QED
    BY <1>2, <1>4, <1>5, <2>2, <2>5, <2>8, <2>9, <2>10 DEF Begun, t, q
<1>6. CASE piece \notin p.audio
  <2>1. PICK a \in AskRec : Asked(r, r.idx, TRUE, a)
    BY <1>1, <1>2, AskAsks
  <2> DEFINE q == V!Ask(r, r.idx, TRUE)
             t == V!Prefetch(q)
  <2>2. q = [r EXCEPT !.asks = r.asks \cup {a}] /\ a.of = piece /\ a.gen = p.gen /\ a.main = TRUE
    BY <1>2, <2>1 DEF Asked
  <2> HIDE DEF q
  <2>3. /\ q \in PlayerRec
        /\ q.state = r.state /\ q.queue = r.queue /\ q.idx = r.idx /\ q.gen = r.gen
        /\ q.decodes = r.decodes /\ q.sources = r.sources /\ q.asks = r.asks \cup {a}
        /\ q.current = r.current /\ q.buffer = r.buffer /\ q.offset = r.offset
        /\ q.since = r.since /\ q.speech = r.speech /\ q.due = r.due
    BY <1>2, <2>2 DEF PlayerRec
  <2>4. Sounding(q) = {} /\ Mains(q) = {a}
    BY <1>2, <1>3, <2>2, <2>3 DEF Sounding, Mains
  <2>5. Gens(q)
    BY <1>1, <1>2, <1>3, <2>2, <2>3 DEF Gens
  <2>6. Quietly(q, t)
    BY <2>3, PrefetchIsQuiet
  <2>7. /\ t.state = q.state /\ t.queue = q.queue /\ t.idx = q.idx /\ t.gen = q.gen
        /\ t.decodes = q.decodes /\ t.sources = q.sources
        /\ t.current = q.current /\ t.buffer = q.buffer /\ t.offset = q.offset
        /\ t.since = q.since /\ t.speech = q.speech /\ t.due = q.due
        /\ Sounding(t) = Sounding(q) /\ Mains(t) = Mains(q)
    BY <2>3, <2>6, QuietlyFields
  <2>8. t \in PlayerRec /\ \A x \in t.asks : x \in q.asks \/ x.gen = q.gen
    BY <2>3, <2>6, QuietlyFields
  <2> HIDE DEF t
  <2>9. Gens(t)
    BY <1>1, <1>2, <2>3, <2>5, <2>7, <2>8 DEF Gens
  <2>10. \A x \in t.decodes : x.gen = t.gen => x.from = 0
    BY <2>4, <2>7 DEF Sounding
  <2>11. ByAsk(t) /\ OfCurrent(t)
    BY <1>2, <1>3, <2>2, <2>3, <2>4, <2>7 DEF ByAsk, OfCurrent
  <2> QED
    BY <1>2, <1>4, <1>6, <2>3, <2>7, <2>8, <2>9, <2>10, <2>11 DEF Begun, t, q
<1> QED
  BY <1>5, <1>6

-----------------------------------------------------------------------------
\* p has no lead, and what it owes lies behind its index.
Ready(p) ==
  /\ p \in PlayerRec /\ NoLead(p) /\ Gens(p) /\ p.idx \in 0..Len(p.queue)
  /\ Once(p.queue) /\ p.due = FromOn(p.queue, p.idx)
AtRest(p) == p.sources = {} /\ p.offset = 0

\* q has gone on, and what sounds in it is in time if p was at rest.
GoneOn(p, q) ==
  /\ Fine(q) /\ q.speech = V!Silence /\ q.gen = p.gen /\ q.queue \in {p.queue, <<>>}
  /\ AtRest(p) => InTime(q) /\ \A h : HeardTo(q, h)

LEMMA PlayNextGoesOn ==
  ASSUME NEW p, Ready(p)
  PROVE  GoneOn(p, V!PlayNext(p))
<1>0. /\ p \in PlayerRec /\ p.idx \in Nat /\ p.queue \in Seq(V!Pieces) /\ Len(p.queue) \in Nat
      /\ p.idx \in 0..Len(p.queue) /\ p.gen \in Nat
  BY DEF Ready, PlayerRec
<1>1. CASE p.idx < Len(p.queue)
  <2> DEFINE r == [p EXCEPT !.idx = p.idx + 1]
             q == V!PlayItem(r)
  <2>1. /\ r \in PlayerRec /\ r.idx = p.idx + 1 /\ r.queue = p.queue /\ r.gen = p.gen
        /\ r.sources = p.sources /\ r.speech = p.speech /\ r.due = p.due /\ r.asks = p.asks
        /\ r.decodes = p.decodes /\ r.offset = p.offset
    BY <1>0 DEF PlayerRec
  <2>2. V!PlayNext(p) = q
    BY <1>1 DEF V!PlayNext
  <2> HIDE DEF r
  <2>3. NoLead(r) /\ Gens(r) /\ r.idx \in 1..Len(r.queue)
    BY <1>0, <1>1, <2>1 DEF Ready, NoLead, Mains, Sounding, Gens
  <2>4. Begun(r, q)
    BY <2>1, <2>3, PlayItemBegins
  <2> HIDE DEF q
  <2>5. /\ q \in PlayerRec /\ q.state = "playing" /\ q.queue = p.queue /\ q.idx = p.idx + 1
        /\ q.gen = p.gen /\ q.sources = p.sources /\ q.offset = p.offset /\ q.speech = p.speech
        /\ q.due = p.due /\ Gens(q) /\ (ByAsk(q) \/ BySound(q)) /\ OfCurrent(q)
        /\ \A d \in q.decodes : d.gen = q.gen => d.from = 0
    BY <2>1, <2>4 DEF Begun
  <2>6. Indexed(q)
    BY <1>0, <1>1, <2>5 DEF Indexed
  <2>7. Fine(q) /\ q.speech = V!Silence
    BY <1>0, <2>5, <2>6 DEF Fine, Ready, Lead, NoLead
  <2>8. ASSUME AtRest(p)
        PROVE  InTime(q) /\ \A h : HeardTo(q, h)
    BY <2>5, <2>7, <2>8 DEF AtRest, InTime, HeardTo
  <2> QED
    BY <2>2, <2>5, <2>7, <2>8 DEF GoneOn
<1>2. CASE ~(p.idx < Len(p.queue))
  <2> DEFINE q == [p EXCEPT !.state = "idle", !.queue = <<>>, !.idx = 0]
  <2>1. /\ q \in PlayerRec /\ q.idx = 0 /\ q.queue = <<>> /\ q.gen = p.gen /\ q.state = "idle"
        /\ q.sources = p.sources /\ q.speech = p.speech /\ q.due = p.due /\ q.asks = p.asks
        /\ q.decodes = p.decodes /\ q.offset = p.offset
    <3> DEFINE e == <<>>
    <3>1. e \in Seq(V!Pieces) /\ 0 \in Nat
      OBVIOUS
    <3> HIDE DEF e
    <3>2. q = [p EXCEPT !.state = "idle", !.queue = e, !.idx = 0]
      BY DEF e
    <3> HIDE DEF q
    <3>3. /\ q \in PlayerRec /\ q.idx = 0 /\ q.queue = e /\ q.gen = p.gen /\ q.state = "idle"
          /\ q.sources = p.sources /\ q.speech = p.speech /\ q.due = p.due /\ q.asks = p.asks
          /\ q.decodes = p.decodes /\ q.offset = p.offset
      BY <1>0, <3>1, <3>2 DEF PlayerRec
    <3> QED
      BY <3>3 DEF e
  <2>2. V!PlayNext(p) = q
    BY <1>2 DEF V!PlayNext
  <2> HIDE DEF q
  <2>3. NoLead(q) /\ Gens(q) /\ Indexed(q) /\ Lead(q)
    BY <2>1 DEF Ready, NoLead, Mains, Sounding, Gens, Indexed, Lead
  <2>4. p.due = {} /\ FromOn(q.queue, q.idx - 1) = {} /\ Once(q.queue) /\ Len(q.queue) = 0
    BY <1>0, <1>2, <2>1 DEF Ready, FromOn, Once
  <2>5. Fine(q) /\ q.speech = V!Silence
    BY <2>1, <2>3, <2>4 DEF Fine, OfCurrent, NoLead
  <2>6. ASSUME AtRest(p)
        PROVE  InTime(q) /\ \A h : HeardTo(q, h)
    BY <2>1, <2>3, <2>6 DEF AtRest, InTime, HeardTo, NoLead, Sounding
  <2> QED
    BY <2>1, <2>2, <2>5, <2>6 DEF GoneOn
<1> QED
  BY <1>1, <1>2

LEMMA OnDoneGoesOn ==
  ASSUME NEW p \in PlayerRec, NEW x, x.gen = p.gen, x.resumed \in BOOLEAN,
         NoLead(p), Gens(p), p.idx \in 1..Len(p.queue), Once(p.queue),
         p.due = FromOn(p.queue, p.idx - 1), x.of = p.queue[p.idx]
  PROVE  /\ Fine(V!OnDone(p, x)) /\ V!OnDone(p, x).speech = V!Silence /\ V!OnDone(p, x).gen = p.gen
         /\ V!OnDone(p, x).queue \in {p.queue, <<>>}
         /\ p.sources = {} /\ (p.offset # 0 => x.resumed)
               => InTime(V!OnDone(p, x)) /\ \A h : HeardTo(V!OnDone(p, x), h)
<1> DEFINE o == IF x.resumed THEN 0 ELSE p.offset
           r == [p EXCEPT !.offset = o, !.due = p.due \ {x.of}]
           q == V!PlayNext(r)
<1>1. V!OnDone(p, x) = q
  BY DEF V!OnDone
<1>2. o \in 0..Length
  BY VoiceAssumption DEF PlayerRec
<1>3. o = 0 \/ (~x.resumed /\ o = p.offset)
  OBVIOUS
<1> HIDE DEF o
<1>4. /\ r \in PlayerRec /\ r.idx = p.idx /\ r.queue = p.queue /\ r.gen = p.gen
      /\ r.sources = p.sources /\ r.speech = p.speech /\ r.due = p.due \ {x.of} /\ r.asks = p.asks
      /\ r.decodes = p.decodes /\ r.offset = o
  BY <1>2 DEF PlayerRec
<1> HIDE DEF r
<1>5. p.queue \in Seq(V!Pieces) /\ Len(p.queue) \in Nat
  BY DEF PlayerRec
<1>6. FromOn(p.queue, p.idx - 1) \ {x.of} = FromOn(p.queue, p.idx)
  BY <1>5 DEF FromOn, Once
<1>7. Ready(r)
  BY <1>4, <1>5, <1>6 DEF Ready, NoLead, Mains, Sounding, Gens
<1>8. GoneOn(r, q)
  BY <1>7, PlayNextGoesOn
<1> HIDE DEF q
<1>9. p.sources = {} /\ (p.offset # 0 => x.resumed) => AtRest(r)
  BY <1>3, <1>4 DEF AtRest
<1> QED
  BY <1>1, <1>4, <1>8, <1>9 DEF GoneOn

\* q has taken one more piece, unless the player waits.
Took(p, q, piece) ==
  /\ Fine(q) /\ q.queue \in {p.queue, Append(p.queue, piece)}
  /\ q.speech = p.speech
  /\ InTime(p) => InTime(q)
  /\ \A h : InTime(p) /\ HeardTo(p, h) => HeardTo(q, h)

LEMMA AppendOnce ==
  ASSUME NEW s \in Seq(V!Pieces), NEW piece \in V!Pieces, Once(s), \A i \in 1..Len(s) : s[i] # piece
  PROVE  /\ Once(Append(s, piece)) /\ Append(s, piece) \in Seq(V!Pieces)
         /\ Len(Append(s, piece)) = Len(s) + 1 /\ Append(s, piece) # <<>>
         /\ \A i \in 1..Len(s) : Append(s, piece)[i] = s[i]
         /\ \A k \in 0..Len(s) : FromOn(Append(s, piece), k) = FromOn(s, k) \cup {piece}
<1> DEFINE t == Append(s, piece)
<1>1. /\ t \in Seq(V!Pieces) /\ Len(t) = Len(s) + 1 /\ t[Len(s) + 1] = piece
      /\ \A i \in 1..Len(s) : t[i] = s[i]
  OBVIOUS
<1>2. Len(s) \in Nat
  OBVIOUS
<1> HIDE DEF t
<1>3. Once(t)
  BY <1>1, <1>2 DEF Once
<1>4. ASSUME NEW k \in 0..Len(s)
      PROVE  FromOn(t, k) = FromOn(s, k) \cup {piece}
  <2>1. \A i : i \in (1..Len(t)) \ (1..k) <=> i \in (1..Len(s)) \ (1..k) \/ i = Len(s) + 1
    BY <1>1, <1>2
  <2>2. \A x : x \in FromOn(t, k) <=> x \in FromOn(s, k) \/ x = piece
    BY <1>1, <1>2, <2>1 DEF FromOn
  <2> QED
    BY <2>2
<1>5. t # <<>>
  BY <1>1, <1>2
<1> QED
  BY <1>1, <1>3, <1>4, <1>5 DEF t

LEMMA EnqueueTakes ==
  ASSUME NEW p, Fine(p), NEW piece \in V!Pieces, \A i \in 1..Len(p.queue) : p.queue[i] # piece
  PROVE  Took(p, V!Enqueue(p, piece), piece)
<1> DEFINE longer == Append(p.queue, piece)
           q == [p EXCEPT !.queue = longer, !.due = p.due \cup {piece}]
<1>0. /\ p \in PlayerRec /\ p.queue \in Seq(V!Pieces) /\ Len(p.queue) \in Nat /\ p.idx \in Nat
      /\ p.state \in {"idle", "playing", "paused"} /\ Once(p.queue)
  BY DEF Fine, PlayerRec
<1>1. /\ Once(longer) /\ longer \in Seq(V!Pieces) /\ Len(longer) = Len(p.queue) + 1 /\ longer # <<>>
      /\ \A i \in 1..Len(p.queue) : longer[i] = p.queue[i]
      /\ \A k \in 0..Len(p.queue) : FromOn(longer, k) = FromOn(p.queue, k) \cup {piece}
  BY <1>0, AppendOnce
<1> HIDE DEF longer
<1>2. /\ q \in PlayerRec /\ q.queue = longer /\ q.due = p.due \cup {piece}
      /\ q.state = p.state /\ q.idx = p.idx /\ q.gen = p.gen /\ q.asks = p.asks
      /\ q.decodes = p.decodes /\ q.sources = p.sources /\ q.current = p.current
      /\ q.buffer = p.buffer /\ q.offset = p.offset /\ q.since = p.since /\ q.speech = p.speech
  BY <1>0, <1>1 DEF PlayerRec
<1>3. CASE p.state = "paused"
  <2>1. V!Enqueue(p, piece) = p
    BY <1>3 DEF V!Enqueue
  <2> QED
    BY <2>1 DEF Took
<1>4. CASE p.state = "idle"
  <2> DEFINE r == [q EXCEPT !.idx = 0]
             t == V!PlayNext(r)
  <2>1. V!Enqueue(p, piece) = t
    BY <1>4 DEF V!Enqueue, longer
  <2> HIDE DEF q
  <2>2. /\ r \in PlayerRec /\ r.queue = longer /\ r.due = p.due \cup {piece} /\ r.idx = 0
        /\ r.gen = p.gen /\ r.asks = p.asks /\ r.decodes = p.decodes /\ r.sources = p.sources
        /\ r.offset = p.offset /\ r.speech = p.speech
    BY <1>2 DEF PlayerRec
  <2> HIDE DEF r
  <2>3. p.queue = <<>> /\ p.idx = 0 /\ NoLead(p) /\ Len(p.queue) = 0
    BY <1>4 DEF Fine, Indexed, Lead
  <2>4. FromOn(longer, 0) = FromOn(p.queue, 0) \cup {piece}
    BY <1>0, <1>1
  <2>5. FromOn(p.queue, 0) = {} /\ p.due = {}
    BY <2>3 DEF FromOn, Fine
  <2>6. Ready(r)
    BY <1>0, <1>1, <2>2, <2>3, <2>4, <2>5 DEF Ready, Fine, NoLead, Mains, Sounding, Gens
  <2>7. GoneOn(r, t)
    BY <2>6, PlayNextGoesOn
  <2> HIDE DEF t
  <2>8. InTime(p) => AtRest(r)
    BY <2>2, <2>3 DEF InTime, AtRest, NoLead, Sounding
  <2>9. p.speech = V!Silence /\ t.queue \in {longer, <<>>}
    BY <2>2, <2>3, <2>7 DEF NoLead, GoneOn
  <2> QED
    BY <2>1, <2>3, <2>7, <2>8, <2>9 DEF GoneOn, Took, longer
<1>5. CASE p.state = "playing"
  <2> DEFINE t == V!Prefetch(q)
  <2>1. V!Enqueue(p, piece) = t
    BY <1>5 DEF V!Enqueue, longer
  <2> HIDE DEF q
  <2>2. Quietly(q, t)
    BY <1>2, PrefetchIsQuiet
  <2>3. t.queue = q.queue /\ t.speech = q.speech
    BY <1>2, <2>2, QuietlyFields
  <2>4. p.idx \in 1..Len(p.queue) /\ p.idx - 1 \in 0..Len(p.queue)
    BY <1>0, <1>5 DEF Fine, Indexed
  <2>5. FromOn(longer, p.idx - 1) = p.due \cup {piece} /\ longer[p.idx] = p.queue[p.idx]
    BY <1>1, <2>4 DEF Fine
  <2>6. Mains(q) = Mains(p) /\ Sounding(q) = Sounding(p)
    BY <1>2 DEF Mains, Sounding
  <2>7. Fine(q)
    <3>1. Gens(q)
      BY <1>2 DEF Fine, Gens
    <3>2. Indexed(q)
      BY <1>0, <1>1, <1>2, <1>5, <2>4 DEF Indexed
    <3>3. Lead(q)
      BY <1>2, <2>6 DEF Fine, Lead, ByAsk, BySound, BySpeech, NoLead
    <3>4. OfCurrent(q)
      BY <1>2, <2>5, <2>6 DEF Fine, OfCurrent
    <3> QED
      BY <1>1, <1>2, <2>5, <3>1, <3>2, <3>3, <3>4 DEF Fine
  <2>8. InTime(p) => InTime(q)
    BY <1>1, <1>2, <2>6 DEF InTime
  <2>9. \A h : HeardTo(p, h) => HeardTo(q, h)
    BY <1>2, <2>5 DEF HeardTo
  <2>10. Fine(t)
    BY <2>2, <2>7, QuietlyFine
  <2>11. (InTime(q) => InTime(t)) /\ \A h : HeardTo(q, h) => HeardTo(t, h)
    BY <1>2, <2>2, QuietlyInTime
  <2> HIDE DEF t
  <2> QED
    BY <1>2, <2>1, <2>3, <2>8, <2>9, <2>10, <2>11 DEF Took, longer
<1> QED
  BY <1>0, <1>3, <1>4, <1>5

-----------------------------------------------------------------------------
LEMMA StopSourceStops ==
  ASSUME NEW p \in PlayerRec
  PROVE  LET q == V!StopSource(p) IN
         /\ q = [p EXCEPT !.sources = q.sources, !.current = V!Silence, !.speech = V!Silence]
         /\ q \in PlayerRec /\ q.sources = {s \in p.sources : V!Key(s) # p.current}
<1> DEFINE c == V!Silence
           left == {s \in p.sources : V!Key(s) # p.current}
<1>1. c \in V!Handle
  BY VoiceAssumption DEF V!Handle, V!Silence
<1>2. c \in {V!Silence} \cup SpeechRec
  OBVIOUS
<1>3. V!StopSource(p) = [p EXCEPT !.sources = left, !.current = c, !.speech = c]
  BY DEF V!StopSource
<1>4. left \subseteq p.sources
  OBVIOUS
<1> HIDE DEF c, left
<1>5. /\ V!StopSource(p) \in PlayerRec /\ V!StopSource(p).sources = left
      /\ V!StopSource(p) = [p EXCEPT !.sources = V!StopSource(p).sources, !.current = c, !.speech = c]
  BY <1>1, <1>2, <1>3, <1>4 DEF PlayerRec
<1> QED
  BY <1>5 DEF c, left

\* q is cut off from what p was doing.
CutOff(p, q) ==
  /\ q \in PlayerRec /\ q.gen = p.gen + 1 /\ q.asks = p.asks /\ q.decodes = p.decodes
  /\ q.sources = {s \in p.sources : V!Key(s) # p.current} /\ q.speech = V!Silence

LEMMA CutOffHasNoLead ==
  ASSUME NEW p, Fine(p), NEW q, CutOff(p, q)
  PROVE  /\ NoLead(q) /\ Gens(q) /\ OfCurrent(q)
         /\ InTime(p) => q.sources = {}
<1>1. p.gen \in Nat /\ p \in PlayerRec
  BY DEF Fine, PlayerRec
<1>2. \A x \in p.asks : x \in AskRec
  BY <1>1 DEF PlayerRec
<1>3. \A x \in p.decodes : x \in DecodeRec
  BY <1>1 DEF PlayerRec
<1>4. \A x \in p.sources : x \in SourceRec
  BY <1>1 DEF PlayerRec
<1>5. \A x \in q.asks \cup q.decodes \cup q.sources : x.gen <= p.gen /\ x.gen \in Nat
  BY <1>2, <1>3, <1>4 DEF CutOff, Fine, Gens, AskRec, DecodeRec, SourceRec
<1>6. \A x \in q.asks \cup q.decodes \cup q.sources : x.gen < q.gen /\ x.gen # q.gen
  BY <1>1, <1>5 DEF CutOff
<1>7. NoLead(q)
  BY <1>6 DEF CutOff, NoLead, Mains, Sounding
<1>8. Gens(q)
  BY <1>1, <1>5 DEF Gens, CutOff
<1> QED
  BY <1>7, <1>8 DEF OfCurrent, NoLead, InTime, CutOff

\* q is no longer playing, what it held is forgotten or kept for later.
Halted(p, q) ==
  /\ Fine(q) /\ q.state # "playing" /\ q.speech = V!Silence
  /\ InTime(p) => InTime(q)

LEMMA ClearedHalts ==
  ASSUME NEW p, Fine(p), NEW to \in {"idle", "paused"}
  PROVE  /\ Halted(p, V!Cleared(p, to)) /\ V!Cleared(p, to).queue = <<>>
         /\ \A h : InTime(p) => HeardTo(V!Cleared(p, to), h)
<1> DEFINE r == V!StopSource(p)
           q == V!Cleared(p, to)
           e == <<>>
           none == {}
           g == p.gen + 1
<1>0. p \in PlayerRec /\ p.gen \in Nat
  BY DEF Fine, PlayerRec
<1>1. /\ r = [p EXCEPT !.sources = r.sources, !.current = V!Silence, !.speech = V!Silence]
      /\ r \in PlayerRec /\ r.sources = {s \in p.sources : V!Key(s) # p.current}
  BY <1>0, StopSourceStops
<1>3. e \in Seq(V!Pieces) /\ 0 \in Nat /\ 0 \in 0..Length /\ FALSE \in BOOLEAN
  BY VoiceAssumption
<1>4. none \subseteq Nat /\ none \subseteq V!Pieces
  OBVIOUS
<1>5. r.gen = p.gen /\ r.asks = p.asks /\ r.decodes = p.decodes /\ r.speech = V!Silence
  <2> DEFINE A == r.sources
             c == V!Silence
  <2>1. r = [p EXCEPT !.sources = A, !.current = c, !.speech = c]
    BY <1>1
  <2> HIDE DEF A, r
  <2> QED
    BY <1>0, <2>1 DEF PlayerRec
<1>2. q = [r EXCEPT !.gen = g, !.offset = 0, !.buffer = FALSE, !.since = 0,
             !.state = to, !.queue = e, !.idx = 0, !.ahead = none, !.due = none]
  BY <1>5 DEF V!Cleared
<1>12. g \in Nat
  BY <1>0
<1> HIDE DEF r, q, e, none, g
<1>6. /\ q \in PlayerRec /\ q.state = to /\ q.queue = e /\ q.idx = 0 /\ q.gen = g
      /\ q.asks = r.asks /\ q.decodes = r.decodes /\ q.sources = r.sources
      /\ q.offset = 0 /\ q.speech = r.speech /\ q.due = none
  BY <1>1, <1>2, <1>3, <1>4, <1>12 DEF PlayerRec
<1>7. CutOff(p, q)
  BY <1>1, <1>5, <1>6 DEF CutOff, g
<1>8. NoLead(q) /\ Gens(q) /\ OfCurrent(q) /\ (InTime(p) => q.sources = {})
  BY <1>7, CutOffHasNoLead
<1>9. q.queue = <<>> /\ q.due = {} /\ FromOn(q.queue, q.idx - 1) = {} /\ Once(q.queue)
  BY <1>6 DEF e, none, FromOn, Once
<1>10. Fine(q)
  BY <1>6, <1>8, <1>9 DEF Fine, Indexed, Lead
<1>11. InTime(p) => InTime(q) /\ \A h : HeardTo(q, h)
  BY <1>6, <1>8 DEF InTime, HeardTo, NoLead, Sounding
<1> QED
  BY <1>6, <1>8, <1>9, <1>10, <1>11 DEF Halted, q, NoLead

\* Paused while the buffer is another's, a player takes a wrong offset.
Hasty(p) == p.state = "playing" /\ p.buffer /\ ~\E s \in p.sources : s.gen = p.gen

LEMMA PauseHalts ==
  ASSUME NEW p, Fine(p)
  PROVE  /\ Halted(p, V!Pause(p)) /\ V!Pause(p).queue = p.queue
         /\ \A h : InTime(p) /\ HeardTo(p, h) /\ ~Hasty(p) => HeardTo(V!Pause(p), h)
<1>0. /\ p \in PlayerRec /\ p.gen \in Nat /\ p.buffer \in BOOLEAN
      /\ p.offset \in 0..Length /\ p.since \in 0..Length /\ Length \in Nat
  BY VoiceAssumption DEF Fine, PlayerRec
<1>1. CASE p.state # "playing"
  BY <1>1 DEF V!Pause, Halted, Fine, Lead, NoLead
<1>2. CASE p.state = "playing"
  <2> DEFINE r == V!StopSource(p)
             q == V!Pause(p)
             at == IF p.buffer THEN p.offset + p.since ELSE p.offset
             o == IF p.buffer /\ at >= Length THEN 0 ELSE at
             g == p.gen + 1
  <2>1. /\ r = [p EXCEPT !.sources = r.sources, !.current = V!Silence, !.speech = V!Silence]
        /\ r \in PlayerRec /\ r.sources = {s \in p.sources : V!Key(s) # p.current}
    BY <1>0, StopSourceStops
  <2>3. o \in 0..Length /\ g \in Nat
    BY <1>0
  <2>4. /\ r.gen = p.gen /\ r.asks = p.asks /\ r.decodes = p.decodes /\ r.speech = V!Silence
        /\ r.queue = p.queue /\ r.idx = p.idx /\ r.due = p.due
    <3> DEFINE A == r.sources
               c == V!Silence
    <3>1. r = [p EXCEPT !.sources = A, !.current = c, !.speech = c]
      BY <2>1
    <3> HIDE DEF A, r
    <3> QED
      BY <1>0, <3>1 DEF PlayerRec
  <2>2. q = [r EXCEPT !.gen = g, !.state = "paused", !.offset = o]
    BY <1>2, <2>4 DEF V!Pause
  <2> HIDE DEF r, q, o, g
  <2>5. /\ q \in PlayerRec /\ q.state = "paused" /\ q.gen = g /\ q.queue = r.queue
        /\ q.idx = r.idx /\ q.asks = r.asks /\ q.decodes = r.decodes /\ q.sources = r.sources
        /\ q.offset = o /\ q.speech = r.speech /\ q.due = r.due
    BY <2>1, <2>2, <2>3 DEF PlayerRec
  <2>6. CutOff(p, q)
    BY <2>1, <2>4, <2>5 DEF CutOff, g
  <2>7. NoLead(q) /\ Gens(q) /\ OfCurrent(q) /\ (InTime(p) => q.sources = {})
    BY <2>6, CutOffHasNoLead
  <2>8. Fine(q)
    BY <1>2, <2>4, <2>5, <2>7 DEF Fine, Indexed, Lead
  <2>9. InTime(p) => InTime(q)
    BY <1>2, <2>4, <2>5, <2>7 DEF InTime, NoLead, Sounding, Fine, Indexed
  <2>10. ASSUME NEW h, InTime(p), HeardTo(p, h), ~Hasty(p)
         PROVE  HeardTo(q, h)
    <3>1. \A u \in 0..o - 1 : u \in h[p.queue[p.idx]]
      <4>1. CASE ~p.buffer
        BY <2>10, <4>1 DEF o, HeardTo
      <4>2. CASE p.buffer
        <5>1. PICK s \in p.sources : s.gen = p.gen
          BY <1>2, <2>10, <4>2 DEF Hasty
        <5>2. s.of = p.queue[p.idx] /\ s.pos \in Nat
          BY <1>0, <5>1 DEF Fine, OfCurrent, Sounding, PlayerRec, SourceRec
        <5>3. p.offset + p.since >= s.pos /\ (s.pos < Length => p.offset + p.since = s.pos)
          BY <2>10 DEF InTime
        <5>4. o = 0 \/ o = s.pos
          BY <1>0, <4>2, <5>2, <5>3 DEF o
        <5>5. \A u \in 0..s.pos - 1 : u \in h[s.of]
          BY <2>10 DEF HeardTo
        <5> QED
          BY <5>2, <5>4, <5>5
      <4> QED
        BY <1>0, <4>1, <4>2
    <3> QED
      BY <2>4, <2>5, <2>7, <2>10, <3>1 DEF HeardTo
  <2> QED
    BY <2>4, <2>5, <2>8, <2>9, <2>10 DEF Halted, q
<1> QED
  BY <1>1, <1>2

\* q goes on where p was paused.
Resumed(p, q) ==
  /\ Fine(q) /\ q.queue = p.queue
  /\ InTime(p) => InTime(q)
  /\ \A h : InTime(p) /\ HeardTo(p, h) => HeardTo(q, h)

LEMMA ResumeResumes ==
  ASSUME NEW p, Fine(p)
  PROVE  Resumed(p, V!Resume(p))
<1>0. /\ p \in PlayerRec /\ p.gen \in Nat /\ p.queue \in Seq(V!Pieces) /\ p.offset \in 0..Length
  BY DEF Fine, PlayerRec
<1>1. CASE p.state # "paused"
  BY <1>1 DEF V!Resume, Resumed
<1>2. CASE p.state = "paused" /\ p.queue = <<>>
  <2> DEFINE q == [p EXCEPT !.state = "idle"]
  <2>1. V!Resume(p) = q
    BY <1>2 DEF V!Resume
  <2>2. /\ q \in PlayerRec /\ q.state = "idle" /\ q.gen = p.gen /\ q.queue = p.queue /\ q.idx = p.idx
        /\ q.asks = p.asks /\ q.decodes = p.decodes /\ q.sources = p.sources /\ q.due = p.due
        /\ q.current = p.current /\ q.buffer = p.buffer /\ q.since = p.since
        /\ q.offset = p.offset /\ q.speech = p.speech
    BY <1>0 DEF PlayerRec
  <2> HIDE DEF q
  <2>3. Mains(q) = Mains(p) /\ Sounding(q) = Sounding(p)
    BY <2>2 DEF Mains, Sounding
  <2>4. Gens(q) /\ Indexed(q) /\ Lead(q) /\ OfCurrent(q)
    BY <1>2, <2>2, <2>3 DEF Fine, Gens, Indexed, Lead, NoLead, OfCurrent
  <2>5. Fine(q)
    BY <2>2, <2>4 DEF Fine
  <2> QED
    BY <2>1, <2>2, <2>3, <2>5 DEF Resumed, InTime, HeardTo
<1>3. CASE p.state = "paused" /\ p.queue # <<>>
  <2> DEFINE g == p.gen + 1
             r == [p EXCEPT !.gen = g, !.state = "playing"]
             piece == p.queue[p.idx]
  <2>1. V!Resume(p) = IF piece \in p.audio THEN V!PlayB64(r, piece, p.offset, TRUE)
                      ELSE V!Speak(r, piece, TRUE)
    BY <1>3 DEF V!Resume
  <2>10. g \in Nat
    BY <1>0
  <2> HIDE DEF g
  <2>2. /\ r \in PlayerRec /\ r.state = "playing" /\ r.gen = g /\ r.queue = p.queue
        /\ r.idx = p.idx /\ r.asks = p.asks /\ r.decodes = p.decodes /\ r.sources = p.sources
        /\ r.due = p.due /\ r.offset = p.offset /\ r.speech = p.speech
    BY <1>0, <2>10 DEF PlayerRec
  <2> HIDE DEF r
  <2>3. p.idx \in 1..Len(p.queue) /\ piece \in V!Pieces /\ TRUE \in BOOLEAN
    BY <1>0, <1>3 DEF Fine, Indexed
  <2>4. NoLead(p) /\ Gens(p)
    BY <1>3 DEF Fine, Lead
  <2>5. \A x \in r.asks \cup r.decodes \cup r.sources : x.gen # r.gen /\ x.gen <= r.gen
    <3>1. \A x \in p.asks : x \in AskRec
      BY <1>0 DEF PlayerRec
    <3>2. \A x \in p.decodes : x \in DecodeRec
      BY <1>0 DEF PlayerRec
    <3>3. \A x \in p.sources : x \in SourceRec
      BY <1>0 DEF PlayerRec
    <3>4. \A x \in r.asks \cup r.decodes \cup r.sources : x.gen <= p.gen /\ x.gen \in Nat
      BY <2>2, <2>4, <3>1, <3>2, <3>3 DEF Gens, AskRec, DecodeRec, SourceRec
    <3> QED
      BY <1>0, <2>2, <3>4 DEF g
  <2>6. Mains(r) = {} /\ Sounding(r) = {} /\ Gens(r) /\ r.speech = V!Silence
    BY <2>2, <2>4, <2>5 DEF Mains, Sounding, Gens, NoLead
  <2>7. InTime(p) => r.sources = {}
    BY <2>2, <2>4 DEF InTime, NoLead, Sounding
  <2>8. CASE piece \in p.audio
    <3> DEFINE q == V!PlayB64(r, piece, p.offset, TRUE)
               d == [of |-> piece, gen |-> r.gen, from |-> p.offset, resumed |-> TRUE]
    <3>1. Decodes(r, q, piece, p.offset, TRUE)
      BY <1>0, <2>2, <2>3, PlayB64Decodes
    <3>2. /\ q \in PlayerRec
          /\ q.state = r.state /\ q.queue = r.queue /\ q.idx = r.idx /\ q.gen = r.gen
          /\ q.asks = r.asks /\ q.decodes = r.decodes \cup {d} /\ q.sources = r.sources
          /\ q.offset = r.offset /\ q.speech = r.speech /\ q.due = r.due
          /\ Sounding(q) = Sounding(r) \cup {d} /\ Mains(q) = Mains(r)
      BY <3>1 DEF Decodes
    <3>3. d.gen = r.gen /\ d.of = piece /\ d.from = p.offset /\ d.resumed = TRUE
      OBVIOUS
    <3> HIDE DEF q, d
    <3>4. Gens(q)
      BY <1>0, <2>10, <2>2, <2>6, <3>2, <3>3 DEF Gens
    <3>5. BySound(q) /\ OfCurrent(q)
      BY <2>2, <2>6, <3>2, <3>3 DEF BySound, OfCurrent
    <3>6. Fine(q)
      BY <1>3, <2>2, <2>3, <3>2, <3>4, <3>5 DEF Fine, Indexed, Lead
    <3>7. ASSUME InTime(p)
          PROVE  InTime(q)
      <4>1. \A x \in q.decodes : x.gen = q.gen => x = d
        BY <2>5, <3>2
      <4> QED
        BY <1>3, <2>2, <2>6, <2>7, <3>2, <3>3, <3>7, <4>1 DEF InTime
    <3>8. \A h : InTime(p) /\ HeardTo(p, h) => HeardTo(q, h)
      BY <2>2, <2>7, <3>2 DEF HeardTo
    <3> QED
      BY <2>1, <2>2, <2>8, <3>2, <3>6, <3>7, <3>8 DEF Resumed, q
  <2>9. CASE piece \notin p.audio
    <3> DEFINE x == [of |-> piece, gen |-> r.gen, resumed |-> TRUE]
               q == [r EXCEPT !.speech = x]
    <3>1. V!Resume(p) = q
      BY <2>1, <2>9 DEF V!Speak
    <3>2. x \in SpeechRec /\ x.gen = r.gen /\ x.of = piece /\ x.resumed = TRUE
      BY <1>0, <2>10, <2>2, <2>3 DEF SpeechRec
    <3>3. x # V!Silence
      BY <2>3, VoiceAssumption DEF V!Silence, V!Pieces
    <3> HIDE DEF x
    <3>4. /\ q \in PlayerRec
          /\ q.state = r.state /\ q.queue = r.queue /\ q.idx = r.idx /\ q.gen = r.gen
          /\ q.asks = r.asks /\ q.decodes = r.decodes /\ q.sources = r.sources
          /\ q.offset = r.offset /\ q.speech = x /\ q.due = r.due
      BY <2>2, <3>2 DEF PlayerRec
    <3> HIDE DEF q
    <3>5. Mains(q) = {} /\ Sounding(q) = {} /\ Gens(q)
      BY <2>6, <3>4 DEF Mains, Sounding, Gens
    <3>6. BySpeech(q) /\ OfCurrent(q)
      BY <2>2, <3>2, <3>3, <3>4, <3>5 DEF BySpeech, OfCurrent
    <3>7. Fine(q)
      BY <1>3, <2>2, <2>3, <3>4, <3>5, <3>6 DEF Fine, Indexed, Lead
    <3>8. InTime(p) => InTime(q)
      BY <1>3, <2>2, <2>5, <2>7, <3>2, <3>4, <3>5 DEF InTime
    <3>9. \A h : InTime(p) /\ HeardTo(p, h) => HeardTo(q, h)
      BY <2>2, <2>7, <3>4 DEF HeardTo
    <3> QED
      BY <2>2, <3>1, <3>4, <3>7, <3>8, <3>9 DEF Resumed
  <2> QED
    BY <2>8, <2>9
<1> QED
  BY <1>0, <1>1, <1>2, <1>3 DEF PlayerRec

-----------------------------------------------------------------------------
Units == 0..Length - 1

PlayerInv ==
  /\ Fine(player)
  /\ heard \in [V!Pieces -> SUBSET Units] /\ ended \subseteq V!Pieces /\ arrived \in 0..MaxPieces
  /\ gate \in {{}, {"checking"}, {"on"}}
  /\ ~late => InTime(player)
  /\ ~late /\ ~hasty => HeardTo(player, heard)
  /\ player.speech # V!Silence => player.speech.of \in failed
  /\ \A i \in 1..Len(player.queue) : player.queue[i] <= arrived
  /\ \A p \in ended \ failed : late \/ hasty \/ heard[p] = Units

\* A step of the player that hears nothing new.
LEMMA InvKept ==
  ASSUME PlayerInv, Fine(player'), heard' = heard, late' = late, hasty => hasty',
         arrived' \in arrived..MaxPieces, gate' \in {{}, {"checking"}, {"on"}},
         InTime(player) => InTime(player'),
         InTime(player) /\ HeardTo(player, heard) /\ ~hasty' => HeardTo(player', heard),
         player'.speech # V!Silence => player'.speech.of \in failed', failed \subseteq failed',
         \A i \in 1..Len(player'.queue) : player'.queue[i] <= arrived',
         ended' \subseteq V!Pieces,
         \A p \in ended' \ failed' : p \in ended \/ late \/ hasty \/ heard[p] = Units
  PROVE  PlayerInv'
<1>1. arrived' \in 0..MaxPieces
  BY VoiceAssumption DEF PlayerInv
<1>2. \A p \in ended' \ failed' : late' \/ hasty' \/ heard'[p] = Units
  BY DEF PlayerInv
<1>3. ~late' => InTime(player)'
  BY DEF PlayerInv
<1>4. ~late' /\ ~hasty' => HeardTo(player, heard)'
  BY DEF PlayerInv
<1> QED
  BY <1>1, <1>2, <1>3, <1>4 DEF PlayerInv, Units

\* What a callback does beside keeping the invariant.
GoesOn ==
  /\ PlayerInv' /\ player'.queue \in {player.queue, <<>>}
  /\ player.state # "playing" => player'.state # "playing"

LEMMA GateOfTurns ==
  ASSUME PlayerInv, NEW q, V!Turns(q)
  PROVE  player' = q /\ gate' \in {{}, {"checking"}, {"on"}}
  BY DEF V!Turns, PlayerInv

LEMMA DecodeNoSource == \A x \in DecodeRec : x \notin SourceRec
<1> SUFFICES ASSUME NEW x \in DecodeRec, x \in SourceRec
             PROVE  FALSE
  OBVIOUS
<1>1. DOMAIN x = {"of", "gen", "from", "resumed"}
  BY DEF DecodeRec
<1>2. DOMAIN x = {"of", "gen", "pos", "resumed"}
  BY DEF SourceRec
<1>3. "pos" \in DOMAIN x /\ "pos" \notin DOMAIN x
  BY <1>1, <1>2
<1> QED
  BY <1>3

LEMMA TTSAnswerSafe ==
  ASSUME PlayerInv, NEW a \in player.asks, V!TTSAnswer(a)
  PROVE  GoesOn
<1> DEFINE heeded == a.gen = player.gen
           h == IF a.main THEN player.ahead ELSE player.ahead \ {a.at}
           p == [player EXCEPT !.asks = player.asks \ {a}, !.ahead = h]
           q == [p EXCEPT !.audio = p.audio \cup {a.of}]
           t == V!PlayB64(V!Prefetch(q), a.of, 0, FALSE)
           x == [of |-> a.of, gen |-> p.gen, resumed |-> FALSE]
           w == [p EXCEPT !.speech = x]
<1>0. /\ player \in PlayerRec /\ Fine(player) /\ player.gen \in Nat /\ a \in AskRec
      /\ a.of \in V!Pieces /\ a.gen \in Nat /\ a.main \in BOOLEAN
      /\ player.queue \in Seq(V!Pieces) /\ ended \subseteq V!Pieces
  BY DEF PlayerInv, Fine, PlayerRec, AskRec
<1>1. /\ \/ player' = (IF ~heeded THEN p ELSE IF ~a.main THEN q ELSE t) /\ failed' = failed
         \/ /\ player' = (IF heeded /\ a.main THEN w ELSE p)
            /\ failed' = failed \cup (IF heeded /\ a.main THEN {a.of} ELSE {})
      /\ gate' \in {{}, {"checking"}, {"on"}}
      /\ heard' = heard /\ late' = late /\ hasty' = hasty /\ arrived' = arrived /\ ended' = ended
  BY GateOfTurns DEF V!TTSAnswer, V!Quiet, V!Speak, V!Turns
<1>2. h \subseteq player.ahead
  OBVIOUS
<1> HIDE DEF h
<1>3. /\ p \in PlayerRec /\ p.state = player.state /\ p.gen = player.gen /\ p.queue = player.queue
      /\ p.idx = player.idx /\ p.asks = player.asks \ {a} /\ p.decodes = player.decodes
      /\ p.sources = player.sources /\ p.due = player.due /\ p.current = player.current
      /\ p.buffer = player.buffer /\ p.since = player.since /\ p.offset = player.offset
      /\ p.speech = player.speech
  BY <1>0, <1>2 DEF PlayerRec
<1> HIDE DEF p
<1>4. /\ q \in PlayerRec /\ q.state = p.state /\ q.gen = p.gen /\ q.queue = p.queue
      /\ q.idx = p.idx /\ q.asks = p.asks /\ q.decodes = p.decodes
      /\ q.sources = p.sources /\ q.due = p.due /\ q.current = p.current
      /\ q.buffer = p.buffer /\ q.since = p.since /\ q.offset = p.offset
      /\ q.speech = p.speech
  BY <1>0, <1>3 DEF PlayerRec
<1> HIDE DEF q
<1>5. Gens(p) /\ Gens(q) /\ Indexed(p) /\ Indexed(q)
  BY <1>0, <1>3, <1>4 DEF Fine, Gens, Indexed
<1>6. Mains(p) = Mains(player) \ {a} /\ Mains(q) = Mains(p) /\ Sounding(p) = Sounding(player)
      /\ Sounding(q) = Sounding(player)
  BY <1>3, <1>4 DEF Mains, Sounding
<1>7. arrived' \in arrived..MaxPieces /\ failed \subseteq failed'
  <2>1. arrived' = arrived /\ failed \subseteq failed'
    BY <1>1
  <2> QED
    BY <2>1, VoiceAssumption DEF PlayerInv
<1>8. CASE heeded /\ a.main
  <2>1. a \in Mains(player)
    BY <1>8 DEF Mains
  <2>2. /\ player.state = "playing" /\ Mains(player) = {a}
        /\ Sounding(player) = {} /\ player.speech = V!Silence
    BY <1>0, <2>1 DEF Fine, Lead, ByAsk, BySound, BySpeech, NoLead
  <2>3. a.of = player.queue[player.idx]
    BY <1>0, <2>1 DEF Fine, OfCurrent
  <2>4. player.idx \in 1..Len(player.queue) /\ Mains(p) = {}
    BY <1>0, <1>6, <2>2 DEF Fine, Indexed
  <2>5. InTime(player) => player.offset = 0 /\ player.sources = {}
    BY <2>1, <2>2 DEF InTime, Sounding
  <2>6. CASE player' = t /\ failed' = failed
    <3> DEFINE r == V!Prefetch(q)
               d == [of |-> a.of, gen |-> r.gen, from |-> 0, resumed |-> FALSE]
    <3>1. Quietly(q, r)
      BY <1>4, PrefetchIsQuiet
    <3>2. /\ r.state = q.state /\ r.queue = q.queue /\ r.idx = q.idx /\ r.gen = q.gen
          /\ r.decodes = q.decodes /\ r.sources = q.sources /\ r.offset = q.offset
          /\ r.speech = q.speech /\ r.due = q.due /\ r \in PlayerRec
          /\ Sounding(r) = Sounding(q) /\ Mains(r) = Mains(q)
          /\ \A y \in r.asks : y \in q.asks \/ y.gen = q.gen
      BY <1>4, <3>1, QuietlyFields
    <3> HIDE DEF r
    <3>3. 0 \in 0..Length /\ FALSE \in BOOLEAN
      BY VoiceAssumption
    <3>4. Decodes(r, t, a.of, 0, FALSE)
      BY <1>0, <3>2, <3>3, PlayB64Decodes DEF r
    <3>5. /\ t \in PlayerRec
          /\ t.state = r.state /\ t.queue = r.queue /\ t.idx = r.idx /\ t.gen = r.gen
          /\ t.asks = r.asks /\ t.decodes = r.decodes \cup {d} /\ t.sources = r.sources
          /\ t.offset = r.offset /\ t.speech = r.speech /\ t.due = r.due
          /\ Sounding(t) = Sounding(r) \cup {d} /\ Mains(t) = Mains(r)
      BY <3>4 DEF Decodes
    <3>6. d.gen = r.gen /\ d.of = a.of /\ d.from = 0
      OBVIOUS
    <3> HIDE DEF t, d
    <3>7. Sounding(t) = {d} /\ Mains(t) = {} /\ t.speech = V!Silence
      BY <1>3, <1>4, <1>6, <2>2, <2>4, <3>2, <3>5
    <3>8. Gens(t)
      BY <1>0, <1>3, <1>4, <1>5, <3>2, <3>5, <3>6 DEF Gens
    <3>9. BySound(t) /\ OfCurrent(t)
      BY <1>3, <1>4, <2>3, <3>2, <3>5, <3>6, <3>7 DEF BySound, OfCurrent
    <3>10. Fine(t)
      BY <1>0, <1>3, <1>4, <1>5, <2>2, <3>2, <3>5, <3>8, <3>9 DEF Fine, Indexed, Lead
    <3>11. InTime(player) => InTime(t)
      <4>1. \A y \in t.decodes : y.gen = t.gen => y = d
        BY <3>7 DEF Sounding
      <4> QED
        BY <1>3, <1>4, <2>5, <3>2, <3>5, <3>6, <4>1 DEF InTime
    <3>12. InTime(player) => HeardTo(t, heard)
      BY <1>3, <1>4, <2>5, <3>2, <3>5 DEF HeardTo
    <3>13. t.queue = player.queue
      BY <1>3, <1>4, <3>2, <3>5
    <3>14. PlayerInv'
      BY <1>1, <1>7, <2>6, <3>7, <3>10, <3>11, <3>12, <3>13, InvKept DEF PlayerInv
    <3> QED
      BY <2>2, <2>6, <3>13, <3>14 DEF GoesOn
  <2>7. CASE player' = w /\ failed' = failed \cup {a.of}
    <3>1. x \in SpeechRec /\ x.gen = p.gen /\ x.of = a.of
      BY <1>0, <1>3 DEF SpeechRec
    <3>2. x # V!Silence
      BY <1>0, VoiceAssumption DEF V!Silence, V!Pieces
    <3> HIDE DEF x
    <3>3. /\ w \in PlayerRec /\ w.state = p.state /\ w.gen = p.gen /\ w.queue = p.queue
          /\ w.idx = p.idx /\ w.asks = p.asks /\ w.decodes = p.decodes
          /\ w.sources = p.sources /\ w.due = p.due /\ w.offset = p.offset /\ w.speech = x
      BY <1>3, <3>1 DEF PlayerRec
    <3> HIDE DEF w
    <3>4. Mains(w) = {} /\ Sounding(w) = {} /\ Gens(w)
      BY <1>3, <1>5, <1>6, <2>2, <2>4, <3>3 DEF Mains, Sounding, Gens
    <3>5. BySpeech(w) /\ OfCurrent(w)
      BY <1>3, <2>3, <3>1, <3>2, <3>3, <3>4 DEF BySpeech, OfCurrent
    <3>6. Fine(w)
      BY <1>0, <1>3, <1>5, <2>2, <3>3, <3>4, <3>5 DEF Fine, Indexed, Lead
    <3>7. InTime(player) => InTime(w)
      BY <1>3, <2>5, <3>3, <3>4 DEF InTime, Sounding
    <3>8. InTime(player) => HeardTo(w, heard)
      BY <1>3, <2>5, <3>3 DEF HeardTo
    <3>9. w.queue = player.queue
      BY <1>3, <3>3
    <3>10. w.speech.of \in failed'
      BY <2>7, <3>1, <3>3
    <3>11. PlayerInv'
      BY <1>1, <1>7, <2>7, <3>6, <3>7, <3>8, <3>9, <3>10, InvKept DEF PlayerInv
    <3> QED
      BY <2>2, <2>7, <3>9, <3>11 DEF GoesOn
  <2> QED
    BY <1>1, <1>8, <2>6, <2>7
<1>9. CASE ~(heeded /\ a.main)
  <2>1. player' \in {p, q} /\ failed' = failed
    BY <1>0, <1>1, <1>9
  <2>2. Mains(p) = Mains(player)
    BY <1>6, <1>9 DEF Mains
  <2>3. Lead(p) /\ OfCurrent(p) /\ Lead(q) /\ OfCurrent(q)
    BY <1>0, <1>3, <1>4, <1>6, <2>2 DEF Fine, Lead, ByAsk, BySound, BySpeech, NoLead, OfCurrent
  <2>4. Fine(p) /\ Fine(q)
    BY <1>0, <1>3, <1>4, <1>5, <2>3 DEF Fine
  <2>5. InTime(player) => InTime(p) /\ InTime(q)
    BY <1>3, <1>4, <1>6, <2>2 DEF InTime
  <2>6. HeardTo(player, heard) => HeardTo(p, heard) /\ HeardTo(q, heard)
    BY <1>3, <1>4 DEF HeardTo
  <2>7. \A r \in {p, q} : r.queue = player.queue /\ r.speech = player.speech /\ r.state = player.state
    BY <1>3, <1>4
  <2>8. PlayerInv'
    BY <1>1, <1>7, <2>1, <2>4, <2>5, <2>6, <2>7, InvKept DEF PlayerInv
  <2> QED
    BY <2>1, <2>7, <2>8 DEF GoesOn
<1> QED
  BY <1>8, <1>9

LEMMA DecodedSafe ==
  ASSUME PlayerInv, NEW d \in player.decodes, V!Decoded(d)
  PROVE  GoesOn
<1> DEFINE p == player
           x == [of |-> d.of, gen |-> d.gen, pos |-> d.from, resumed |-> d.resumed]
           k == V!Key(d)
           q == [p EXCEPT !.decodes = p.decodes \ {d}, !.sources = p.sources \cup {x},
                          !.current = k, !.buffer = TRUE, !.offset = d.from, !.since = 0]
<1>0. /\ p \in PlayerRec /\ Fine(p) /\ p.gen \in Nat /\ d \in DecodeRec /\ Length \in Nat
      /\ d.of \in V!Pieces /\ d.gen \in Nat /\ d.from \in 0..Length /\ d.resumed \in BOOLEAN
  BY VoiceAssumption DEF PlayerInv, Fine, PlayerRec, DecodeRec
<1>1. /\ player' = q /\ gate' \in {{}, {"checking"}, {"on"}} /\ late' = (late \/ d.gen # p.gen)
      /\ heard' = heard /\ hasty' = hasty /\ arrived' = arrived /\ ended' = ended /\ failed' = failed
  BY GateOfTurns DEF V!Decoded, V!Same, V!Turns
<1>2. x \in SourceRec /\ x.gen = d.gen /\ x.of = d.of /\ x.pos = d.from /\ x.resumed = d.resumed
  BY <1>0 DEF SourceRec
<1>3. k \in V!Handle /\ V!Key(x) = k
  BY <1>0, VoiceAssumption DEF V!Handle, V!Key, V!Pieces
<1>4. TRUE \in BOOLEAN /\ 0 \in 0..Length
  BY <1>0
<1> HIDE DEF x, k
<1>5. /\ q \in PlayerRec /\ q.state = p.state /\ q.gen = p.gen /\ q.queue = p.queue
      /\ q.idx = p.idx /\ q.asks = p.asks /\ q.decodes = p.decodes \ {d}
      /\ q.sources = p.sources \cup {x} /\ q.due = p.due /\ q.current = k /\ q.buffer = TRUE
      /\ q.offset = d.from /\ q.since = 0 /\ q.speech = p.speech
  BY <1>0, <1>2, <1>3, <1>4 DEF PlayerRec
<1> HIDE DEF q
<1>6. Gens(q) /\ Indexed(q) /\ Mains(q) = Mains(p)
  BY <1>0, <1>2, <1>5 DEF Fine, Gens, Indexed, Mains
<1>7. d \notin p.sources
  BY <1>0, DecodeNoSource DEF PlayerRec
<1>8. CASE d.gen = p.gen
  <2>1. d \in Sounding(p)
    BY <1>8 DEF Sounding
  <2>2. /\ p.state = "playing" /\ Sounding(p) = {d} /\ Mains(p) = {}
        /\ p.speech = V!Silence /\ d.of = p.queue[p.idx]
    BY <1>0, <2>1 DEF Fine, Lead, ByAsk, BySound, BySpeech, NoLead, OfCurrent
  <2>3. Sounding(q) = {x}
    BY <1>2, <1>5, <1>7, <1>8, <2>2 DEF Sounding
  <2>4. BySound(q) /\ OfCurrent(q)
    BY <1>2, <1>5, <1>6, <2>2, <2>3 DEF BySound, OfCurrent
  <2>5. Fine(q)
    BY <1>0, <1>5, <1>6, <2>2, <2>4 DEF Fine, Lead
  <2>6. ASSUME InTime(p)
        PROVE  InTime(q) /\ (HeardTo(p, heard) => HeardTo(q, heard))
    <3>1. p.sources = {}
      BY <1>7, <2>2, <2>6 DEF InTime, Sounding
    <3>2. d.from = p.offset /\ (p.offset # 0 => p.queue # <<>> /\ d.resumed)
      BY <1>8, <2>1, <2>6 DEF InTime
    <3>3. q.sources = {x} /\ \A y \in q.decodes : y.gen # q.gen
      BY <1>5, <2>2, <3>1 DEF Sounding
    <3>4. InTime(q)
      <4>1. /\ x.gen = q.gen /\ V!Key(x) = q.current /\ q.buffer
            /\ q.offset + q.since >= x.pos /\ q.offset + q.since = x.pos
        BY <1>0, <1>2, <1>3, <1>5, <1>8
      <4>2. \A y \in Sounding(q) : y.resumed = d.resumed
        BY <1>2, <2>3
      <4> QED
        BY <1>5, <1>6, <2>2, <3>2, <3>3, <4>1, <4>2 DEF InTime
    <3>5. HeardTo(p, heard) => HeardTo(q, heard)
      BY <1>2, <1>5, <2>2, <3>2, <3>3 DEF HeardTo
    <3> QED
      BY <3>4, <3>5
  <2>7. PlayerInv'
    BY <1>1, <1>5, <1>8, <2>2, <2>5, <2>6 DEF PlayerInv
  <2> QED
    BY <1>1, <1>5, <2>2, <2>7 DEF GoesOn
<1>9. CASE d.gen # p.gen
  <2>1. Sounding(q) = Sounding(p)
    BY <1>2, <1>5, <1>9 DEF Sounding
  <2>2. Lead(q) /\ OfCurrent(q)
    BY <1>0, <1>5, <1>6, <2>1 DEF Fine, Lead, ByAsk, BySound, BySpeech, NoLead, OfCurrent
  <2>3. Fine(q)
    BY <1>0, <1>5, <1>6, <2>2 DEF Fine
  <2>4. PlayerInv'
    BY <1>1, <1>5, <1>9, <2>3 DEF PlayerInv
  <2> QED
    BY <1>1, <1>5, <2>4 DEF GoesOn
<1> QED
  BY <1>8, <1>9

\* The end of x, of which p is what is left of the player.
Leaves(p, x) ==
  /\ p \in PlayerRec /\ p.gen = player.gen /\ p.queue = player.queue /\ p.idx = player.idx
  /\ p.state = player.state /\ p.due = player.due /\ p.offset = player.offset
  /\ p.asks = player.asks /\ p.decodes \subseteq player.decodes /\ p.sources \subseteq player.sources
  /\ x.gen \in Nat /\ x.resumed \in BOOLEAN /\ x.of \in V!Pieces
  /\ IF x.gen = player.gen
      THEN /\ NoLead(p) /\ player.state = "playing" /\ x.of = player.queue[player.idx]
           /\ InTime(player) => p.sources = {} /\ (player.offset # 0 => x.resumed)
      ELSE /\ Sounding(p) = Sounding(player) /\ p.speech = player.speech
           /\ InTime(player) => InTime(p)

LEMMA EndSafe ==
  ASSUME PlayerInv, NEW p, NEW x, Leaves(p, x), V!Turns(V!OnDone(p, x)), V!Done(x),
         heard' = heard, late' = late, hasty' = hasty, arrived' = arrived, failed \subseteq failed',
         x.gen = player.gen => x.of \in failed' \/ late \/ hasty \/ heard[x.of] = Units
  PROVE  GoesOn
<1>0. /\ player \in PlayerRec /\ Fine(player) /\ Gens(p) /\ player.gen \in Nat
  BY DEF Leaves, PlayerInv, Fine, Gens, PlayerRec
<1>1. /\ player' = V!OnDone(p, x) /\ gate' \in {{}, {"checking"}, {"on"}}
  BY GateOfTurns
<1>2. /\ ended' \subseteq V!Pieces
      /\ \A y \in ended' \ failed' : y \in ended \/ late \/ hasty \/ heard[y] = Units
  BY DEF V!Done, Leaves, PlayerInv
<1>3. arrived' \in arrived..MaxPieces
  BY VoiceAssumption DEF PlayerInv
<1>4. CASE x.gen = player.gen
  <2> DEFINE q == V!OnDone(p, x)
  <2>1. /\ p \in PlayerRec /\ x.gen = p.gen /\ x.resumed \in BOOLEAN /\ NoLead(p) /\ Gens(p)
        /\ p.idx \in 1..Len(p.queue) /\ Once(p.queue) /\ p.due = FromOn(p.queue, p.idx - 1)
        /\ x.of = p.queue[p.idx]
    BY <1>0, <1>4 DEF Leaves, Fine, Indexed
  <2>2. /\ Fine(q) /\ q.speech = V!Silence /\ q.gen = p.gen /\ q.queue \in {p.queue, <<>>}
        /\ p.sources = {} /\ (p.offset # 0 => x.resumed) => InTime(q) /\ \A h : HeardTo(q, h)
    BY <2>1, OnDoneGoesOn
  <2> HIDE DEF q
  <2>3. InTime(player) => InTime(q) /\ HeardTo(q, heard)
    BY <1>4, <2>2 DEF Leaves
  <2>4. q.queue \in {player.queue, <<>>} /\ player.state = "playing"
    BY <1>4, <2>2 DEF Leaves
  <2>5. \A i \in 1..Len(q.queue) : q.queue[i] <= arrived
    BY <2>4 DEF PlayerInv
  <2>6. PlayerInv'
    BY <1>1, <1>2, <1>3, <2>2, <2>3, <2>5, InvKept DEF q
  <2> QED
    BY <1>1, <2>4, <2>6 DEF GoesOn, q
<1>5. CASE x.gen # player.gen
  <2>1. player' = p
    BY <1>1, <1>5 DEF V!OnDone, Leaves
  <2>2. /\ Sounding(p) = Sounding(player) /\ Mains(p) = Mains(player) /\ p.speech = player.speech
        /\ p.queue = player.queue /\ p.idx = player.idx /\ p.state = player.state
    BY <1>5 DEF Leaves, Mains
  <2>3. Lead(p) /\ OfCurrent(p) /\ Indexed(p)
    BY <1>0, <2>2 DEF Leaves, Fine, Lead, ByAsk, BySound, BySpeech, NoLead, OfCurrent, Indexed
  <2>4. Fine(p)
    BY <1>0, <2>3 DEF Fine, Leaves
  <2>5. (InTime(player) => InTime(p)) /\ (HeardTo(player, heard) => HeardTo(p, heard))
    BY <1>5 DEF Leaves, HeardTo
  <2>6. player.speech # V!Silence => player.speech.of \in failed'
    BY DEF PlayerInv
  <2>7. \A i \in 1..Len(p.queue) : p.queue[i] <= arrived
    BY <2>2 DEF PlayerInv
  <2>8. PlayerInv'
    BY <1>1, <1>2, <1>3, <2>1, <2>2, <2>4, <2>5, <2>6, <2>7, InvKept
  <2> QED
    BY <2>1, <2>2, <2>8 DEF GoesOn
<1> QED
  BY <1>4, <1>5

LEMMA DecodeFailsSafe ==
  ASSUME PlayerInv, NEW d \in player.decodes, V!DecodeFails(d)
  PROVE  GoesOn
<1> DEFINE p == [player EXCEPT !.decodes = player.decodes \ {d}]
<1>0. /\ player \in PlayerRec /\ Fine(player) /\ player.gen \in Nat /\ d \in DecodeRec
      /\ d.of \in V!Pieces /\ d.gen \in Nat /\ d.resumed \in BOOLEAN
  BY DEF PlayerInv, Fine, PlayerRec, DecodeRec
<1>1. /\ V!Turns(V!OnDone(p, d)) /\ V!Done(d) /\ failed' = failed \cup {d.of}
      /\ heard' = heard /\ late' = late /\ hasty' = hasty /\ arrived' = arrived
  BY DEF V!DecodeFails, V!Quiet
<1>2. /\ p \in PlayerRec /\ p.state = player.state /\ p.gen = player.gen /\ p.queue = player.queue
      /\ p.idx = player.idx /\ p.asks = player.asks /\ p.decodes = player.decodes \ {d}
      /\ p.sources = player.sources /\ p.due = player.due /\ p.current = player.current
      /\ p.buffer = player.buffer /\ p.since = player.since /\ p.offset = player.offset
      /\ p.speech = player.speech
  BY <1>0 DEF PlayerRec
<1> HIDE DEF p
<1>3. d \notin player.sources
  BY <1>0, DecodeNoSource DEF PlayerRec
<1>4. Sounding(p) = Sounding(player) \ {d} /\ Mains(p) = Mains(player)
  BY <1>2, <1>3 DEF Sounding, Mains
<1>5. CASE d.gen = player.gen
  <2>1. d \in Sounding(player)
    BY <1>5 DEF Sounding
  <2>2. /\ player.state = "playing" /\ Sounding(player) = {d} /\ Mains(player) = {}
        /\ player.speech = V!Silence /\ d.of = player.queue[player.idx]
    BY <1>0, <2>1 DEF Fine, Lead, ByAsk, BySound, BySpeech, NoLead, OfCurrent
  <2>3. NoLead(p)
    BY <1>2, <1>4, <2>2 DEF NoLead
  <2>4. InTime(player) => p.sources = {} /\ (player.offset # 0 => d.resumed)
    BY <1>2, <1>3, <2>2 DEF InTime, Sounding
  <2> QED
    BY <1>0, <1>1, <1>2, <1>5, <2>2, <2>3, <2>4, EndSafe DEF Leaves
<1>6. CASE d.gen # player.gen
  <2>1. Sounding(p) = Sounding(player)
    BY <1>4, <1>6 DEF Sounding
  <2>2. InTime(player) => InTime(p)
    BY <1>2, <1>4, <2>1 DEF InTime
  <2> QED
    BY <1>0, <1>1, <1>2, <1>6, <2>1, <2>2, EndSafe DEF Leaves
<1> QED
  BY <1>5, <1>6

LEMMA SourceEndsSafe ==
  ASSUME PlayerInv, NEW x \in player.sources, V!SourceEnds(x)
  PROVE  GoesOn
<1> DEFINE c == V!Silence
           p == [player EXCEPT !.sources = player.sources \ {x}, !.current = c,
                               !.buffer = FALSE, !.since = 0]
<1>0. /\ player \in PlayerRec /\ Fine(player) /\ player.gen \in Nat /\ x \in SourceRec /\ Length \in Nat
      /\ x.of \in V!Pieces /\ x.gen \in Nat /\ x.resumed \in BOOLEAN /\ x.pos = Length
  BY VoiceAssumption DEF V!SourceEnds, PlayerInv, Fine, PlayerRec, SourceRec
<1>1. /\ V!Turns(V!OnDone(p, x)) /\ V!Done(x) /\ failed' = failed
      /\ heard' = heard /\ late' = late /\ hasty' = hasty /\ arrived' = arrived
  BY DEF V!SourceEnds, V!Quiet
<1>2. c \in V!Handle /\ FALSE \in BOOLEAN /\ 0 \in 0..Length
  BY VoiceAssumption DEF V!Handle, V!Silence
<1> HIDE DEF c
<1>3. /\ p \in PlayerRec /\ p.state = player.state /\ p.gen = player.gen /\ p.queue = player.queue
      /\ p.idx = player.idx /\ p.asks = player.asks /\ p.decodes = player.decodes
      /\ p.sources = player.sources \ {x} /\ p.due = player.due /\ p.offset = player.offset
      /\ p.speech = player.speech
  BY <1>0, <1>2 DEF PlayerRec
<1> HIDE DEF p
<1>4. x \notin player.decodes
  BY <1>0, DecodeNoSource DEF PlayerRec
<1>5. Sounding(p) = Sounding(player) \ {x} /\ Mains(p) = Mains(player)
  BY <1>3, <1>4 DEF Sounding, Mains
<1>6. CASE x.gen = player.gen
  <2>1. x \in Sounding(player)
    BY <1>6 DEF Sounding
  <2>2. /\ player.state = "playing" /\ Sounding(player) = {x} /\ Mains(player) = {}
        /\ player.speech = V!Silence /\ x.of = player.queue[player.idx]
    BY <1>0, <2>1 DEF Fine, Lead, ByAsk, BySound, BySpeech, NoLead, OfCurrent
  <2>3. NoLead(p)
    BY <1>3, <1>5, <2>2 DEF NoLead
  <2>4. InTime(player) => p.sources = {} /\ (player.offset # 0 => x.resumed)
    BY <1>3, <2>2 DEF InTime, Sounding
  <2>5. late \/ hasty \/ heard[x.of] = Units
    <3>1. ASSUME ~late, ~hasty
          PROVE  \A u \in 0..Length - 1 : u \in heard[x.of]
      BY <1>0, <3>1 DEF PlayerInv, HeardTo
    <3>2. heard[x.of] \subseteq Units
      BY <1>0 DEF PlayerInv
    <3> QED
      BY <3>1, <3>2 DEF Units
  <2> QED
    BY <1>0, <1>1, <1>3, <1>6, <2>2, <2>3, <2>4, <2>5, EndSafe DEF Leaves
<1>7. CASE x.gen # player.gen
  <2>1. Sounding(p) = Sounding(player)
    BY <1>5, <1>7 DEF Sounding
  <2>2. ~InTime(player)
    BY <1>7 DEF InTime
  <2> QED
    BY <1>0, <1>1, <1>3, <1>7, <2>1, <2>2, EndSafe DEF Leaves
<1> QED
  BY <1>6, <1>7

LEMMA SpeechEndsSafe ==
  ASSUME PlayerInv, V!SpeechEnds
  PROVE  GoesOn
<1> DEFINE c == V!Silence
           x == player.speech
           p == [player EXCEPT !.speech = c]
<1>0. /\ player \in PlayerRec /\ Fine(player) /\ player.gen \in Nat /\ x \in SpeechRec /\ x # V!Silence
      /\ x.of \in V!Pieces /\ x.gen \in Nat /\ x.resumed \in BOOLEAN
  BY DEF V!SpeechEnds, PlayerInv, Fine, PlayerRec, SpeechRec
<1>1. /\ V!Turns(V!OnDone(p, x)) /\ V!Done(x) /\ failed' = failed
      /\ heard' = heard /\ late' = late /\ hasty' = hasty /\ arrived' = arrived
  BY DEF V!SpeechEnds, V!Quiet
<1>2. c \in {V!Silence} \cup SpeechRec /\ c = V!Silence
  OBVIOUS
<1> HIDE DEF c
<1>3. /\ p \in PlayerRec /\ p.state = player.state /\ p.gen = player.gen /\ p.queue = player.queue
      /\ p.idx = player.idx /\ p.asks = player.asks /\ p.decodes = player.decodes
      /\ p.sources = player.sources /\ p.due = player.due /\ p.offset = player.offset
      /\ p.speech = c
  BY <1>0, <1>2 DEF PlayerRec
<1> HIDE DEF p
<1>4. /\ player.state = "playing" /\ Sounding(player) = {} /\ Mains(player) = {}
      /\ x.gen = player.gen /\ x.of = player.queue[player.idx]
  BY <1>0 DEF Fine, Lead, ByAsk, BySound, BySpeech, NoLead, OfCurrent
<1>5. Sounding(p) = {} /\ Mains(p) = {} /\ NoLead(p)
  BY <1>2, <1>3, <1>4 DEF Sounding, Mains, NoLead
<1>6. InTime(player) => p.sources = {} /\ (player.offset # 0 => x.resumed)
  BY <1>0, <1>3, <1>4 DEF InTime, Sounding
<1>7. x.of \in failed
  BY <1>0 DEF PlayerInv
<1> QED
  BY <1>0, <1>1, <1>3, <1>4, <1>5, <1>6, <1>7, EndSafe DEF Leaves

Ticked(s) == [s EXCEPT !.pos = IF s.pos < Length THEN s.pos + 1 ELSE s.pos]

LEMMA TickedSource ==
  ASSUME NEW s \in SourceRec
  PROVE  /\ Ticked(s) \in SourceRec /\ Ticked(s).gen = s.gen /\ Ticked(s).of = s.of
         /\ Ticked(s).resumed = s.resumed /\ V!Key(Ticked(s)) = V!Key(s)
         /\ Ticked(s).pos = (IF s.pos < Length THEN s.pos + 1 ELSE s.pos)
         /\ s.pos \in 0..Length /\ s.of \in V!Pieces
<1> DEFINE n == IF s.pos < Length THEN s.pos + 1 ELSE s.pos
<1>1. s.pos \in 0..Length /\ Length \in Nat /\ s.of \in V!Pieces
  BY VoiceAssumption DEF SourceRec
<1>2. n \in 0..Length
  BY <1>1
<1>3. Ticked(s) = [s EXCEPT !.pos = n]
  BY DEF Ticked
<1> HIDE DEF n
<1>4. /\ Ticked(s) \in SourceRec /\ Ticked(s).gen = s.gen /\ Ticked(s).of = s.of
      /\ Ticked(s).resumed = s.resumed /\ Ticked(s).pos = n
  BY <1>2, <1>3 DEF SourceRec
<1> QED
  BY <1>1, <1>4 DEF V!Key, n

LEMMA ClockSafe ==
  ASSUME PlayerInv, V!Clock
  PROVE  GoesOn
<1> DEFINE p == player
           later == {Ticked(s) : s \in p.sources}
           n == IF p.buffer /\ p.since < Length THEN p.since + 1 ELSE p.since
           q == [p EXCEPT !.sources = later, !.since = n]
           new(k) == {s.pos : s \in {y \in p.sources : y.of = k /\ y.pos < Length}}
<1>0. /\ p \in PlayerRec /\ Fine(p) /\ p.gen \in Nat /\ Length \in Nat /\ p.since \in 0..Length
      /\ p.offset \in 0..Length /\ p.buffer \in BOOLEAN
  BY VoiceAssumption DEF PlayerInv, Fine, PlayerRec
<1>1. /\ player' = q /\ gate' = gate /\ late' = late /\ hasty' = hasty /\ arrived' = arrived
      /\ ended' = ended /\ failed' = failed
      /\ heard' = [k \in V!Pieces |-> heard[k] \cup new(k)]
  BY DEF V!Clock, V!Same, Ticked
<1>2. \A s \in p.sources :
        /\ s \in SourceRec /\ Ticked(s) \in SourceRec /\ Ticked(s).gen = s.gen /\ Ticked(s).of = s.of
        /\ Ticked(s).resumed = s.resumed /\ V!Key(Ticked(s)) = V!Key(s)
        /\ Ticked(s).pos = (IF s.pos < Length THEN s.pos + 1 ELSE s.pos)
        /\ s.pos \in 0..Length /\ s.of \in V!Pieces
  <2>1. \A s \in p.sources : s \in SourceRec
    BY <1>0 DEF PlayerRec
  <2> QED
    BY <2>1, TickedSource
<1>3. later \subseteq SourceRec /\ \A x : x \in later <=> \E s \in p.sources : x = Ticked(s)
  BY <1>2
<1>4. n \in 0..Length
  BY <1>0
<1>5. n = (IF p.buffer /\ p.since < Length THEN p.since + 1 ELSE p.since)
  OBVIOUS
<1> HIDE DEF later, n
<1>6. /\ q \in PlayerRec /\ q.state = p.state /\ q.gen = p.gen /\ q.queue = p.queue
      /\ q.idx = p.idx /\ q.asks = p.asks /\ q.decodes = p.decodes
      /\ q.sources = later /\ q.due = p.due /\ q.current = p.current /\ q.buffer = p.buffer
      /\ q.offset = p.offset /\ q.since = n /\ q.speech = p.speech
  BY <1>0, <1>3, <1>4 DEF PlayerRec
<1> HIDE DEF q
<1>7. Indexed(q) /\ Mains(q) = Mains(p)
  BY <1>0, <1>6 DEF Fine, Indexed, Mains
<1>8. Gens(q)
  BY <1>0, <1>2, <1>3, <1>6 DEF Fine, Gens
<1>9. \A x \in Sounding(q) :
        x \in Sounding(p) \/ \E s \in Sounding(p) : s \in p.sources /\ x = Ticked(s)
  BY <1>2, <1>3, <1>6 DEF Sounding
<1>10. ASSUME NEW d, Sounding(p) = {d}
       PROVE  \E e : Sounding(q) = {e} /\ e.of = d.of /\ (d.resumed => e.resumed)
  <2>1. CASE d \in p.decodes
    <3>1. d \notin p.sources
      BY <1>0, <2>1, DecodeNoSource DEF PlayerRec
    <3>2. d \in Sounding(q)
      BY <1>6, <1>10, <2>1 DEF Sounding
    <3>3. Sounding(q) = {d}
      BY <1>9, <1>10, <3>1, <3>2
    <3> QED
      BY <3>3
  <2>2. CASE d \notin p.decodes
    <3>1. d \in p.sources /\ d.gen = p.gen
      BY <1>10, <2>2 DEF Sounding
    <3>2. Ticked(d) \in Sounding(q)
      BY <1>2, <1>3, <1>6, <3>1 DEF Sounding
    <3>3. d \notin Sounding(q) \/ d = Ticked(d)
      <4>1. SUFFICES ASSUME d \in Sounding(q)
                     PROVE  d = Ticked(d)
        OBVIOUS
      <4>2. PICK s \in p.sources : d = Ticked(s)
        BY <1>3, <1>6, <2>2, <4>1 DEF Sounding
      <4>3. s \in Sounding(p)
        BY <1>2, <3>1, <4>2 DEF Sounding
      <4> QED
        BY <1>10, <4>2, <4>3
    <3>4. Sounding(q) = {Ticked(d)}
      BY <1>9, <1>10, <3>2, <3>3
    <3> QED
      BY <1>2, <3>1, <3>4
  <2> QED
    BY <2>1, <2>2
<1>11. Sounding(p) = {} => Sounding(q) = {}
  BY <1>9
<1>12. Lead(q) /\ OfCurrent(q)
  <2>1. CASE BySound(p) /\ p.state = "playing"
    <3>1. PICK d : Sounding(p) = {d}
      BY <2>1 DEF BySound
    <3>2. d.of = p.queue[p.idx]
      BY <1>0, <3>1 DEF Fine, OfCurrent
    <3>3. PICK e : Sounding(q) = {e} /\ e.of = d.of
      BY <1>10, <3>1
    <3> QED
      BY <1>6, <1>7, <2>1, <3>2, <3>3 DEF Lead, BySound, OfCurrent
  <2>2. CASE ~(BySound(p) /\ p.state = "playing")
    BY <1>0, <1>6, <1>7, <1>11, <2>2 DEF Fine, Lead, ByAsk, BySound, BySpeech, NoLead, OfCurrent
  <2> QED
    BY <2>1, <2>2
<1>13. Fine(q)
  BY <1>0, <1>6, <1>7, <1>8, <1>12 DEF Fine
<1>14. ASSUME InTime(p)
       PROVE  InTime(q)
  <2>1. ASSUME NEW x \in q.sources
        PROVE  /\ x.gen = q.gen /\ V!Key(x) = q.current /\ q.buffer
               /\ q.offset + q.since >= x.pos /\ (x.pos < Length => q.offset + q.since = x.pos)
    <3>1. PICK s \in p.sources : x = Ticked(s)
      BY <1>3, <1>6
    <3>2. /\ s.gen = p.gen /\ V!Key(s) = p.current /\ p.buffer
          /\ p.offset + p.since >= s.pos /\ (s.pos < Length => p.offset + p.since = s.pos)
      BY <1>14 DEF InTime
    <3>3. x.gen = s.gen /\ V!Key(x) = V!Key(s) /\ x.pos = (IF s.pos < Length THEN s.pos + 1 ELSE s.pos)
          /\ s.pos \in 0..Length
      BY <1>2, <3>1
    <3>4. q.offset + q.since >= x.pos /\ (x.pos < Length => q.offset + q.since = x.pos)
      BY <1>0, <1>5, <1>6, <3>2, <3>3
    <3> QED
      BY <1>6, <3>2, <3>3, <3>4
  <2>2. \A x \in Sounding(q) : (\A y \in Sounding(p) : y.resumed) => x.resumed
    BY <1>2, <1>9
  <2>3. /\ \A d \in q.decodes : d.gen = q.gen => d.from = q.offset
        /\ q.offset # 0 => /\ q.queue # <<>> /\ Mains(q) = {}
                           /\ \A x \in Sounding(q) : x.resumed
                           /\ q.speech # V!Silence => q.speech.resumed
    BY <1>6, <1>7, <1>14, <2>2 DEF InTime
  <2> QED
    BY <2>1, <2>3 DEF InTime
<1>15. /\ heard' \in [V!Pieces -> SUBSET Units]
       /\ \A k \in V!Pieces : /\ heard[k] \subseteq heard'[k] /\ heard'[k] \subseteq Units
                             /\ new(k) \subseteq heard'[k]
  <2>1. \A k \in V!Pieces : new(k) \subseteq Units
    BY <1>0, <1>2 DEF Units
  <2>2. \A k \in V!Pieces : heard[k] \subseteq Units
    BY DEF PlayerInv
  <2> HIDE DEF new
  <2> QED
    BY <1>1, <2>1, <2>2
<1>16. ASSUME InTime(p), HeardTo(p, heard)
       PROVE  HeardTo(q, heard')
  <2>1. p.offset # 0 => p.queue[p.idx] \in V!Pieces
    BY <1>0, <1>16 DEF InTime, Fine, Indexed, PlayerRec
  <2>2. \A u \in 0..q.offset - 1 : u \in heard'[q.queue[q.idx]]
    <3>1. CASE p.offset = 0
      BY <1>6, <3>1
    <3>2. CASE p.offset # 0
      BY <1>6, <1>15, <1>16, <2>1, <3>2 DEF HeardTo
    <3> QED
      BY <3>1, <3>2
  <2>3. ASSUME NEW x \in q.sources, NEW u \in 0..x.pos - 1
        PROVE  u \in heard'[x.of]
    <3>1. PICK s \in p.sources : x = Ticked(s)
      BY <1>3, <1>6
    <3>2. x.of = s.of /\ x.pos = (IF s.pos < Length THEN s.pos + 1 ELSE s.pos) /\ s.pos \in 0..Length
          /\ s.of \in V!Pieces
      BY <1>2, <3>1
    <3>3. CASE u \in 0..s.pos - 1
      BY <1>15, <1>16, <3>2, <3>3 DEF HeardTo
    <3>4. CASE u \notin 0..s.pos - 1
      <4>1. u = s.pos /\ s.pos < Length
        BY <1>0, <3>2, <3>4
      <4> QED
        BY <1>15, <3>2, <4>1
    <3> QED
      BY <3>3, <3>4
  <2> QED
    BY <2>2, <2>3 DEF HeardTo
<1>17. ASSUME NEW k \in ended' \ failed'
       PROVE  late' \/ hasty' \/ heard'[k] = Units
  <2>1. k \in ended \ failed /\ k \in V!Pieces
    BY <1>1 DEF PlayerInv
  <2>2. late \/ hasty \/ heard[k] = Units
    BY <2>1 DEF PlayerInv
  <2> HIDE DEF new
  <2> QED
    BY <1>1, <1>15, <2>1, <2>2
<1>18. PlayerInv'
  <2>1. Fine(player)' /\ (~late' => InTime(player)')
    BY <1>1, <1>13, <1>14 DEF PlayerInv
  <2>2. ~late' /\ ~hasty' => HeardTo(player, heard)'
    BY <1>1, <1>16 DEF PlayerInv
  <2>3. /\ player'.speech # V!Silence => player'.speech.of \in failed'
        /\ \A i \in 1..Len(player'.queue) : player'.queue[i] <= arrived'
        /\ ended' \subseteq V!Pieces /\ arrived' \in 0..MaxPieces
        /\ gate' \in {{}, {"checking"}, {"on"}}
    BY <1>1, <1>6 DEF PlayerInv
  <2>4. heard' \in [V!Pieces -> SUBSET Units]
    BY <1>15
  <2> QED
    BY <1>17, <2>1, <2>2, <2>3, <2>4 DEF PlayerInv, Units
<1> QED
  BY <1>1, <1>6, <1>18 DEF GoesOn

LEMMA CallbackSafe == PlayerInv /\ V!Callback => GoesOn
  BY TTSAnswerSafe, DecodedSafe, DecodeFailsSafe, SourceEndsSafe, SpeechEndsSafe, ClockSafe
  DEF V!Callback

-----------------------------------------------------------------------------
\* A step that leaves the player and what was heard of it alone.
LEMMA UntouchedSafe ==
  ASSUME PlayerInv, player' = player, heard' = heard, ended' = ended, late' = late,
         hasty => hasty', failed \subseteq failed', arrived' \in arrived..MaxPieces,
         gate' \in {{}, {"checking"}, {"on"}}
  PROVE  PlayerInv'
<1>1. \A i \in 1..Len(player'.queue) : player'.queue[i] <= arrived'
  <2>1. \A i \in 1..Len(player.queue) : player.queue[i] \in Nat
    BY VoiceAssumption DEF PlayerInv, Fine, PlayerRec, V!Pieces
  <2> QED
    BY <2>1, VoiceAssumption DEF PlayerInv
<1> QED
  BY <1>1, InvKept DEF PlayerInv

LEMMA ArrivedIn ==
  ASSUME PlayerInv
  PROVE  arrived \in arrived..MaxPieces
  BY VoiceAssumption DEF PlayerInv

LEMMA HaltedFacts ==
  ASSUME NEW p, NEW q, Halted(p, q)
  PROVE  /\ Fine(q) /\ q.speech = V!Silence /\ q.state # "playing"
         /\ InTime(p) => InTime(q)
  BY DEF Halted

\* A step that stops the player.
LEMMA HaltSafe ==
  ASSUME PlayerInv, Halted(player, player'), player'.queue \in {player.queue, <<>>},
         InTime(player) /\ HeardTo(player, heard) /\ ~hasty' => HeardTo(player', heard),
         heard' = heard, ended' = ended, late' = late, hasty => hasty', failed' = failed,
         arrived' = arrived, gate' \in {{}, {"checking"}, {"on"}}
  PROVE  GoesOn /\ player'.state # "playing"
<1>1. /\ Fine(player') /\ player'.speech = V!Silence /\ player'.state # "playing"
      /\ InTime(player) => InTime(player')
  BY HaltedFacts
<1>2. \A i \in 1..Len(player'.queue) : player'.queue[i] <= arrived
  BY DEF PlayerInv
<1>3. PlayerInv'
  BY <1>1, <1>2, ArrivedIn, InvKept DEF PlayerInv
<1> QED
  BY <1>1, <1>3 DEF GoesOn

LEMMA HoldSafe ==
  ASSUME PlayerInv, V!Hold, heard' = heard, ended' = ended, late' = late, failed' = failed,
         arrived' = arrived
  PROVE  GoesOn
<1>1. /\ player' = V!Pause(player) /\ gate' = {"on"} /\ Fine(player)
      /\ hasty' = (hasty \/ Hasty(player))
  BY DEF V!Hold, Hasty, PlayerInv
<1>2. /\ Halted(player, V!Pause(player)) /\ V!Pause(player).queue = player.queue
      /\ \A h : InTime(player) /\ HeardTo(player, h) /\ ~Hasty(player) => HeardTo(V!Pause(player), h)
  BY <1>1, PauseHalts
<1> QED
  BY <1>1, <1>2, HaltSafe

\* The players that a handler may leave behind.
LEMMA StopsSafe ==
  ASSUME PlayerInv, NEW q \in {V!CancelPlayback(player), V!ResetPause(player), V!StopAudio(player)},
         player' = q, heard' = heard, ended' = ended, late' = late, hasty' = hasty,
         failed' = failed, arrived' = arrived, gate' \in {{}, {"checking"}, {"on"}}
  PROVE  GoesOn
<1>1. Fine(player)
  BY DEF PlayerInv
<1>2. q = player \/ \E to \in {"idle", "paused"} : q = V!Cleared(player, to)
  BY DEF V!CancelPlayback, V!ResetPause, V!StopAudio
<1>3. CASE q = player
  BY <1>3, UntouchedSafe, ArrivedIn DEF GoesOn
<1>4. ASSUME NEW to \in {"idle", "paused"}, q = V!Cleared(player, to)
      PROVE  GoesOn
  <2>1. /\ Halted(player, q) /\ q.queue = <<>> /\ \A h : InTime(player) => HeardTo(q, h)
    BY <1>1, <1>4, ClearedHalts
  <2> QED
    BY <2>1, HaltSafe
<1> QED
  BY <1>2, <1>3, <1>4

LEMMA GateTimeoutSafe ==
  ASSUME PlayerInv, V!GateTimeout
  PROVE  PlayerInv'
<1>1. /\ player' = V!Resume(player) /\ gate' = gate \ {"on"}
      /\ failed' = failed \cup ({player'.speech.of} \ {0})
      /\ heard' = heard /\ late' = late /\ hasty' = hasty /\ arrived' = arrived /\ ended' = ended
  BY DEF V!GateTimeout, V!Quiet
<1>2. Resumed(player, player')
  BY <1>1, ResumeResumes DEF PlayerInv
<1>3. /\ Fine(player') /\ player'.queue = player.queue
      /\ InTime(player) => InTime(player')
      /\ InTime(player) /\ HeardTo(player, heard) => HeardTo(player', heard)
  BY <1>2 DEF Resumed
<1>4. player'.speech # V!Silence => player'.speech.of # 0
  BY <1>3, VoiceAssumption DEF Fine, PlayerRec, SpeechRec, V!Pieces
<1>5. gate' \in {{}, {"checking"}, {"on"}} /\ failed \subseteq failed'
  BY <1>1 DEF PlayerInv
<1>6. player'.speech # V!Silence => player'.speech.of \in failed'
  BY <1>1, <1>4
<1>7. \A i \in 1..Len(player'.queue) : player'.queue[i] <= arrived
  BY <1>3 DEF PlayerInv
<1> QED
  BY <1>1, <1>3, <1>5, <1>6, <1>7, ArrivedIn, InvKept DEF PlayerInv

\* A piece arrives and is taken, unless the player waits.
LEMMA EnqueueSafe ==
  ASSUME PlayerInv, arrived < MaxPieces, arrived' = arrived + 1,
         player' = V!Enqueue(player, arrived + 1),
         heard' = heard, ended' = ended, late' = late, hasty' = hasty, failed' = failed,
         gate' \in {{}, {"checking"}, {"on"}}
  PROVE  PlayerInv' /\ player'.queue \in {player.queue, Append(player.queue, arrived + 1)}
<1> DEFINE piece == arrived + 1
           q == V!Enqueue(player, piece)
<1>0. /\ Fine(player) /\ player.queue \in Seq(V!Pieces) /\ arrived \in Nat
      /\ \A i \in 1..Len(player.queue) : player.queue[i] <= arrived
  BY DEF PlayerInv, Fine, PlayerRec
<1>1. piece \in V!Pieces /\ \A i \in 1..Len(player.queue) : player.queue[i] # piece
  <2>1. \A i \in 1..Len(player.queue) : player.queue[i] \in Nat
    BY <1>0, VoiceAssumption DEF V!Pieces
  <2> QED
    BY <1>0, <2>1, VoiceAssumption DEF V!Pieces
<1>2. Took(player, q, piece)
  BY <1>0, <1>1, EnqueueTakes
<1> HIDE DEF q
<1>3. /\ Fine(q) /\ q.queue \in {player.queue, Append(player.queue, piece)} /\ q.speech = player.speech
      /\ InTime(player) => InTime(q)
      /\ InTime(player) /\ HeardTo(player, heard) => HeardTo(q, heard)
  BY <1>2 DEF Took
<1>4. \A i \in 1..Len(q.queue) : q.queue[i] <= arrived + 1
  <2>1. \A i \in 1..Len(player.queue) : player.queue[i] \in Nat
    BY <1>0, VoiceAssumption DEF V!Pieces
  <2>2. CASE q.queue = player.queue
    BY <1>0, <2>1, <2>2
  <2>3. CASE q.queue = Append(player.queue, piece)
    BY <1>0, <2>1, <2>3
  <2> QED
    BY <1>3, <2>2, <2>3
<1>5. arrived' \in arrived..MaxPieces
  BY <1>0, VoiceAssumption
<1>6. player' = q
  BY DEF q
<1> QED
  BY <1>3, <1>4, <1>5, <1>6, InvKept DEF PlayerInv

LEMMA PlayerNextSafe == PlayerInv /\ V!PlayerNext => PlayerInv'
<1> SUFFICES ASSUME PlayerInv, V!PlayerNext
             PROVE  PlayerInv'
  OBVIOUS
<1>1. CASE V!Arrive
  BY <1>1, EnqueueSafe, GateOfTurns DEF V!Arrive, V!Quiet, V!Same, V!Turns
<1>2. CASE V!Callback
  BY <1>2, CallbackSafe DEF GoesOn
<1>3. CASE V!GateOpens
  <2>1. heard' = heard /\ ended' = ended /\ late' = late /\ failed' = failed /\ arrived' = arrived
    BY <1>3 DEF V!GateOpens, V!Same
  <2>2. CASE V!Hold
    BY <2>1, <2>2, HoldSafe DEF GoesOn
  <2>3. CASE gate' = {"checking"} /\ UNCHANGED <<player, hasty>>
    BY <2>1, <2>3, ArrivedIn, UntouchedSafe
  <2> QED
    BY <1>3, <2>2, <2>3 DEF V!GateOpens
<1>4. CASE V!GateChecked
  <2>1. heard' = heard /\ ended' = ended /\ late' = late /\ failed' = failed /\ arrived' = arrived
    BY <1>4 DEF V!GateChecked, V!Same
  <2>2. CASE V!Hold
    BY <2>1, <2>2, HoldSafe DEF GoesOn
  <2>3. CASE gate' = gate \ {"checking"} /\ UNCHANGED <<player, hasty>>
    <3>1. gate' \in {{}, {"checking"}, {"on"}}
      BY <2>3 DEF PlayerInv
    <3> QED
      BY <2>1, <2>3, <3>1, ArrivedIn, UntouchedSafe
  <2> QED
    BY <1>4, <2>2, <2>3 DEF V!GateChecked
<1>5. CASE V!GateTimeout
  BY <1>5, GateTimeoutSafe
<1>6. CASE V!RestartWakeWord
  <2>1. gate' \in {{}, {"checking"}, {"on"}}
    BY <1>6 DEF V!RestartWakeWord, PlayerInv
  <2> QED
    BY <1>6, <2>1, ArrivedIn, UntouchedSafe DEF V!RestartWakeWord, V!Same
<1>7. CASE V!Interrupt
  <2>1. /\ player' = V!StopAudio(player) /\ gate' \in {{}, {"checking"}, {"on"}}
        /\ heard' = heard /\ ended' = ended /\ late' = late /\ failed' = failed /\ arrived' = arrived
        /\ hasty' = hasty
    BY <1>7, GateOfTurns DEF V!Interrupt, V!Quiet, V!Same
  <2> QED
    BY <2>1, StopsSafe DEF GoesOn
<1>8. CASE V!Transcript
  <2>1. /\ player' = V!ResetPause(player) /\ gate' \in {{}, {"checking"}, {"on"}}
        /\ heard' = heard /\ ended' = ended /\ late' = late /\ failed' = failed /\ arrived' = arrived
        /\ hasty' = hasty
    BY <1>8, GateOfTurns DEF V!Transcript, V!Quiet, V!Same
  <2> QED
    BY <2>1, StopsSafe DEF GoesOn
<1> QED
  BY <1>1, <1>2, <1>3, <1>4, <1>5, <1>6, <1>7, <1>8 DEF V!PlayerNext

-----------------------------------------------------------------------------
(* What was deferred is taken piece by piece. *)

LEMMA UpTo ==
  ASSUME NEW N \in Nat, NEW T, 0 \in T, \A m \in 0..N : m \in T /\ m < N => m + 1 \in T
  PROVE  0..N \subseteq T
<1> DEFINE missing == (0..N) \ T
<1> SUFFICES ASSUME missing # {} PROVE FALSE
  OBVIOUS
<1>1. missing \in SUBSET Nat
  OBVIOUS
<1>2. PICK k \in missing : \A j \in missing : ~ (<<j, k>> \in OpToRel(<, Nat))
  BY <1>1, NatLessThanWellFounded, WFMin
<1>3. k \in 0..N /\ k \notin T /\ k # 0
  BY <1>2
<1>4. k - 1 \in 0..N /\ k - 1 < N /\ k - 1 + 1 = k
  BY <1>3
<1>5. <<k - 1, k>> \in OpToRel(<, Nat)
  BY <1>3, <1>4 DEF OpToRel
<1>6. k - 1 \notin missing
  BY <1>2, <1>5
<1> QED BY <1>3, <1>4, <1>6

\* The players between p and the one that has taken them all.
Steps(f, p, reads, m) ==
  /\ f = [n \in 0..m |-> f[n]] /\ f[0] = p
  /\ \A n \in 1..m : f[n] = V!Enqueue(f[n - 1], reads[n])

LEMMA StepsExist ==
  ASSUME NEW p, NEW reads \in Seq(V!Pieces)
  PROVE  \E f : Steps(f, p, reads, Len(reads))
<1> DEFINE N == Len(reads)
           T == {m \in 0..N : \E f : Steps(f, p, reads, m)}
<1>0. N \in Nat
  OBVIOUS
<1>1. 0 \in T
  <2> DEFINE f == [n \in 0..0 |-> p]
  <2>1. f[0] = p /\ f = [n \in 0..0 |-> f[n]]
    OBVIOUS
  <2> HIDE DEF f
  <2>2. Steps(f, p, reads, 0)
    BY <2>1 DEF Steps
  <2> QED BY <1>0, <2>2
<1>2. \A m \in 0..N : m \in T /\ m < N => m + 1 \in T
  <2> SUFFICES ASSUME NEW m \in 0..N, m \in T, m < N PROVE m + 1 \in T
    OBVIOUS
  <2>1. PICK f : Steps(f, p, reads, m)
    OBVIOUS
  <2> DEFINE last == V!Enqueue(f[m], reads[m + 1])
             g == [n \in 0..(m + 1) |-> IF n = m + 1 THEN last ELSE f[n]]
  <2>2. /\ \A n \in 0..m : g[n] = f[n]
        /\ g[m + 1] = last /\ g = [n \in 0..(m + 1) |-> g[n]]
    BY <1>0
  <2> HIDE DEF g
  <2>3. f[0] = p /\ \A n \in 1..m : f[n] = V!Enqueue(f[n - 1], reads[n])
    BY <2>1 DEF Steps
  <2>4. \A n \in 1..(m + 1) : g[n] = V!Enqueue(g[n - 1], reads[n])
    <3> SUFFICES ASSUME NEW n \in 1..(m + 1) PROVE g[n] = V!Enqueue(g[n - 1], reads[n])
      OBVIOUS
    <3>1. CASE n = m + 1
      <4>1. n - 1 = m /\ m \in 0..m
        BY <3>1, <1>0
      <4> QED BY <2>2, <3>1, <4>1
    <3>2. CASE n # m + 1
      <4>1. n \in 1..m /\ n \in 0..m /\ n - 1 \in 0..m
        BY <3>2, <1>0
      <4> QED BY <2>2, <2>3, <4>1
    <3> QED BY <3>1, <3>2
  <2>7. g[0] = p
    <3>1. 0 \in 0..m
      BY <1>0
    <3> QED BY <2>2, <2>3, <3>1
  <2>5. Steps(g, p, reads, m + 1)
    BY <2>2, <2>4, <2>7 DEF Steps
  <2>6. m + 1 \in 0..N
    BY <1>0
  <2> QED BY <2>5, <2>6
<1>3. N \in T
  <2> HIDE DEF T
  <2>1. 0..N \subseteq T
    BY <1>0, <1>1, <1>2, UpTo
  <2> QED BY <1>0, <2>1
<1> QED BY <1>3

LEMMA TakenInTurn ==
  ASSUME NEW p, NEW reads \in Seq(V!Pieces)
  PROVE  \E f : /\ V!EnqueueAll(p, reads) = f[Len(reads)] /\ f[0] = p
                /\ \A n \in 1..Len(reads) : f[n] = V!Enqueue(f[n - 1], reads[n])
<1> DEFINE N == Len(reads)
           Run(h) == h = [n \in 0..N |-> IF n = 0 THEN p ELSE V!Enqueue(h[n - 1], reads[n])]
<1>0. N \in Nat
  OBVIOUS
<1>1. PICK f : Steps(f, p, reads, N)
  BY StepsExist
<1>2. f = [n \in 0..N |-> f[n]] /\ f[0] = p /\ \A n \in 1..N : f[n] = V!Enqueue(f[n - 1], reads[n])
  BY <1>1 DEF Steps
<1>3. \A n \in 0..N : f[n] = IF n = 0 THEN p ELSE V!Enqueue(f[n - 1], reads[n])
  BY <1>0, <1>2
<1>4. Run(f)
  BY <1>2, <1>3
<1> DEFINE h == CHOOSE k : Run(k)
<1>5. Run(h)
  BY <1>4
<1>6. V!EnqueueAll(p, reads) = h[N]
  BY DEF V!EnqueueAll
<1>7. \A n \in 0..N : h[n] = IF n = 0 THEN p ELSE V!Enqueue(h[n - 1], reads[n])
  <2> HIDE DEF h
  <2> QED BY <1>5
<1> HIDE DEF h
<1>8. h[0] = p /\ \A n \in 1..N : h[n] = V!Enqueue(h[n - 1], reads[n])
  BY <1>0, <1>7
<1> QED BY <1>6, <1>8

\* q is p with the first n of the reads taken.
TookFirst(p, q, reads, n) ==
  /\ Fine(q) /\ q.speech = p.speech
  /\ InTime(p) => InTime(q)
  /\ \A h : InTime(p) /\ HeardTo(p, h) => HeardTo(q, h)
  /\ \A i \in 1..Len(q.queue) : \/ \E j \in 1..Len(p.queue) : q.queue[i] = p.queue[j]
                                \/ \E j \in 1..n : q.queue[i] = reads[j]

LEMMA TakesOneMore ==
  ASSUME NEW p, NEW q, NEW reads \in Seq(V!Pieces), NEW n \in 0..Len(reads), n < Len(reads),
         Once(reads), \A i \in 1..Len(reads), j \in 1..Len(p.queue) : reads[i] # p.queue[j],
         TookFirst(p, q, reads, n)
  PROVE  TookFirst(p, V!Enqueue(q, reads[n + 1]), reads, n + 1)
<1> DEFINE piece == reads[n + 1]
           t == V!Enqueue(q, piece)
<1>0. /\ n + 1 \in 1..Len(reads) /\ piece \in V!Pieces /\ n \in Nat
      /\ \A i : i \in 1..n => i \in 1..(n + 1) /\ i \in 1..Len(reads) /\ i # n + 1
  OBVIOUS
<1>1. /\ Fine(q) /\ q.queue \in Seq(V!Pieces)
      /\ \A i \in 1..Len(q.queue) : \/ \E j \in 1..Len(p.queue) : q.queue[i] = p.queue[j]
                                    \/ \E j \in 1..n : q.queue[i] = reads[j]
  BY DEF TookFirst, Fine, PlayerRec
<1>2. \A i \in 1..Len(q.queue) : q.queue[i] # piece
  BY <1>0, <1>1 DEF Once
<1>3. Took(q, t, piece)
  BY <1>0, <1>1, <1>2, EnqueueTakes
<1> HIDE DEF t
<1>4. /\ Fine(t) /\ t.queue \in {q.queue, Append(q.queue, piece)} /\ t.speech = q.speech
      /\ InTime(q) => InTime(t)
      /\ \A h : InTime(q) /\ HeardTo(q, h) => HeardTo(t, h)
  BY <1>3 DEF Took
<1>5. \A i \in 1..Len(t.queue) : \/ \E j \in 1..Len(p.queue) : t.queue[i] = p.queue[j]
                                 \/ \E j \in 1..(n + 1) : t.queue[i] = reads[j]
  <2>1. CASE t.queue = q.queue
    BY <1>0, <1>1, <2>1
  <2>2. CASE t.queue = Append(q.queue, piece)
    <3> SUFFICES ASSUME NEW i \in 1..Len(t.queue)
                 PROVE  \/ \E j \in 1..Len(p.queue) : t.queue[i] = p.queue[j]
                        \/ \E j \in 1..(n + 1) : t.queue[i] = reads[j]
      OBVIOUS
    <3>1. CASE i \in 1..Len(q.queue)
      <4>1. t.queue[i] = q.queue[i]
        BY <1>1, <2>2, <3>1
      <4> QED BY <1>0, <1>1, <3>1, <4>1
    <3>2. CASE i \notin 1..Len(q.queue)
      <4>1. t.queue[i] = piece
        BY <1>1, <2>2, <3>2
      <4> QED BY <1>0, <4>1
    <3> QED BY <3>1, <3>2
  <2> QED BY <1>4, <2>1, <2>2
<1> QED BY <1>4, <1>5 DEF TookFirst, t

LEMMA EnqueueAllTakes ==
  ASSUME NEW p, Fine(p), NEW reads \in Seq(V!Pieces), Once(reads),
         \A i \in 1..Len(reads), j \in 1..Len(p.queue) : reads[i] # p.queue[j]
  PROVE  TookFirst(p, V!EnqueueAll(p, reads), reads, Len(reads))
<1>1. PICK f : /\ V!EnqueueAll(p, reads) = f[Len(reads)] /\ f[0] = p
               /\ \A n \in 1..Len(reads) : f[n] = V!Enqueue(f[n - 1], reads[n])
  BY TakenInTurn
<1> DEFINE T == {n \in 0..Len(reads) : TookFirst(p, f[n], reads, n)}
<1>2. Len(reads) \in Nat
  OBVIOUS
<1>3. 0 \in T
  <2>1. TookFirst(p, p, reads, 0)
    BY DEF TookFirst
  <2> QED BY <1>1, <1>2, <2>1
<1>4. \A n \in 0..Len(reads) : n \in T /\ n < Len(reads) => n + 1 \in T
  <2> SUFFICES ASSUME NEW n \in 0..Len(reads), TookFirst(p, f[n], reads, n), n < Len(reads)
               PROVE  n + 1 \in T
    OBVIOUS
  <2>1. n + 1 \in 1..Len(reads) /\ n + 1 \in 0..Len(reads) /\ n + 1 - 1 = n
    BY <1>2
  <2>2. f[n + 1] = V!Enqueue(f[n], reads[n + 1])
    BY <1>1, <2>1
  <2>3. TookFirst(p, V!Enqueue(f[n], reads[n + 1]), reads, n + 1)
    BY TakesOneMore
  <2> QED BY <2>1, <2>2, <2>3
<1>5. Len(reads) \in T
  <2> HIDE DEF T
  <2>1. 0..Len(reads) \subseteq T
    BY <1>2, <1>3, <1>4, UpTo
  <2> QED BY <1>2, <2>1
<1> QED BY <1>1, <1>5

-----------------------------------------------------------------------------
(* The recorder beside the player. *)

Mics == {"idle", "acquiring", "recording", "stopping", "saving"}

DeferredInv ==
  /\ deferred \in Seq(V!Pieces) /\ Once(deferred)
  /\ \A i \in 1..Len(deferred) : deferred[i] <= arrived
  /\ \A i \in 1..Len(deferred), j \in 1..Len(player.queue) : deferred[i] # player.queue[j]

\* Until a tap or an interrupt strays, nothing is played into what asks or records.
Hushed == tapped \/ (mic \in {"acquiring", "recording"} => player.state # "playing")

MicInv ==
  /\ phase \in [V!Recs -> V!Phases] /\ recorder \in {0} \cup V!Recs
  /\ mic \in Mics /\ discard \in BOOLEAN
  /\ V!MicHeld /\ V!DeferredIsAwaited /\ Hushed

VoiceInv == PlayerInv /\ DeferredInv /\ MicInv

\* The one recording there is.
Held(r) ==
  /\ V!Busy = {r} /\ mic = V!MicOf(phase[r])
  /\ phase[r] # "asking" => recorder = r

LEMMA HeldFacts ==
  ASSUME MicInv, ~tapped, NEW r \in V!Recs, phase[r] \notin {"none", "off"}
  PROVE  Held(r)
<1>1. r \in V!Busy
  BY DEF V!Busy
<1>2. PICK s \in V!Recs : /\ V!Busy = {s} /\ mic = V!MicOf(phase[s])
                          /\ phase[s] # "asking" => recorder = s
  BY <1>1 DEF MicInv, V!MicHeld
<1> QED
  BY <1>1, <1>2 DEF Held

LEMMA NobodyHeld ==
  ASSUME MicInv, ~tapped, mic = "idle"
  PROVE  V!Busy = {}
<1> SUFFICES ASSUME V!Busy # {} PROVE FALSE
  OBVIOUS
<1>1. PICK s \in V!Recs : V!Busy = {s} /\ mic = V!MicOf(phase[s])
  BY DEF MicInv, V!MicHeld
<1>2. phase[s] \notin {"none", "off"} /\ phase[s] \in V!Phases
  BY <1>1 DEF V!Busy, MicInv
<1> QED
  BY <1>1, <1>2 DEF V!MicOf, V!Phases

\* A recording that goes from one phase to another takes the microphone along.
LEMMA GoesHeld ==
  ASSUME MicInv, NEW r \in V!Recs, NEW from \in V!Phases, NEW to \in V!Phases, V!Goes(r, from, to),
         recorder' \in {0} \cup V!Recs,
         \/ tapped'
         \/ /\ V!Busy \subseteq {r}
            /\ IF to = "off" THEN mic' = "idle"
               ELSE mic' = V!MicOf(to) /\ (to # "asking" => recorder' = r),
         to # "none"
  PROVE  phase' \in [V!Recs -> V!Phases] /\ V!MicHeld'
<1>1. phase' = [phase EXCEPT ![r] = to] /\ phase \in [V!Recs -> V!Phases]
  BY DEF V!Goes, MicInv
<1>2. /\ phase' \in [V!Recs -> V!Phases] /\ phase'[r] = to
      /\ \A q \in V!Recs : q # r => phase'[q] = phase[q]
  BY <1>1
<1>3. CASE tapped'
  BY <1>2, <1>3 DEF V!MicHeld
<1>4. CASE ~tapped'
  <2>1. \A q \in V!Recs : q # r => phase'[q] \in {"none", "off"}
    BY <1>2, <1>4 DEF V!Busy
  <2>2. CASE to = "off"
    <3>1. V!Busy' = {} /\ mic' = "idle"
      BY <1>2, <1>4, <2>1, <2>2 DEF V!Busy
    <3> QED
      BY <1>2, <3>1 DEF V!MicHeld
  <2>3. CASE to # "off"
    <3>1. V!Busy' = {r} /\ mic' = V!MicOf(phase'[r]) /\ (phase'[r] # "asking" => recorder' = r)
      BY <1>2, <1>4, <2>1, <2>3 DEF V!Busy
    <3>2. V!Busy' # {}
      BY <3>1
    <3> QED
      BY <1>2, <3>1, <3>2 DEF V!MicHeld
  <2> QED
    BY <2>2, <2>3
<1> QED
  BY <1>3, <1>4

LEMMA MovedType ==
  \A to \in Mics : mic \in Mics =>
    /\ V!Moved(to) \in Mics
    /\ V!Moved(to) = "idle" => to = "idle" \/ mic = "idle"
  BY DEF V!Moved, Mics

\* What was deferred is kept or forgotten, and the player takes nothing new.
LEMMA DeferredKept ==
  ASSUME DeferredInv, player'.queue \in {player.queue, <<>>}, deferred' \in {deferred, <<>>},
         arrived' = arrived
  PROVE  DeferredInv'
<1>1. CASE deferred' = <<>>
  BY <1>1 DEF DeferredInv, Once
<1>2. CASE deferred' = deferred
  BY <1>2 DEF DeferredInv, Once
<1> QED
  BY <1>1, <1>2

LEMMA TurnsFacts ==
  ASSUME PlayerInv, NEW q, V!PlayerTurns(q)
  PROVE  /\ player' = q /\ gate' \in {{}, {"checking"}, {"on"}} /\ arrived' = arrived
         /\ heard' = heard /\ late' = late /\ hasty' = hasty /\ ended' = ended /\ failed' = failed
  BY GateOfTurns DEF V!PlayerTurns, V!Quiet, V!Same

LEMMA StartSafe ==
  ASSUME VoiceInv, NEW r \in V!Recs, V!Start(r)
  PROVE  VoiceInv'
<1>0. PlayerInv /\ DeferredInv /\ MicInv
  BY DEF VoiceInv
<1>1. /\ mic = "idle" /\ V!Goes(r, "none", "asking") /\ mic' = "acquiring"
      /\ V!PlayerTurns(V!CancelPlayback(player)) /\ deferred' \in {deferred, <<>>}
      /\ recorder' = recorder /\ discard' = discard /\ tapped' = tapped
  BY DEF V!Start, V!Moved
<1>2. /\ player' = V!CancelPlayback(player)
      /\ gate' \in {{}, {"checking"}, {"on"}} /\ arrived' = arrived
      /\ heard' = heard /\ late' = late /\ hasty' = hasty /\ ended' = ended /\ failed' = failed
  BY <1>0, <1>1, TurnsFacts
<1>3. GoesOn
  BY <1>0, <1>2, StopsSafe
<1>4. PlayerInv' /\ player'.queue \in {player.queue, <<>>}
  BY <1>3 DEF GoesOn
<1>5. player'.state = "paused"
  <2>1. Halted(player, V!Cleared(player, "paused")) /\ player \in PlayerRec
    BY <1>0, ClearedHalts DEF PlayerInv, Fine
  <2>2. V!StopSource(player) \in PlayerRec
    BY <2>1, StopSourceStops
  <2>3. V!Cleared(player, "paused").state = "paused"
    BY <2>2 DEF V!Cleared, PlayerRec
  <2> QED BY <1>2, <2>3 DEF V!CancelPlayback
<1>6. DeferredInv'
  BY <1>0, <1>1, <1>2, <1>4, DeferredKept
<1>7. phase' \in [V!Recs -> V!Phases] /\ V!MicHeld'
  <2>1. tapped \/ V!Busy = {}
    BY <1>0, <1>1, NobodyHeld
  <2>2. /\ "none" \in V!Phases /\ "asking" \in V!Phases
        /\ V!MicOf("asking") = "acquiring" /\ recorder' \in {0} \cup V!Recs
    BY <1>0, <1>1 DEF V!Phases, V!MicOf, MicInv
  <2> QED BY <1>0, <1>1, <2>1, <2>2, GoesHeld
<1>8. V!DeferredIsAwaited' /\ Hushed' /\ mic' \in Mics
  BY <1>1, <1>5 DEF V!DeferredIsAwaited, Hushed, Mics
<1> QED
  BY <1>0, <1>1, <1>4, <1>6, <1>7, <1>8 DEF VoiceInv, MicInv

LEMMA GrantedSafe ==
  ASSUME VoiceInv, NEW r \in V!Recs, V!Granted(r)
  PROVE  VoiceInv'
<1>0. PlayerInv /\ DeferredInv /\ MicInv
  BY DEF VoiceInv
<1>1. /\ V!Goes(r, "asking", "made") /\ mic' = V!Moved("recording") /\ phase[r] = "asking"
      /\ V!PlayerTurns(V!ResetPause(player)) /\ deferred' = deferred
      /\ recorder' = r /\ discard' = discard /\ tapped' = tapped /\ mislaid' = mislaid
  BY DEF V!Granted, V!Goes
<1>2. /\ player' = V!ResetPause(player) /\ gate' \in {{}, {"checking"}, {"on"}} /\ arrived' = arrived
      /\ heard' = heard /\ late' = late /\ hasty' = hasty /\ ended' = ended /\ failed' = failed
  BY <1>0, <1>1, TurnsFacts
<1>3. GoesOn
  BY <1>0, <1>2, StopsSafe
<1>4. /\ PlayerInv' /\ player'.queue \in {player.queue, <<>>}
      /\ player.state # "playing" => player'.state # "playing"
  BY <1>3 DEF GoesOn
<1>5. tapped \/ (V!Busy = {r} /\ mic = "acquiring" /\ mic' = "recording")
  <2>1. ~tapped => Held(r)
    BY <1>0, <1>1, HeldFacts
  <2>2. Held(r) => V!Busy = {r} /\ mic = "acquiring"
    BY <1>1 DEF Held, V!MicOf
  <2>3. mic = "acquiring" => V!Moved("recording") = "recording"
    BY DEF V!Moved
  <2> QED BY <1>1, <2>1, <2>2, <2>3
<1>6. DeferredInv'
  BY <1>0, <1>1, <1>2, <1>4, DeferredKept
<1>7. phase' \in [V!Recs -> V!Phases] /\ V!MicHeld'
  <2>2. "asking" \in V!Phases /\ "made" \in V!Phases /\ V!MicOf("made") = "recording"
    BY DEF V!Phases, V!MicOf
  <2> QED BY <1>0, <1>1, <1>5, <2>2, GoesHeld
<1>8. V!DeferredIsAwaited' /\ Hushed' /\ mic' \in Mics
  <2>1. mic' \in Mics
    BY <1>0, <1>1, MovedType DEF Mics, MicInv
  <2>2. V!DeferredIsAwaited'
    BY <1>0, <1>1, <1>5, <2>1 DEF V!DeferredIsAwaited, MicInv
  <2>3. Hushed'
    BY <1>0, <1>1, <1>4, <1>5 DEF Hushed, MicInv
  <2> QED BY <2>1, <2>2, <2>3
<1> QED
  BY <1>0, <1>1, <1>4, <1>6, <1>7, <1>8 DEF VoiceInv, MicInv

LEMMA DeniedSafe ==
  ASSUME VoiceInv, NEW r \in V!Recs, V!Denied(r)
  PROVE  VoiceInv'
<1>0. PlayerInv /\ DeferredInv /\ MicInv
  BY DEF VoiceInv
<1>1. /\ V!Goes(r, "asking", "off") /\ mic' = "idle" /\ phase[r] = "asking"
      /\ V!PlayerTurns(V!ResetPause(player)) /\ deferred' = deferred
      /\ recorder' = recorder /\ discard' = discard /\ tapped' = tapped
      /\ mislaid' = (mislaid \/ deferred # <<>>)
  BY DEF V!Denied, V!Goes
<1>2. /\ player' = V!ResetPause(player) /\ gate' \in {{}, {"checking"}, {"on"}} /\ arrived' = arrived
      /\ heard' = heard /\ late' = late /\ hasty' = hasty /\ ended' = ended /\ failed' = failed
  BY <1>0, <1>1, TurnsFacts
<1>3. GoesOn
  BY <1>0, <1>2, StopsSafe
<1>4. PlayerInv' /\ player'.queue \in {player.queue, <<>>}
  BY <1>3 DEF GoesOn
<1>5. tapped \/ V!Busy = {r}
  BY <1>0, <1>1, HeldFacts DEF Held
<1>6. DeferredInv'
  BY <1>0, <1>1, <1>2, <1>4, DeferredKept
<1>7. phase' \in [V!Recs -> V!Phases] /\ V!MicHeld'
  <2>2. "asking" \in V!Phases /\ "off" \in V!Phases /\ recorder' \in {0} \cup V!Recs
    BY <1>0, <1>1 DEF V!Phases, MicInv
  <2> QED BY <1>0, <1>1, <1>5, <2>2, GoesHeld
<1>8. V!DeferredIsAwaited' /\ Hushed' /\ mic' \in Mics
  BY <1>1 DEF V!DeferredIsAwaited, Hushed, Mics
<1> QED
  BY <1>0, <1>1, <1>4, <1>6, <1>7, <1>8 DEF VoiceInv, MicInv

\* A step that leaves the player alone, and what was deferred.
LEMMA PlayerLeft ==
  ASSUME VoiceInv, player' = player, gate' = gate, arrived' = arrived, heard' = heard, late' = late,
         hasty' = hasty, ended' = ended, failed' = failed, deferred' = deferred
  PROVE  PlayerInv' /\ DeferredInv'
<1>0. PlayerInv /\ DeferredInv
  BY DEF VoiceInv
<1>1. PlayerInv'
  <2>1. gate' \in {{}, {"checking"}, {"on"}}
    BY <1>0 DEF PlayerInv
  <2> QED BY <1>0, <2>1, ArrivedIn, UntouchedSafe
<1> QED
  BY <1>0, <1>1, DeferredKept

LEMMA BeginsSafe ==
  ASSUME VoiceInv, NEW r \in V!Recs, V!Begins(r)
  PROVE  VoiceInv'
<1>0. PlayerInv /\ DeferredInv /\ MicInv
  BY DEF VoiceInv
<1>1. /\ V!Goes(r, "made", "on") /\ mic' = mic /\ phase[r] = "made" /\ player' = player
      /\ gate' = gate /\ arrived' = arrived /\ heard' = heard /\ late' = late /\ hasty' = hasty
      /\ ended' = ended /\ failed' = failed /\ deferred' = deferred
      /\ recorder' = recorder /\ discard' = FALSE /\ tapped' = tapped /\ mislaid' = mislaid
  BY DEF V!Begins, V!Goes, V!playerVars, V!ghostVars
<1>2. PlayerInv' /\ DeferredInv'
  BY <1>1, PlayerLeft
<1>3. tapped \/ (V!Busy = {r} /\ mic = "recording" /\ recorder = r)
  <2>1. ~tapped => Held(r)
    BY <1>0, <1>1, HeldFacts
  <2> QED BY <1>1, <2>1 DEF Held, V!MicOf
<1>4. phase' \in [V!Recs -> V!Phases] /\ V!MicHeld'
  <2>2. /\ "made" \in V!Phases /\ "on" \in V!Phases
        /\ V!MicOf("on") = "recording" /\ recorder' \in {0} \cup V!Recs
    BY <1>0, <1>1 DEF V!Phases, MicInv, V!MicOf
  <2> QED BY <1>0, <1>1, <1>3, <2>2, GoesHeld
<1>5. V!DeferredIsAwaited' /\ Hushed' /\ mic' \in Mics
  BY <1>0, <1>1 DEF V!DeferredIsAwaited, Hushed, MicInv
<1> QED
  BY <1>0, <1>1, <1>2, <1>4, <1>5 DEF VoiceInv, MicInv

LEMMA RecorderFailsSafe ==
  ASSUME VoiceInv, NEW r \in V!Recs, V!RecorderFails(r)
  PROVE  VoiceInv'
<1>0. PlayerInv /\ DeferredInv /\ MicInv
  BY DEF VoiceInv
<1>1. /\ V!Goes(r, "on", "stopping") /\ mic' = "idle" /\ player' = player
      /\ gate' = gate /\ arrived' = arrived /\ heard' = heard /\ late' = late /\ hasty' = hasty
      /\ ended' = ended /\ failed' = failed /\ deferred' = deferred
      /\ recorder' = recorder /\ discard' = discard /\ tapped'
  BY DEF V!RecorderFails, V!ghostVars
<1>2. PlayerInv' /\ DeferredInv'
  BY <1>1, PlayerLeft
<1>4. phase' \in [V!Recs -> V!Phases] /\ V!MicHeld'
  <2>2. "on" \in V!Phases /\ "stopping" \in V!Phases /\ recorder' \in {0} \cup V!Recs
    BY <1>0, <1>1 DEF V!Phases, MicInv
  <2> QED BY <1>0, <1>1, <2>2, GoesHeld
<1>5. V!DeferredIsAwaited' /\ Hushed' /\ mic' \in Mics
  BY <1>1 DEF V!DeferredIsAwaited, Hushed, Mics
<1> QED
  BY <1>0, <1>1, <1>2, <1>4, <1>5 DEF VoiceInv, MicInv

LEMMA StopRecordingSafe ==
  ASSUME MicInv, mic # "idle", V!StopRecording, discard' \in BOOLEAN, player' = player,
         deferred' = deferred, mislaid' = mislaid
  PROVE  MicInv'
<1>1. CASE recorder # 0 /\ phase[recorder] = "on"
  <2> DEFINE r == recorder
  <2>1. /\ r \in V!Recs /\ V!Goes(r, "on", "stopping") /\ mic' = V!Moved("stopping")
        /\ recorder' = recorder /\ tapped' = tapped /\ phase[r] = "on"
    BY <1>1 DEF V!StopRecording, MicInv
  <2>2. tapped \/ (V!Busy = {r} /\ mic = "recording")
    <3>1. ~tapped => Held(r)
      BY <2>1, HeldFacts
    <3> QED BY <2>1, <3>1 DEF Held, V!MicOf
  <2>3. mic = "recording" => V!Moved("stopping") = "stopping"
    BY DEF V!Moved
  <2>4. phase' \in [V!Recs -> V!Phases] /\ V!MicHeld'
    <3>1. /\ "on" \in V!Phases /\ "stopping" \in V!Phases
          /\ V!MicOf("stopping") = "stopping" /\ recorder' \in {0} \cup V!Recs
      BY <2>1 DEF V!Phases, V!MicOf, MicInv
    <3> QED BY <2>1, <2>2, <2>3, <3>1, GoesHeld
  <2>5. mic' \in Mics /\ mic' # "idle"
    BY <2>1, MovedType DEF Mics, MicInv
  <2>6. V!DeferredIsAwaited' /\ Hushed'
    <3>1. V!DeferredIsAwaited'
      BY <2>5 DEF V!DeferredIsAwaited
    <3>2. tapped' \/ mic' = "stopping"
      BY <2>1, <2>2, <2>3
    <3> QED BY <3>1, <3>2 DEF Hushed
  <2> QED BY <2>1, <2>4, <2>5, <2>6 DEF MicInv
<1>2. CASE ~(recorder # 0 /\ phase[recorder] = "on")
  <2>1. mic' = "idle" /\ recorder' = 0 /\ tapped' = TRUE /\ phase' = phase
    BY <1>2 DEF V!StopRecording
  <2> QED BY <2>1 DEF MicInv, V!MicHeld, V!DeferredIsAwaited, Hushed, Mics
<1> QED BY <1>1, <1>2

LEMMA TapStopSafe ==
  ASSUME VoiceInv, V!TapStop
  PROVE  VoiceInv'
<1>1. /\ mic # "idle" /\ V!StopRecording /\ player' = player
      /\ gate' = gate /\ arrived' = arrived /\ heard' = heard /\ late' = late /\ hasty' = hasty
      /\ ended' = ended /\ failed' = failed /\ deferred' = deferred /\ discard' = discard
      /\ mislaid' = mislaid
  BY DEF V!TapStop, V!playerVars, V!ghostVars
<1>2. PlayerInv' /\ DeferredInv'
  BY <1>1, PlayerLeft
<1>3. MicInv'
  BY <1>1, StopRecordingSafe DEF VoiceInv, MicInv
<1> QED BY <1>2, <1>3 DEF VoiceInv

LEMMA InterruptBotSafe ==
  ASSUME VoiceInv, V!InterruptBot
  PROVE  VoiceInv'
<1>0. PlayerInv /\ DeferredInv /\ MicInv
  BY DEF VoiceInv
<1>1. /\ mic' = "idle" /\ deferred' = <<>> /\ tapped' = (tapped \/ mic # "idle")
      /\ V!PlayerTurns(V!StopAudio(player)) /\ phase' = phase /\ recorder' = recorder
      /\ discard' = discard
  BY DEF V!InterruptBot
<1>2. /\ player' = V!StopAudio(player) /\ gate' \in {{}, {"checking"}, {"on"}} /\ arrived' = arrived
      /\ heard' = heard /\ late' = late /\ hasty' = hasty /\ ended' = ended /\ failed' = failed
  BY <1>0, <1>1, TurnsFacts
<1>3. GoesOn
  BY <1>0, <1>2, StopsSafe
<1>4. PlayerInv' /\ player'.queue \in {player.queue, <<>>}
  BY <1>3 DEF GoesOn
<1>5. DeferredInv'
  BY <1>0, <1>1, <1>2, <1>4, DeferredKept
<1>6. V!MicHeld'
  <2>1. tapped' \/ (~tapped /\ mic = "idle")
    BY <1>1
  <2>2. tapped' \/ V!Busy = {}
    BY <1>0, <2>1, NobodyHeld
  <2>3. V!Busy' = V!Busy
    BY <1>1 DEF V!Busy
  <2> QED BY <1>1, <2>2, <2>3 DEF V!MicHeld
<1>7. V!DeferredIsAwaited' /\ Hushed' /\ mic' \in Mics
  BY <1>1 DEF V!DeferredIsAwaited, Hushed, Mics
<1> QED
  BY <1>0, <1>1, <1>4, <1>5, <1>6, <1>7 DEF VoiceInv, MicInv

LEMMA CancelButtonSafe ==
  ASSUME VoiceInv, V!CancelButton
  PROVE  VoiceInv'
<1>1. CASE V!Idle
  <2>1. /\ mic # "idle" /\ V!StopRecording /\ discard' = TRUE /\ player' = player
        /\ gate' = gate /\ arrived' = arrived /\ heard' = heard /\ late' = late /\ hasty' = hasty
        /\ ended' = ended /\ failed' = failed /\ deferred' = deferred
        /\ mislaid' = mislaid
    BY <1>1 DEF V!CancelButton, V!playerVars, V!ghostVars
  <2>2. PlayerInv' /\ DeferredInv'
    BY <2>1, PlayerLeft
  <2>3. MicInv'
    BY <2>1, StopRecordingSafe DEF VoiceInv
  <2> QED BY <2>2, <2>3 DEF VoiceInv
<1>2. CASE ~V!Idle
  BY <1>2, InterruptBotSafe DEF V!CancelButton
<1> QED BY <1>1, <1>2

LEMMA SavedSafe ==
  ASSUME VoiceInv, NEW r \in V!Recs, V!Saved(r)
  PROVE  VoiceInv'
<1>0. PlayerInv /\ DeferredInv /\ MicInv
  BY DEF VoiceInv
<1>1. /\ V!Goes(r, "saving", "off") /\ mic' = "idle" /\ phase[r] = "saving" /\ player' = player
      /\ gate' = gate /\ arrived' = arrived /\ heard' = heard /\ late' = late /\ hasty' = hasty
      /\ ended' = ended /\ failed' = failed /\ deferred' = deferred
      /\ recorder' = recorder /\ discard' = discard /\ tapped' = tapped
      /\ mislaid' = (mislaid \/ deferred # <<>>)
  BY DEF V!Saved, V!Goes, V!playerVars, V!ghostVars
<1>2. PlayerInv' /\ DeferredInv'
  BY <1>1, PlayerLeft
<1>3. tapped \/ V!Busy = {r}
  BY <1>0, <1>1, HeldFacts DEF Held
<1>4. phase' \in [V!Recs -> V!Phases] /\ V!MicHeld'
  <2>2. "saving" \in V!Phases /\ "off" \in V!Phases /\ recorder' \in {0} \cup V!Recs
    BY <1>0, <1>1 DEF V!Phases, MicInv
  <2> QED BY <1>0, <1>1, <1>3, <2>2, GoesHeld
<1>5. V!DeferredIsAwaited' /\ Hushed' /\ mic' \in Mics
  BY <1>1 DEF V!DeferredIsAwaited, Hushed, Mics
<1> QED
  BY <1>0, <1>1, <1>2, <1>4, <1>5 DEF VoiceInv, MicInv

LEMMA OnStopSafe ==
  ASSUME VoiceInv, NEW r \in V!Recs, V!OnStop(r)
  PROVE  VoiceInv'
<1> PICK reads \in {deferred, <<>>} : V!PlayerTurns(V!EnqueueAll(player, reads))
  BY DEF V!OnStop
<1> DEFINE q == V!EnqueueAll(player, reads)
<1>0. PlayerInv /\ DeferredInv /\ MicInv
  BY DEF VoiceInv
<1>1. /\ deferred' = <<>> /\ V!PlayerTurns(q) /\ phase[r] = "stopping"
      /\ recorder' = recorder /\ tapped' = tapped /\ mislaid' = mislaid
      /\ \/ V!Goes(r, "stopping", "off") /\ mic' = "idle" /\ discard' = FALSE
         \/ V!Goes(r, "stopping", "saving") /\ mic' = V!Moved("saving") /\ discard' = discard
  BY DEF V!OnStop, V!Goes
<1>2. /\ player' = q /\ gate' \in {{}, {"checking"}, {"on"}} /\ arrived' = arrived
      /\ heard' = heard /\ late' = late /\ hasty' = hasty /\ ended' = ended /\ failed' = failed
  BY <1>0, <1>1, TurnsFacts
<1>9. /\ reads \in Seq(V!Pieces) /\ Once(reads) /\ \A i \in 1..Len(reads) : reads[i] <= arrived
      /\ \A i \in 1..Len(reads), j \in 1..Len(player.queue) : reads[i] # player.queue[j]
  <2>1. CASE reads = deferred
    BY <1>0, <2>1 DEF DeferredInv
  <2>2. CASE reads = <<>>
    BY <2>2 DEF Once
  <2> QED BY <2>1, <2>2
<1>3. TookFirst(player, q, reads, Len(reads))
  BY <1>0, <1>9, EnqueueAllTakes DEF PlayerInv
<1>4. PlayerInv'
  <2> HIDE DEF q
  <2>1. /\ Fine(q) /\ q.speech = player.speech /\ (InTime(player) => InTime(q))
        /\ (InTime(player) /\ HeardTo(player, heard) => HeardTo(q, heard))
        /\ \A i \in 1..Len(q.queue) : \/ \E j \in 1..Len(player.queue) : q.queue[i] = player.queue[j]
                                      \/ \E j \in 1..Len(reads) : q.queue[i] = reads[j]
    BY <1>3 DEF TookFirst
  <2>2. \A i \in 1..Len(q.queue) : q.queue[i] <= arrived
    BY <1>0, <1>9, <2>1 DEF PlayerInv
  <2>3. /\ q.speech # V!Silence => q.speech.of \in failed
        /\ ended \subseteq V!Pieces /\ \A k \in ended \ failed : k \in ended
    BY <1>0, <2>1 DEF PlayerInv
  <2> QED BY <1>0, <1>2, <2>1, <2>2, <2>3, ArrivedIn, InvKept
<1>5. DeferredInv'
  BY <1>1 DEF DeferredInv, Once
<1>6. tapped \/ (V!Busy = {r} /\ mic = "stopping" /\ recorder = r)
  <2>1. ~tapped => Held(r)
    BY <1>0, <1>1, HeldFacts
  <2> QED BY <1>1, <2>1 DEF Held, V!MicOf
<1>7. phase' \in [V!Recs -> V!Phases] /\ V!MicHeld'
  <2>1. /\ "stopping" \in V!Phases /\ "off" \in V!Phases /\ "saving" \in V!Phases
        /\ V!MicOf("saving") = "saving" /\ recorder' \in {0} \cup V!Recs
    BY <1>0, <1>1 DEF V!Phases, MicInv, V!MicOf
  <2>2. mic = "stopping" => V!Moved("saving") = "saving"
    BY DEF V!Moved
  <2>3. CASE V!Goes(r, "stopping", "off") /\ mic' = "idle"
    BY <1>0, <1>1, <1>6, <2>1, <2>3, GoesHeld
  <2>4. CASE V!Goes(r, "stopping", "saving") /\ mic' = V!Moved("saving")
    BY <1>0, <1>1, <1>6, <2>1, <2>2, <2>4, GoesHeld
  <2> QED BY <1>1, <2>3, <2>4
<1>8. V!DeferredIsAwaited' /\ Hushed' /\ mic' \in Mics /\ discard' \in BOOLEAN
  <2>1. tapped' \/ mic' \in {"idle", "saving"}
    <3>1. mic = "stopping" => V!Moved("saving") = "saving"
      BY DEF V!Moved
    <3> QED BY <1>1, <1>6, <3>1
  <2>2. mic' \in Mics
    BY <1>0, <1>1, MovedType DEF Mics, MicInv
  <2> QED BY <1>0, <1>1, <2>1, <2>2 DEF V!DeferredIsAwaited, Hushed, MicInv
<1> QED
  BY <1>0, <1>1, <1>4, <1>5, <1>7, <1>8 DEF VoiceInv, MicInv

LEMMA ToReadSafe ==
  ASSUME VoiceInv, V!ToRead
  PROVE  VoiceInv'
<1> DEFINE piece == arrived + 1
<1>0. PlayerInv /\ DeferredInv /\ MicInv
  BY DEF VoiceInv
<1>1. /\ arrived < MaxPieces /\ arrived' = arrived + 1 /\ heard' = heard /\ late' = late
      /\ hasty' = hasty /\ ended' = ended /\ failed' = failed
      /\ mic' = mic /\ phase' = phase /\ recorder' = recorder /\ discard' = discard
      /\ tapped' = tapped /\ mislaid' = mislaid
  BY DEF V!ToRead, V!Quiet, V!Same
<1>2. /\ arrived \in Nat /\ piece \in V!Pieces
      /\ player.queue \in Seq(V!Pieces) /\ deferred \in Seq(V!Pieces)
      /\ \A i \in 1..Len(player.queue) : player.queue[i] <= arrived /\ player.queue[i] \in Nat
      /\ \A i \in 1..Len(deferred) : deferred[i] <= arrived /\ deferred[i] \in Nat
  <2>1. arrived \in Nat /\ piece \in V!Pieces /\ V!Pieces \subseteq Nat
    BY <1>0, <1>1, VoiceAssumption DEF PlayerInv, V!Pieces
  <2>2. player.queue \in Seq(V!Pieces) /\ deferred \in Seq(V!Pieces)
    BY <1>0 DEF PlayerInv, Fine, PlayerRec, DeferredInv
  <2>3. /\ \A i \in 1..Len(player.queue) : player.queue[i] \in V!Pieces
        /\ \A i \in 1..Len(deferred) : deferred[i] \in V!Pieces
    BY <2>2
  <2>4. /\ \A i \in 1..Len(player.queue) : player.queue[i] <= arrived
        /\ \A i \in 1..Len(deferred) : deferred[i] <= arrived
    BY <1>0 DEF PlayerInv, DeferredInv
  <2> QED BY <2>1, <2>2, <2>3, <2>4
<1>3. CASE mic = "idle"
  <2>1. V!Turns(V!Enqueue(player, piece)) /\ deferred' = deferred
    BY <1>3 DEF V!ToRead
  <2>2. player' = V!Enqueue(player, piece) /\ gate' \in {{}, {"checking"}, {"on"}}
    BY <1>0, <2>1, GateOfTurns
  <2>3. PlayerInv' /\ player'.queue \in {player.queue, Append(player.queue, piece)}
    BY <1>0, <1>1, <2>2, EnqueueSafe
  <2>4. DeferredInv'
    <3>1. \A i \in 1..Len(player'.queue) :
            \/ \E j \in 1..Len(player.queue) : player'.queue[i] = player.queue[j]
            \/ player'.queue[i] = piece
      <4> DEFINE taken == player'.queue
      <4>1. CASE taken = player.queue
        BY <4>1
      <4>2. CASE taken = Append(player.queue, piece)
        BY <1>2, <4>2
      <4> QED BY <2>3, <4>1, <4>2
    <3>2. \A i \in 1..Len(deferred) : deferred[i] <= arrived' /\ deferred[i] # piece
      BY <1>1, <1>2
    <3>3. \A i \in 1..Len(deferred), j \in 1..Len(player'.queue) : deferred[i] # player'.queue[j]
      BY <1>0, <3>1, <3>2 DEF DeferredInv
    <3> QED BY <1>0, <2>1, <3>2, <3>3 DEF DeferredInv, Once
  <2>5. MicInv'
    <3>1. V!Busy' = V!Busy
      BY <1>1 DEF V!Busy
    <3> QED BY <1>0, <1>1, <1>3, <2>1, <3>1 DEF MicInv, V!MicHeld, V!DeferredIsAwaited, Hushed
  <2> QED BY <2>3, <2>4, <2>5 DEF VoiceInv
<1>4. CASE mic # "idle"
  <2>1. deferred' = Append(deferred, piece) /\ player' = player /\ gate' = gate
    BY <1>4 DEF V!ToRead
  <2>2. PlayerInv'
    <3>1. gate' \in {{}, {"checking"}, {"on"}} /\ arrived' \in arrived..MaxPieces
      BY <1>0, <1>1, <1>2, <2>1, VoiceAssumption DEF PlayerInv
    <3> QED BY <1>0, <1>1, <2>1, <3>1, UntouchedSafe
  <2>3. DeferredInv'
    <3>1. Once(deferred') /\ deferred' \in Seq(V!Pieces)
      <4>1. Once(deferred) /\ \A i \in 1..Len(deferred) : deferred[i] # piece
        BY <1>0, <1>2 DEF DeferredInv
      <4> QED BY <1>2, <2>1, <4>1, AppendOnce
    <3>2. \A i \in 1..Len(deferred') :
            deferred'[i] = piece \/ \E j \in 1..Len(deferred) : deferred'[i] = deferred[j]
      BY <1>2, <2>1
    <3>3. \A i \in 1..Len(deferred') : deferred'[i] <= arrived'
      BY <1>1, <1>2, <3>2
    <3>4. \A i \in 1..Len(player.queue) : player.queue[i] # piece
      BY <1>2
    <3>5. \A i \in 1..Len(deferred'), j \in 1..Len(player.queue) : deferred'[i] # player.queue[j]
      BY <1>0, <3>2, <3>4 DEF DeferredInv
    <3> QED BY <2>1, <3>1, <3>3, <3>5 DEF DeferredInv, Once
  <2>4. MicInv'
    <3>1. V!Busy' = V!Busy
      BY <1>1 DEF V!Busy
    <3> QED BY <1>0, <1>1, <1>4, <2>1, <3>1 DEF MicInv, V!MicHeld, V!DeferredIsAwaited, Hushed
  <2> QED BY <2>2, <2>3, <2>4 DEF VoiceInv
<1> QED BY <1>3, <1>4

\* The player goes on by itself, or is reset, beside the recorder.
LEMMA BesideSafe ==
  ASSUME VoiceInv, GoesOn, arrived' = arrived, UNCHANGED V!micVars
  PROVE  VoiceInv'
<1>0. /\ PlayerInv /\ DeferredInv /\ MicInv
      /\ PlayerInv' /\ player'.queue \in {player.queue, <<>>}
      /\ player.state # "playing" => player'.state # "playing"
  BY DEF VoiceInv, GoesOn
<1>1. /\ mic' = mic /\ phase' = phase /\ recorder' = recorder /\ discard' = discard
      /\ deferred' = deferred /\ tapped' = tapped /\ mislaid' = mislaid
  BY DEF V!micVars
<1>2. DeferredInv'
  BY <1>0, <1>1, DeferredKept
<1>3. MicInv'
  <2>1. V!Busy' = V!Busy
    BY <1>1 DEF V!Busy
  <2> QED BY <1>0, <1>1, <2>1 DEF MicInv, V!MicHeld, V!DeferredIsAwaited, Hushed
<1> QED BY <1>0, <1>2, <1>3 DEF VoiceInv

LEMMA RecorderNextSafe == VoiceInv /\ V!Next => VoiceInv'
<1> SUFFICES ASSUME VoiceInv, V!Next
             PROVE  VoiceInv'
  OBVIOUS
<1>0. PlayerInv
  BY DEF VoiceInv
<1>1. ASSUME NEW r \in V!Recs, V!Start(r) \/ V!Record(r) \/ V!RecorderFails(r)
      PROVE  VoiceInv'
  BY <1>1, StartSafe, GrantedSafe, DeniedSafe, BeginsSafe, OnStopSafe, SavedSafe, RecorderFailsSafe
  DEF V!Record
<1>2. CASE V!TapStop
  BY <1>2, TapStopSafe
<1>3. CASE V!InterruptBot
  BY <1>3, InterruptBotSafe
<1>4. CASE V!CancelButton
  BY <1>4, CancelButtonSafe
<1>5. CASE V!ToRead
  BY <1>5, ToReadSafe
<1>6. CASE V!Callback /\ UNCHANGED V!micVars
  <2>1. arrived' = arrived
    BY <1>6 DEF V!Callback, V!TTSAnswer, V!Decoded, V!DecodeFails, V!SourceEnds, V!SpeechEnds, V!Clock
  <2> QED BY <1>0, <1>6, <2>1, CallbackSafe, BesideSafe
<1>7. CASE V!Transcript /\ UNCHANGED V!micVars
  <2>1. /\ player' = V!ResetPause(player) /\ gate' \in {{}, {"checking"}, {"on"}}
        /\ heard' = heard /\ ended' = ended /\ late' = late /\ failed' = failed /\ arrived' = arrived
        /\ hasty' = hasty
    BY <1>0, <1>7, GateOfTurns DEF V!Transcript, V!Quiet, V!Same
  <2>2. GoesOn
    BY <1>0, <2>1, StopsSafe
  <2> QED BY <1>7, <2>1, <2>2, BesideSafe
<1> QED
  BY <1>1, <1>2, <1>3, <1>4, <1>5, <1>6, <1>7 DEF V!Next

-----------------------------------------------------------------------------
(* What follows from the invariant. *)

LEMMA InitSafe == V!Init => VoiceInv /\ mic = "idle" /\ deferred = <<>>
<1> SUFFICES ASSUME V!Init PROVE VoiceInv /\ mic = "idle" /\ deferred = <<>>
  OBVIOUS
<1>1. /\ player = V!NoPlayer /\ gate = {} /\ arrived = 0 /\ heard = [p \in V!Pieces |-> {}]
      /\ ended = {} /\ failed = {} /\ late = FALSE /\ hasty = FALSE
      /\ mic = "idle" /\ phase = [r \in V!Recs |-> "none"] /\ recorder = 0 /\ discard = FALSE
      /\ deferred = <<>> /\ tapped = FALSE
  BY DEF V!Init, V!PlayerInit
<1>2. /\ player.state = "idle" /\ player.queue = <<>> /\ player.idx = 0 /\ player.gen = 0
      /\ player.asks = {} /\ player.decodes = {} /\ player.sources = {} /\ player.due = {}
      /\ player.speech = V!Silence /\ player.offset = 0
  BY <1>1 DEF V!NoPlayer
<1>3. player \in PlayerRec
  <2> DEFINE s == V!Silence
             e == <<>>
             none == {}
             off == FALSE
             at == "idle"
  <2>1. /\ s \in V!Handle /\ s \in {V!Silence} \cup SpeechRec /\ e \in Seq(V!Pieces)
        /\ 0 \in Nat /\ 0 \in 0..Length
        /\ off \in BOOLEAN /\ at \in {"idle", "playing", "paused"} /\ Voiced \in SUBSET V!Pieces
    BY VoiceAssumption DEF V!Handle, V!Silence, V!Pieces
  <2>2. /\ none \in SUBSET AskRec /\ none \in SUBSET Nat /\ none \in SUBSET DecodeRec
        /\ none \in SUBSET SourceRec /\ none \in SUBSET V!Pieces
    OBVIOUS
  <2>3. V!NoPlayer =
          [state |-> at, queue |-> e, idx |-> 0, gen |-> 0, audio |-> Voiced, asks |-> none,
           ahead |-> none, decodes |-> none, sources |-> none, current |-> s, buffer |-> off,
           offset |-> 0, since |-> 0, speech |-> s, due |-> none]
    BY DEF V!NoPlayer
  <2> HIDE DEF s, e, none, off, at
  <2> QED BY <1>1, <2>1, <2>2, <2>3 DEF PlayerRec
<1>4. Mains(player) = {} /\ Sounding(player) = {}
  BY <1>2 DEF Mains, Sounding
<1>5. Fine(player)
  <2>1. Gens(player) /\ Indexed(player) /\ Lead(player) /\ OfCurrent(player)
    BY <1>2, <1>4 DEF Gens, Indexed, Lead, NoLead, OfCurrent
  <2>2. Once(player.queue) /\ player.due = FromOn(player.queue, player.idx - 1)
    BY <1>2 DEF Once, FromOn
  <2> QED BY <1>3, <2>1, <2>2 DEF Fine
<1>6. InTime(player)
  BY <1>2 DEF InTime
<1>7. HeardTo(player, heard)
  BY <1>2 DEF HeardTo
<1>8. PlayerInv
  <2>1. heard \in [V!Pieces -> SUBSET Units] /\ ended \subseteq V!Pieces /\ arrived \in 0..MaxPieces
    BY <1>1, VoiceAssumption
  <2>2. \A i \in 1..Len(player.queue) : player.queue[i] <= arrived
    BY <1>2
  <2> QED BY <1>1, <1>2, <1>5, <1>6, <1>7, <2>1, <2>2 DEF PlayerInv
<1>9. DeferredInv
  BY <1>1, <1>2 DEF DeferredInv, Once
<1>10. MicInv
  <2>1. V!Busy = {}
    BY <1>1 DEF V!Busy
  <2> QED BY <1>1, <2>1 DEF MicInv, V!MicHeld, V!DeferredIsAwaited, Hushed, Mics, V!Phases
<1> QED BY <1>1, <1>8, <1>9, <1>10 DEF VoiceInv

LEMMA TypesFollow ==
  ASSUME VoiceInv
  PROVE  V!TypeOK
<1>0. /\ player \in PlayerRec /\ Indexed(player)
      /\ gate \in {{}, {"checking"}, {"on"}} /\ ended \subseteq V!Pieces
  BY DEF VoiceInv, PlayerInv, Fine
<1>1. /\ player.state \in {"idle", "playing", "paused"} /\ player.queue \in Seq(V!Pieces)
      /\ player.gen \in Nat
      /\ player.audio \subseteq V!Pieces /\ player.current \in V!Handle
      /\ player.offset \in 0..Length /\ player.since \in 0..Length
      /\ player.asks \subseteq AskRec /\ player.decodes \subseteq DecodeRec
      /\ player.sources \subseteq SourceRec
  BY <1>0 DEF PlayerRec
<1>2. player.idx \in 0..Len(player.queue)
  BY <1>0, <1>1 DEF Indexed
<1>3. \A x \in player.asks \cup player.decodes \cup player.sources : V!Key(x) \in V!Handle
  <2> SUFFICES ASSUME NEW x \in player.asks \cup player.decodes \cup player.sources
               PROVE  V!Key(x) \in V!Handle
    OBVIOUS
  <2>1. x.of \in V!Pieces /\ x.gen \in Nat
    <3>1. CASE x \in AskRec
      BY <3>1 DEF AskRec
    <3>2. CASE x \in DecodeRec
      BY <3>2 DEF DecodeRec
    <3>3. CASE x \in SourceRec
      BY <3>3 DEF SourceRec
    <3> QED BY <1>1, <3>1, <3>2, <3>3
  <2>2. x.of \in 0..MaxPieces
    BY <2>1, VoiceAssumption DEF V!Pieces
  <2> QED BY <2>1, <2>2 DEF V!Key, V!Handle
<1>4. V!PlayerTypeOK
  BY <1>0, <1>1, <1>2, <1>3 DEF V!PlayerTypeOK
<1> QED
  BY <1>4 DEF VoiceInv, MicInv, DeferredInv, V!TypeOK, Mics

LEMMA Counts ==
  V!Cardinality({}) = 0 /\ \A x : V!Cardinality({x}) = 1
<1>1. \A S : V!Cardinality(S) = Cardinality(S)
  BY DEF V!Cardinality, Cardinality
<1> QED BY <1>1, FS_EmptySet, FS_Singleton

LEMMA LeadFollows ==
  ASSUME PlayerInv
  PROVE  V!OneLead
<1> DEFINE A == {x \in player.asks : x.main /\ x.gen = player.gen}
           S == {x \in player.decodes \cup player.sources : x.gen = player.gen}
           spoken == IF player.speech # V!Silence /\ player.speech.gen = player.gen THEN 1 ELSE 0
<1>1. Lead(player)
  BY DEF PlayerInv, Fine
<1>2. A = Mains(player) /\ S = Sounding(player)
  BY DEF Mains, Sounding
<1> HIDE DEF A, S
<1>3. CASE player.state = "playing"
  <2>1. CASE ByAsk(player)
    <3>1. V!Cardinality(A) = 1 /\ V!Cardinality(S) = 0 /\ spoken = 0
      BY <1>2, <2>1, Counts DEF ByAsk
    <3> QED BY <1>3, <3>1 DEF V!OneLead, A, S
  <2>2. CASE BySound(player)
    <3>1. V!Cardinality(A) = 0 /\ V!Cardinality(S) = 1 /\ spoken = 0
      BY <1>2, <2>2, Counts DEF BySound
    <3> QED BY <1>3, <3>1 DEF V!OneLead, A, S
  <2>3. CASE BySpeech(player)
    <3>1. V!Cardinality(A) = 0 /\ V!Cardinality(S) = 0 /\ spoken = 1
      BY <1>2, <2>3, Counts DEF BySpeech
    <3> QED BY <1>3, <3>1 DEF V!OneLead, A, S
  <2> QED BY <1>1, <1>3, <2>1, <2>2, <2>3 DEF Lead
<1>4. CASE player.state # "playing"
  <2>1. V!Cardinality(A) = 0 /\ V!Cardinality(S) = 0 /\ spoken = 0
    BY <1>1, <1>2, <1>4, Counts DEF Lead, NoLead
  <2> QED BY <1>4, <2>1 DEF V!OneLead, A, S
<1> QED BY <1>3, <1>4

LEMMA SoundsFollow ==
  ASSUME PlayerInv
  PROVE  V!OneSounds /\ V!ReadWhole
<1>1. player.speech # V!Silence => player.state = "playing"
  BY DEF PlayerInv, Fine, Lead, NoLead
<1>2. ~late => \A s \in player.sources : s.gen = player.gen /\ V!Key(s) = player.current
  BY DEF PlayerInv, InTime
<1>3. player.due = {player.queue[i] : i \in (1..Len(player.queue)) \ (1..player.idx - 1)}
  BY DEF PlayerInv, Fine, FromOn
<1>4. \A p \in ended \ failed : late \/ hasty \/ heard[p] = 0..Length - 1
  BY DEF PlayerInv, Units
<1> QED BY <1>1, <1>2, <1>3, <1>4 DEF V!OneSounds, V!ReadWhole

LEMMA SilenceFollows ==
  ASSUME VoiceInv
  PROVE  V!SilentRecording
<1> SUFFICES ASSUME ~tapped, ~late, mic = "recording"
             PROVE  player.sources = {} /\ player.speech = V!Silence
  BY DEF V!SilentRecording
<1>1. NoLead(player) /\ InTime(player)
  BY DEF VoiceInv, PlayerInv, Fine, Lead, MicInv, Hushed
<1>2. player.sources = {}
  BY <1>1 DEF NoLead, InTime, Sounding
<1> QED BY <1>1, <1>2 DEF NoLead

-----------------------------------------------------------------------------
\* Only the recorder moves the microphone.
AnswersInv ==
  /\ VoiceInv
  /\ running # "recorder" => mic = "idle" /\ deferred = <<>>

LEMMA AnswersStart == AnswersInit => AnswersInv
  BY InitSafe DEF AnswersInit, AnswersInv

LEMMA NothingMoves ==
  ASSUME AnswersInv, UNCHANGED running, UNCHANGED voiceVars
  PROVE  AnswersInv'
<1>1. /\ player' = player /\ gate' = gate /\ arrived' = arrived /\ heard' = heard /\ late' = late
      /\ hasty' = hasty /\ ended' = ended /\ failed' = failed /\ mic' = mic /\ phase' = phase
      /\ recorder' = recorder /\ discard' = discard /\ deferred' = deferred /\ tapped' = tapped
      /\ mislaid' = mislaid /\ running' = running
  BY DEF voiceVars, micVars
<1>2. PlayerInv' /\ DeferredInv'
  BY <1>1, PlayerLeft DEF AnswersInv
<1>3. MicInv'
  <2>1. V!Busy' = V!Busy
    BY <1>1 DEF V!Busy
  <2> QED
    BY <1>1, <2>1
    DEF AnswersInv, VoiceInv, MicInv, V!MicHeld, V!DeferredIsAwaited, Hushed
<1> QED BY <1>1, <1>2, <1>3 DEF AnswersInv, VoiceInv

LEMMA AnswersStep ==
  AnswersInv /\ [AnswersNext]_<<running, vars, voiceVars>> => AnswersInv'
<1> SUFFICES ASSUME AnswersInv, [AnswersNext]_<<running, vars, voiceVars>>
             PROVE  AnswersInv'
  OBVIOUS
<1>0. /\ VoiceInv /\ PlayerInv /\ DeferredInv /\ MicInv
      /\ running # "recorder" => mic = "idle" /\ deferred = <<>>
  BY DEF AnswersInv, VoiceInv
<1>1. CASE running = "observer" /\ UNCHANGED running /\ UNCHANGED voiceVars
  BY <1>1, NothingMoves DEF AnswersInv
<1>2. CASE running = "player" /\ UNCHANGED running /\ V!PlayerNext /\ UNCHANGED micVars
  <2>1. PlayerInv'
    BY <1>0, <1>2, PlayerNextSafe
  <2>2. /\ mic' = mic /\ phase' = phase /\ recorder' = recorder /\ discard' = discard
        /\ deferred' = deferred /\ tapped' = tapped /\ mislaid' = mislaid
        /\ mic = "idle" /\ deferred = <<>> /\ running' = running
    BY <1>0, <1>2 DEF micVars
  <2>3. DeferredInv'
    BY <2>2 DEF DeferredInv, Once
  <2>4. MicInv'
    <3>1. V!Busy' = V!Busy
      BY <2>2 DEF V!Busy
    <3> QED BY <1>0, <2>2, <3>1 DEF MicInv, V!MicHeld, V!DeferredIsAwaited, Hushed
  <2> QED BY <1>2, <2>1, <2>2, <2>3, <2>4 DEF AnswersInv, VoiceInv
<1>3. CASE running = "recorder" /\ UNCHANGED running /\ V!Next
  BY <1>0, <1>3, RecorderNextSafe DEF AnswersInv
<1>4. CASE UNCHANGED <<running, vars, voiceVars>>
  BY <1>4, NothingMoves DEF AnswersInv
<1> QED BY <1>1, <1>2, <1>3, <1>4 DEF AnswersNext

\* Reachable states: the player goes on by exactly one callback, pieces sound one at a
\* time, in their turn and whole, and nothing sounds into a recording (audio-player.ts:145,
\* 191, 293; ptt-recorder.ts:59-242).
THEOREM VoiceIsSafe == AnswersSpec => []VoiceSafe
<1>1. AnswersInv => VoiceSafe
  BY TypesFollow, LeadFollows, SoundsFollow, SilenceFollows
  DEF AnswersInv, VoiceInv, MicInv, VoiceSafe
<1> QED
  BY <1>1, AnswersStart, AnswersStep, PTL DEF AnswersSpec

-----------------------------------------------------------------------------
(* The terminal's log and who reads it.  Reading is one entry after the       *)
(* other: the states it goes through are a function, and what holds of one is *)
(* proved from the one before.                                                *)

Kinds    == {"user", "tool", "result", "null", "final"}
EntryRec == [of : Messages \cup {0}, kind : Kinds]
KeySet   == {Key(e) : e \in EntryRec}

After(s, e) == Noted(OnTurnEvent(OnMessage(s, e), e), e)

\* The states between s and the one that has read all entries.
Readings(f, s, entries, m) ==
  f[0] = s /\ \A n \in 1..m : f[n] = After(f[n - 1], entries[n])

LEMMA HandleAfter == ASSUME NEW s, NEW e PROVE Handle({s}, e) = {After(s, e)}
BY DEF Handle, After

LEMMA ReadingsExist ==
  ASSUME NEW s, NEW S, NEW entries \in Seq(S)
  PROVE  \E f : f = [n \in 0..Len(entries) |-> f[n]] /\ Readings(f, s, entries, Len(entries))
<1> DEFINE N == Len(entries)
           T == {m \in 0..N : \E f : f = [n \in 0..m |-> f[n]] /\ Readings(f, s, entries, m)}
<1>0. N \in Nat
  OBVIOUS
<1>1. 0 \in T
  <2> DEFINE f == [n \in 0..0 |-> s]
  <2>1. f[0] = s /\ f = [n \in 0..0 |-> f[n]]
    OBVIOUS
  <2> HIDE DEF f
  <2>2. Readings(f, s, entries, 0)
    BY <2>1 DEF Readings
  <2> QED BY <1>0, <2>1, <2>2
<1>2. \A m \in 0..N : m \in T /\ m < N => m + 1 \in T
  <2> SUFFICES ASSUME NEW m \in 0..N, m \in T, m < N PROVE m + 1 \in T
    OBVIOUS
  <2>1. PICK f : f = [n \in 0..m |-> f[n]] /\ Readings(f, s, entries, m)
    OBVIOUS
  <2> DEFINE last == After(f[m], entries[m + 1])
             g == [n \in 0..(m + 1) |-> IF n = m + 1 THEN last ELSE f[n]]
  <2>2. /\ \A n \in 0..m : g[n] = f[n]
        /\ g[m + 1] = last /\ g = [n \in 0..(m + 1) |-> g[n]]
    BY <1>0
  <2> HIDE DEF g
  <2>3. f[0] = s /\ \A n \in 1..m : f[n] = After(f[n - 1], entries[n])
    BY <2>1 DEF Readings
  <2>4. \A n \in 1..(m + 1) : g[n] = After(g[n - 1], entries[n])
    <3> SUFFICES ASSUME NEW n \in 1..(m + 1) PROVE g[n] = After(g[n - 1], entries[n])
      OBVIOUS
    <3>1. CASE n = m + 1
      <4>1. n - 1 = m /\ m \in 0..m
        BY <3>1, <1>0
      <4> QED BY <2>2, <3>1, <4>1
    <3>2. CASE n # m + 1
      <4>1. n \in 1..m /\ n \in 0..m /\ n - 1 \in 0..m
        BY <3>2, <1>0
      <4> QED BY <2>2, <2>3, <4>1
    <3> QED BY <3>1, <3>2
  <2>7. g[0] = s
    <3>1. 0 \in 0..m
      BY <1>0
    <3> QED BY <2>2, <2>3, <3>1
  <2>5. Readings(g, s, entries, m + 1)
    BY <2>4, <2>7 DEF Readings
  <2>6. m + 1 \in 0..N
    BY <1>0
  <2> QED BY <2>2, <2>5, <2>6
<1>3. N \in T
  <2> HIDE DEF T
  <2>1. 0..N \subseteq T
    BY <1>0, <1>1, <1>2, UpTo
  <2> QED BY <1>0, <2>1
<1> QED BY <1>3

LEMMA ReadInTurn ==
  ASSUME NEW s, NEW S, NEW entries \in Seq(S), NEW t \in Read(s, entries)
  PROVE  \E f : Readings(f, s, entries, Len(entries)) /\ t = f[Len(entries)]
<1> DEFINE N == Len(entries)
           Run(h) == h = [i \in 0..N |-> IF i = 0 THEN {s} ELSE Handle(h[i - 1], entries[i])]
<1>0. N \in Nat
  OBVIOUS
<1>1. PICK f : f = [n \in 0..N |-> f[n]] /\ Readings(f, s, entries, N)
  BY ReadingsExist
<1>2. f[0] = s /\ \A n \in 1..N : f[n] = After(f[n - 1], entries[n])
  BY <1>1 DEF Readings
<1> DEFINE g == [n \in 0..N |-> {f[n]}]
<1>3. \A n \in 0..N : g[n] = IF n = 0 THEN {s} ELSE Handle(g[n - 1], entries[n])
  <2> SUFFICES ASSUME NEW n \in 0..N, n # 0 PROVE g[n] = Handle(g[n - 1], entries[n])
    BY <1>2
  <2>1. n \in 1..N /\ n - 1 \in 0..N
    BY <1>0
  <2> QED BY <1>2, <2>1, HandleAfter
<1>3a. g = [n \in 0..N |-> g[n]]
  OBVIOUS
<1> HIDE DEF g
<1>4. Run(g)
  BY <1>3, <1>3a
<1> DEFINE h == CHOOSE k : Run(k)
<1>5. Run(h)
  BY <1>4
<1>6. Read(s, entries) = h[N]
  BY DEF Read
<1>7. \A n \in 0..N : h[n] = IF n = 0 THEN {s} ELSE Handle(h[n - 1], entries[n])
  <2> HIDE DEF h
  <2> QED BY <1>5
<1> HIDE DEF h
<1> DEFINE T == {n \in 0..N : h[n] = {f[n]}}
<1>8. 0 \in T
  BY <1>0, <1>2, <1>7
<1>9. \A m \in 0..N : m \in T /\ m < N => m + 1 \in T
  <2> SUFFICES ASSUME NEW m \in 0..N, h[m] = {f[m]}, m < N PROVE h[m + 1] = {f[m + 1]}
    BY <1>0
  <2>1. m + 1 \in 0..N /\ m + 1 # 0 /\ m + 1 \in 1..N /\ m + 1 - 1 = m
    BY <1>0
  <2>2. h[m + 1] = Handle({f[m]}, entries[m + 1])
    <3>1. h[m + 1] = Handle(h[m + 1 - 1], entries[m + 1])
      BY <1>7, <2>1
    <3> QED BY <2>1, <3>1
  <2>3. f[m + 1] = After(f[m], entries[m + 1])
    BY <1>2, <2>1
  <2> QED BY <2>2, <2>3, HandleAfter
<1>10. h[N] = {f[N]}
  <2> HIDE DEF T
  <2>1. 0..N \subseteq T
    BY <1>0, <1>8, <1>9, UpTo
  <2> QED BY <1>0, <2>1 DEF T
<1> QED BY <1>1, <1>6, <1>10

-----------------------------------------------------------------------------
(* What one entry does. *)

WatcherRec ==
  [on : BOOLEAN, file : Files \cup {0}, others : SUBSET Files, read : [Files -> Nat],
   seen : SUBSET KeySet, stops : SUBSET KeySet, fired : SUBSET KeySet, initial : BOOLEAN]

Pushes == KeySet \X (Web \cup {0})
StateRec ==
  [w : WatcherRec, tool : BOOLEAN, ids : Seq(Web), stored : SUBSET KeySet, pushed : Seq(Pushes),
   isSet : BOOLEAN, done : Web \cup {0}, skipped : SUBSET EntryRec, events : SUBSET EntryRec]

\* What the callback for a message does: nothing to an entry known and to a result, and
\* it stores, pushes and labels any other.
Ignores(s, q) ==
  q.tool = s.tool /\ q.ids = s.ids /\ q.stored = s.stored /\ q.pushed = s.pushed
Takes(s, e) == e.kind = "user" /\ Key(e) \notin s.stored /\ s.ids # <<>>
Pushed(s, e) == Append(s.pushed, <<Key(e), IF Takes(s, e) THEN Head(s.ids) ELSE 0>>)
Stores(s, e, q) ==
  /\ q.tool = IF ByUser(e) THEN s.tool ELSE e.kind = "tool"
  /\ q.stored = s.stored \cup {Key(e)} /\ q.skipped = s.skipped
  /\ q.ids = IF Takes(s, e) THEN Tail(s.ids) ELSE s.ids
  /\ q.pushed = IF Key(e) \notin s.stored THEN Pushed(s, e) ELSE s.pushed
Attends(s, e, q) ==
  \/ ~Changed(s, e) /\ Ignores(s, q) /\ q.skipped = s.skipped
  \/ Changed(s, e) /\ ByUser(e) /\ s.tool /\ Ignores(s, q) /\ q.skipped = s.skipped \cup {e}
  \/ Changed(s, e) /\ ~(ByUser(e) /\ s.tool) /\ Stores(s, e, q)

\* What the other callback and the watcher's own bookkeeping do.
Signals(s, e, q) ==
  IF Ends(s, e) /\ s.w.initial
  THEN q.isSet = (s.isSet \/ s.done # 0) /\ q.events = s.events \cup {e}
  ELSE q.isSet = s.isSet /\ q.events = s.events
Notes(s, e, q) ==
  /\ q.w.seen = s.w.seen \cup {Key(e)}
  /\ q.w.stops = IF e.kind = "final" THEN s.w.stops \cup {Key(e)} ELSE s.w.stops
  /\ q.w.fired = IF Ends(s, e) THEN s.w.fired \cup {Key(e)} ELSE s.w.fired
Follows(s, q) ==
  /\ q.w.on = s.w.on /\ q.w.file = s.w.file /\ q.w.others = s.w.others /\ q.w.read = s.w.read
  /\ q.w.initial = s.w.initial /\ q.done = s.done

LEMMA KeyIn == ASSUME NEW e \in EntryRec PROVE Key(e) \in KeySet
BY DEF KeySet

LEMMA OnMessageAttends ==
  ASSUME NEW s \in StateRec, NEW e \in EntryRec
  PROVE  LET q == OnMessage(s, e)
         IN  /\ q \in StateRec /\ Attends(s, e, q) /\ q.w = s.w /\ q.isSet = s.isSet
             /\ q.done = s.done /\ q.events = s.events
<1> DEFINE q == OnMessage(s, e)
<1>0. /\ s.tool \in BOOLEAN /\ s.stored \in SUBSET KeySet /\ s.ids \in Seq(Web)
      /\ s.pushed \in Seq(Pushes) /\ s.skipped \in SUBSET EntryRec /\ Key(e) \in KeySet
  BY KeyIn DEF StateRec
<1>1. CASE ~Changed(s, e)
  BY <1>1 DEF OnMessage, Attends, Ignores
<1>2. CASE Changed(s, e) /\ ByUser(e) /\ s.tool
  <2> DEFINE k == s.skipped \cup {e}
  <2>1. q = [s EXCEPT !.skipped = k]
    BY <1>2 DEF OnMessage
  <2>2. k \in SUBSET EntryRec
    BY <1>0
  <2> HIDE DEF k, q
  <2>3. /\ q \in StateRec /\ q.w = s.w /\ q.isSet = s.isSet /\ q.skipped = k
        /\ q.done = s.done /\ q.events = s.events /\ Ignores(s, q)
    BY <2>1, <2>2 DEF StateRec, Ignores
  <2> QED BY <1>2, <2>3 DEF Attends, q, k
<1>3. CASE Changed(s, e) /\ ~(ByUser(e) /\ s.tool)
  <2> DEFINE a == IF ByUser(e) THEN s.tool ELSE e.kind = "tool"
             b == s.stored \cup {Key(e)}
             c == IF Takes(s, e) THEN Tail(s.ids) ELSE s.ids
             d == IF Key(e) \notin s.stored THEN Pushed(s, e) ELSE s.pushed
  <2>1. q = [s EXCEPT !.tool = a, !.stored = b, !.ids = c, !.pushed = d]
    BY <1>3 DEF OnMessage, Takes, Pushed
  <2>2. a \in BOOLEAN /\ b \in SUBSET KeySet
    BY <1>0
  <2>3. c \in Seq(Web)
    BY <1>0 DEF Takes
  <2>4. d \in Seq(Pushes)
    <3>1. <<Key(e), IF Takes(s, e) THEN Head(s.ids) ELSE 0>> \in Pushes
      BY <1>0 DEF Takes, Pushes
    <3> QED BY <1>0, <3>1 DEF Pushed
  <2> HIDE DEF a, b, c, d, q
  <2>5. /\ q \in StateRec /\ q.tool = a /\ q.stored = b /\ q.ids = c /\ q.pushed = d
        /\ q.w = s.w /\ q.isSet = s.isSet /\ q.done = s.done /\ q.events = s.events
        /\ q.skipped = s.skipped
    BY <2>1, <2>2, <2>3, <2>4 DEF StateRec
  <2>6. Stores(s, e, q)
    BY <2>5 DEF Stores, a, b, c, d
  <2> QED BY <1>3, <2>5, <2>6 DEF Attends, q
<1> QED BY <1>1, <1>2, <1>3

LEMMA OnTurnEventSignals ==
  ASSUME NEW s \in StateRec, NEW e \in EntryRec
  PROVE  LET q == OnTurnEvent(s, e)
         IN  /\ q \in StateRec /\ Signals(s, e, q) /\ Ignores(s, q) /\ q.skipped = s.skipped
             /\ q.w = s.w /\ q.done = s.done
<1> DEFINE q == OnTurnEvent(s, e)
           a == s.isSet \/ s.done # 0
           b == s.events \cup {e}
<1>1. CASE Ends(s, e) /\ s.w.initial
  <2>1. q = [s EXCEPT !.isSet = a, !.events = b]
    BY <1>1 DEF OnTurnEvent
  <2>2. a \in BOOLEAN /\ b \in SUBSET EntryRec
    BY DEF StateRec
  <2> HIDE DEF a, b, q
  <2>3. /\ q \in StateRec /\ q.isSet = a /\ q.events = b /\ Ignores(s, q)
        /\ q.skipped = s.skipped /\ q.w = s.w /\ q.done = s.done
    BY <2>1, <2>2 DEF StateRec, Ignores
  <2> QED BY <1>1, <2>3 DEF Signals, a, b, q
<1>2. CASE ~(Ends(s, e) /\ s.w.initial)
  BY <1>2 DEF OnTurnEvent, Signals, Ignores
<1> QED BY <1>1, <1>2

LEMMA NotedNotes ==
  ASSUME NEW s \in StateRec, NEW e \in EntryRec
  PROVE  LET q == Noted(s, e)
         IN  /\ q \in StateRec /\ Notes(s, e, q) /\ Follows(s, q) /\ Ignores(s, q)
             /\ q.skipped = s.skipped /\ q.isSet = s.isSet /\ q.events = s.events
<1> DEFINE q == Noted(s, e)
           a == s.w.seen \cup {Key(e)}
           b == IF e.kind = "final" THEN s.w.stops \cup {Key(e)} ELSE s.w.stops
           c == IF Ends(s, e) THEN s.w.fired \cup {Key(e)} ELSE s.w.fired
           v == [s.w EXCEPT !.seen = a, !.stops = b, !.fired = c]
<1>0. s.w \in WatcherRec /\ Key(e) \in KeySet
  BY KeyIn DEF StateRec
<1>1. a \in SUBSET KeySet /\ b \in SUBSET KeySet /\ c \in SUBSET KeySet
  BY <1>0 DEF WatcherRec
<1>2. q = [s EXCEPT !.w = v]
  BY <1>0 DEF Noted, StateRec, WatcherRec
<1> HIDE DEF a, b, c, q
<1>3. /\ v \in WatcherRec /\ v.seen = a /\ v.stops = b /\ v.fired = c /\ v.on = s.w.on
      /\ v.file = s.w.file /\ v.others = s.w.others /\ v.read = s.w.read
      /\ v.initial = s.w.initial
  BY <1>0, <1>1 DEF WatcherRec
<1> HIDE DEF v
<1>4. /\ q \in StateRec /\ q.w = v /\ Ignores(s, q) /\ q.skipped = s.skipped
      /\ q.isSet = s.isSet /\ q.events = s.events /\ q.done = s.done
  BY <1>2, <1>3 DEF StateRec, Ignores
<1>5. Notes(s, e, q) /\ Follows(s, q)
  BY <1>3, <1>4 DEF Notes, Follows, a, b, c
<1> QED BY <1>4, <1>5 DEF q

Reads(s, e, q) ==
  /\ s \in StateRec /\ q \in StateRec
  /\ Attends(s, e, q) /\ Signals(s, e, q) /\ Notes(s, e, q) /\ Follows(s, q)

LEMMA AfterReads ==
  ASSUME NEW s \in StateRec, NEW e \in EntryRec
  PROVE  Reads(s, e, After(s, e))
<1> DEFINE t == OnMessage(s, e)
           u == OnTurnEvent(t, e)
           q == Noted(u, e)
<1>1. /\ t \in StateRec /\ Attends(s, e, t) /\ t.w = s.w /\ t.isSet = s.isSet
      /\ t.done = s.done /\ t.events = s.events
  BY OnMessageAttends
<1> HIDE DEF t
<1>2. /\ u \in StateRec /\ Signals(t, e, u) /\ Ignores(t, u) /\ u.skipped = t.skipped
      /\ u.w = t.w /\ u.done = t.done
  BY <1>1, OnTurnEventSignals
<1> HIDE DEF u
<1>3. /\ q \in StateRec /\ Notes(u, e, q) /\ Follows(u, q) /\ Ignores(u, q)
      /\ q.skipped = u.skipped /\ q.isSet = u.isSet /\ q.events = u.events
  BY <1>2, NotedNotes
<1> HIDE DEF q
<1>4. Attends(s, e, q)
  BY <1>1, <1>2, <1>3 DEF Attends, Ignores, Stores
<1>5. Signals(s, e, q)
  BY <1>1, <1>2, <1>3 DEF Signals, Ends
<1>6. Notes(s, e, q) /\ Follows(s, q)
  BY <1>1, <1>2, <1>3 DEF Notes, Follows, Ends
<1>7. After(s, e) = q
  BY DEF After, q, u, t
<1> QED BY <1>3, <1>4, <1>5, <1>6, <1>7 DEF Reads

-----------------------------------------------------------------------------
(* What reading comes to, whatever is read: t is s with some of the entries A *)
(* read.                                                                      *)

Answer(e) == e.kind \in {"null", "final"}
Unfired(s, e) == Answer(e) /\ Key(e) \notin s.w.fired
OncePushed(s) ==
  /\ \A i, j \in DOMAIN s.pushed : s.pushed[i][1] = s.pushed[j][1] => i = j
  /\ \A i \in DOMAIN s.pushed : s.pushed[i][1] \in s.stored

ReadOf(s, A, t) ==
  /\ s \in StateRec /\ t \in StateRec /\ Follows(s, t)
  /\ s.stored \subseteq t.stored /\ s.w.fired \subseteq t.w.fired
  /\ \A k \in t.stored \ s.stored :
       \E e \in A : k = Key(e) /\ (Answer(e) => k \in t.w.fired)
  /\ \A k \in t.w.stops \ s.w.stops : \E e \in A : e.kind = "final" /\ k = Key(e)
  /\ \A e \in t.events \ s.events : e \in A /\ Unfired(s, e) /\ Key(e) \in t.w.fired
  /\ t.isSet => s.isSet \/ (s.done # 0 /\ \E e \in t.events : e \in A /\ Unfired(s, e))
  /\ OncePushed(s) => OncePushed(t)

LEMMA PushesOnce ==
  ASSUME NEW s \in StateRec, NEW e \in EntryRec, NEW q \in StateRec, Attends(s, e, q), OncePushed(s)
  PROVE  OncePushed(q)
<1>1. CASE Ignores(s, q)
  BY <1>1 DEF OncePushed, Ignores
<1>2. CASE Stores(s, e, q) /\ Key(e) \in s.stored
  <2>1. q.pushed = s.pushed /\ s.stored \subseteq q.stored
    BY <1>2 DEF Stores
  <2> QED BY <2>1 DEF OncePushed
<1>3. CASE Stores(s, e, q) /\ Key(e) \notin s.stored
  <2> DEFINE x == <<Key(e), IF Takes(s, e) THEN Head(s.ids) ELSE 0>>
             P == s.pushed
             N == Len(P)
  <2>0. P \in Seq(Pushes) /\ N \in Nat /\ DOMAIN P = 1..N
    BY DEF StateRec
  <2>1. q.pushed = Append(P, x) /\ q.stored = s.stored \cup {Key(e)} /\ x[1] = Key(e)
    BY <1>3 DEF Stores, Pushed
  <2> HIDE DEF x, P, N
  <2>2. /\ DOMAIN q.pushed = 1..N + 1 /\ q.pushed[N + 1] = x
        /\ \A i \in 1..N : q.pushed[i] = P[i]
    BY <2>0, <2>1 DEF N
  <2>3. /\ \A i, j \in 1..N : P[i][1] = P[j][1] => i = j
        /\ \A i \in 1..N : P[i][1] \in s.stored
    BY <2>0 DEF OncePushed, P
  <2>4. \A i \in 1..N + 1 : i = N + 1 \/ i \in 1..N
    BY <2>0
  <2> HIDE DEF Key
  <2>5. \A i \in 1..N + 1 : q.pushed[i][1] \in q.stored
    BY <2>1, <2>2, <2>3, <2>4
  <2>6. \A i \in 1..N : q.pushed[i][1] # Key(e)
    BY <1>3, <2>2, <2>3
  <2>7. \A i, j \in 1..N + 1 : q.pushed[i][1] = q.pushed[j][1] => i = j
    BY <2>1, <2>2, <2>3, <2>4, <2>6
  <2> QED BY <2>2, <2>5, <2>7 DEF OncePushed
<1> QED BY <1>1, <1>2, <1>3 DEF Attends

LEMMA StoredOf ==
  ASSUME NEW s \in StateRec, NEW e \in EntryRec, NEW q \in StateRec, Attends(s, e, q)
  PROVE  s.stored \subseteq q.stored /\ q.stored \subseteq s.stored \cup {Key(e)}
BY DEF Attends, Ignores, Stores

LEMMA ReadsOneMore ==
  ASSUME NEW s, NEW A \in SUBSET EntryRec, NEW t, NEW e \in A, NEW q,
         ReadOf(s, A, t), Reads(t, e, q)
  PROVE  ReadOf(s, A, q)
<1>0. /\ s \in StateRec /\ t \in StateRec /\ q \in StateRec /\ e \in EntryRec
      /\ Attends(t, e, q) /\ Signals(t, e, q) /\ Notes(t, e, q) /\ Follows(t, q) /\ Follows(s, t)
  BY DEF ReadOf, Reads
<1>1. /\ s.stored \subseteq t.stored /\ s.w.fired \subseteq t.w.fired
      /\ \A k \in t.stored \ s.stored :
           \E x \in A : k = Key(x) /\ (Answer(x) => k \in t.w.fired)
      /\ \A k \in t.w.stops \ s.w.stops : \E x \in A : x.kind = "final" /\ k = Key(x)
      /\ \A x \in t.events \ s.events : x \in A /\ Unfired(s, x) /\ Key(x) \in t.w.fired
      /\ t.isSet => s.isSet \/ (s.done # 0 /\ \E x \in t.events : x \in A /\ Unfired(s, x))
      /\ OncePushed(s) => OncePushed(t)
  BY DEF ReadOf
<1>2. t.stored \subseteq q.stored /\ q.stored \subseteq t.stored \cup {Key(e)}
  BY <1>0, StoredOf
<1>3. t.w.fired \subseteq q.w.fired /\ (Answer(e) => Key(e) \in q.w.fired)
  BY <1>0 DEF Notes, Ends, Answer
<1>4. q.w.stops = IF e.kind = "final" THEN t.w.stops \cup {Key(e)} ELSE t.w.stops
  BY <1>0 DEF Notes
<1>5. OncePushed(s) => OncePushed(q)
  BY <1>0, <1>1, PushesOnce
<1>6. Follows(s, q)
  BY <1>0 DEF Follows
<1>7. q.events \subseteq t.events \cup {e} /\ (q.events # t.events => Unfired(t, e))
  BY <1>0 DEF Signals, Ends, Unfired, Answer
<1>8. q.isSet => t.isSet \/ (t.done # 0 /\ e \in q.events /\ Unfired(t, e))
  BY <1>0 DEF Signals, Ends, Unfired, Answer, StateRec
<1>9. t.events \subseteq q.events /\ t.done = s.done
  BY <1>0 DEF Signals, Follows
<1>10. Unfired(t, e) => Unfired(s, e)
  BY <1>1 DEF Unfired
<1>11. Unfired(t, e) => Answer(e)
  BY DEF Unfired
<1> HIDE DEF Key, Answer, Unfired
<1>12. \A k \in q.stored \ s.stored :
         \E x \in A : k = Key(x) /\ (Answer(x) => k \in q.w.fired)
  <2> SUFFICES ASSUME NEW k \in q.stored \ s.stored
               PROVE  \E x \in A : k = Key(x) /\ (Answer(x) => k \in q.w.fired)
    OBVIOUS
  <2>1. CASE k \in t.stored
    BY <1>1, <1>3, <2>1
  <2>2. CASE k = Key(e)
    BY <1>3, <2>2
  <2> QED BY <1>2, <2>1, <2>2
<1>13. \A k \in q.w.stops \ s.w.stops : \E x \in A : x.kind = "final" /\ k = Key(x)
  BY <1>1, <1>4
<1>14. \A x \in q.events \ s.events : x \in A /\ Unfired(s, x) /\ Key(x) \in q.w.fired
  BY <1>1, <1>3, <1>7, <1>10, <1>11
<1>15. q.isSet => s.isSet \/ (s.done # 0 /\ \E x \in q.events : x \in A /\ Unfired(s, x))
  BY <1>1, <1>8, <1>9, <1>10
<1> QED
  BY <1>0, <1>1, <1>2, <1>3, <1>5, <1>6, <1>12, <1>13, <1>14, <1>15 DEF ReadOf

LEMMA ReadsAll ==
  ASSUME NEW s \in StateRec, NEW entries \in Seq(EntryRec), NEW t \in Read(s, entries)
  PROVE  ReadOf(s, {entries[i] : i \in 1..Len(entries)}, t)
<1> DEFINE N == Len(entries)
           A == {entries[i] : i \in 1..N}
<1>0. N \in Nat /\ A \in SUBSET EntryRec
  OBVIOUS
<1>1. PICK f : Readings(f, s, entries, N) /\ t = f[N]
  BY ReadInTurn
<1> DEFINE T == {n \in 0..N : ReadOf(s, A, f[n])}
<1>2. 0 \in T
  <2>1. ReadOf(s, A, s)
    BY DEF ReadOf, Follows
  <2> QED BY <1>0, <1>1, <2>1 DEF Readings
<1>3. \A n \in 0..N : n \in T /\ n < N => n + 1 \in T
  <2> SUFFICES ASSUME NEW n \in 0..N, ReadOf(s, A, f[n]), n < N PROVE n + 1 \in T
    OBVIOUS
  <2>1. n + 1 \in 1..N /\ n + 1 \in 0..N /\ n + 1 - 1 = n
    BY <1>0
  <2>2. f[n + 1] = After(f[n], entries[n + 1]) /\ entries[n + 1] \in A
    <3>1. f[n + 1] = After(f[n + 1 - 1], entries[n + 1])
      BY <1>1, <2>1 DEF Readings
    <3> QED BY <2>1, <3>1
  <2>3. Reads(f[n], entries[n + 1], f[n + 1])
    <3>1. f[n] \in StateRec /\ entries[n + 1] \in EntryRec
      BY <1>0, <2>2 DEF ReadOf
    <3> QED BY <2>2, <3>1, AfterReads
  <2> HIDE DEF A
  <2>4. ReadOf(s, A, f[n + 1])
    BY <1>0, <2>2, <2>3, ReadsOneMore
  <2> QED BY <2>1, <2>4
<1>4. N \in T
  <2> HIDE DEF T
  <2>1. 0..N \subseteq T
    BY <1>0, <1>2, <1>3, UpTo
  <2> QED BY <1>0, <2>1
<1> QED BY <1>1, <1>4

-----------------------------------------------------------------------------
(* What is scanned has been written. *)

\* The first m of the sequences in one.
Joins(f, seqs, m) ==
  \A i \in 1..m : f[i] = IF i = 1 THEN seqs[i] ELSE f[i - 1] \o seqs[i]

LEMMA JoinsExist ==
  ASSUME NEW S, NEW seqs \in Seq(Seq(S))
  PROVE  \E f \in [1..Len(seqs) -> Seq(S)] : Joins(f, seqs, Len(seqs))
<1> DEFINE N == Len(seqs)
           Joined(m) == \E f \in [1..m -> Seq(S)] : Joins(f, seqs, m)
           T == {m \in 0..N : Joined(m)}
<1>0. N \in Nat /\ \A i \in 1..N : seqs[i] \in Seq(S)
  OBVIOUS
<1>1. 0 \in T
  <2> DEFINE f == [i \in 1..0 |-> seqs[i]]
  <2>1. f \in [1..0 -> Seq(S)] /\ Joins(f, seqs, 0)
    BY DEF Joins
  <2>2. Joined(0)
    <3> HIDE DEF f
    <3> QED BY <2>1
  <2> HIDE DEF Joined
  <2> QED BY <1>0, <2>2
<1>2. \A m \in 0..N : m \in T /\ m < N => m + 1 \in T
  <2> SUFFICES ASSUME NEW m \in 0..N, m \in T, m < N PROVE m + 1 \in T
    OBVIOUS
  <2>1. PICK f \in [1..m -> Seq(S)] : Joins(f, seqs, m)
    OBVIOUS
  <2> DEFINE last == IF m = 0 THEN seqs[m + 1] ELSE f[m] \o seqs[m + 1]
             g == [i \in 1..(m + 1) |-> IF i = m + 1 THEN last ELSE f[i]]
  <2>2. last \in Seq(S)
    <3>1. m + 1 \in 1..N /\ seqs[m + 1] \in Seq(S)
      BY <1>0
    <3>2. CASE m = 0
      BY <3>1, <3>2
    <3>3. CASE m # 0
      <4>1. f[m] \in Seq(S)
        BY <1>0, <3>3
      <4> QED BY <3>1, <3>3, <4>1
    <3> QED BY <3>2, <3>3
  <2> HIDE DEF last
  <2>3. /\ g \in [1..(m + 1) -> Seq(S)] /\ g[m + 1] = last
        /\ \A i \in 1..m : g[i] = f[i]
    BY <1>0, <2>2
  <2> HIDE DEF g
  <2>4. \A i \in 1..(m + 1) : g[i] = IF i = 1 THEN seqs[i] ELSE g[i - 1] \o seqs[i]
    <3> SUFFICES ASSUME NEW i \in 1..(m + 1)
                 PROVE  g[i] = IF i = 1 THEN seqs[i] ELSE g[i - 1] \o seqs[i]
      OBVIOUS
    <3>1. CASE i = m + 1 /\ m = 0
      BY <2>3, <3>1 DEF last
    <3>2. CASE i = m + 1 /\ m # 0
      <4>1. i # 1 /\ i - 1 = m /\ m \in 1..m
        BY <1>0, <3>2
      <4> QED BY <2>3, <3>2, <4>1 DEF last
    <3>3. CASE i # m + 1
      <4>1. i \in 1..m /\ (i # 1 => i - 1 \in 1..m)
        BY <1>0, <3>3
      <4> QED BY <2>1, <2>3, <4>1 DEF Joins
    <3> QED BY <3>1, <3>2, <3>3
  <2>5. Joins(g, seqs, m + 1)
    BY <2>4 DEF Joins
  <2>6. m + 1 \in 0..N
    BY <1>0
  <2> QED BY <2>3, <2>5, <2>6
<1>3. N \in T
  <2> HIDE DEF T
  <2>1. 0..N \subseteq T
    BY <1>0, <1>1, <1>2, UpTo
  <2> QED BY <1>0, <2>1
<1> QED BY <1>3

LEMMA FlattenType ==
  ASSUME NEW S, NEW seqs \in Seq(Seq(S)), Len(seqs) # 0
  PROVE  FlattenSeq(seqs) \in Seq(S)
<1> DEFINE N == Len(seqs)
           Run(h) == h = [i \in 1..N |-> IF i = 1 THEN seqs[i] ELSE h[i - 1] \o seqs[i]]
<1>0. N \in Nat /\ N \in 1..N /\ \A i \in 1..N : seqs[i] \in Seq(S)
  OBVIOUS
<1>1. PICK f \in [1..N -> Seq(S)] : Joins(f, seqs, N)
  BY JoinsExist
<1>2. f = [i \in 1..N |-> f[i]]
  OBVIOUS
<1>3. Run(f)
  BY <1>1, <1>2 DEF Joins
<1> DEFINE h == CHOOSE k : Run(k)
<1>4. Run(h)
  BY <1>3
<1>5. FlattenSeq(seqs) = h[N]
  BY <1>0 DEF FlattenSeq
<1>6. \A i \in 1..N : h[i] = IF i = 1 THEN seqs[i] ELSE h[i - 1] \o seqs[i]
  <2> HIDE DEF h
  <2> QED BY <1>4
<1> HIDE DEF h
<1>6a. \A i, k \in 1..N : i = k + 1 => h[i] = h[k] \o seqs[i]
  <2> SUFFICES ASSUME NEW i \in 1..N, NEW k \in 1..N, i = k + 1 PROVE h[i] = h[k] \o seqs[i]
    OBVIOUS
  <2>1. i # 1 /\ k = i - 1
    OBVIOUS
  <2>2. h[i] = h[i - 1] \o seqs[i]
    BY <1>6, <2>1
  <2> QED BY <2>1, <2>2
<1> DEFINE T == {n \in 0..N : n = 0 \/ h[n] \in Seq(S)}
<1>7. 0 \in T
  BY <1>0
<1>8. \A m \in 0..N : m \in T /\ m < N => m + 1 \in T
  <2> SUFFICES ASSUME NEW m \in 0..N, m = 0 \/ h[m] \in Seq(S), m < N
               PROVE  h[m + 1] \in Seq(S)
    BY <1>0
  <2>1. m + 1 \in 1..N /\ m + 1 - 1 = m /\ seqs[m + 1] \in Seq(S)
    BY <1>0
  <2>2. CASE m = 0
    BY <1>6, <2>1, <2>2
  <2>3. CASE m # 0
    <3>1. m \in 1..N
      BY <1>0, <2>3
    <3>2. h[m + 1] = h[m] \o seqs[m + 1]
      BY <1>6a, <2>1, <3>1
    <3> QED BY <2>1, <2>3, <3>2
  <2> QED BY <2>2, <2>3
<1>9. N \in T
  <2> HIDE DEF T
  <2>1. 0..N \subseteq T
    BY <1>0, <1>7, <1>8, UpTo
  <2> QED BY <1>0, <2>1
<1> QED BY <1>0, <1>5, <1>9

Logs == [Files -> Seq(EntryRec)]

LEMMA LogWritten ==
  ASSUME log \in Logs, NEW f \in Files
  PROVE  log[f] \in Seq(Written) /\ Written \subseteq EntryRec
<1>1. log[f] \in Seq(EntryRec) /\ \A g \in Files : log[g] \in Seq(EntryRec)
  BY DEF Logs
<1>2. \A i \in 1..Len(log[f]) : log[f][i] \in Written
  BY <1>1 DEF Written, Range
<1>3. Written \subseteq EntryRec
  BY <1>1 DEF Written, Range
<1> QED BY <1>1, <1>2, <1>3

LEMMA SeqOfSet ==
  ASSUME NEW S \in SUBSET Files
  PROVE  /\ Cardinality(S) \in Nat /\ (S = {} => Cardinality(S) = 0)
         /\ \A i \in 1..Cardinality(S) : SetToSeq(S)[i] \in S
<1>1. IsFiniteSet(S)
  <2>1. IsFiniteSet({1}) /\ IsFiniteSet({1} \cup {2})
    BY FS_Singleton, FS_AddElement
  <2>2. S \subseteq {1} \cup {2}
    BY DEF Files
  <2> QED BY <2>1, <2>2, FS_Subset
<1>2. Cardinality(S) \in Nat /\ ExistsBijection(1..Cardinality(S), S)
  BY <1>1, FS_CardinalityType
<1>3. S = {} => Cardinality(S) = 0
  BY FS_EmptySet
<1>4. PICK f \in [1..Cardinality(S) -> S] : IsInjective(f)
  BY <1>2 DEF ExistsBijection, Bijection, Injection, IsInjective
<1> DEFINE h == CHOOSE k \in [1..Cardinality(S) -> S] : IsInjective(k)
<1>5. h \in [1..Cardinality(S) -> S]
  BY <1>4
<1>6. SetToSeq(S) = h
  BY DEF SetToSeq
<1> HIDE DEF h
<1> QED BY <1>2, <1>3, <1>5, <1>6

LEMMA ScannedWritten ==
  ASSUME log \in Logs, NEW w \in WatcherRec
  PROVE  /\ Scanned(w) \in Seq(Written)
         /\ w.others = {} => Scanned(w) = IF w.file = 0 THEN <<>> ELSE log[w.file]
<1> DEFINE first == IF w.file = 0 THEN <<>> ELSE log[w.file]
           N == Cardinality(ToScan(w))
           seqs == [i \in 1..N |-> log[SetToSeq(ToScan(w))[i]]]
<1>0. w.file \in Files \cup {0} /\ w.others \subseteq Files
  BY DEF WatcherRec
<1>1. ToScan(w) \in SUBSET Files /\ (w.others = {} => ToScan(w) = {})
  BY <1>0 DEF ToScan
<1>2. /\ N \in Nat /\ (ToScan(w) = {} => N = 0)
      /\ \A i \in 1..N : SetToSeq(ToScan(w))[i] \in Files
  BY <1>1, SeqOfSet
<1>3. first \in Seq(Written)
  BY <1>0, LogWritten
<1>4. seqs \in Seq(Seq(Written)) /\ Len(seqs) = N
  <2>1. \A i \in 1..N : log[SetToSeq(ToScan(w))[i]] \in Seq(Written)
    BY <1>2, LogWritten
  <2> QED BY <1>2, <2>1
<1>5. Scanned(w) = first \o FlattenSeq(seqs)
  BY DEF Scanned
<1> HIDE DEF first, N
<1>6. N = 0 => seqs = <<>>
  BY <1>4
<1> HIDE DEF seqs
<1>7. N = 0 => FlattenSeq(seqs) = <<>>
  BY <1>4, <1>6 DEF FlattenSeq
<1>8. N # 0 => FlattenSeq(seqs) \in Seq(Written)
  BY <1>4, FlattenType
<1>9. Scanned(w) \in Seq(Written)
  <2>1. FlattenSeq(seqs) \in Seq(Written)
    <3>1. <<>> \in Seq(Written)
      OBVIOUS
    <3>2. N = 0 \/ N # 0
      OBVIOUS
    <3> HIDE DEF Written
    <3> QED BY <1>7, <1>8, <3>1, <3>2
  <2> QED BY <1>3, <1>5, <2>1
<1>10. ASSUME w.others = {} PROVE Scanned(w) = first
  <2>1. Scanned(w) = first \o <<>>
    BY <1>1, <1>2, <1>5, <1>7, <1>10
  <2> QED BY <1>3, <2>1
<1> QED BY <1>9, <1>10 DEF first

-----------------------------------------------------------------------------
(* What is always so.  Every variable has its type. *)

Steady ==
  /\ log \in Logs /\ conv \in Files /\ typed \in Seq(Messages) /\ busy \in Messages \cup {0}
  /\ stage \in {"none", "begun", "tool", "result", "null"}
  /\ pc \in [Web -> {"new", "sending", "typed", "waiting", "answered", "failed",
                     "cancelled", "aborted"}]
  /\ excused \in SUBSET Web /\ early \in SUBSET Web /\ strayed \in BOOLEAN
  /\ faults \in 0..MaxFaults
TypeInv == Steady /\ Current \in StateRec

(* A message is typed, then worked on, then answered, and its first entry is   *)
(* the user's; what is stored, and what has its stop reason, was written.       *)
Unwritten(m) == \A e \in Written : e.of # m
LogInv ==
  /\ \A e \in Range(log[1]) : e.of # 0
  /\ \A i, j \in 1..Len(typed) : typed[i] = typed[j] => i = j
  /\ \A m \in Range(typed) : m # busy /\ Unwritten(m)
  /\ \A e \in Written : e.of # 0 => Entry(e.of, "user") \in Written
  /\ busy # 0 => Entry(busy, "user") \in Written /\ Entry(busy, "final") \notin Written
  /\ \A m \in Web : pc[m] \in {"new", "sending"} =>
       m \notin Range(typed) /\ m # busy /\ Unwritten(m)
KeptInv ==
  /\ OncePushed(Current)
  /\ \A k \in stored : \E e \in Written : k = Key(e)
  /\ \A k \in watcher.stops : \E e \in Written : e.kind = "final" /\ k = Key(e)

(* Without a watcher nothing is known; until the streams mix there is one      *)
(* conversation.                                                               *)
WatchInv ==
  /\ ~watcher.on => watcher = NoWatcher
  /\ faults = 0 \/ ~strayed => conv = 1 /\ watcher.file \in {0, 1} /\ watcher.others = {}

(* Until something is disturbed the log is one turn after the other ...        *)
Neat(L) ==
  /\ \A i \in 1..Len(L) : L[i].kind = "user" => i = 1 \/ L[i - 1].kind = "final"
  /\ busy = 0 => L = <<>> \/ L[Len(L)].kind = "final"
  /\ \A i, j \in 1..Len(L) : L[i] = L[j] /\ L[i].kind = "final" => i = j

(* ... of which the watcher has read the first n entries, and it knows of no   *)
(* tool call when they end with an answer.                                     *)
ReadTo(s, L, n) ==
  /\ n \in 0..Len(L)
  /\ n = 0 \/ L[n].kind = "final" => ~s.tool
  /\ \A i \in 1..n : Key(L[i]) \in s.w.seen /\ (L[i].kind = "final" => Key(L[i]) \in s.w.stops)
  /\ \A i \in 1..Len(L) : L[i].kind = "final" /\ Key(L[i]) \in s.w.stops => i <= n
  /\ \A e \in s.skipped : e.kind # "user"
OrderInv == faults = 0 => Neat(log[1]) /\ ReadTo(Current, log[1], watcher.read[1])

(* Until the streams mix, the client id that waits is that of the one message  *)
(* of the web on its way to the store, and every such message has its id wait. *)
OnItsWay(s, m) ==
  \/ pc[m] = "sending" \/ m \in Range(typed)
  \/ Entry(m, "user") \in Range(log[1]) /\ <<m, "user">> \notin s.stored
AloneOnItsWay(s, m) ==
  /\ s.ids = <<m>> /\ OnItsWay(s, m) /\ <<m, "user">> \notin s.stored
  /\ \A x \in Range(typed) : x = m
  /\ \A e \in Range(log[1]) : e.kind = "user" /\ Key(e) \notin s.stored => e.of = m
Labelled(s) ==
  \A i \in DOMAIN s.pushed :
    LET k == s.pushed[i][1]
    IN  k[2] = "user" => s.pushed[i][2] = IF k[1] \in Web THEN k[1] ELSE 0
Labels(s) ==
  /\ s.ids = <<>> \/ \E m \in Web : AloneOnItsWay(s, m)
  /\ \A m \in Web : OnItsWay(s, m) => s.ids = <<m>>
  /\ Labelled(s)
LabelInv == ~strayed => Labels(Current)

(* One turn at a time; the answers not signalled yet are those of the turn     *)
(* that waits, and its event is set by its whole answer.                       *)
Answered(m) == Entry(m, "final") \in Written
Signalled ==
  /\ \A e \in events : Key(e) \in watcher.fired
  /\ \A k \in stored : k[2] = "answer" => k \in watcher.fired
Alone(m) ==
  /\ \A x \in Range(typed) : x = m
  /\ busy \in {0, m}
  /\ \A e \in Written : Answer(e) /\ Key(e) \notin watcher.fired => e.of \in {0, m}
  /\ isSet /\ done = m => Answered(m)
TurnInv ==
  /\ \A m, k \in Active : m = k
  /\ done # 0 => done \in Web /\ pc[done] = "waiting"
  /\ \A m \in Web : pc[m] = "waiting" => done = m
  /\ Web \subseteq excused \/ Signalled
  /\ \A m \in Active \ excused : Alone(m)
  /\ \A m \in Web : pc[m] = "answered" /\ m \notin excused => Answered(m)

ObserverInv == TypeInv /\ LogInv /\ KeptInv /\ WatchInv /\ OrderInv /\ LabelInv /\ TurnInv

-----------------------------------------------------------------------------
(* Reading labels, and reads in order. *)

LEMMA KeyParts ==
  ASSUME NEW e
  PROVE  /\ Key(e)[1] = e.of
         /\ Key(e)[2] = IF Answer(e) THEN "answer" ELSE e.kind
         /\ Key(e) = <<e.of, IF Answer(e) THEN "answer" ELSE e.kind>>
BY DEF Key, Answer

LEMMA EntryIs ==
  ASSUME NEW e \in EntryRec
  PROVE  e = Entry(e.of, e.kind)
BY DEF Entry, EntryRec

LEMMA UserKey ==
  ASSUME NEW e \in EntryRec
  PROVE  /\ e.kind = "user" => Key(e) = <<e.of, "user">> /\ e = Entry(e.of, "user")
         /\ \A m : Key(e) = <<m, "user">> <=> e.kind = "user" /\ e.of = m
BY DEF Key, Entry, EntryRec, Kinds

LEMMA ReadLabels ==
  ASSUME NEW s, NEW e, NEW q, TypeInv, LogInv, Reads(s, e, q), Labels(s), e \in Range(log[1])
  PROVE  Labels(q)
<1>0. /\ s \in StateRec /\ q \in StateRec /\ e \in Written /\ e \in EntryRec /\ Attends(s, e, q)
      /\ e.of # 0
  <2>1. log \in Logs /\ 1 \in Files
    BY DEF TypeInv, Steady, Files
  <2>2. Written \subseteq EntryRec
    BY <2>1, LogWritten
  <2> QED BY <2>1, <2>2 DEF Written, LogInv, Reads
<1>1. CASE Ignores(s, q)
  BY <1>1 DEF Ignores, Labels, AloneOnItsWay, OnItsWay, Labelled
<1>2. CASE Stores(s, e, q) /\ (Key(e) \in s.stored \/ e.kind # "user")
  <2>1. q.ids = s.ids /\ q.stored = s.stored \cup {Key(e)}
    BY <1>2 DEF Stores, Takes
  <2>2. \A m : <<m, "user">> \in q.stored <=> <<m, "user">> \in s.stored
    BY <1>0, <1>2, <2>1, UserKey
  <2>3. \A x \in EntryRec : x.kind = "user" => (Key(x) \in q.stored <=> Key(x) \in s.stored)
    BY <2>2, UserKey
  <2>4. Range(log[1]) \subseteq EntryRec
    <3>1. log \in Logs /\ 1 \in Files
      BY DEF TypeInv, Steady, Files
    <3> QED BY <3>1, LogWritten DEF Written
  <2>5. \A m \in Web : OnItsWay(q, m) <=> OnItsWay(s, m)
    BY <2>2 DEF OnItsWay
  <2>6. \A m \in Web : AloneOnItsWay(s, m) => AloneOnItsWay(q, m)
    BY <2>1, <2>2, <2>3, <2>4, <2>5 DEF AloneOnItsWay
  <2>7. Labelled(q)
    <3>1. CASE Key(e) \in s.stored
      BY <1>2, <3>1 DEF Stores, Labels, Labelled
    <3>2. CASE Key(e) \notin s.stored
      <4> DEFINE x == <<Key(e), 0>>
      <4>0. s.pushed \in Seq(Pushes) /\ ~Takes(s, e)
        BY <1>0, <1>2, <3>2 DEF Takes, StateRec
      <4>1. q.pushed = Append(s.pushed, x) /\ x[1] = Key(e)
        BY <1>2, <3>2, <4>0 DEF Stores, Pushed
      <4>2. x[1][2] # "user"
        BY <1>0, <1>2, <3>2, <4>1, KeyParts DEF Answer
      <4> HIDE DEF x
      <4> QED BY <4>1, <4>2 DEF Labels, Labelled
    <3> QED BY <3>1, <3>2
  <2> QED BY <2>1, <2>5, <2>6, <2>7 DEF Labels
<1>3. CASE Stores(s, e, q) /\ Key(e) \notin s.stored /\ e.kind = "user"
  <2> DEFINE v == IF s.ids # <<>> THEN Head(s.ids) ELSE 0
             x == <<Key(e), v>>
  <2>1. Key(e) = <<e.of, "user">> /\ e = Entry(e.of, "user")
    BY <1>0, <1>3, UserKey
  <2>2. e.of \in Web => OnItsWay(s, e.of)
    BY <1>3, <2>1 DEF OnItsWay
  <2>3a. s.pushed \in Seq(Pushes) /\ (Takes(s, e) <=> s.ids # <<>>)
    BY <1>0, <1>3 DEF Takes, StateRec
  <2>3. /\ q.pushed = Append(s.pushed, x) /\ x[1] = Key(e) /\ x[2] = v
        /\ q.stored = s.stored \cup {Key(e)} /\ q.ids = IF s.ids # <<>> THEN Tail(s.ids) ELSE s.ids
    BY <1>3, <2>3a DEF Stores, Pushed
  <2>4. v = IF e.of \in Web THEN e.of ELSE 0
    <3>1. CASE s.ids = <<>>
      <4>1. e.of \notin Web
        BY <2>2, <3>1 DEF Labels
      <4> QED BY <3>1, <4>1
    <3>2. CASE s.ids # <<>>
      <4>1. PICK m \in Web : AloneOnItsWay(s, m)
        BY <3>2 DEF Labels
      <4>2. e.of = m /\ s.ids = <<m>>
        BY <1>3, <4>1 DEF AloneOnItsWay
      <4> QED BY <3>2, <4>2
    <3> QED BY <3>1, <3>2
  <2>5. q.ids = <<>>
    <3>1. CASE s.ids = <<>>
      BY <2>3, <3>1
    <3>2. CASE s.ids # <<>>
      <4>1. PICK m \in Web : s.ids = <<m>>
        BY <3>2 DEF Labels, AloneOnItsWay
      <4> QED BY <2>3, <4>1
    <3> QED BY <3>1, <3>2
  <2>6. Labelled(q)
    <3>1. x[1][1] = e.of
      BY <2>1, <2>3
    <3> HIDE DEF x, v
    <3> QED BY <2>3a, <2>3, <2>4, <3>1 DEF Labels, Labelled
  <2>7. ASSUME NEW m \in Web, OnItsWay(q, m) PROVE FALSE
    <3>1. OnItsWay(s, m)
      BY <2>3, <2>7 DEF OnItsWay
    <3>2. s.ids = <<m>>
      BY <3>1 DEF Labels
    <3>3. e.of = m
      <4>1. s.ids # <<>>
        BY <3>2
      <4>2. PICK k \in Web : AloneOnItsWay(s, k)
        BY <4>1 DEF Labels
      <4>3. e.of = k /\ s.ids = <<k>>
        BY <1>3, <4>2 DEF AloneOnItsWay
      <4> QED BY <3>2, <4>3
    <3>4. <<m, "user">> \in q.stored
      BY <2>1, <2>3, <3>3
    <3>5. ~Unwritten(m)
      BY <1>0, <3>3 DEF Unwritten
    <3>6. pc[m] # "sending" /\ m \notin Range(typed)
      BY <3>5 DEF LogInv
    <3> QED BY <2>7, <3>4, <3>6 DEF OnItsWay
  <2> QED BY <2>5, <2>6, <2>7 DEF Labels
<1> QED BY <1>0, <1>1, <1>2, <1>3 DEF Attends

LEMMA LogOne ==
  ASSUME TypeInv
  PROVE  /\ log[1] \in Seq(EntryRec) /\ Range(log[1]) \subseteq Written
         /\ \A i \in 1..Len(log[1]) : log[1][i] \in Range(log[1])
         /\ Written \subseteq EntryRec
<1>1. log \in Logs /\ 1 \in Files
  BY DEF TypeInv, Steady, Files
<1>2. log[1] \in Seq(EntryRec)
  BY <1>1 DEF Logs
<1>3. Written \subseteq EntryRec
  BY <1>1, LogWritten
<1> QED BY <1>1, <1>2, <1>3 DEF Written, Range

LEMMA ReadNothing ==
  ASSUME NEW s, NEW t \in Read(s, <<>>)
  PROVE  t = s
<1>1. <<>> \in Seq(EntryRec) /\ Len(<<>>) = 0
  OBVIOUS
<1> DEFINE none == <<>>
<1>2. PICK f : Readings(f, s, none, Len(none)) /\ t = f[Len(none)]
  <2>1. none \in Seq(EntryRec) /\ t \in Read(s, none)
    BY <1>1
  <2> HIDE DEF none
  <2> QED BY <2>1, ReadInTurn
<1> QED BY <1>1, <1>2 DEF Readings

LEMMA ReadsOn ==
  ASSUME NEW s \in StateRec, NEW entries \in Seq(EntryRec), NEW t \in Read(s, entries)
  PROVE  \E f : /\ f[0] = s /\ t = f[Len(entries)]
                /\ \A n \in 0..Len(entries) : f[n] \in StateRec
                /\ \A n \in 1..Len(entries) : Reads(f[n - 1], entries[n], f[n])
<1> DEFINE N == Len(entries)
<1>0. N \in Nat /\ \A n \in 1..N : entries[n] \in EntryRec
  OBVIOUS
<1>1. PICK f : Readings(f, s, entries, N) /\ t = f[N]
  BY ReadInTurn
<1>2. f[0] = s /\ \A n \in 1..N : f[n] = After(f[n - 1], entries[n])
  BY <1>1 DEF Readings
<1> DEFINE T == {n \in 0..N : f[n] \in StateRec}
<1>3. 0 \in T
  BY <1>0, <1>2
<1>4. \A n \in 0..N : n \in T /\ n < N => n + 1 \in T
  <2> SUFFICES ASSUME NEW n \in 0..N, f[n] \in StateRec, n < N PROVE f[n + 1] \in StateRec
    BY <1>0
  <2>1. n + 1 \in 1..N /\ n + 1 - 1 = n
    BY <1>0
  <2>2. f[n + 1] = After(f[n + 1 - 1], entries[n + 1])
    BY <1>2, <2>1
  <2>3. f[n + 1] = After(f[n], entries[n + 1])
    BY <2>1, <2>2
  <2>4. Reads(f[n], entries[n + 1], After(f[n], entries[n + 1]))
    BY <1>0, <2>1, AfterReads
  <2> QED BY <2>3, <2>4 DEF Reads
<1>5. 0..N \subseteq T
  <2> HIDE DEF T
  <2> QED BY <1>0, <1>3, <1>4, UpTo
<1>6. \A n \in 1..N : Reads(f[n - 1], entries[n], f[n])
  <2> SUFFICES ASSUME NEW n \in 1..N PROVE Reads(f[n - 1], entries[n], f[n])
    OBVIOUS
  <2>1. n - 1 \in 0..N
    BY <1>0
  <2>2. f[n - 1] \in StateRec
    BY <1>5, <2>1
  <2> QED BY <1>0, <1>2, <2>2, AfterReads
<1> QED BY <1>1, <1>2, <1>5, <1>6

LEMMA ReadsLabels ==
  ASSUME NEW s \in StateRec, NEW entries \in {<<>>, log[1]}, NEW t \in Read(s, entries),
         TypeInv, LogInv, Labels(s)
  PROVE  Labels(t)
<1>1. CASE entries = <<>>
  BY <1>1, ReadNothing
<1>2. CASE entries = log[1]
  <2> DEFINE N == Len(entries)
  <2>0. /\ N \in Nat /\ entries \in Seq(EntryRec)
        /\ \A n \in 1..N : entries[n] \in Range(log[1])
    BY <1>2, LogOne
  <2>1. PICK f : /\ f[0] = s /\ t = f[N] /\ \A n \in 0..N : f[n] \in StateRec
                 /\ \A n \in 1..N : Reads(f[n - 1], entries[n], f[n])
    BY <2>0, ReadsOn
  <2> DEFINE T == {n \in 0..N : Labels(f[n])}
  <2>2. 0 \in T
    BY <2>0, <2>1
  <2>3. \A n \in 0..N : n \in T /\ n < N => n + 1 \in T
    <3> SUFFICES ASSUME NEW n \in 0..N, Labels(f[n]), n < N PROVE Labels(f[n + 1])
      BY <2>0
    <3>1. n + 1 \in 1..N /\ n + 1 - 1 = n
      BY <2>0
    <3>2. Reads(f[n + 1 - 1], entries[n + 1], f[n + 1])
      BY <2>1, <3>1
    <3>3. Reads(f[n], entries[n + 1], f[n + 1]) /\ entries[n + 1] \in Range(log[1])
      BY <2>0, <3>1, <3>2
    <3> QED BY <3>3, ReadLabels
  <2>4. N \in T
    <3> HIDE DEF T
    <3>1. 0..N \subseteq T
      BY <2>0, <2>2, <2>3, UpTo
    <3> QED BY <2>0, <3>1
  <2> QED BY <2>1, <2>4
<1> QED BY <1>1, <1>2

\* How far is read once the first k entries have been gone through.
Reached(n, k) == IF n <= k THEN k ELSE n

LEMMA ReadInOrder ==
  ASSUME NEW L \in Seq(EntryRec), Neat(L), NEW n \in Nat, NEW k \in Nat, k < Len(L), NEW s, NEW q,
         ReadTo(s, L, Reached(n, k)), Reads(s, L[k + 1], q)
  PROVE  ReadTo(q, L, Reached(n, k + 1))
<1> DEFINE N == Len(L)
           e == L[k + 1]
<1>0. /\ N \in Nat /\ k + 1 \in 1..N /\ e \in EntryRec /\ s \in StateRec /\ q \in StateRec
      /\ Attends(s, e, q) /\ Notes(s, e, q)
  BY DEF Reads
<1>1. /\ q.w.seen = s.w.seen \cup {Key(e)}
      /\ q.w.stops = IF e.kind = "final" THEN s.w.stops \cup {Key(e)} ELSE s.w.stops
  BY <1>0 DEF Notes
<1>2. /\ s.tool \in BOOLEAN /\ q.tool \in BOOLEAN
  BY <1>0 DEF StateRec
<1>3. CASE k < n
  <2>1. Reached(n, k) = n /\ Reached(n, k + 1) = n /\ n <= N /\ k + 1 \in 1..n
    BY <1>3 DEF Reached, ReadTo
  <2>2. Key(e) \in s.w.seen /\ (e.kind = "final" => Key(e) \in s.w.stops)
    BY <2>1 DEF ReadTo
  <2>3. ~Changed(s, e)
    BY <2>2 DEF Changed
  <2>4. q.tool = s.tool /\ q.skipped = s.skipped
    BY <1>0, <2>3 DEF Attends, Ignores
  <2>5. q.w.stops = s.w.stops /\ s.w.seen \subseteq q.w.seen
    BY <1>1, <2>2
  <2> HIDE DEF e, Key
  <2> QED BY <2>1, <2>4, <2>5 DEF ReadTo
<1>4. CASE n <= k
  <2>1. Reached(n, k) = k /\ Reached(n, k + 1) = k + 1
    BY <1>4 DEF Reached
  <2>2. /\ k = 0 \/ L[k].kind = "final" => ~s.tool
        /\ \A i \in 1..k : Key(L[i]) \in s.w.seen /\ (L[i].kind = "final" => Key(L[i]) \in s.w.stops)
        /\ \A i \in 1..N : L[i].kind = "final" /\ Key(L[i]) \in s.w.stops => i <= k
        /\ \A x \in s.skipped : x.kind # "user"
    BY <2>1 DEF ReadTo
  <2>3. e.kind = "final" => ~q.tool
    <3> SUFFICES ASSUME e.kind = "final" PROVE ~q.tool
      OBVIOUS
    <3>1. Key(e) \notin s.w.stops
      BY <1>0, <2>2
    <3>2. Changed(s, e) /\ ~ByUser(e)
      BY <3>1 DEF Changed, ByUser
    <3> QED BY <1>0, <3>2 DEF Attends, Stores
  <2>4. \A x \in q.skipped : x.kind # "user"
    <3>1. CASE q.skipped = s.skipped
      BY <2>2, <3>1
    <3>2. CASE s.tool /\ q.skipped = s.skipped \cup {e}
      <4>1. ~(k = 0 \/ L[k].kind = "final")
        BY <2>2, <3>2
      <4>2. k + 1 = 1 \/ L[k + 1 - 1].kind = "final" <=> k = 0 \/ L[k].kind = "final"
        OBVIOUS
      <4>3. e.kind # "user"
        BY <1>0, <4>1, <4>2 DEF Neat
      <4> HIDE DEF e
      <4> QED BY <2>2, <3>2, <4>3
    <3> QED BY <1>0, <3>1, <3>2 DEF Attends, Stores
  <2>5. \A i \in 1..k + 1 : i \in 1..k \/ i = k + 1
    OBVIOUS
  <2>6. \A i \in 1..k + 1 : Key(L[i]) \in q.w.seen /\ (L[i].kind = "final" => Key(L[i]) \in q.w.stops)
    <3> HIDE DEF Key
    <3> QED BY <1>1, <2>2, <2>5
  <2>7. ASSUME NEW i \in 1..N, L[i].kind = "final", Key(L[i]) \in q.w.stops PROVE i <= k + 1
    <3>1. CASE Key(L[i]) \in s.w.stops
      BY <2>2, <2>7, <3>1
    <3>2. CASE Key(L[i]) \notin s.w.stops
      <4>1. e.kind = "final" /\ Key(L[i]) = Key(e)
        BY <1>1, <2>7, <3>2
      <4>2. L[i].of = e.of /\ L[i] \in EntryRec
        BY <4>1, KeyParts
      <4>3. L[i] = e
        BY <1>0, <2>7, <4>1, <4>2, EntryIs
      <4>4. i = k + 1
        BY <1>0, <2>7, <4>3 DEF Neat
      <4> QED BY <4>4
    <3> QED BY <3>1, <3>2
  <2>8. k + 1 \in 0..N /\ k + 1 # 0
    BY <1>0
  <2> QED BY <2>1, <2>3, <2>4, <2>6, <2>7, <2>8 DEF ReadTo
<1> QED BY <1>3, <1>4

LEMMA ReadsInOrder ==
  ASSUME NEW s \in StateRec, NEW L \in Seq(EntryRec), NEW n \in Nat, Neat(L), ReadTo(s, L, n),
         NEW t \in Read(s, L)
  PROVE  ReadTo(t, L, Len(L))
<1> DEFINE N == Len(L)
<1>0. N \in Nat /\ n <= N
  BY DEF ReadTo
<1>1. PICK f : /\ f[0] = s /\ t = f[N] /\ \A k \in 0..N : f[k] \in StateRec
               /\ \A k \in 1..N : Reads(f[k - 1], L[k], f[k])
  BY ReadsOn
<1> DEFINE T == {k \in 0..N : ReadTo(f[k], L, Reached(n, k))}
<1>2. 0 \in T
  <2>1. Reached(n, 0) = n
    BY DEF Reached
  <2> QED BY <1>0, <1>1, <2>1
<1>3. \A k \in 0..N : k \in T /\ k < N => k + 1 \in T
  <2> SUFFICES ASSUME NEW k \in 0..N, ReadTo(f[k], L, Reached(n, k)), k < N
               PROVE  ReadTo(f[k + 1], L, Reached(n, k + 1))
    BY <1>0
  <2>1. k + 1 \in 1..N /\ k + 1 - 1 = k /\ k \in Nat
    BY <1>0
  <2>2. Reads(f[k + 1 - 1], L[k + 1], f[k + 1])
    BY <1>1, <2>1
  <2>3. Reads(f[k], L[k + 1], f[k + 1])
    BY <2>1, <2>2
  <2> QED BY <2>1, <2>3, ReadInOrder
<1>4. N \in T
  <2> HIDE DEF T
  <2>1. 0..N \subseteq T
    BY <1>0, <1>2, <1>3, UpTo
  <2> QED BY <1>0, <2>1
<1>5. Reached(n, N) = N
  BY <1>0 DEF Reached
<1> QED BY <1>1, <1>4, <1>5

-----------------------------------------------------------------------------
(* The watcher reads. *)

LEMMA CurrentFields ==
  /\ Current.w = watcher /\ Current.tool = tool /\ Current.ids = ids /\ Current.stored = stored
  /\ Current.pushed = pushed /\ Current.isSet = isSet /\ Current.done = done
  /\ Current.skipped = skipped /\ Current.events = events
BY DEF Current

LEMMA CurrentTypes ==
  Current \in StateRec <=>
    /\ watcher \in WatcherRec /\ tool \in BOOLEAN /\ ids \in Seq(Web) /\ stored \in SUBSET KeySet
    /\ pushed \in Seq(Pushes) /\ isSet \in BOOLEAN /\ done \in Web \cup {0}
    /\ skipped \in SUBSET EntryRec /\ events \in SUBSET EntryRec
BY DEF Current, StateRec

LEMMA NoWatcherType ==
  /\ NoWatcher \in WatcherRec /\ NoWatcher.on = FALSE /\ NoWatcher.file = 0
  /\ NoWatcher.others = {} /\ NoWatcher.stops = {} /\ NoWatcher.fired = {} /\ NoWatcher.seen = {}
  /\ NoWatcher.read[1] = 0
<1>1. [f \in Files |-> 0] \in [Files -> Nat] /\ 1 \in Files
  BY DEF Files
<1> QED BY <1>1 DEF NoWatcher, WatcherRec

\* The state after reading: what the callbacks changed, and what was read.
WatcherAfter(s) ==
  [s.w EXCEPT !.initial = TRUE,
              !.read = [f \in Files |-> IF f \in Followed THEN Len(log[f]) ELSE @[f]]]

LEMMA ReadSafe ==
  ASSUME ObserverInv, NEW s \in Read(Current, Scanned(watcher))
  PROVE  /\ ReadOf(Current, Written, s)
         /\ ~strayed => Labels(s)
         /\ faults = 0 => ReadTo(s, log[1], IF watcher.file = 1 THEN Len(log[1]) ELSE watcher.read[1])
<1> DEFINE entries == Scanned(watcher)
<1>0. /\ TypeInv /\ LogInv /\ Current \in StateRec /\ log \in Logs /\ watcher \in WatcherRec
      /\ WatchInv
  BY CurrentTypes DEF ObserverInv, TypeInv, Steady
<1>1. /\ entries \in Seq(Written) /\ Written \in SUBSET EntryRec
      /\ watcher.others = {} => entries = IF watcher.file = 0 THEN <<>> ELSE log[watcher.file]
  BY <1>0, ScannedWritten, LogOne
<1> HIDE DEF entries
<1>2. entries \in Seq(EntryRec) /\ \A i \in 1..Len(entries) : entries[i] \in Written
  BY <1>1
<1>3. ReadOf(Current, Written, s)
  <2>1. ReadOf(Current, {entries[i] : i \in 1..Len(entries)}, s)
    BY <1>0, <1>2, ReadsAll DEF entries
  <2> QED BY <1>2, <2>1 DEF ReadOf
<1>4. ASSUME ~strayed PROVE Labels(s)
  <2>1. entries \in {<<>>, log[1]}
    BY <1>0, <1>1, <1>4 DEF WatchInv
  <2>2. Labels(Current)
    BY <1>4 DEF ObserverInv, LabelInv
  <2> QED BY <1>0, <2>1, <2>2, ReadsLabels DEF entries
<1>5. ASSUME faults = 0
      PROVE  ReadTo(s, log[1], IF watcher.file = 1 THEN Len(log[1]) ELSE watcher.read[1])
  <2>0. /\ Neat(log[1]) /\ ReadTo(Current, log[1], watcher.read[1]) /\ log[1] \in Seq(EntryRec)
        /\ watcher.file \in {0, 1} /\ watcher.others = {}
    BY <1>0, <1>5, LogOne DEF ObserverInv, OrderInv, WatchInv
  <2>1. CASE watcher.file = 0
    <3>1. s = Current
      BY <1>1, <2>0, <2>1, ReadNothing DEF entries
    <3> QED BY <2>0, <2>1, <3>1
  <2>2. CASE watcher.file = 1
    <3>1. entries = log[1] /\ watcher.read[1] \in Nat
      BY <1>1, <2>0, <2>2 DEF ReadTo
    <3>2. s \in Read(Current, log[1])
      BY <3>1 DEF entries
    <3> QED BY <1>0, <2>0, <2>2, <3>1, <3>2, ReadsInOrder
  <2> QED BY <2>0, <2>1, <2>2
<1> QED BY <1>3, <1>4, <1>5

LEMMA CallbacksFields ==
  ASSUME NEW s, Callbacks(s)
  PROVE  /\ tool' = s.tool /\ ids' = s.ids /\ stored' = s.stored /\ pushed' = s.pushed
         /\ isSet' = s.isSet /\ skipped' = s.skipped /\ events' = s.events
BY DEF Callbacks

LEMMA LogLeft ==
  ASSUME LogInv, UNCHANGED <<log, typed, busy, pc>>
  PROVE  LogInv'
<1>1. Written' = Written
  BY DEF Written
<1> QED BY <1>1 DEF LogInv, Unwritten

LEMMA LabelsLeft ==
  ASSUME NEW s, Labels(s), UNCHANGED <<log, typed, pc>>,
         ids' = s.ids, stored' = s.stored, pushed' = s.pushed
  PROVE  Labels(Current)'
<1>1. /\ Current'.ids = s.ids /\ Current'.stored = s.stored /\ Current'.pushed = s.pushed
  BY DEF Current
<1> QED BY <1>1 DEF Labels, AloneOnItsWay, OnItsWay, Labelled

LEMMA StoredKept ==
  ASSUME NEW s, ReadOf(Current, Written, s), KeptInv, Callbacks(s), UNCHANGED log
  PROVE  /\ (\A k \in stored : \E e \in Written : k = Key(e))'
         /\ OncePushed(Current)'
         /\ \A k \in s.w.stops : \E e \in Written : e.kind = "final" /\ k = Key(e)
<1>1. Written' = Written /\ Current'.pushed = s.pushed /\ Current'.stored = s.stored
  BY CallbacksFields DEF Written, Current
<1>2. OncePushed(s)
  BY DEF KeptInv, ReadOf
<1>3. OncePushed(Current)'
  BY <1>1, <1>2 DEF OncePushed
<1> HIDE DEF Key
<1>4. (\A k \in stored : \E e \in Written : k = Key(e))'
  BY <1>1, CallbacksFields, CurrentFields DEF KeptInv, ReadOf, Key
<1>5. \A k \in s.w.stops : \E e \in Written : e.kind = "final" /\ k = Key(e)
  BY CurrentFields DEF KeptInv, ReadOf
<1> QED BY <1>3, <1>4, <1>5

LEMMA SyncSafe == ObserverInv /\ Sync => ObserverInv'
<1> SUFFICES ASSUME ObserverInv, Sync PROVE ObserverInv'
  OBVIOUS
<1>0. /\ TypeInv /\ LogInv /\ KeptInv /\ WatchInv /\ OrderInv /\ LabelInv /\ TurnInv /\ Steady
      /\ watcher.on /\ watcher \in WatcherRec
  BY CurrentTypes DEF ObserverInv, TypeInv, Sync
<1>1. /\ log' = log /\ conv' = conv /\ typed' = typed /\ busy' = busy /\ stage' = stage
      /\ done' = done /\ strayed' = strayed /\ pc' = pc /\ faults' = faults
  BY DEF Sync, cliVars
<1>2. PICK s \in Read(Current, Scanned(watcher)) :
        /\ Callbacks(s) /\ watcher' = WatcherAfter(s)
        /\ early' = early \cup {m \in Web : <<m, "answer">> \in s.w.fired \ watcher.fired
                                         /\ (m # done \/ ~watcher.initial)}
        /\ excused' = excused \cup
             IF \E e \in s.events \ events : e.kind = "null" \/ e \in Old
             THEN {done} \cap Web ELSE {}
  BY DEF Sync, SyncOnce, WatcherAfter
<1>3. /\ ReadOf(Current, Written, s) /\ (~strayed => Labels(s))
      /\ faults = 0 => ReadTo(s, log[1], IF watcher.file = 1 THEN Len(log[1]) ELSE watcher.read[1])
  BY <1>2, ReadSafe
<1>4. /\ s \in StateRec /\ s.w \in WatcherRec /\ Follows(Current, s)
  BY <1>3 DEF ReadOf, StateRec
<1>5. /\ tool' = s.tool /\ ids' = s.ids /\ stored' = s.stored /\ pushed' = s.pushed
      /\ isSet' = s.isSet /\ skipped' = s.skipped /\ events' = s.events
  BY <1>2, CallbacksFields
<1>6. /\ s.w.on = watcher.on /\ s.w.file = watcher.file /\ s.w.others = watcher.others
      /\ s.w.read = watcher.read /\ s.w.initial = watcher.initial /\ s.done = done
  BY <1>4, CurrentFields DEF Follows
<1>7. /\ watcher' \in WatcherRec /\ watcher'.on = s.w.on /\ watcher'.file = s.w.file
      /\ watcher'.others = s.w.others /\ watcher'.seen = s.w.seen /\ watcher'.stops = s.w.stops
      /\ watcher'.fired = s.w.fired
      /\ watcher'.read[1] = IF 1 \in Followed THEN Len(log[1]) ELSE s.w.read[1]
  <2> DEFINE r == [f \in Files |-> IF f \in Followed THEN Len(log[f]) ELSE s.w.read[f]]
  <2>1. watcher' = [s.w EXCEPT !.initial = TRUE, !.read = r]
    BY <1>2 DEF WatcherAfter
  <2>2. \A f \in Files : Len(log[f]) \in Nat /\ s.w.read[f] \in Nat
    BY <1>0, <1>4 DEF Steady, Logs, WatcherRec
  <2>3. r \in [Files -> Nat] /\ r[1] = IF 1 \in Followed THEN Len(log[1]) ELSE s.w.read[1]
    BY <2>2 DEF Files
  <2>4. TRUE \in BOOLEAN
    OBVIOUS
  <2> HIDE DEF r
  <2> QED BY <1>4, <2>1, <2>3, <2>4 DEF WatcherRec
<1>8. TypeInv'
  <2>1. Current' \in StateRec
    <3>1. /\ watcher' \in WatcherRec /\ tool' \in BOOLEAN /\ ids' \in Seq(Web)
          /\ stored' \in SUBSET KeySet /\ pushed' \in Seq(Pushes) /\ isSet' \in BOOLEAN
          /\ done' \in Web \cup {0} /\ skipped' \in SUBSET EntryRec /\ events' \in SUBSET EntryRec
      BY <1>1, <1>4, <1>5, <1>6, <1>7 DEF StateRec
    <3> QED BY <3>1 DEF Current, StateRec
  <2>2. Steady'
    BY <1>0, <1>1, <1>2 DEF Steady
  <2> QED BY <2>1, <2>2 DEF TypeInv
<1>9. LogInv'
  BY <1>0, <1>1, LogLeft
<1>10. KeptInv'
  <2>1. (\A k \in watcher.stops : \E e \in Written : e.kind = "final" /\ k = Key(e))'
    <3>1. Written' = Written
      BY <1>1 DEF Written
    <3> QED BY <1>0, <1>1, <1>2, <1>3, <1>7, <3>1, StoredKept
  <2> QED BY <1>0, <1>1, <1>2, <1>3, <2>1, StoredKept DEF KeptInv
<1>11. WatchInv'
  BY <1>0, <1>1, <1>6, <1>7 DEF WatchInv
<1>12. OrderInv'
  <2> SUFFICES ASSUME faults = 0 PROVE Neat(log[1])' /\ ReadTo(Current, log[1], watcher.read[1])'
    BY <1>1 DEF OrderInv
  <2>1. Neat(log[1])'
    BY <1>0, <1>1 DEF OrderInv, Neat
  <2>2. watcher'.read[1] = IF watcher.file = 1 THEN Len(log[1]) ELSE watcher.read[1]
    <3>1. watcher.file \in {0, 1} /\ watcher.others = {}
      BY <1>0 DEF WatchInv
    <3>2. 1 \in Followed <=> watcher.file = 1
      BY <3>1 DEF Followed
    <3> QED BY <1>6, <1>7, <3>2
  <2>3. /\ Current'.tool = s.tool /\ Current'.w.seen = s.w.seen /\ Current'.w.stops = s.w.stops
        /\ Current'.skipped = s.skipped
    BY <1>5, <1>7 DEF Current
  <2>4. ReadTo(s, log[1], watcher'.read[1])
    BY <1>3, <2>2
  <2> QED BY <1>1, <2>1, <2>3, <2>4 DEF ReadTo
<1>13. LabelInv'
  BY <1>1, <1>3, <1>5, LabelsLeft DEF LabelInv
<1>14. TurnInv'
  <2>1. Written' = Written /\ Active' = Active
    BY <1>1 DEF Written, Active
  <2>2. excused \subseteq excused'
    BY <1>2
  <2>3. /\ stored \subseteq stored' /\ watcher.fired \subseteq watcher'.fired
        /\ \A k \in stored' \ stored :
             \E e \in Written : k = Key(e) /\ (Answer(e) => k \in watcher'.fired)
        /\ \A e \in events' \ events : /\ e \in Written /\ Unfired(Current, e)
                                       /\ Key(e) \in watcher'.fired
        /\ isSet' => isSet \/ (done # 0 /\ \E e \in events' : e \in Written /\ Unfired(Current, e))
    BY <1>3, <1>5, <1>7, CurrentFields DEF ReadOf
  <2>4. \A e : Unfired(Current, e) <=> Answer(e) /\ Key(e) \notin watcher.fired
    BY CurrentFields DEF Unfired
  <2>5. (Web \subseteq excused \/ Signalled)'
    <3> SUFFICES ASSUME Signalled PROVE Signalled'
      BY <1>0, <2>2 DEF TurnInv
    <3>1. \A e \in events' : Key(e) \in watcher'.fired
      BY <2>3 DEF Signalled
    <3>2. \A k \in stored' : k[2] = "answer" => k \in watcher'.fired
      <4> SUFFICES ASSUME NEW k \in stored', k[2] = "answer" PROVE k \in watcher'.fired
        OBVIOUS
      <4>1. CASE k \in stored
        BY <2>3, <4>1 DEF Signalled
      <4>2. CASE k \notin stored
        <5>1. PICK e \in Written : k = Key(e) /\ (Answer(e) => k \in watcher'.fired)
          BY <2>3, <4>2
        <5>2. e.kind \in Kinds
          BY <1>0, LogOne DEF EntryRec
        <5>3. Answer(e)
          BY <5>1, <5>2, KeyParts DEF Kinds, Answer
        <5> QED BY <5>1, <5>3
      <4> QED BY <4>1, <4>2
    <3> QED BY <3>1, <3>2 DEF Signalled
  <2>6. ASSUME NEW m \in Active \ excused' PROVE Alone(m)'
    <3>1. m \in Active \ excused /\ Alone(m) /\ m \in Web
      BY <1>0, <2>2, <2>6 DEF TurnInv, Active
    <3>2. /\ \A x \in Range(typed) : x = m
          /\ busy \in {0, m}
          /\ \A e \in Written : Answer(e) /\ Key(e) \notin watcher.fired => e.of \in {0, m}
          /\ isSet /\ done = m => Answered(m)
      BY <3>1 DEF Alone
    <3>3. Web \subseteq excused => FALSE
      BY <3>1
    <3>4. Signalled
      BY <1>0, <3>3 DEF TurnInv
    <3>5. ASSUME isSet', done = m, ~isSet PROVE Answered(m)
      <4>1. PICK e \in events' : e \in Written /\ Unfired(Current, e)
        BY <2>3, <3>5
      <4>2. Key(e) \notin watcher.fired /\ Answer(e) /\ e.of \in {0, m}
        BY <2>4, <3>2, <4>1
      <4>3. e \notin events
        BY <3>4, <4>2 DEF Signalled
      <4>4. ~(e.kind = "null" \/ e \in Old)
        BY <1>2, <1>5, <2>6, <3>1, <3>5, <4>1, <4>3
      <4>5. e.kind = "final" /\ e \in EntryRec
        BY <1>0, <4>1, <4>2, <4>4, LogOne DEF Answer
      <4>6. e = Entry(e.of, "final")
        BY <4>5, EntryIs
      <4>7. e.of = m
        BY <4>2, <4>4, <4>6 DEF Old
      <4> QED BY <4>1, <4>6, <4>7 DEF Answered
    <3>6. Answered(m)' <=> Answered(m)
      BY <2>1 DEF Answered
    <3> QED BY <1>1, <2>1, <2>3, <3>2, <3>5, <3>6 DEF Alone
  <2>7. \A m \in Web : Answered(m)' <=> Answered(m)
    BY <2>1 DEF Answered
  <2> QED BY <1>0, <1>1, <2>1, <2>2, <2>5, <2>6, <2>7 DEF TurnInv
<1> QED
  BY <1>8, <1>9, <1>10, <1>11, <1>12, <1>13, <1>14 DEF ObserverInv

LEMMA StopWatcherSafe == ObserverInv /\ StopWatcher => ObserverInv'
<1> SUFFICES ASSUME ObserverInv, StopWatcher PROVE ObserverInv'
  OBVIOUS
<1>0. /\ TypeInv /\ LogInv /\ KeptInv /\ WatchInv /\ OrderInv /\ LabelInv /\ TurnInv /\ Steady
  BY DEF ObserverInv, TypeInv
<1>1. /\ log' = log /\ conv' = conv /\ typed' = typed /\ busy' = busy /\ stage' = stage
      /\ done' = done /\ strayed' = strayed /\ pc' = pc /\ faults' = faults + 1
      /\ faults < MaxFaults /\ watcher' = NoWatcher /\ early' = early \cup Web
      /\ excused' = excused \cup Web
  BY DEF StopWatcher, cliVars, Disturb
<1>2. PICK s \in Read(Current, Scanned(watcher)) : Callbacks(s)
  BY DEF StopWatcher
<1>3. ReadOf(Current, Written, s) /\ (~strayed => Labels(s))
  BY <1>2, ReadSafe
<1>4. s \in StateRec /\ Follows(Current, s)
  BY <1>3 DEF ReadOf
<1>5. /\ tool' = s.tool /\ ids' = s.ids /\ stored' = s.stored /\ pushed' = s.pushed
      /\ isSet' = s.isSet /\ skipped' = s.skipped /\ events' = s.events
  BY <1>2, CallbacksFields
<1>6. TypeInv'
  <2>1. Current' \in StateRec
    <3>1. /\ watcher' \in WatcherRec /\ tool' \in BOOLEAN /\ ids' \in Seq(Web)
          /\ stored' \in SUBSET KeySet /\ pushed' \in Seq(Pushes) /\ isSet' \in BOOLEAN
          /\ done' \in Web \cup {0} /\ skipped' \in SUBSET EntryRec /\ events' \in SUBSET EntryRec
      BY <1>1, <1>4, <1>5, CurrentFields, NoWatcherType DEF StateRec, Follows
    <3> QED BY <3>1 DEF Current, StateRec
  <2>2. Steady'
    BY <1>0, <1>1, ObserverAssumption DEF Steady
  <2> QED BY <2>1, <2>2 DEF TypeInv
<1>7. LogInv'
  BY <1>0, <1>1, LogLeft
<1>8. KeptInv'
  BY <1>0, <1>1, <1>2, <1>3, StoredKept, NoWatcherType DEF KeptInv
<1>9. WatchInv' /\ OrderInv'
  <2>1. faults' # 0
    BY <1>0, <1>1, ObserverAssumption DEF Steady
  <2>2. WatchInv'
    BY <1>0, <1>1, <2>1, NoWatcherType DEF WatchInv
  <2> QED BY <2>1, <2>2 DEF OrderInv
<1>10. LabelInv'
  BY <1>1, <1>3, <1>5, LabelsLeft DEF LabelInv
<1>11. TurnInv'
  <2>1. Active' = Active /\ Active \subseteq Web /\ excused' = Web
    BY <1>0, <1>1 DEF Active, Steady
  <2> QED BY <1>0, <1>1, <2>1 DEF TurnInv
<1> QED BY <1>6, <1>7, <1>8, <1>9, <1>10, <1>11 DEF ObserverInv

-----------------------------------------------------------------------------
(* The terminal writes. *)

LEMMA AdapterLeft == UNCHANGED adapterVars => Current' = Current
BY DEF adapterVars, Current

LEMMA WriteWrites ==
  ASSUME TypeInv, NEW e \in EntryRec, Write(e)
  PROVE  /\ log' \in Logs /\ Written' = Written \cup {e}
         /\ IF conv = 1 THEN log'[1] = Append(log[1], e) ELSE log'[1] = log[1]
         /\ Range(log'[1]) = Range(log[1]) \cup IF conv = 1 THEN {e} ELSE {}
<1>0. log \in Logs /\ conv \in Files /\ Files = {1, 2}
  BY DEF TypeInv, Steady, Files
<1>1. /\ log[1] \in Seq(EntryRec) /\ log[2] \in Seq(EntryRec)
  BY <1>0 DEF Logs
<1>2. /\ log' = [f \in Files |-> IF f = conv THEN Append(log[f], e) ELSE log[f]]
  BY <1>0 DEF Write, Logs
<1>3. log' \in Logs
  <2>1. \A f \in Files : Append(log[f], e) \in Seq(EntryRec) /\ log[f] \in Seq(EntryRec)
    BY <1>0, <1>1
  <2> QED BY <1>2, <2>1 DEF Logs
<1>4. ASSUME NEW s \in Seq(EntryRec) PROVE Range(Append(s, e)) = Range(s) \cup {e}
  <2>1. /\ DOMAIN Append(s, e) = 1..Len(s) + 1 /\ DOMAIN s = 1..Len(s) /\ Len(s) \in Nat
        /\ \A i \in 1..Len(s) : Append(s, e)[i] = s[i]
        /\ Append(s, e)[Len(s) + 1] = e
    OBVIOUS
  <2>2. \A i \in 1..Len(s) + 1 : i \in 1..Len(s) \/ i = Len(s) + 1
    BY <2>1
  <2>3. Len(s) + 1 \in 1..Len(s) + 1 /\ \A i \in 1..Len(s) : i \in 1..Len(s) + 1
    BY <2>1
  <2> QED BY <2>1, <2>2, <2>3 DEF Range
<1>5. \A f \in Files : Range(log'[f]) = Range(log[f]) \cup IF f = conv THEN {e} ELSE {}
  BY <1>0, <1>1, <1>2, <1>4
<1>6. Written' = Written \cup {e}
  BY <1>0, <1>5 DEF Written
<1> QED BY <1>0, <1>2, <1>3, <1>5, <1>6

LEMMA KeptGrows ==
  ASSUME KeptInv, Written \subseteq Written', UNCHANGED adapterVars
  PROVE  KeptInv'
<1>1. Current' = Current /\ stored' = stored /\ watcher' = watcher
  BY AdapterLeft DEF adapterVars
<1>2. OncePushed(Current)'
  BY <1>1 DEF KeptInv, OncePushed
<1> QED BY <1>1, <1>2 DEF KeptInv, Key

LEMMA WatchLeft ==
  ASSUME WatchInv, UNCHANGED <<watcher, conv>>, faults' = 0 => faults = 0, ~strayed' => ~strayed
  PROVE  WatchInv'
BY DEF WatchInv, NoWatcher

\* The log of the first conversation grows by e.
LEMMA OrderGrows ==
  ASSUME ObserverInv, NEW e \in EntryRec, Write(e), UNCHANGED <<adapterVars, faults>>,
         e.kind = "final" => e \notin Written,
         busy' = 0 => e.kind = "final",
         e.kind = "user" => busy = 0
  PROVE  OrderInv'
<1> SUFFICES ASSUME faults = 0 PROVE Neat(log[1])' /\ ReadTo(Current, log[1], watcher.read[1])'
  BY DEF OrderInv
<1> DEFINE L == log[1]
           N == Len(L)
           M == log'[1]
           n == watcher.read[1]
<1>0. /\ TypeInv /\ WatchInv /\ KeptInv /\ Neat(L) /\ ReadTo(Current, L, n)
  BY DEF ObserverInv, OrderInv
<1>1. conv = 1
  BY <1>0 DEF WatchInv
<1>2. M = Append(L, e) /\ L \in Seq(EntryRec) /\ N \in Nat /\ Range(L) \subseteq Written
  BY <1>0, <1>1, WriteWrites, LogOne
<1>3. \A i \in 1..N : L[i] \in Written /\ L[i] \in EntryRec
  BY <1>0, LogOne
<1>4. /\ Len(M) = N + 1 /\ M[N + 1] = e /\ \A i \in 1..N : M[i] = L[i]
      /\ \A i \in 1..N + 1 : i \in 1..N \/ i = N + 1
  BY <1>2
<1>5. /\ Current' = Current /\ watcher' = watcher /\ log'[1] = M /\ Current.w = watcher
  BY AdapterLeft, CurrentFields DEF adapterVars
<1>6. /\ \A i \in 1..N : L[i].kind = "user" => i = 1 \/ L[i - 1].kind = "final"
      /\ busy = 0 => N = 0 \/ L[N].kind = "final"
      /\ \A i, j \in 1..N : L[i] = L[j] /\ L[i].kind = "final" => i = j
  BY <1>0, <1>2 DEF Neat
<1>7. /\ n \in 0..N
      /\ n = 0 \/ L[n].kind = "final" => ~Current.tool
      /\ \A i \in 1..n : /\ Key(L[i]) \in watcher.seen
                         /\ L[i].kind = "final" => Key(L[i]) \in watcher.stops
      /\ \A i \in 1..N : L[i].kind = "final" /\ Key(L[i]) \in watcher.stops => i <= n
      /\ \A x \in Current.skipped : x.kind # "user"
  BY <1>0, <1>5 DEF ReadTo
<1> HIDE DEF L, N, M, n
<1>8. /\ \A i \in 1..Len(M) : M[i].kind = "user" => i = 1 \/ M[i - 1].kind = "final"
      /\ busy' = 0 => M = <<>> \/ M[Len(M)].kind = "final"
      /\ \A i, j \in 1..Len(M) : M[i] = M[j] /\ M[i].kind = "final" => i = j
  <2>1. \A i \in 1..N + 1 : M[i].kind = "user" => i = 1 \/ M[i - 1].kind = "final"
    <3> SUFFICES ASSUME NEW i \in 1..N + 1, M[i].kind = "user", i # 1
                 PROVE  M[i - 1].kind = "final"
      OBVIOUS
    <3>1. i - 1 \in 1..N /\ M[i - 1] = L[i - 1]
      BY <1>2, <1>4
    <3>2. CASE i \in 1..N
      BY <1>4, <1>6, <3>1, <3>2
    <3>3. CASE i = N + 1
      <4>1. busy = 0 /\ N # 0 /\ i - 1 = N
        BY <1>2, <1>4, <3>1, <3>3
      <4> QED BY <1>6, <3>1, <4>1
    <3> QED BY <1>4, <3>2, <3>3
  <2>2. busy' = 0 => M[Len(M)].kind = "final"
    BY <1>4
  <2>3. ASSUME NEW i \in 1..N + 1, NEW j \in 1..N + 1, M[i] = M[j], M[i].kind = "final"
        PROVE  i = j
    <3>1. CASE i \in 1..N /\ j \in 1..N
      BY <1>4, <1>6, <2>3, <3>1
    <3>2. CASE i = N + 1 /\ j \in 1..N
      BY <1>3, <1>4, <2>3, <3>2
    <3>3. CASE j = N + 1 /\ i \in 1..N
      BY <1>3, <1>4, <2>3, <3>3
    <3> QED BY <1>4, <3>1, <3>2, <3>3
  <2> QED BY <1>4, <2>1, <2>2, <2>3
<1>9. ReadTo(Current, M, n)
  <2>1. n \in 0..N + 1 /\ (n # 0 => n \in 1..N) /\ \A i \in 1..n : i \in 1..N
    BY <1>2, <1>7
  <2>2. n = 0 \/ M[n].kind = "final" => ~Current.tool
    BY <1>4, <1>7, <2>1
  <2>3. \A i \in 1..n : /\ Key(M[i]) \in watcher.seen
                        /\ M[i].kind = "final" => Key(M[i]) \in watcher.stops
    BY <1>4, <1>7, <2>1
  <2>4. ASSUME NEW i \in 1..N + 1, M[i].kind = "final", Key(M[i]) \in watcher.stops PROVE i <= n
    <3>1. CASE i \in 1..N
      BY <1>4, <1>7, <2>4, <3>1
    <3>2. CASE i = N + 1
      <4>1. e.kind = "final" /\ Key(e) \in watcher.stops
        BY <1>4, <2>4, <3>2
      <4>2. PICK x \in Written : x.kind = "final" /\ Key(x) = Key(e)
        BY <1>0, <4>1 DEF KeptInv
      <4>3. x \in EntryRec
        BY <1>0, LogOne
      <4>4. x.of = e.of
        BY <4>2, KeyParts
      <4>5. x = e
        BY <4>1, <4>2, <4>3, <4>4, EntryIs
      <4> QED BY <4>1, <4>2, <4>5
    <3> QED BY <1>4, <3>1, <3>2
  <2> QED BY <1>4, <1>5, <1>7, <2>1, <2>2, <2>3, <2>4 DEF ReadTo
<1>10. Neat(log[1])'
  BY <1>5, <1>8 DEF Neat
<1>11. ReadTo(Current, log[1], watcher.read[1])'
  BY <1>5, <1>9 DEF n, ReadTo
<1> QED BY <1>10, <1>11

LEMMA SteadyParts ==
  ASSUME ObserverInv
  PROVE  /\ TypeInv /\ LogInv /\ KeptInv /\ WatchInv /\ OrderInv /\ LabelInv /\ TurnInv /\ Steady
         /\ log \in Logs /\ conv \in Files /\ typed \in Seq(Messages) /\ busy \in Messages \cup {0}
         /\ strayed \in BOOLEAN /\ faults \in Nat /\ faults \in 0..MaxFaults /\ MaxFaults \in Nat
         /\ excused \in SUBSET Web /\ Active \subseteq Web /\ Current \in StateRec
         /\ 0 \notin Messages /\ Web \cap Terminal = {} /\ Web \subseteq Messages
  BY ObserverAssumption DEF ObserverInv, TypeInv, Steady, Active, Messages

\* What an entry leaves: it is not the user's, and is of the message worked on.
LEMMA WriteSafe ==
  ASSUME ObserverInv, busy # 0, NEW kind \in Kinds \ {"user"}, Write(Entry(busy, kind)),
         busy' \in {busy, 0}, busy' = 0 <=> kind = "final",
         stage' \in {"none", "begun", "tool", "result", "null"},
         UNCHANGED <<conv, typed, adapterVars, ghostVars, pc, faults>>
  PROVE  ObserverInv'
<1> DEFINE e == Entry(busy, kind)
<1>0. /\ TypeInv /\ LogInv /\ KeptInv /\ WatchInv /\ OrderInv /\ LabelInv /\ TurnInv /\ Steady
      /\ busy \in Messages \cup {0} /\ 0 \notin Messages
  BY SteadyParts
<1>1. e \in EntryRec /\ e.of = busy /\ e.kind = kind /\ \A m : e # Entry(m, "user")
  BY <1>0 DEF Entry, EntryRec
<1>2. /\ conv' = conv /\ typed' = typed /\ pc' = pc /\ faults' = faults /\ Current' = Current
      /\ excused' = excused /\ early' = early /\ strayed' = strayed /\ stored' = stored
      /\ ids' = ids /\ watcher' = watcher /\ isSet' = isSet /\ done' = done /\ events' = events
  BY AdapterLeft DEF adapterVars, ghostVars
<1> HIDE DEF e
<1>3. /\ log' \in Logs /\ Written' = Written \cup {e}
      /\ Range(log'[1]) = Range(log[1]) \cup IF conv = 1 THEN {e} ELSE {}
  BY <1>0, <1>1, WriteWrites DEF e
<1>4. TypeInv'
  BY <1>0, <1>2, <1>3 DEF TypeInv, Steady
<1>5. LogInv'
  <2>1. \A x \in Range(log'[1]) : x.of # 0
    BY <1>0, <1>1, <1>3 DEF LogInv
  <2>2. \A m \in Range(typed) : m # busy' /\ \A x \in Written' : x.of # m
    <3> SUFFICES ASSUME NEW m \in Range(typed) PROVE m # busy' /\ \A x \in Written' : x.of # m
      OBVIOUS
    <3>1. m # 0
      BY <1>0 DEF Range, Steady
    <3> QED BY <1>0, <1>1, <1>3, <3>1 DEF LogInv, Unwritten
  <2>3. \A x \in Written' : x.of # 0 => Entry(x.of, "user") \in Written'
    BY <1>0, <1>1, <1>3 DEF LogInv
  <2>4. busy' # 0 => Entry(busy', "user") \in Written' /\ Entry(busy', "final") \notin Written'
    <3>1. busy' # 0 => e # Entry(busy, "final")
      BY <1>1 DEF Entry
    <3> QED BY <1>0, <1>3, <3>1 DEF LogInv
  <2>5. \A m \in Web : pc[m] \in {"new", "sending"} =>
          m \notin Range(typed) /\ m # busy' /\ \A x \in Written' : x.of # m
    <3>1. \A m \in Web : m # 0
      BY <1>0 DEF Messages
    <3> QED BY <1>0, <1>1, <1>3, <3>1 DEF LogInv, Unwritten
  <2> QED BY <1>0, <1>2, <2>1, <2>2, <2>3, <2>4, <2>5 DEF LogInv, Unwritten
<1>6. KeptInv'
  BY <1>0, <1>3, KeptGrows
<1>7. WatchInv'
  BY <1>0, <1>2, WatchLeft
<1>8. OrderInv'
  <2>1. e.kind = "final" => e \notin Written
    BY <1>0, <1>1 DEF LogInv, e
  <2> QED BY <1>1, <2>1, OrderGrows DEF e
<1>9. LabelInv'
  <2> SUFFICES ASSUME ~strayed PROVE Labels(Current)'
    BY <1>2 DEF LabelInv
  <2>1. Labels(Current)
    BY <1>0 DEF LabelInv
  <2>2. /\ \A m : Entry(m, "user") \in Range(log'[1]) <=> Entry(m, "user") \in Range(log[1])
        /\ \A x \in Range(log'[1]) : x.kind = "user" => x \in Range(log[1])
    BY <1>1, <1>3
  <2> QED BY <1>2, <2>1, <2>2 DEF Labels, AloneOnItsWay, OnItsWay, Labelled
<1>10. TurnInv'
  <2>1. Active' = Active
    BY <1>2 DEF Active
  <2>2. \A m : Answered(m) => Answered(m)'
    BY <1>3 DEF Answered
  <2>3. Signalled' <=> Signalled
    BY <1>2 DEF Signalled, Key
  <2>4. ASSUME NEW m \in Active \ excused PROVE Alone(m)'
    <3>1. Alone(m)
      BY <1>0, <2>4 DEF TurnInv
    <3> QED BY <1>1, <1>2, <1>3, <2>2, <3>1 DEF Alone, Key, Answer
  <2> QED BY <1>0, <1>2, <2>1, <2>2, <2>3, <2>4 DEF TurnInv
<1> QED BY <1>4, <1>5, <1>6, <1>7, <1>8, <1>9, <1>10 DEF ObserverInv

LEMMA CliSafe == ObserverInv /\ (ToolUse \/ ToolResult \/ Snapshot \/ Final) => ObserverInv'
<1> SUFFICES ASSUME ObserverInv, ToolUse \/ ToolResult \/ Snapshot \/ Final PROVE ObserverInv'
  OBVIOUS
<1>1. ASSUME NEW from, NEW to \in {"none", "tool", "result", "null"},
             NEW kind \in Kinds \ {"user"}, CliWrites(from, to, kind),
             busy' \in {busy, 0}, busy' = 0 <=> busy = 0 \/ kind = "final"
      PROVE  ObserverInv'
  <2>1. /\ busy # 0 /\ Write(Entry(busy, kind)) /\ stage' = to
        /\ UNCHANGED <<conv, typed, adapterVars, ghostVars, pc, faults>>
    BY <1>1 DEF CliWrites
  <2> QED BY <1>1, <2>1, WriteSafe
<1>2. {"tool", "result", "null", "final"} \subseteq Kinds \ {"user"}
  BY DEF Kinds
<1>3. CASE ToolUse
  <2>1. CliWrites({"begun"}, "tool", "tool") /\ busy' = busy
    BY <1>3 DEF ToolUse
  <2> QED BY <1>1, <1>2, <2>1
<1>4. CASE ToolResult
  <2>1. CliWrites({"tool"}, "result", "result") /\ busy' = busy
    BY <1>4 DEF ToolResult
  <2> QED BY <1>1, <1>2, <2>1
<1>5. CASE Snapshot
  <2>1. CliWrites({"begun", "result"}, "null", "null") /\ busy' = busy
    BY <1>5 DEF Snapshot
  <2> QED BY <1>1, <1>2, <2>1
<1>6. CASE Final
  <2>1. CliWrites({"begun", "result", "null"}, "none", "final") /\ busy' = 0
    BY <1>6 DEF Final
  <2> QED BY <1>1, <1>2, <2>1
<1> QED BY <1>3, <1>4, <1>5, <1>6

LEMMA BeginSafe == ObserverInv /\ Begin => ObserverInv'
<1> SUFFICES ASSUME ObserverInv, Begin PROVE ObserverInv'
  OBVIOUS
<1> DEFINE h == Head(typed)
           e == Entry(h, "user")
<1>0. /\ TypeInv /\ LogInv /\ KeptInv /\ WatchInv /\ OrderInv /\ LabelInv /\ TurnInv /\ Steady
      /\ typed \in Seq(Messages) /\ 0 \notin Messages /\ Web \subseteq Messages
  BY SteadyParts
<1>1. /\ busy = 0 /\ typed # <<>> /\ busy' = h /\ typed' = Tail(typed) /\ stage' = "begun"
      /\ Write(e) /\ UNCHANGED <<conv, adapterVars, ghostVars, pc, faults>>
  BY DEF Begin
<1>2. /\ h \in Messages /\ h # 0 /\ typed' \in Seq(Messages) /\ h \in Range(typed)
      /\ Range(typed') \subseteq Range(typed) /\ Range(typed) \subseteq Range(typed') \cup {h}
      /\ \A m \in Range(typed') : m # h
      /\ \A i, j \in 1..Len(typed') : typed'[i] = typed'[j] => i = j
  <2> DEFINE N == Len(typed)
             r == Tail(typed)
  <2>1. N \in Nat /\ N >= 1 /\ h = typed[1] /\ r \in Seq(Messages) /\ DOMAIN typed = 1..N
    BY <1>0, <1>1
  <2>2. Len(r) = N - 1 /\ DOMAIN r = 1..N - 1 /\ \A i \in 1..N - 1 : r[i] = typed[i + 1]
    BY <1>0, <1>1
  <2>3. \A i, j \in 1..N : typed[i] = typed[j] => i = j
    BY <1>0 DEF LogInv
  <2> HIDE DEF N, r, h
  <2>4. /\ \A i \in 1..N - 1 : i + 1 \in 1..N /\ i + 1 # 1
        /\ \A i \in 1..N : i = 1 \/ (i - 1 \in 1..N - 1 /\ i - 1 + 1 = i)
    BY <2>1
  <2>5. h \in Messages /\ h \in Range(typed)
    BY <1>0, <2>1 DEF Range
  <2>6. Range(r) \subseteq Range(typed)
    BY <2>1, <2>2, <2>4 DEF Range
  <2>7. \A m \in Range(r) : m # h
    BY <2>1, <2>2, <2>3, <2>4 DEF Range
  <2>8. Range(typed) \subseteq Range(r) \cup {h}
    <3> SUFFICES ASSUME NEW i \in 1..N PROVE typed[i] \in Range(r) \cup {h}
      BY <2>1 DEF Range
    <3>1. CASE i = 1
      BY <2>1, <3>1
    <3>2. CASE i # 1
      <4>1. i - 1 \in DOMAIN r /\ r[i - 1] = typed[i]
        <5>1. i - 1 \in 1..N - 1 /\ i - 1 + 1 = i
          BY <2>4, <3>2
        <5>2. r[i - 1] = typed[i - 1 + 1]
          BY <2>2, <5>1
        <5> QED BY <2>2, <5>1, <5>2
      <4> QED BY <4>1 DEF Range
    <3> QED BY <3>1, <3>2
  <2>9. \A i, j \in 1..Len(r) : r[i] = r[j] => i = j
    <3> SUFFICES ASSUME NEW i \in 1..N - 1, NEW j \in 1..N - 1, r[i] = r[j] PROVE i = j
      BY <2>2
    <3>1. i + 1 \in 1..N /\ j + 1 \in 1..N /\ typed[i + 1] = typed[j + 1]
      BY <2>2, <2>4
    <3>2. i + 1 = j + 1
      BY <2>3, <3>1
    <3> QED BY <3>2
  <2> QED BY <1>0, <1>1, <2>1, <2>5, <2>6, <2>7, <2>8, <2>9 DEF r
<1>3. e \in EntryRec /\ e.of = h /\ e.kind = "user" /\ \A m : e = Entry(m, "user") <=> m = h
  BY <1>2 DEF Entry, EntryRec, Kinds
<1>4. /\ conv' = conv /\ pc' = pc /\ faults' = faults /\ Current' = Current
      /\ excused' = excused /\ early' = early /\ strayed' = strayed /\ stored' = stored
      /\ ids' = ids /\ watcher' = watcher /\ isSet' = isSet /\ done' = done /\ events' = events
  BY <1>1, AdapterLeft DEF adapterVars, ghostVars
<1>5. Unwritten(h) /\ \A m \in Web : pc[m] \in {"new", "sending"} => m # h
  BY <1>0, <1>2 DEF LogInv
<1> HIDE DEF h, e
<1>6. /\ log' \in Logs /\ Written' = Written \cup {e}
      /\ Range(log'[1]) = Range(log[1]) \cup IF conv = 1 THEN {e} ELSE {}
  BY <1>0, <1>1, <1>3, WriteWrites
<1>7. TypeInv'
  BY <1>0, <1>1, <1>2, <1>4, <1>6 DEF TypeInv, Steady
<1>8. LogInv'
  <2>1. \A x \in Range(log'[1]) : x.of # 0
    BY <1>0, <1>2, <1>3, <1>6 DEF LogInv
  <2>2. \A m \in Range(typed') : m # busy' /\ \A x \in Written' : x.of # m
    BY <1>0, <1>1, <1>2, <1>3, <1>6 DEF LogInv, Unwritten
  <2>3. \A x \in Written' : x.of # 0 => Entry(x.of, "user") \in Written'
    BY <1>0, <1>3, <1>6 DEF LogInv
  <2>4. Entry(busy', "user") \in Written' /\ Entry(busy', "final") \notin Written'
    <3>1. Entry(h, "final").of = h /\ Entry(h, "final").kind = "final"
      BY DEF Entry
    <3> QED BY <1>1, <1>3, <1>5, <1>6, <3>1 DEF Unwritten
  <2>5. \A m \in Web : pc[m] \in {"new", "sending"} =>
          m \notin Range(typed') /\ m # busy' /\ \A x \in Written' : x.of # m
    BY <1>0, <1>1, <1>2, <1>3, <1>5, <1>6 DEF LogInv, Unwritten
  <2> QED BY <1>2, <1>4, <2>1, <2>2, <2>3, <2>4, <2>5 DEF LogInv, Unwritten
<1>9. KeptInv'
  BY <1>0, <1>1, <1>6, KeptGrows
<1>10. WatchInv'
  BY <1>0, <1>4, WatchLeft
<1>11. OrderInv'
  BY <1>1, <1>2, <1>3, OrderGrows
<1>12. LabelInv'
  <2> SUFFICES ASSUME ~strayed PROVE Labels(Current)'
    BY <1>4 DEF LabelInv
  <2>1. Labels(Current) /\ conv = 1
    BY <1>0 DEF LabelInv, WatchInv
  <2>2. Range(log'[1]) = Range(log[1]) \cup {e}
    BY <1>6, <2>1
  <2>3. ASSUME NEW m \in Web, OnItsWay(Current, m)' PROVE OnItsWay(Current, m)
    BY <1>2, <1>3, <1>4, <2>2, <2>3 DEF OnItsWay
  <2>4. ASSUME NEW m \in Web, AloneOnItsWay(Current, m) PROVE AloneOnItsWay(Current, m)'
    <3>1. /\ Current.ids = <<m>> /\ OnItsWay(Current, m) /\ <<m, "user">> \notin Current.stored
          /\ \A x \in Range(typed) : x = m
          /\ \A x \in Range(log[1]) : x.kind = "user" /\ Key(x) \notin Current.stored => x.of = m
      BY <2>4 DEF AloneOnItsWay
    <3>2. h = m /\ e = Entry(m, "user")
      BY <1>2, <1>3, <3>1
    <3>3. OnItsWay(Current, m)'
      BY <1>4, <2>2, <3>1, <3>2 DEF OnItsWay
    <3> QED BY <1>2, <1>3, <1>4, <2>2, <3>1, <3>2, <3>3 DEF AloneOnItsWay
  <2> QED BY <1>4, <2>1, <2>3, <2>4 DEF Labels, Labelled
<1>13. TurnInv'
  <2>1. Active' = Active
    BY <1>4 DEF Active
  <2>2. \A m : Answered(m) => Answered(m)'
    BY <1>6 DEF Answered
  <2>3. Signalled' <=> Signalled
    BY <1>4 DEF Signalled, Key
  <2>4. ASSUME NEW m \in Active \ excused PROVE Alone(m)'
    <3>1. Alone(m)
      BY <1>0, <2>4 DEF TurnInv
    <3>2. ~Answer(e)
      BY <1>3 DEF Answer
    <3> QED BY <1>1, <1>2, <1>4, <1>6, <2>2, <3>1, <3>2 DEF Alone, Key, Answer
  <2> QED BY <1>0, <1>4, <2>1, <2>2, <2>3, <2>4 DEF TurnInv
<1> QED BY <1>7, <1>8, <1>9, <1>10, <1>11, <1>12, <1>13 DEF ObserverInv

-----------------------------------------------------------------------------
(* What a step leaves alone stays as it is. *)

LEMMA LabelLeft ==
  ASSUME LabelInv, UNCHANGED <<log, typed, ids, stored, pushed>>, ~strayed' => ~strayed,
         \A m \in Web : pc'[m] = "sending" <=> pc[m] = "sending"
  PROVE  LabelInv'
<1> SUFFICES ASSUME ~strayed PROVE Labels(Current)'
  BY DEF LabelInv
<1>1. /\ Labels(Current) /\ Current'.ids = Current.ids /\ Current'.stored = Current.stored
      /\ Current'.pushed = Current.pushed
  BY CurrentFields DEF LabelInv, Current
<1> QED BY <1>1 DEF Labels, AloneOnItsWay, OnItsWay, Labelled

LEMMA OrderLeft ==
  ASSUME OrderInv, UNCHANGED <<log, tool, skipped>>, busy' = 0 => busy = 0, faults' = 0 => faults = 0,
         watcher'.read = watcher.read, watcher'.seen = watcher.seen, watcher'.stops = watcher.stops
  PROVE  OrderInv'
<1> SUFFICES ASSUME faults = 0 PROVE Neat(log[1])' /\ ReadTo(Current, log[1], watcher.read[1])'
  BY DEF OrderInv
<1>1. /\ Neat(log[1]) /\ ReadTo(Current, log[1], watcher.read[1])
      /\ Current'.tool = Current.tool /\ Current'.skipped = Current.skipped
      /\ Current'.w.seen = Current.w.seen /\ Current'.w.stops = Current.w.stops
  BY DEF OrderInv, Current
<1>2. Neat(log[1])'
  BY <1>1 DEF Neat
<1>3. ReadTo(Current, log[1], watcher.read[1])'
  BY <1>1 DEF ReadTo
<1> QED BY <1>2, <1>3

LEMMA LogStays ==
  ASSUME LogInv, UNCHANGED <<log, typed>>, busy' \in {busy, 0}, 0 \notin Range(typed), 0 \notin Web,
         \A m \in Web : pc'[m] \in {"new", "sending"} => pc[m] \in {"new", "sending"}
  PROVE  LogInv'
<1>1. Written' = Written
  BY DEF Written
<1> QED BY <1>1 DEF LogInv, Unwritten

LEMMA KeptLeft ==
  ASSUME KeptInv, UNCHANGED <<log, stored, pushed>>, watcher'.stops \subseteq watcher.stops
  PROVE  KeptInv'
<1>1. Written' = Written /\ Current'.pushed = Current.pushed /\ Current'.stored = Current.stored
  BY DEF Written, Current
<1>2. OncePushed(Current)'
  BY <1>1 DEF KeptInv, OncePushed
<1> QED BY <1>1, <1>2 DEF KeptInv, Key

LEMMA TypesGo ==
  ASSUME watcher' \in WatcherRec, tool' \in BOOLEAN, ids' \in Seq(Web), stored' \in SUBSET KeySet,
         pushed' \in Seq(Pushes), isSet' \in BOOLEAN, done' \in Web \cup {0},
         skipped' \in SUBSET EntryRec, events' \in SUBSET EntryRec
  PROVE  Current' \in StateRec
BY DEF Current, StateRec

LEMMA AnswerLeft ==
  ASSUME UNCHANGED log
  PROVE  Written' = Written /\ \A m : Answered(m)' <=> Answered(m)
<1>1. Written' = Written
  BY DEF Written
<1> QED BY <1>1 DEF Answered

LEMMA SignalledLeft ==
  ASSUME UNCHANGED <<events, stored>>, watcher'.fired = watcher.fired
  PROVE  Signalled' <=> Signalled
BY DEF Signalled, Key

LEMMA ZeroIsNoMessage ==
  ASSUME ObserverInv
  PROVE  0 \notin Range(typed) /\ 0 \notin Web
BY SteadyParts DEF Range, Messages

-----------------------------------------------------------------------------
(* What a person does at the terminal. *)

LEMMA TypeAtTerminalSafe ==
  ASSUME NEW m \in Terminal, ObserverInv, TypeAtTerminal(m)
  PROVE  ObserverInv'
<1>0. /\ TypeInv /\ LogInv /\ KeptInv /\ WatchInv /\ OrderInv /\ LabelInv /\ TurnInv /\ Steady
      /\ typed \in Seq(Messages) /\ strayed \in BOOLEAN /\ 0 \notin Messages /\ Web \cap Terminal = {}
      /\ Active \subseteq Web /\ excused \in SUBSET Web
  BY SteadyParts
<1>1. /\ m \notin Range(typed) /\ busy # m
      /\ \A f \in Files : Entry(m, "user") \notin Range(log[f])
      /\ typed' = Append(typed, m) /\ strayed' = (strayed \/ ids # <<>> \/ Active # {})
      /\ excused' = excused \cup Active
      /\ UNCHANGED <<log, conv, busy, stage, adapterVars, early, pc, faults>>
  BY DEF TypeAtTerminal
<1>2. /\ log' = log /\ conv' = conv /\ busy' = busy /\ stage' = stage /\ early' = early /\ pc' = pc
      /\ faults' = faults /\ Current' = Current /\ watcher' = watcher /\ ids' = ids
      /\ stored' = stored /\ pushed' = pushed /\ tool' = tool /\ skipped' = skipped
      /\ events' = events /\ isSet' = isSet /\ done' = done /\ UNCHANGED adapterVars
  BY <1>1, AdapterLeft DEF adapterVars
<1>3. m \in Messages /\ m # 0 /\ m \notin Web
  BY <1>0 DEF Messages
<1>4. /\ typed' \in Seq(Messages) /\ Range(typed') = Range(typed) \cup {m}
      /\ \A i, j \in 1..Len(typed') : typed'[i] = typed'[j] => i = j
  <2> DEFINE N == Len(typed)
             r == Append(typed, m)
  <2>1. /\ N \in Nat /\ r \in Seq(Messages) /\ Len(r) = N + 1 /\ DOMAIN r = 1..N + 1
        /\ DOMAIN typed = 1..N /\ \A i \in 1..N : r[i] = typed[i]
        /\ r[N + 1] = m
    BY <1>0, <1>3
  <2>2. \A i \in 1..N : typed[i] # m
    BY <1>1, <2>1 DEF Range
  <2>3. \A i, j \in 1..N : typed[i] = typed[j] => i = j
    BY <1>0 DEF LogInv
  <2> HIDE DEF N, r
  <2>4. N + 1 \in 1..N + 1 /\ \A i \in 1..N + 1 : i \in 1..N \/ i = N + 1
    BY <2>1
  <2>5. \A i \in 1..N : i \in 1..N + 1
    BY <2>1
  <2>6. Range(r) = Range(typed) \cup {m}
    BY <2>1, <2>4, <2>5 DEF Range
  <2>7. \A i, j \in 1..N + 1 : r[i] = r[j] => i = j
    BY <2>1, <2>2, <2>3, <2>4
  <2> QED BY <1>1, <2>1, <2>6, <2>7 DEF r
<1>5. Unwritten(m)
  <2> SUFFICES ASSUME NEW x \in Written, x.of = m PROVE FALSE
    BY DEF Unwritten
  <2>1. Entry(m, "user") \in Written
    BY <1>0, <1>3 DEF LogInv
  <2> QED BY <1>1, <2>1 DEF Written
<1>6. TypeInv'
  BY <1>0, <1>1, <1>2, <1>4 DEF TypeInv, Steady
<1>7. LogInv'
  <2>1. Written' = Written
    BY <1>2 DEF Written
  <2> QED BY <1>0, <1>1, <1>2, <1>3, <1>4, <1>5, <2>1 DEF LogInv, Unwritten
<1>8. KeptInv'
  BY <1>0, <1>2, KeptLeft
<1>9. WatchInv'
  BY <1>0, <1>1, <1>2, WatchLeft
<1>10. OrderInv'
  BY <1>0, <1>2, OrderLeft
<1>11. LabelInv'
  <2> SUFFICES ASSUME ~strayed, ids = <<>> PROVE Labels(Current)'
    BY <1>1 DEF LabelInv
  <2>1. Labels(Current) /\ Current.ids = <<>>
    BY <1>0, CurrentFields DEF LabelInv
  <2>2. \A k \in Web : OnItsWay(Current, k)' <=> OnItsWay(Current, k)
    BY <1>2, <1>3, <1>4 DEF OnItsWay
  <2> QED BY <1>2, <2>1, <2>2 DEF Labels, Labelled
<1>12. TurnInv'
  <2>1. Active' = Active /\ Active \subseteq excused' /\ excused \subseteq excused'
    BY <1>1, <1>2 DEF Active
  <2>2. Signalled' <=> Signalled
    BY <1>2, SignalledLeft
  <2>3. \A k : Answered(k)' <=> Answered(k)
    BY <1>2, AnswerLeft
  <2> QED BY <1>0, <1>2, <2>1, <2>2, <2>3 DEF TurnInv
<1> QED BY <1>6, <1>7, <1>8, <1>9, <1>10, <1>11, <1>12 DEF ObserverInv

LEMMA TerminalEscapeSafe == ObserverInv /\ TerminalEscape => ObserverInv'
<1> SUFFICES ASSUME ObserverInv, TerminalEscape PROVE ObserverInv'
  OBVIOUS
<1>0. /\ TypeInv /\ LogInv /\ KeptInv /\ WatchInv /\ OrderInv /\ LabelInv /\ TurnInv /\ Steady
      /\ faults \in Nat /\ MaxFaults \in Nat
  BY SteadyParts
<1>1. /\ log' = log /\ conv' = conv /\ busy' = 0 /\ stage' = "none" /\ early' = early /\ pc' = pc
      /\ typed' = typed /\ excused' = excused /\ strayed' = strayed
      /\ faults' = faults + 1 /\ faults < MaxFaults /\ Current' = Current
      /\ watcher' = watcher /\ ids' = ids
      /\ stored' = stored /\ pushed' = pushed /\ tool' = tool /\ skipped' = skipped
      /\ events' = events /\ isSet' = isSet /\ done' = done /\ UNCHANGED adapterVars
  BY AdapterLeft DEF TerminalEscape, adapterVars, Disturb, ghostVars
<1>2. faults' # 0 /\ faults' \in 0..MaxFaults
  BY <1>0, <1>1
<1>3. TypeInv'
  BY <1>0, <1>1, <1>2 DEF TypeInv, Steady
<1>4. LogInv'
  BY <1>0, <1>1, ZeroIsNoMessage, LogStays
<1>5. KeptInv' /\ WatchInv' /\ OrderInv' /\ LabelInv'
  <2>1. WatchInv'
    BY <1>0, <1>1, <1>2, WatchLeft
  <2>2. LabelInv'
    BY <1>0, <1>1, LabelLeft
  <2>3. KeptInv'
    BY <1>0, <1>1, KeptLeft
  <2> QED BY <1>2, <2>1, <2>2, <2>3 DEF OrderInv
<1>6. TurnInv'
  <2>1. Active' = Active
    BY <1>1 DEF Active
  <2>2. Signalled' <=> Signalled
    BY <1>1, SignalledLeft
  <2>3. Written' = Written /\ \A k : Answered(k)' <=> Answered(k)
    BY <1>1, AnswerLeft
  <2>4. ASSUME NEW m \in Active \ excused PROVE Alone(m)'
    <3>1. Alone(m)
      BY <1>0, <2>4 DEF TurnInv
    <3> QED BY <1>1, <2>3, <3>1 DEF Alone, Key, Answer
  <2> QED BY <1>0, <1>1, <2>1, <2>2, <2>3, <2>4 DEF TurnInv
<1> QED BY <1>3, <1>4, <1>5, <1>6 DEF ObserverInv

\* A watcher that is made, or goes to another file, has read what it has read.
Refollows(v) ==
  /\ v \in WatcherRec /\ v.read = watcher.read /\ v.seen = watcher.seen
  /\ v.stops = watcher.stops /\ v.fired = watcher.fired
  /\ v.on \/ v = watcher

LEMMA FollowFollows ==
  ASSUME ObserverInv, NEW f \in Files
  PROVE  /\ Refollows(Follow(watcher, f)) \/ (~watcher.on /\ Follow(watcher, f) = watcher)
         /\ watcher.others = {} /\ watcher.file \in {0, f} => 
              Follow(watcher, f).others = {} /\ Follow(watcher, f).file \in {0, f}
<1>0. watcher \in WatcherRec
  BY SteadyParts, CurrentTypes
<1>1. CASE ~watcher.on \/ f = watcher.file \/ f \in watcher.others
  BY <1>0, <1>1 DEF Follow, Refollows
<1>2. CASE ~(~watcher.on \/ f = watcher.file \/ f \in watcher.others)
  <2> DEFINE o == watcher.others \cup ({watcher.file} \ {0})
             v == Follow(watcher, f)
  <2>1. v = [watcher EXCEPT !.file = f, !.others = o]
    BY <1>2 DEF Follow
  <2>2. o \in SUBSET Files /\ f \in Files \cup {0}
    BY <1>0 DEF WatcherRec
  <2>3. watcher.others = {} /\ watcher.file \in {0, f} => o = {}
    BY <1>2
  <2> HIDE DEF o, v
  <2>4. Refollows(v) /\ v.file = f /\ v.others = o
    BY <1>0, <1>2, <2>1, <2>2 DEF WatcherRec, Refollows
  <2>5. Follow(watcher, f) = v
    BY DEF v
  <2> HIDE DEF Refollows
  <2> QED BY <2>3, <2>4, <2>5
<1> QED BY <1>1, <1>2

LEMMA NewWatcherFollows ==
  ASSUME ObserverInv, ~watcher.on
  PROVE  /\ Refollows(NewWatcher) /\ NewWatcher.on
         /\ NewWatcher.others = {} /\ NewWatcher.file \in {0, conv}
<1> DEFINE f == IF log[conv] # <<>> THEN conv ELSE 0
<1>1. watcher = NoWatcher /\ conv \in Files
  BY SteadyParts DEF WatchInv
<1>2. NewWatcher = [NoWatcher EXCEPT !.on = TRUE, !.file = f]
  BY DEF NewWatcher
<1>3. f \in Files \cup {0} /\ f \in {0, conv} /\ TRUE \in BOOLEAN
  BY <1>1
<1> HIDE DEF f
<1>4. /\ NewWatcher \in WatcherRec /\ NewWatcher.on = TRUE /\ NewWatcher.file = f
      /\ NewWatcher.others = NoWatcher.others /\ NewWatcher.read = NoWatcher.read
      /\ NewWatcher.seen = NoWatcher.seen /\ NewWatcher.stops = NoWatcher.stops
      /\ NewWatcher.fired = NoWatcher.fired
  BY <1>2, <1>3, NoWatcherType DEF WatcherRec
<1> QED BY <1>1, <1>3, <1>4, NoWatcherType DEF Refollows

LEMMA SwitchSafe == ObserverInv /\ Switch => ObserverInv'
<1> SUFFICES ASSUME ObserverInv, Switch PROVE ObserverInv'
  OBVIOUS
<1>0. /\ TypeInv /\ LogInv /\ KeptInv /\ WatchInv /\ OrderInv /\ LabelInv /\ TurnInv /\ Steady
      /\ faults \in Nat /\ MaxFaults \in Nat /\ conv \in Files /\ Current \in StateRec
      /\ excused \in SUBSET Web /\ Active \subseteq Web
  BY SteadyParts
<1>1. /\ log' = log /\ conv' = 3 - conv /\ busy' = busy /\ stage' = stage /\ early' = early
      /\ pc' = pc /\ typed' = typed /\ excused' = excused \cup Active /\ strayed' = TRUE
      /\ faults' = faults + 1 /\ faults < MaxFaults
      /\ watcher' = Follow(watcher, conv') /\ ids' = ids
      /\ stored' = stored /\ pushed' = pushed /\ tool' = tool /\ skipped' = skipped
      /\ events' = events /\ isSet' = isSet /\ done' = done
  BY DEF Switch, Disturb
<1>2. faults' # 0 /\ faults' \in 0..MaxFaults /\ conv' \in Files
  BY <1>0, <1>1 DEF Files
<1>3. Refollows(watcher') \/ (~watcher.on /\ watcher' = watcher)
  BY <1>1, <1>2, FollowFollows
<1>4. /\ watcher' \in WatcherRec /\ watcher'.stops = watcher.stops /\ watcher'.fired = watcher.fired
      /\ watcher'.on \/ watcher' = watcher
  BY <1>0, <1>3, CurrentTypes DEF Refollows
<1>5. TypeInv'
  <2>1. Current' \in StateRec
    BY <1>0, <1>1, <1>4, CurrentTypes, TypesGo
  <2> QED BY <1>0, <1>1, <1>2, <2>1 DEF TypeInv, Steady
<1>6. LogInv'
  BY <1>0, <1>1, LogLeft
<1>7. KeptInv'
  BY <1>0, <1>1, <1>4, KeptLeft
<1>8. WatchInv' /\ OrderInv' /\ LabelInv'
  BY <1>0, <1>1, <1>2, <1>4 DEF WatchInv, OrderInv, LabelInv, NoWatcher
<1>9. TurnInv'
  <2>1. Active' = Active
    BY <1>1 DEF Active
  <2>2. Signalled' <=> Signalled
    BY <1>1, <1>4, SignalledLeft
  <2>3. Written' = Written /\ \A k : Answered(k)' <=> Answered(k)
    BY <1>1, AnswerLeft
  <2> QED BY <1>0, <1>1, <2>1, <2>2, <2>3 DEF TurnInv
<1> QED BY <1>5, <1>6, <1>7, <1>8, <1>9 DEF ObserverInv

-----------------------------------------------------------------------------
(* The turns of the web. *)

LEMMA PcGoes ==
  ASSUME Steady, NEW m \in Web, NEW x, pc' = [pc EXCEPT ![m] = x]
  PROVE  /\ pc'[m] = x /\ \A k \in Web : k # m => pc'[k] = pc[k]
         /\ pc' \in [Web -> {"new", "sending", "typed", "waiting", "answered", "failed",
                             "cancelled", "aborted", x}]
BY DEF Steady

LEMMA RefollowsKeeps ==
  ASSUME NEW v, Refollows(v)
  PROVE  /\ v \in WatcherRec /\ v.read = watcher.read /\ v.seen = watcher.seen
         /\ v.stops = watcher.stops /\ v.fired = watcher.fired /\ (v.on \/ v = watcher)
BY DEF Refollows

LEMMA OnlyActive ==
  ASSUME TurnInv, 0 \notin Web, NEW m \in Active
  PROVE  /\ m \in Web /\ \A k \in Web : k # m => pc[k] \notin {"sending", "typed", "waiting"}
         /\ done \in {0, m} /\ (done = m => pc[m] = "waiting")
<1>1. /\ m \in Web /\ \A k, j \in Active : k = j
      /\ done # 0 => done \in Web /\ pc[done] = "waiting"
  BY DEF TurnInv, Active
<1>2. \A k \in Web : pc[k] \in {"sending", "typed", "waiting"} => k = m
  BY <1>1 DEF Active
<1> QED BY <1>1, <1>2

LEMMA TurnStartSafe ==
  ASSUME NEW m \in Web, ObserverInv, Start(m)
  PROVE  ObserverInv'
<1>0. /\ TypeInv /\ LogInv /\ KeptInv /\ WatchInv /\ OrderInv /\ LabelInv /\ TurnInv /\ Steady
      /\ watcher \in WatcherRec /\ ids \in Seq(Web) /\ strayed \in BOOLEAN /\ Current \in StateRec
      /\ 0 \notin Web
  BY SteadyParts, CurrentTypes DEF Messages
<1>1. /\ pc[m] = "new" /\ Active = {} /\ pc' = [pc EXCEPT ![m] = "sending"]
      /\ watcher' = (IF watcher.on THEN watcher ELSE NewWatcher) /\ ids' = Append(ids, m)
      /\ strayed' = (strayed \/ ~Clean)
      /\ excused' = (IF Clean THEN excused ELSE excused \cup {m})
      /\ log' = log /\ conv' = conv /\ typed' = typed /\ busy' = busy /\ stage' = stage
      /\ tool' = tool /\ stored' = stored /\ pushed' = pushed /\ done' = done /\ isSet' = isSet
      /\ events' = events /\ skipped' = skipped /\ early' = early /\ faults' = faults
  BY DEF Start, cliVars
<1>2. /\ pc'[m] = "sending" /\ \A k \in Web : k # m => pc'[k] = pc[k]
      /\ pc' \in [Web -> {"new", "sending", "typed", "waiting", "answered", "failed",
                          "cancelled", "aborted", "sending"}]
  BY <1>0, <1>1, PcGoes
<1>3. Refollows(watcher') /\ watcher'.on
  BY <1>0, <1>1, NewWatcherFollows DEF Refollows
<1>4. /\ watcher' \in WatcherRec /\ watcher'.read = watcher.read /\ watcher'.seen = watcher.seen
      /\ watcher'.stops = watcher.stops /\ watcher'.fired = watcher.fired
  BY <1>3, RefollowsKeeps
<1>5. Clean => /\ typed = <<>> /\ busy = 0 /\ Range(typed) = {}
               /\ \A e \in Written : e.of = 0 \/ e.kind = "result" \/ Key(e) \in stored
  <2>1. Range(<<>>) = {}
    BY DEF Range
  <2> QED BY <2>1 DEF Clean, Written
<1>6. Unwritten(m)
  BY <1>0, <1>1 DEF LogInv
<1>7. TypeInv'
  <2>1. Current' \in StateRec
    BY <1>0, <1>1, <1>4, CurrentTypes, TypesGo
  <2> QED BY <1>0, <1>1, <1>2, <2>1 DEF TypeInv, Steady
<1>8. LogInv'
  <2>1. \A k \in Web : pc'[k] \in {"new", "sending"} => pc[k] \in {"new", "sending"}
    BY <1>1, <1>2
  <2> QED BY <1>0, <1>1, <2>1, ZeroIsNoMessage, LogStays
<1>9. KeptInv'
  BY <1>0, <1>1, <1>4, KeptLeft
<1>10. WatchInv'
  BY <1>0, <1>1, <1>3, NewWatcherFollows DEF WatchInv
<1>11. OrderInv'
  BY <1>0, <1>1, <1>4, OrderLeft
<1>12. LabelInv'
  <2> SUFFICES ASSUME ~strayed, Clean PROVE Labels(Current)'
    BY <1>1 DEF LabelInv
  <2>0. \A k \in Web : pc[k] # "sending"
    BY <1>1 DEF Active
  <2>1. Labels(Current) /\ Current.stored = stored /\ Current.ids = ids
    BY <1>0, CurrentFields DEF LabelInv
  <2>2. \A x \in Range(log[1]) : x.of # 0 /\ (x.kind = "user" => Key(x) \in stored)
    BY <1>0, <1>5, LogOne DEF LogInv
  <2>3. ASSUME NEW k \in Web PROVE ~OnItsWay(Current, k)
    <3>1. Entry(k, "user") \in Range(log[1]) => <<k, "user">> \in stored
      <4>1. Key(Entry(k, "user")) = <<k, "user">> /\ Entry(k, "user").kind = "user"
        BY DEF Key, Entry
      <4> QED BY <2>2, <4>1
    <3> QED BY <1>5, <2>0, <2>1, <3>1 DEF OnItsWay
  <2>4. ids = <<>>
    <3>1. ids = <<>> \/ \E k \in Web : OnItsWay(Current, k)
      BY <2>1 DEF Labels, AloneOnItsWay
    <3> QED BY <2>3, <3>1
  <2>5. ids' = <<m>>
    BY <1>1, <2>4
  <2>6. Current'.ids = <<m>> /\ Current'.stored = stored /\ Current'.pushed = pushed
    BY <1>1, <2>5 DEF Current
  <2>7. <<m, "user">> \notin stored
    <3> SUFFICES ASSUME <<m, "user">> \in stored PROVE FALSE
      OBVIOUS
    <3>1. PICK e \in Written : Key(e) = <<m, "user">>
      BY <1>0 DEF KeptInv
    <3>2. e.of = m
      BY <3>1, KeyParts
    <3> QED BY <1>6, <3>2 DEF Unwritten
  <2>8. \A k \in Web : OnItsWay(Current, k)' => k = m
    <3> SUFFICES ASSUME NEW k \in Web, k # m, OnItsWay(Current, k)' PROVE FALSE
      OBVIOUS
    <3>1. OnItsWay(Current, k)
      BY <1>1, <1>2, <2>1, <2>6 DEF OnItsWay
    <3> QED BY <2>3, <3>1
  <2>9. AloneOnItsWay(Current, m)'
    BY <1>1, <1>2, <1>5, <2>2, <2>6, <2>7 DEF AloneOnItsWay, OnItsWay
  <2>10. Labelled(Current)'
    BY <1>1, <2>1, <2>6, CurrentFields DEF Labels, Labelled
  <2> QED BY <2>6, <2>8, <2>9, <2>10 DEF Labels
<1>13. TurnInv'
  <2>1. Active' = {m}
    BY <1>1, <1>2 DEF Active
  <2>2. Signalled' <=> Signalled
    BY <1>1, <1>4, SignalledLeft
  <2>3. Written' = Written /\ \A k : Answered(k)' <=> Answered(k)
    BY <1>1, AnswerLeft
  <2>4. /\ done # 0 => done \in Web /\ pc[done] = "waiting"
        /\ \A k \in Web : pc[k] = "waiting" => done = k
        /\ Web \subseteq excused \/ Signalled
        /\ \A k \in Web : pc[k] = "answered" /\ k \notin excused => Answered(k)
    BY <1>0 DEF TurnInv
  <2>5. done # m /\ excused \subseteq excused'
    BY <1>0, <1>1, <2>4
  <2>6. ASSUME m \notin excused' PROVE Alone(m)'
    <3>1. Clean /\ m \notin excused
      BY <1>1, <2>6
    <3>2. Signalled
      BY <2>4, <3>1
    <3>3. \A e \in Written : Answer(e) /\ Key(e) \notin watcher.fired => e.of \in {0, m}
      <4> SUFFICES ASSUME NEW e \in Written, Answer(e), Key(e) \notin watcher.fired PROVE e.of = 0
        OBVIOUS
      <4>1. e.kind # "result" /\ Key(e)[2] = "answer"
        BY KeyParts DEF Answer
      <4>2. Key(e) \notin stored
        BY <3>2, <4>1 DEF Signalled
      <4> QED BY <1>5, <3>1, <4>1, <4>2
    <3> QED BY <1>1, <1>4, <1>5, <2>3, <2>5, <3>1, <3>3 DEF Alone, Key, Answer
  <2> QED BY <1>1, <1>2, <2>1, <2>2, <2>3, <2>4, <2>5, <2>6 DEF TurnInv
<1> QED BY <1>7, <1>8, <1>9, <1>10, <1>11, <1>12, <1>13 DEF ObserverInv

\* The watcher is made, or bound to the conversation's file.
LEMMA WatchesSafe ==
  ASSUME ObserverInv, PreWarm \/ Detected
  PROVE  ObserverInv'
<1>0. /\ TypeInv /\ LogInv /\ KeptInv /\ WatchInv /\ OrderInv /\ LabelInv /\ TurnInv /\ Steady
      /\ Current \in StateRec /\ conv \in Files
  BY SteadyParts
<1>1. UNCHANGED <<cliVars, tool, ids, stored, pushed, done, isSet, events, skipped, ghostVars,
                  pc, faults>>
  BY DEF PreWarm, Detected
<1>2. /\ log' = log /\ conv' = conv /\ typed' = typed /\ busy' = busy /\ stage' = stage
      /\ tool' = tool /\ ids' = ids /\ stored' = stored /\ pushed' = pushed /\ done' = done
      /\ isSet' = isSet /\ events' = events /\ skipped' = skipped /\ early' = early
      /\ excused' = excused /\ strayed' = strayed /\ pc' = pc /\ faults' = faults
  BY <1>1 DEF cliVars, ghostVars
<1>3. /\ Refollows(watcher') /\ (watcher'.on \/ watcher' = watcher)
      /\ faults = 0 \/ ~strayed => watcher'.others = {} /\ watcher'.file \in {0, 1}
  <2>1. CASE PreWarm
    <3>1. ~watcher.on /\ watcher' = NewWatcher
      BY <2>1 DEF PreWarm
    <3>2. /\ Refollows(NewWatcher) /\ NewWatcher.on
          /\ NewWatcher.others = {} /\ NewWatcher.file \in {0, conv}
      BY <3>1, NewWatcherFollows
    <3> QED BY <1>0, <3>1, <3>2 DEF WatchInv
  <2>2. CASE Detected
    <3>1. watcher.on /\ watcher' = Follow(watcher, conv)
      BY <2>2 DEF Detected
    <3>2. /\ Refollows(watcher')
          /\ (watcher.others = {} /\ watcher.file \in {0, conv}
              => watcher'.others = {} /\ watcher'.file \in {0, conv})
      BY <1>0, <3>1, FollowFollows
    <3>3. watcher'.on \/ watcher' = watcher
      BY <3>2 DEF Refollows
    <3> QED BY <1>0, <3>2, <3>3 DEF WatchInv
  <2> QED BY <2>1, <2>2
<1>4. /\ watcher' \in WatcherRec /\ watcher'.read = watcher.read /\ watcher'.seen = watcher.seen
      /\ watcher'.stops = watcher.stops /\ watcher'.fired = watcher.fired
  BY <1>3, RefollowsKeeps
<1>5. TypeInv'
  <2>1. Current' \in StateRec
    BY <1>0, <1>2, <1>4, CurrentTypes, TypesGo
  <2> QED BY <1>0, <1>2, <2>1 DEF TypeInv, Steady
<1>6. LogInv' /\ KeptInv' /\ OrderInv' /\ LabelInv'
  <2>1. LogInv'
    BY <1>0, <1>2, LogLeft
  <2>2. KeptInv'
    BY <1>0, <1>2, <1>4, KeptLeft
  <2>3. OrderInv'
    BY <1>0, <1>2, <1>4, OrderLeft
  <2>4. LabelInv'
    BY <1>0, <1>2, LabelLeft
  <2> QED BY <2>1, <2>2, <2>3, <2>4
<1>7. WatchInv'
  BY <1>0, <1>2, <1>3 DEF WatchInv, NoWatcher
<1>8. TurnInv'
  <2>1. Active' = Active
    BY <1>2 DEF Active
  <2>2. Signalled' <=> Signalled
    BY <1>2, <1>4, SignalledLeft
  <2>3. Written' = Written /\ \A k : Answered(k)' <=> Answered(k)
    BY <1>2, AnswerLeft
  <2>4. \A k \in Active \ excused : Alone(k)'
    BY <1>0, <1>2, <1>4, <2>3 DEF Alone, Key, Answer, TurnInv
  <2> QED BY <1>0, <1>2, <2>1, <2>2, <2>3, <2>4 DEF TurnInv
<1> QED BY <1>5, <1>6, <1>7, <1>8 DEF ObserverInv

LEMMA TypedSafe ==
  ASSUME NEW m \in Web, ObserverInv, Typed(m)
  PROVE  ObserverInv'
<1>0. /\ TypeInv /\ LogInv /\ KeptInv /\ WatchInv /\ OrderInv /\ LabelInv /\ TurnInv /\ Steady
      /\ typed \in Seq(Messages) /\ Web \subseteq Messages /\ 0 \notin Web
  BY SteadyParts DEF Messages
<1>1. /\ pc[m] = "sending" /\ pc' = [pc EXCEPT ![m] = "typed"] /\ typed' = Append(typed, m)
      /\ UNCHANGED <<log, conv, busy, stage, adapterVars, ghostVars, faults>>
  BY DEF Typed
<1>2. /\ log' = log /\ conv' = conv /\ busy' = busy /\ stage' = stage /\ early' = early
      /\ faults' = faults /\ Current' = Current /\ watcher' = watcher /\ ids' = ids
      /\ excused' = excused /\ strayed' = strayed
      /\ stored' = stored /\ pushed' = pushed /\ tool' = tool /\ skipped' = skipped
      /\ events' = events /\ isSet' = isSet /\ done' = done
  BY <1>1, AdapterLeft DEF adapterVars, ghostVars
<1>3. /\ pc'[m] = "typed" /\ \A k \in Web : k # m => pc'[k] = pc[k]
      /\ pc' \in [Web -> {"new", "sending", "typed", "waiting", "answered", "failed",
                          "cancelled", "aborted", "typed"}]
  BY <1>0, <1>1, PcGoes
<1>4. m \notin Range(typed) /\ m # busy /\ Unwritten(m)
  BY <1>0, <1>1 DEF LogInv
<1>5. /\ typed' \in Seq(Messages) /\ Range(typed') = Range(typed) \cup {m}
      /\ \A i, j \in 1..Len(typed') : typed'[i] = typed'[j] => i = j
  <2> DEFINE N == Len(typed)
             r == Append(typed, m)
  <2>1. /\ N \in Nat /\ r \in Seq(Messages) /\ Len(r) = N + 1 /\ DOMAIN r = 1..N + 1
        /\ DOMAIN typed = 1..N /\ \A i \in 1..N : r[i] = typed[i]
        /\ r[N + 1] = m
    BY <1>0
  <2>2. \A i \in 1..N : typed[i] # m
    BY <1>4, <2>1 DEF Range
  <2>3. \A i, j \in 1..N : typed[i] = typed[j] => i = j
    BY <1>0 DEF LogInv
  <2> HIDE DEF N, r
  <2>4. N + 1 \in 1..N + 1 /\ \A i \in 1..N + 1 : i \in 1..N \/ i = N + 1
    BY <2>1
  <2>5. \A i \in 1..N : i \in 1..N + 1
    BY <2>1
  <2>6. Range(r) = Range(typed) \cup {m}
    BY <2>1, <2>4, <2>5 DEF Range
  <2>7. \A i, j \in 1..N + 1 : r[i] = r[j] => i = j
    BY <2>1, <2>2, <2>3, <2>4
  <2> QED BY <1>1, <2>1, <2>6, <2>7 DEF r
<1>6. TypeInv'
  BY <1>0, <1>2, <1>3, <1>5 DEF TypeInv, Steady
<1>7. LogInv'
  <2>1. Written' = Written
    BY <1>2 DEF Written
  <2>2. \A k \in Web : pc'[k] \in {"new", "sending"} => k # m /\ pc[k] \in {"new", "sending"}
    BY <1>3
  <2> QED BY <1>0, <1>2, <1>4, <1>5, <2>1, <2>2 DEF LogInv, Unwritten
<1>8. KeptInv' /\ WatchInv' /\ OrderInv'
  <2>1. KeptInv'
    BY <1>0, <1>2, KeptLeft
  <2>2. WatchInv'
    BY <1>0, <1>2, WatchLeft
  <2>3. OrderInv'
    BY <1>0, <1>2, OrderLeft
  <2> QED BY <2>1, <2>2, <2>3
<1>9. LabelInv'
  <2> SUFFICES ASSUME ~strayed PROVE Labels(Current)'
    BY <1>2 DEF LabelInv
  <2>1. Labels(Current)
    BY <1>0 DEF LabelInv
  <2>2. ASSUME NEW k \in Web PROVE OnItsWay(Current, k)' <=> OnItsWay(Current, k)
    <3>1. CASE k = m
      BY <1>1, <1>5, <3>1 DEF OnItsWay
    <3>2. CASE k # m
      BY <1>2, <1>3, <1>5, <3>2 DEF OnItsWay
    <3> QED BY <3>1, <3>2
  <2>3. OnItsWay(Current, m) /\ Current.ids = <<m>>
    BY <1>1, <2>1 DEF OnItsWay, Labels
  <2>4. ASSUME NEW k \in Web, AloneOnItsWay(Current, k) PROVE AloneOnItsWay(Current, k)'
    <3>1. k = m
      BY <2>3, <2>4 DEF AloneOnItsWay
    <3> QED BY <1>2, <1>5, <2>2, <2>4, <3>1 DEF AloneOnItsWay
  <2> QED BY <1>2, <2>1, <2>2, <2>4 DEF Labels, Labelled
<1>10. TurnInv'
  <2>1. Active' = Active /\ m \in Active
    BY <1>1, <1>3 DEF Active
  <2>2. Signalled' <=> Signalled
    BY <1>2, SignalledLeft
  <2>3. Written' = Written /\ \A k : Answered(k)' <=> Answered(k)
    BY <1>2, AnswerLeft
  <2>4. ASSUME NEW k \in Active \ excused PROVE Alone(k)'
    <3>1. Alone(k) /\ k = m
      BY <1>0, <2>1, <2>4 DEF TurnInv
    <3> QED BY <1>2, <1>5, <2>3, <3>1 DEF Alone, Key, Answer
  <2>5. /\ done # 0 => done \in Web /\ pc[done] = "waiting"
        /\ \A k \in Web : pc[k] = "waiting" => done = k
        /\ Web \subseteq excused \/ Signalled
        /\ \A k \in Web : pc[k] = "answered" /\ k \notin excused => Answered(k)
        /\ \A k, j \in Active : k = j
    BY <1>0 DEF TurnInv
  <2> QED BY <1>1, <1>2, <1>3, <2>1, <2>2, <2>3, <2>4, <2>5 DEF TurnInv
<1> QED BY <1>6, <1>7, <1>8, <1>9, <1>10 DEF ObserverInv

\* A turn registers, goes on or ends: what a step of pc, done and isSet leaves.
LEMMA TurnMoves ==
  ASSUME NEW m \in Active, ObserverInv, NEW x \in {"waiting", "answered"},
         pc' = [pc EXCEPT ![m] = x], pc[m] # "sending",
         done' \in Web \cup {0}, isSet' \in BOOLEAN,
         UNCHANGED <<cliVars, watcher, tool, ids, stored, pushed, events, skipped, ghostVars, faults>>,
         x = "waiting" => done' = m /\ ~isSet',
         x = "answered" => done' = 0 /\ (m \in excused \/ Answered(m))
  PROVE  ObserverInv'
<1>0. /\ TypeInv /\ LogInv /\ KeptInv /\ WatchInv /\ OrderInv /\ LabelInv /\ TurnInv /\ Steady
      /\ 0 \notin Web /\ m \in Web /\ Current \in StateRec
  BY SteadyParts DEF Messages
<1>1. /\ log' = log /\ conv' = conv /\ typed' = typed /\ busy' = busy /\ stage' = stage
      /\ tool' = tool /\ ids' = ids /\ stored' = stored /\ pushed' = pushed
      /\ watcher' = watcher /\ events' = events /\ skipped' = skipped /\ early' = early
      /\ excused' = excused /\ strayed' = strayed /\ faults' = faults
  BY DEF cliVars, ghostVars
<1>2. /\ pc'[m] = x /\ \A k \in Web : k # m => pc'[k] = pc[k]
      /\ pc' \in [Web -> {"new", "sending", "typed", "waiting", "answered", "failed",
                          "cancelled", "aborted", x}]
  BY <1>0, PcGoes
<1>3. TypeInv'
  <2>1. Current' \in StateRec
    BY <1>0, <1>1, CurrentTypes, TypesGo
  <2> QED BY <1>0, <1>1, <1>2, <2>1 DEF TypeInv, Steady
<1>4. LogInv' /\ KeptInv' /\ WatchInv' /\ OrderInv' /\ LabelInv'
  <2>1. \A k \in Web : pc'[k] \in {"new", "sending"} => pc[k] \in {"new", "sending"}
    BY <1>2
  <2>2. \A k \in Web : pc'[k] = "sending" <=> pc[k] = "sending"
    BY <1>2
  <2>3. LogInv'
    BY <1>0, <1>1, <2>1, ZeroIsNoMessage, LogStays
  <2>4. KeptInv'
    BY <1>0, <1>1, KeptLeft
  <2>5. WatchInv'
    BY <1>0, <1>1, WatchLeft
  <2>6. OrderInv'
    BY <1>0, <1>1, OrderLeft
  <2>7. LabelInv'
    BY <1>0, <1>1, <2>2, LabelLeft
  <2> QED BY <2>3, <2>4, <2>5, <2>6, <2>7
<1>5. TurnInv'
  <2>1. Active' = IF x = "waiting" THEN {m} ELSE {}
    <3>1. \A k \in Web : k # m => k \notin Active
      BY <1>0 DEF TurnInv
    <3> QED BY <1>0, <1>2, <3>1 DEF Active
  <2>2. Signalled' <=> Signalled
    BY <1>1, SignalledLeft
  <2>3. Written' = Written /\ \A k : Answered(k)' <=> Answered(k)
    BY <1>1, AnswerLeft
  <2>4. ASSUME x = "waiting", m \notin excused PROVE Alone(m)'
    <3>1. Alone(m)
      BY <1>0, <2>4 DEF TurnInv
    <3> QED BY <1>1, <2>3, <2>4, <3>1 DEF Alone, Key, Answer
  <2>5. /\ \A k \in Web : pc[k] = "waiting" => k = m
        /\ Web \subseteq excused \/ Signalled
        /\ \A k \in Web : pc[k] = "answered" /\ k \notin excused => Answered(k)
    <3>1. \A k \in Web : pc[k] = "waiting" => k \in Active
      BY DEF Active
    <3> QED BY <1>0, <3>1 DEF TurnInv
  <2> QED BY <1>0, <1>1, <1>2, <2>1, <2>2, <2>3, <2>4, <2>5 DEF TurnInv
<1> QED BY <1>3, <1>4, <1>5 DEF ObserverInv

LEMMA RegisterSafe ==
  ASSUME NEW m \in Web, ObserverInv, Register(m)
  PROVE  ObserverInv'
<1>1. /\ pc[m] = "typed" /\ pc' = [pc EXCEPT ![m] = "waiting"] /\ done' = m /\ isSet' = FALSE
      /\ UNCHANGED <<cliVars, watcher, tool, ids, stored, pushed, events, skipped, ghostVars, faults>>
  BY DEF Register
<1>2. m \in Active
  BY <1>1 DEF Active
<1> QED BY <1>1, <1>2, TurnMoves

LEMMA WakeSafe ==
  ASSUME NEW m \in Web, ObserverInv, Wake(m)
  PROVE  ObserverInv'
<1>1. /\ pc[m] = "waiting" /\ isSet /\ pc' = [pc EXCEPT ![m] = "answered"]
      /\ done' = 0 /\ isSet' = FALSE
      /\ UNCHANGED <<cliVars, watcher, tool, ids, stored, pushed, events, skipped, ghostVars, faults>>
  BY DEF Wake
<1>2. m \in Active
  BY <1>1 DEF Active
<1>3. m \in excused \/ Answered(m)
  <2>1. TurnInv
    BY SteadyParts
  <2> QED BY <1>1, <1>2, <2>1 DEF TurnInv, Alone
<1> QED BY <1>1, <1>2, <1>3, TurnMoves

\* A turn fails, is cancelled or aborted, and the backend restarts.
LEMMA TurnBreaks ==
  ASSUME ObserverInv, Disturb,
         pc' \in [Web -> {"new", "sending", "typed", "waiting", "answered", "failed",
                          "cancelled", "aborted"}],
         \A k \in Web : pc'[k] # pc[k] =>
           k \in Active /\ pc'[k] \in {"failed", "cancelled", "aborted"},
         watcher' = watcher \/ (watcher' = NoWatcher /\ Web \subseteq excused'),
         tool' \in BOOLEAN, ids' \in Seq(Web), isSet' \in BOOLEAN,
         done' = 0 \/ (done' = done /\ pc'[done] = pc[done]),
         isSet' => isSet /\ done' = done,
         \A k \in Web : pc'[k] = "waiting" => pc[k] = "waiting" /\ done' = done,
         busy' \in {busy, 0}, stage' \in {stage, "none"},
         excused \subseteq excused', excused' \subseteq Web, strayed' \in BOOLEAN,
         UNCHANGED <<log, conv, typed, stored, pushed, events, skipped, early>>,
         ~strayed' => ~strayed /\ Labels(Current)'
  PROVE  ObserverInv'
<1>0. /\ TypeInv /\ LogInv /\ KeptInv /\ WatchInv /\ OrderInv /\ LabelInv /\ TurnInv /\ Steady
      /\ 0 \notin Web /\ Current \in StateRec /\ faults \in Nat /\ MaxFaults \in Nat
      /\ Active \subseteq Web
  BY SteadyParts DEF Messages
<1>1. faults < MaxFaults /\ faults' = faults + 1 /\ faults' # 0 /\ faults' \in 0..MaxFaults
  BY <1>0 DEF Disturb
<1>2. TypeInv'
  <2>1. Current' \in StateRec
    BY <1>0, CurrentTypes, NoWatcherType, TypesGo
  <2> QED BY <1>0, <1>1, <2>1 DEF TypeInv, Steady
<1>3. LogInv' /\ KeptInv' /\ WatchInv' /\ OrderInv' /\ LabelInv'
  <2>1. \A k \in Web : pc'[k] \in {"new", "sending"} => pc[k] \in {"new", "sending"}
    OBVIOUS
  <2>2. LogInv'
    BY <1>0, <2>1, ZeroIsNoMessage, LogStays
  <2>3. watcher'.stops \subseteq watcher.stops
    BY NoWatcherType
  <2>4. KeptInv'
    BY <1>0, <2>3, KeptLeft
  <2>5. WatchInv'
    BY <1>0, <1>1, NoWatcherType DEF WatchInv, NoWatcher
  <2> QED BY <1>1, <2>2, <2>4, <2>5 DEF OrderInv, LabelInv
<1>4. TurnInv'
  <2>1. Active' \subseteq Active
    BY DEF Active
  <2>2. (Web \subseteq excused \/ Signalled)'
    <3>1. CASE watcher' = watcher
      BY <1>0, <3>1, SignalledLeft DEF TurnInv
    <3> QED BY <3>1
  <2>3. Written' = Written /\ \A k : Answered(k)' <=> Answered(k)
    BY AnswerLeft
  <2>4. ASSUME NEW k \in Active' \ excused' PROVE Alone(k)'
    <3>1. k \in Active \ excused /\ watcher' = watcher /\ Alone(k)
      BY <1>0, <2>1, <2>4 DEF TurnInv
    <3>2. isSet' => isSet /\ done' = done
      OBVIOUS
    <3> QED BY <2>3, <3>1, <3>2 DEF Alone, Key, Answer
  <2>5. /\ done # 0 => done \in Web /\ pc[done] = "waiting"
        /\ \A k \in Web : pc[k] = "waiting" => done = k
        /\ \A k \in Web : pc[k] = "answered" /\ k \notin excused => Answered(k)
        /\ \A k, j \in Active : k = j
    BY <1>0 DEF TurnInv
  <2>6. \A k \in Web : pc'[k] = "answered" => pc[k] = "answered"
    OBVIOUS
  <2>7. \A k \in Web : pc'[k] = "waiting" => done' = k
    BY <2>5
  <2>8. done' # 0 => done' \in Web /\ pc'[done'] = "waiting"
    BY <2>5
  <2>9. \A k \in Web : pc'[k] = "answered" /\ k \notin excused' => Answered(k)'
    BY <2>3, <2>5, <2>6
  <2>10. \A k, j \in Active' : k = j
    BY <2>1, <2>5
  <2> QED BY <2>2, <2>4, <2>7, <2>8, <2>9, <2>10 DEF TurnInv
<1> QED BY <1>2, <1>3, <1>4 DEF ObserverInv

LEMMA BreakSafe ==
  ASSUME NEW m \in Web, ObserverInv, SendFails(m) \/ Cancel(m) \/ Abort(m)
  PROVE  ObserverInv'
<1> DEFINE x == pc'[m]
<1>0. /\ TurnInv /\ Steady /\ 0 \notin Web /\ Current \in StateRec /\ excused \in SUBSET Web
      /\ strayed \in BOOLEAN
  BY SteadyParts DEF Messages
<1>1. PICK y \in {"failed", "cancelled", "aborted"} : pc' = [pc EXCEPT ![m] = y]
  BY DEF SendFails, Cancel, Abort
<1>2. /\ pc'[m] = y /\ \A k \in Web : k # m => pc'[k] = pc[k]
      /\ pc' \in [Web -> {"new", "sending", "typed", "waiting", "answered", "failed",
                          "cancelled", "aborted", y}]
  BY <1>0, <1>1, PcGoes
<1>3. m \in Active
  BY DEF SendFails, Cancel, Abort, Active
<1>4. /\ \A k \in Web : k # m => pc[k] \notin {"sending", "typed", "waiting"}
      /\ done \in {0, m} /\ (done = m => pc[m] = "waiting")
  BY <1>0, <1>3, OnlyActive
<1>5. \A k \in Web : pc'[k] # "waiting"
  BY <1>2, <1>4
<1>6. /\ Disturb /\ watcher' = watcher /\ strayed' = TRUE
      /\ UNCHANGED <<log, conv, typed, ids, stored, pushed, events, skipped, early>>
      /\ excused \subseteq excused' /\ excused' \subseteq Web
      /\ tool' \in BOOLEAN /\ busy' \in {busy, 0} /\ stage' \in {stage, "none"}
  BY <1>0, CurrentTypes DEF SendFails, Cancel, Abort, cliVars, adapterVars
<1>7. /\ done' = 0 \/ (done' = done /\ pc'[done] = pc[done])
      /\ isSet' => isSet /\ done' = done
      /\ isSet' \in BOOLEAN
  <2>1. CASE SendFails(m)
    <3>1. done' = done /\ isSet' = isSet /\ pc[m] = "sending"
      BY <2>1 DEF SendFails, adapterVars
    <3>2. done = 0
      BY <1>0, <1>4, <3>1
    <3> QED BY <1>0, <3>1, <3>2, CurrentTypes
  <2>2. CASE Cancel(m) \/ Abort(m)
    BY <2>2 DEF Cancel, Abort
  <2> QED BY <2>1, <2>2
<1>8. /\ ids' \in Seq(Web) /\ TRUE \in BOOLEAN
      /\ pc' \in [Web -> {"new", "sending", "typed", "waiting", "answered", "failed",
                          "cancelled", "aborted"}]
  BY <1>0, <1>1, <1>2, <1>6, CurrentTypes
<1>9. \A k \in Web : pc'[k] # pc[k] =>
        k \in Active /\ pc'[k] \in {"failed", "cancelled", "aborted"}
  BY <1>2, <1>3
<1> QED BY <1>5, <1>6, <1>7, <1>8, <1>9, TurnBreaks

LEMMA RestartSafe == ObserverInv /\ Restart => ObserverInv'
<1> SUFFICES ASSUME ObserverInv, Restart PROVE ObserverInv'
  OBVIOUS
<1>0. /\ TurnInv /\ Steady /\ LogInv /\ LabelInv /\ TypeInv /\ WatchInv /\ Current \in StateRec
      /\ excused \in SUBSET Web /\ strayed \in BOOLEAN /\ Active \subseteq Web
  BY SteadyParts
<1>1. /\ Disturb /\ pc' = [k \in Web |-> IF k \in Active THEN "aborted" ELSE pc[k]]
      /\ watcher' = NoWatcher /\ tool' = FALSE /\ ids' = <<>> /\ done' = 0 /\ isSet' = FALSE
      /\ strayed' = (strayed \/ ids # <<>> \/ ~Clean) /\ excused' = excused \cup Web
      /\ UNCHANGED <<log, conv, typed, busy, stage, stored, pushed, events, skipped, early>>
  BY DEF Restart, cliVars
<1>2. \A k \in Web : pc'[k] = IF k \in Active THEN "aborted" ELSE pc[k]
  BY <1>1
<1>3. pc' \in [Web -> {"new", "sending", "typed", "waiting", "answered", "failed",
                       "cancelled", "aborted"}]
  BY <1>0, <1>1 DEF Steady
<1>4. \A k \in Web : pc'[k] # pc[k] =>
        k \in Active /\ pc'[k] \in {"failed", "cancelled", "aborted"}
  BY <1>2
<1>5. \A k \in Web : pc'[k] # "waiting" /\ pc'[k] # "sending"
  BY <1>2 DEF Active
<1>6. ASSUME ~strayed' PROVE ~strayed /\ Labels(Current)'
  <2>1. ~strayed /\ ids = <<>> /\ Clean
    BY <1>1, <1>6
  <2>2. /\ Labels(Current) /\ Current.ids = <<>> /\ Current.stored = stored
        /\ Current.pushed = pushed
    BY <1>0, <2>1, CurrentFields DEF LabelInv
  <2>3. Current'.ids = <<>> /\ Current'.stored = stored /\ Current'.pushed = pushed
    BY <1>1 DEF Current
  <2>4. \A k \in Web : ~OnItsWay(Current, k)
    <3>1. \A k : <<k>> # <<>>
      OBVIOUS
    <3> QED BY <2>2, <3>1 DEF Labels
  <2>5. \A k \in Web : ~OnItsWay(Current, k)'
    BY <1>1, <1>5, <2>2, <2>3, <2>4 DEF OnItsWay
  <2> QED BY <2>1, <2>2, <2>3, <2>5 DEF Labels, Labelled
<1>7. /\ FALSE \in BOOLEAN /\ <<>> \in Seq(Web) /\ strayed' \in BOOLEAN
      /\ excused \subseteq excused' /\ excused' \subseteq Web /\ Web \subseteq excused'
  BY <1>0, <1>1
<1> QED BY <1>1, <1>3, <1>4, <1>5, <1>6, <1>7, TurnBreaks

-----------------------------------------------------------------------------
LEMMA ObserverStart == Init => ObserverInv
<1> SUFFICES ASSUME Init PROVE ObserverInv
  OBVIOUS
<1> DEFINE first == IF Resumable THEN <<Entry(0, "user"), Entry(0, "final")>> ELSE <<>>
<1>1. /\ log = [f \in Files |-> IF f = 2 /\ Resumable
                                THEN <<Entry(0, "user"), Entry(0, "final")>> ELSE <<>>]
      /\ conv = 1 /\ typed = <<>> /\ busy = 0 /\ stage = "none"
      /\ watcher = NoWatcher /\ tool = FALSE /\ ids = <<>>
      /\ stored = {} /\ pushed = <<>>
      /\ pc = [m \in Web |-> "new"] /\ done = 0 /\ isSet = FALSE /\ faults = 0
      /\ excused = {} /\ early = {} /\ strayed = FALSE /\ skipped = {} /\ events = {}
  BY DEF Init
<1>2. /\ Entry(0, "user") \in EntryRec /\ Entry(0, "final") \in EntryRec
      /\ Entry(0, "user").of = 0 /\ Entry(0, "final").of = 0
  BY DEF Entry, EntryRec, Kinds
<1>3. log[1] = <<>> /\ log[2] = first
  BY <1>1 DEF Files
<1>4. first \in Seq(EntryRec) /\ Range(first) \subseteq {Entry(0, "user"), Entry(0, "final")}
  <2> HIDE DEF Entry
  <2>1. CASE Resumable
    <3> DEFINE q == <<Entry(0, "user"), Entry(0, "final")>>
    <3>1. q \in Seq(EntryRec) /\ DOMAIN q = 1..2 /\ q[1] = Entry(0, "user") /\ q[2] = Entry(0, "final")
      BY <1>2
    <3>2. \A i \in 1..2 : i = 1 \/ i = 2
      OBVIOUS
    <3>3. Range(q) \subseteq {Entry(0, "user"), Entry(0, "final")}
      <4> HIDE DEF q
      <4> QED BY <3>1, <3>2 DEF Range
    <3> QED BY <2>1, <3>1, <3>3
  <2>2. CASE ~Resumable
    <3>1. first = <<>> /\ Range(<<>>) = {}
      BY <2>2 DEF Range
    <3> QED BY <3>1
  <2> QED BY <2>1, <2>2
<1> HIDE DEF first
<1>5. log \in Logs
  <2>1. log = [f \in Files |-> log[f]]
    BY <1>1
  <2>2. \A f \in Files : log[f] \in Seq(EntryRec)
    <3>1. <<>> \in Seq(EntryRec) /\ \A f \in Files : f = 1 \/ f = 2
      BY DEF Files
    <3> QED BY <1>3, <1>4, <3>1
  <2> QED BY <2>1, <2>2 DEF Logs
<1>6. Range(log[1]) = {} /\ \A e \in Written : e.of = 0
  <2>1. Range(<<>>) = {}
    BY DEF Range
  <2>2. \A e \in Range(first) : e.of = 0
    BY <1>2, <1>4
  <2> QED BY <1>3, <2>1, <2>2 DEF Written, Files
<1>7. Range(typed) = {} /\ 0 \notin Web /\ DOMAIN pushed = {} /\ Active = {}
  BY <1>1, ObserverAssumption DEF Range, Active
<1>8. /\ Current.w = NoWatcher /\ Current.tool = FALSE /\ Current.ids = <<>> /\ Current.stored = {}
      /\ Current.pushed = <<>> /\ Current.skipped = {}
  BY <1>1, CurrentFields
<1>9. TypeInv
  <2>1. Current \in StateRec
    <3>1. /\ <<>> \in Seq(Web) /\ <<>> \in Seq(Pushes) /\ FALSE \in BOOLEAN
          /\ {} \in SUBSET KeySet /\ {} \in SUBSET EntryRec /\ 0 \in Web \cup {0}
      OBVIOUS
    <3>2. NoWatcher \in WatcherRec
      BY NoWatcherType
    <3> HIDE DEF WatcherRec, KeySet, EntryRec, Pushes, NoWatcher
    <3> QED BY <1>1, <3>1, <3>2, CurrentTypes
  <2>2. Steady
    <3>1. <<>> \in Seq(Messages) /\ 1 \in Files /\ FALSE \in BOOLEAN
      BY DEF Files
    <3>2. 0 \in 0..MaxFaults
      BY ObserverAssumption
    <3>3. pc \in [Web -> {"new", "sending", "typed", "waiting", "answered", "failed",
                        "cancelled", "aborted"}]
      BY <1>1
    <3> QED BY <1>1, <1>5, <3>1, <3>2, <3>3 DEF Steady
  <2> QED BY <2>1, <2>2 DEF TypeInv
<1>10. LogInv
  BY <1>1, <1>6, <1>7 DEF LogInv, Unwritten
<1>11. KeptInv
  BY <1>1, <1>8, NoWatcherType DEF KeptInv, OncePushed
<1>12. WatchInv
  BY <1>1, NoWatcherType DEF WatchInv
<1>13. OrderInv
  <2>1. Neat(<<>>)
    BY DEF Neat
  <2>2. ReadTo(Current, <<>>, 0)
    BY <1>8 DEF ReadTo
  <2> QED BY <1>1, <1>3, <2>1, <2>2, NoWatcherType DEF OrderInv
<1>14. LabelInv
  <2>1. \A m \in Web : ~OnItsWay(Current, m)
    BY <1>1, <1>6, <1>7 DEF OnItsWay
  <2>2. Labelled(Current)
    BY <1>1, <1>7, <1>8 DEF Labelled
  <2> QED BY <1>8, <2>1, <2>2 DEF LabelInv, Labels
<1>15. TurnInv
  BY <1>1, <1>7 DEF TurnInv, Signalled
<1> QED BY <1>9, <1>10, <1>11, <1>12, <1>13, <1>14, <1>15 DEF ObserverInv

LEMMA ObserverNextSafe == ObserverInv /\ Next => ObserverInv'
<1> SUFFICES ASSUME ObserverInv, Next PROVE ObserverInv'
  OBVIOUS
<1>1. CASE \E m \in Terminal : TypeAtTerminal(m)
  BY <1>1, TypeAtTerminalSafe
<1>2. CASE Begin
  BY <1>2, BeginSafe
<1>3. CASE ToolUse \/ ToolResult \/ Snapshot \/ Final
  BY <1>3, CliSafe
<1>4. CASE TerminalEscape \/ Switch
  BY <1>4, TerminalEscapeSafe, SwitchSafe
<1>5. CASE Sync \/ StopWatcher
  BY <1>5, SyncSafe, StopWatcherSafe
<1>6. CASE PreWarm \/ Detected
  BY <1>6, WatchesSafe
<1>7. CASE Restart
  BY <1>7, RestartSafe
<1>8. ASSUME NEW m \in Web,
             Start(m) \/ Typed(m) \/ SendFails(m) \/ Register(m) \/ Wake(m) \/ Cancel(m) \/ Abort(m)
      PROVE  ObserverInv'
  BY <1>8, TurnStartSafe, TypedSafe, RegisterSafe, WakeSafe, BreakSafe
<1> QED BY <1>1, <1>2, <1>3, <1>4, <1>5, <1>6, <1>7, <1>8 DEF Next

LEMMA ObserverLeft ==
  ASSUME ObserverInv, UNCHANGED vars
  PROVE  ObserverInv'
<1>1. /\ log' = log /\ conv' = conv /\ typed' = typed /\ busy' = busy /\ stage' = stage
      /\ watcher' = watcher /\ tool' = tool /\ ids' = ids /\ stored' = stored /\ pushed' = pushed
      /\ done' = done /\ isSet' = isSet /\ events' = events /\ skipped' = skipped
      /\ excused' = excused /\ early' = early /\ strayed' = strayed /\ pc' = pc /\ faults' = faults
  BY DEF vars, cliVars, adapterVars, ghostVars
<1>2. Current' = Current /\ Written' = Written /\ Active' = Active
  BY <1>1 DEF Current, Written, Active
<1>3. TypeInv' /\ LogInv' /\ KeptInv' /\ WatchInv' /\ OrderInv' /\ LabelInv'
  <2>0. /\ TypeInv /\ LogInv /\ KeptInv /\ WatchInv /\ OrderInv /\ LabelInv
    BY DEF ObserverInv
  <2>1. TypeInv'
    BY <1>1, <1>2, <2>0 DEF TypeInv, Steady
  <2>2. LogInv'
    BY <1>1, <2>0, LogLeft
  <2>3. KeptInv'
    BY <1>1, <2>0, KeptLeft
  <2>4. WatchInv'
    BY <1>1, <2>0, WatchLeft
  <2>5. OrderInv'
    BY <1>1, <2>0, OrderLeft
  <2>6. LabelInv'
    BY <1>1, <2>0, LabelLeft
  <2> QED BY <2>1, <2>2, <2>3, <2>4, <2>5, <2>6
<1>4. TurnInv'
  <2>1. (Signalled' <=> Signalled) /\ \A m : Answered(m)' <=> Answered(m)
    BY <1>1, SignalledLeft, AnswerLeft
  <2>2. \A m : Alone(m) => Alone(m)'
    BY <1>1, <1>2, <2>1 DEF Alone, Key, Answer
  <2> QED BY <1>1, <1>2, <2>1, <2>2 DEF ObserverInv, TurnInv
<1> QED BY <1>3, <1>4 DEF ObserverInv

LEMMA EntriesFollow == ObserverInv => EntriesMatch
<1> SUFFICES ASSUME ObserverInv PROVE EntriesMatch
  OBVIOUS
<1>0. /\ TypeInv /\ LogInv /\ KeptInv /\ WatchInv /\ OrderInv /\ LabelInv /\ TurnInv /\ Steady
      /\ Current \in StateRec
  BY SteadyParts
<1>1. TypeOK
  <2>1. \A f \in Files : \A e \in Range(log[f]) : e \in EntryRec
    <3>1. Written \subseteq EntryRec
      BY <1>0, LogOne
    <3> QED BY <3>1 DEF Written
  <2>2. \A f \in Files : \A e \in Range(log[f]) :
          e.of \in Messages \cup {0} /\ e.kind \in {"user", "tool", "result", "null", "final"}
    BY <2>1 DEF EntryRec, Kinds
  <2>3. /\ watcher.file \in Files \cup {0} /\ watcher.others \subseteq Files
        /\ watcher.on \in BOOLEAN /\ watcher.initial \in BOOLEAN
        /\ tool \in BOOLEAN /\ isSet \in BOOLEAN
        /\ ids \in Seq(Web) /\ done \in Web \cup {0}
    BY <1>0, CurrentTypes DEF WatcherRec
  <2>4. stored \subseteq {Key(e) : e \in Written}
    BY <1>0 DEF KeptInv
  <2> QED BY <1>0, <2>2, <2>3, <2>4 DEF TypeOK, Steady
<1>2. PushedOnce
  BY <1>0, CurrentFields DEF KeptInv, OncePushed, PushedOnce
<1>3. LabelsMatch
  BY <1>0, CurrentFields DEF LabelInv, Labels, Labelled, LabelsMatch
<1>4. SkippedOnlyAfterEscape
  <2>1. faults = 0 => \A e \in skipped : e.kind # "user"
    BY <1>0, CurrentFields DEF OrderInv, ReadTo
  <2>2. faults \in Nat
    BY SteadyParts
  <2> QED BY <2>1, <2>2 DEF SkippedOnlyAfterEscape
<1>5. AnsweredIsComplete
  BY <1>0 DEF TurnInv, Answered, AnsweredIsComplete
<1> QED BY <1>1, <1>2, <1>3, <1>4, <1>5 DEF EntriesMatch

LEMMA ObserverStep ==
  ObserverInv /\ [AnswersNext]_<<running, vars, voiceVars>> => ObserverInv'
<1> SUFFICES ASSUME ObserverInv, [AnswersNext]_<<running, vars, voiceVars>>
             PROVE  ObserverInv'
  OBVIOUS
<1>1. Next \/ UNCHANGED vars
  BY DEF AnswersNext
<1> QED BY <1>1, ObserverNextSafe, ObserverLeft

\* Reachable states: entries of the log are stored and pushed once, under the client id of
\* the message they belong to, a user's message is left out only after an interrupted tool,
\* and a turn ends with its whole answer (adapter.py:719, 774, 888).
THEOREM EntriesAreMatched == AnswersSpec => []EntriesMatch
<1>1. AnswersInit => ObserverInv
  BY ObserverStart DEF AnswersInit
<1> QED BY <1>1, ObserverStep, EntriesFollow, PTL DEF AnswersSpec
=============================================================================
