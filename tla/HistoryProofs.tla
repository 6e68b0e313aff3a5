---------------------------- MODULE HistoryProofs ----------------------------
(***************************************************************************)
(* The numbers of the store, the cursor of a browser and the messages that *)
(* are behind it, for every length of the history, every size of the push  *)
(* queue and every number of faults.                                       *)
(***************************************************************************)
EXTENDS History, TLAPS, FiniteSetTheorems

-----------------------------------------------------------------------------
(* Finite sets of numbers *)

(* The ranks of the elements of a finite set are 1, 2, ... up to its size. *)
LEMMA RankFacts ==
    ASSUME NEW S \in SUBSET Nat, IsFiniteSet(S)
    PROVE  /\ Cardinality(S) \in Nat
           /\ \A k \in S : Cardinality({j \in S : j <= k}) \in 1..Cardinality(S)
           /\ \A n \in 1..Cardinality(S) : \E k \in S : Cardinality({j \in S : j <= k}) = n
  <1> DEFINE upto(k) == {j \in S : j <= k}
             rank == [k \in S |-> Cardinality(upto(k))]
             n == Cardinality(S)
  <1>1. n \in Nat
    BY FS_CardinalityType
  <1>2. ASSUME NEW k \in S PROVE IsFiniteSet(upto(k)) /\ Cardinality(upto(k)) \in 1..n
    <2>1. IsFiniteSet(upto(k)) /\ Cardinality(upto(k)) <= n /\ k \in upto(k)
      BY FS_Subset
    <2>2. Cardinality(upto(k)) \in Nat
      BY <2>1, FS_CardinalityType
    <2>3. upto(k) # {}
      BY <2>1
    <2>4. Cardinality(upto(k)) # 0
      BY <2>1, <2>3, FS_EmptySet
    <2>5. QED BY <1>1, <2>1, <2>2, <2>4
  <1>3. ASSUME NEW j \in S, NEW k \in S, j < k PROVE rank[j] # rank[k]
    <2>1. upto(j) \subseteq upto(k) /\ k \in upto(k) /\ k \notin upto(j)
      <3>1. j \in Nat /\ k \in Nat /\ \A i \in S : i \in Nat
        OBVIOUS
      <3>2. \A i \in S : i <= j => i <= k
        BY <1>3, <3>1
      <3>3. k <= k /\ ~(k <= j)
        BY <1>3, <3>1
      <3>4. QED BY <3>2, <3>3
    <2>2. IsFiniteSet(upto(k)) /\ upto(j) \in SUBSET upto(k) /\ upto(j) # upto(k)
      BY <1>2, <2>1
    <2>3. Cardinality(upto(j)) # Cardinality(upto(k))
      BY <2>2, FS_Subset
    <2>4. QED BY <2>3
  <1>4. rank \in Injection(S, 1..n)
    <2>1. rank \in [S -> 1..n]
      BY <1>2
    <2>2. ASSUME NEW j \in S, NEW k \in S, rank[j] = rank[k] PROVE j = k
      BY <1>3, <2>2
    <2>3. QED BY <2>1, <2>2 DEF Injection, IsInjective
  <1>5. IsFiniteSet(1..n) /\ Cardinality(1..n) = n
    BY <1>1, FS_Interval
  <1>6. rank \in Surjection(S, 1..n)
    BY <1>4, <1>5, FS_Injection
  <1>7. ASSUME NEW i \in 1..n PROVE \E k \in S : Cardinality(upto(k)) = i
    BY <1>6 DEF Surjection
  <1>8. QED BY <1>1, <1>2, <1>7

LEMMA MaxFacts ==
    ASSUME NEW S \in SUBSET Nat, IsFiniteSet(S), S # {}
    PROVE  Max(S) \in S /\ \A j \in S : j <= Max(S)
  <1>1. Cardinality(S) \in Nat /\ Cardinality(S) # 0
    BY FS_CardinalityType, FS_EmptySet
  <1>2. PICK k \in S : Cardinality({j \in S : j <= k}) = Cardinality(S)
    BY <1>1, RankFacts
  <1>3. {j \in S : j <= k} = S
    BY <1>2, FS_Subset
  <1>4. \A j \in S : k >= j
    BY <1>3
  <1>5. Max(S) \in S /\ \A j \in S : Max(S) >= j
    BY <1>4 DEF Max
  <1>6. QED BY <1>5

LEMMA MinFacts ==
    ASSUME NEW S \in SUBSET Nat, IsFiniteSet(S), S # {}
    PROVE  Min(S) \in S /\ \A j \in S : Min(S) <= j
  <1>1. Cardinality(S) \in Nat /\ Cardinality(S) # 0
    BY FS_CardinalityType, FS_EmptySet
  <1>2. PICK k \in S : Cardinality({j \in S : j <= k}) = 1
    BY <1>1, RankFacts
  <1>3. IsFiniteSet({j \in S : j <= k})
    BY FS_Subset
  <1>4. \A j \in S : k <= j
    <2> SUFFICES ASSUME NEW j \in S, ~(k <= j) PROVE FALSE
      OBVIOUS
    <2>1. {j, k} \subseteq {i \in S : i <= k} /\ j # k
      OBVIOUS
    <2>2. QED BY <1>2, <1>3, <2>1, FS_Singleton
  <1>5. Min(S) \in S /\ \A j \in S : Min(S) <= j
    BY <1>4 DEF Min
  <1>6. QED BY <1>5

LEMMA PairMax ==
    ASSUME NEW a \in Nat, NEW b \in Nat
    PROVE  /\ Max({a, b}) \in Nat /\ Max({a, b}) \in {a, b}
           /\ a <= Max({a, b}) /\ b <= Max({a, b})
  <1>1. a >= b \/ b >= a
    OBVIOUS
  <1>2. \E x \in {a, b} : \A y \in {a, b} : x >= y
    BY <1>1
  <1>3. Max({a, b}) \in {a, b} /\ \A y \in {a, b} : Max({a, b}) >= y
    BY <1>2 DEF Max
  <1>4. QED BY <1>3

-----------------------------------------------------------------------------
(* The numbers of a table *)

RowsOf(f) == {k \in Keys : f[k] > 0}
TopOf(f)  == Max({f[k] : k \in Keys})
Dense(f)  == {f[k] : k \in RowsOf(f)} = 1..Cardinality(RowsOf(f))

LEMMA KeysFacts ==
    /\ IsFiniteSet(Keys) /\ Cardinality(Keys) = MaxKey /\ MaxKey \in Nat
    /\ Keys \subseteq Nat /\ 1 \in Keys
    /\ \A S \in SUBSET Keys : IsFiniteSet(S) /\ S \in SUBSET Nat /\ Cardinality(S) \in Nat
  <1>1. MaxKey \in Nat \ {0}
    BY HistoryAssumption
  <1>2. IsFiniteSet(Keys) /\ Cardinality(Keys) = MaxKey
    BY <1>1, FS_Interval DEF Keys
  <1>3. Keys \subseteq Nat /\ 1 \in Keys
    BY <1>1 DEF Keys
  <1>4. ASSUME NEW S \in SUBSET Keys
        PROVE  IsFiniteSet(S) /\ S \in SUBSET Nat /\ Cardinality(S) \in Nat
    <2>1. IsFiniteSet(S)
      BY <1>2, FS_Subset
    <2>2. QED BY <1>3, <2>1, FS_CardinalityType
  <1>5. QED BY <1>1, <1>2, <1>3, <1>4

LEMMA TopFacts ==
    ASSUME NEW f \in [Keys -> Nat]
    PROVE  /\ TopOf(f) \in Nat
           /\ \A k \in Keys : f[k] <= TopOf(f)
           /\ \E k \in Keys : f[k] = TopOf(f)
  <1> DEFINE S == {f[k] : k \in Keys}
  <1>1. S \in SUBSET Nat /\ S # {}
    BY KeysFacts
  <1>2. f \in Surjection(Keys, S)
    BY DEF Surjection
  <1>3. IsFiniteSet(S)
    BY <1>2, KeysFacts, FS_Surjection
  <1>4. Max(S) \in S /\ \A j \in S : j <= Max(S)
    BY <1>1, <1>3, MaxFacts
  <1>5. QED BY <1>1, <1>4 DEF TopOf

(* The last number of a table without gaps is the number of its rows. *)
LEMMA DenseTop ==
    ASSUME NEW f \in [Keys -> Nat], Dense(f)
    PROVE  TopOf(f) = Cardinality(RowsOf(f))
  <1> DEFINE n == Cardinality(RowsOf(f))
  <1>1. n \in Nat /\ TopOf(f) \in Nat
    BY KeysFacts, TopFacts DEF RowsOf
  <1>2. TopOf(f) <= n
    <2>1. PICK k \in Keys : f[k] = TopOf(f)
      BY TopFacts
    <2>2. k \in RowsOf(f) => f[k] \in 1..n
      BY DEF Dense
    <2>3. QED BY <1>1, <2>1, <2>2 DEF RowsOf
  <1>3. n <= TopOf(f)
    <2>1. CASE n = 0
      BY <1>1, <2>1
    <2>2. CASE n # 0
      <3>1. PICK k \in RowsOf(f) : f[k] = n
        BY <1>1, <2>2 DEF Dense
      <3>2. QED BY <3>1, TopFacts DEF RowsOf
    <2>3. QED BY <2>1, <2>2
  <1>4. QED BY <1>1, <1>2, <1>3

(* What Numbered does to the table: rows keep their numbers, the new ones go on
   behind the last. *)
LEMMA NumberedFacts ==
    ASSUME seq \in [Keys -> Nat], NEW new \in SUBSET (Keys \ Stored)
    PROVE  /\ Numbered(new) \in [Keys -> Nat]
           /\ \A k \in Keys \ new : Numbered(new)[k] = seq[k]
           /\ \A k \in new : Numbered(new)[k] > Top
           /\ RowsOf(Numbered(new)) = Stored \cup new
           /\ TopOf(Numbered(new)) >= Top
  <1>1. Top = TopOf(seq) /\ Top \in Nat
    BY TopFacts DEF Top, TopOf
  <1>2. \A k \in new : Cardinality({j \in new : j <= k}) \in Nat \ {0}
    <2>1. new \in SUBSET Nat /\ IsFiniteSet(new)
      BY KeysFacts
    <2>2. QED BY <2>1, RankFacts
  <1>3. \A k \in new : Numbered(new)[k] = Top + Cardinality({j \in new : j <= k})
    BY DEF Numbered
  <1>4. \A k \in Keys \ new : Numbered(new)[k] = seq[k]
    BY DEF Numbered
  <1>5. ASSUME NEW k \in new PROVE Numbered(new)[k] \in Nat /\ Numbered(new)[k] > Top
    <2> DEFINE r == Cardinality({j \in new : j <= k})
    <2>1. r \in Nat \ {0} /\ Numbered(new)[k] = Top + r
      BY <1>2, <1>3
    <2> HIDE DEF r
    <2>2. QED BY <1>1, <2>1
  <1>6. Numbered(new) \in [Keys -> Nat]
    <2>1. Numbered(new) = [k \in Keys |-> Numbered(new)[k]]
      BY DEF Numbered
    <2>2. \A k \in Keys : Numbered(new)[k] \in Nat
      BY <1>4, <1>5
    <2>3. QED BY <2>1, <2>2
  <1>7. RowsOf(Numbered(new)) = Stored \cup new
    BY <1>1, <1>4, <1>5 DEF RowsOf, Stored
  <1>8. TopOf(Numbered(new)) >= Top
    <2>1. PICK k \in Keys : seq[k] = Top
      BY <1>1, TopFacts
    <2>2. Numbered(new)[k] >= Top
      BY <1>1, <1>4, <1>5, <2>1
    <2>3. Numbered(new)[k] <= TopOf(Numbered(new)) /\ TopOf(Numbered(new)) \in Nat
      BY <1>6, TopFacts
    <2>4. QED BY <1>1, <1>6, <2>2, <2>3
  <1>9. QED BY <1>4, <1>5, <1>6, <1>7, <1>8

LEMMA NumberedDense ==
    ASSUME seq \in [Keys -> Nat], SeqDense, NEW new \in SUBSET (Keys \ Stored)
    PROVE  Dense(Numbered(new))
  <1> DEFINE n == Cardinality(Stored)
             m == Cardinality(new)
  <1>1. /\ n \in Nat /\ m \in Nat /\ IsFiniteSet(Stored) /\ IsFiniteSet(new)
        /\ new \in SUBSET Nat
    BY KeysFacts DEF Stored
  <1>2. Top = n
    BY DenseTop DEF Top, TopOf, SeqDense, Dense, RowsOf, Stored
  <1>3. RowsOf(Numbered(new)) = Stored \cup new
    BY NumberedFacts
  <1>4. Cardinality(Stored \cup new) = n + m
    <2>1. Stored \cap new = {}
      OBVIOUS
    <2>2. QED BY <1>1, <2>1, FS_Union, FS_EmptySet
  <1>5. \A k \in Stored : Numbered(new)[k] = seq[k] /\ seq[k] \in 1..n
    BY NumberedFacts DEF SeqDense, Stored
  <1>6. \A k \in new : Numbered(new)[k] = n + Cardinality({j \in new : j <= k})
    BY <1>2 DEF Numbered
  <1>7. ASSUME NEW k \in Stored \cup new PROVE Numbered(new)[k] \in 1..(n + m)
    <2>1. CASE k \in Stored
      BY <1>1, <1>5, <2>1
    <2>2. CASE k \in new
      <3>1. Cardinality({j \in new : j <= k}) \in 1..m
        BY <1>1, <2>2, RankFacts
      <3>2. QED BY <1>1, <1>6, <2>2, <3>1
    <2>3. QED BY <2>1, <2>2
  <1>8. ASSUME NEW i \in 1..(n + m) PROVE \E k \in Stored \cup new : Numbered(new)[k] = i
    <2>1. CASE i <= n
      <3>1. i \in 1..n
        BY <1>1, <2>1
      <3>2. PICK k \in Stored : seq[k] = i
        BY <3>1 DEF SeqDense
      <3>3. QED BY <1>5, <3>2
    <2>2. CASE ~(i <= n)
      <3>1. i - n \in 1..m
        BY <1>1, <2>2
      <3>2. PICK k \in new : Cardinality({j \in new : j <= k}) = i - n
        BY <1>1, <3>1, RankFacts
      <3>3. Numbered(new)[k] = n + (i - n)
        BY <1>6, <3>2
      <3>4. QED BY <1>1, <3>3
    <2>3. QED BY <2>1, <2>2
  <1>9. {Numbered(new)[k] : k \in Stored \cup new} = 1..(n + m)
    BY <1>7, <1>8
  <1>10. QED BY <1>3, <1>4, <1>9 DEF Dense

(* One new row is the table numbered with that row. *)
LEMMA InsertFacts ==
    ASSUME seq \in [Keys -> Nat], NEW k \in Keys \ Stored, Insert(k)
    PROVE  seq' = Numbered({k}) /\ seq'[k] = Top + 1
  <1>1. {j \in {k} : j <= k} = {k}
    BY KeysFacts
  <1>2. Cardinality({j \in {k} : j <= k}) = 1
    BY <1>1, FS_Singleton
  <1>3. QED BY <1>2 DEF Insert, Numbered

LEMMA NumberedNothing ==
    ASSUME seq \in [Keys -> Nat]
    PROVE  seq = Numbered({})
  BY DEF Numbered

(* Renumbering keeps the rows and numbers them without gaps. *)
LEMMA FixFacts ==
    ASSUME seq \in [Keys -> Nat], SeqDense, FixServerSeqOrder
    PROVE  /\ seq' \in [Keys -> Nat] /\ Stored' = Stored /\ Dense(seq')
           /\ TopOf(seq') = TopOf(seq)
  <1> DEFINE ranks == [k \in Keys |-> IF k \in Stored
                                      THEN Cardinality({j \in Stored : j <= k}) ELSE 0]
             n == Cardinality(Stored)
  <1>1. Dense(seq) /\ RowsOf(seq) = Stored
    BY DEF SeqDense, Dense, RowsOf, Stored
  <1>2. CASE seq' = seq
    BY <1>1, <1>2 DEF RowsOf, Stored
  <1>3. CASE seq' = ranks
    <2>1. /\ n \in Nat
          /\ \A k \in Stored : ranks[k] \in 1..n
          /\ \A i \in 1..n : \E k \in Stored : ranks[k] = i
      <3>1. Stored \in SUBSET Nat /\ IsFiniteSet(Stored) /\ Stored \subseteq Keys
        BY KeysFacts DEF Stored
      <3>2. QED BY <3>1, RankFacts
    <2>2. ASSUME NEW k \in Keys PROVE ranks[k] \in Nat /\ (ranks[k] > 0 <=> k \in Stored)
      <3>1. CASE k \in Stored
        <4>1. ranks[k] \in 1..n
          BY <2>1, <3>1
        <4> HIDE DEF ranks
        <4>2. QED BY <2>1, <3>1, <4>1
      <3>2. CASE k \notin Stored
        <4>1. ranks[k] = 0
          BY <3>2
        <4> HIDE DEF ranks
        <4>2. QED BY <3>2, <4>1
      <3>3. QED BY <3>1, <3>2
    <2>3. ranks \in [Keys -> Nat] /\ RowsOf(ranks) = Stored
      BY <2>2 DEF RowsOf, Stored
    <2>4. Dense(ranks)
      BY <2>1, <2>3 DEF Dense
    <2>5. TopOf(ranks) = TopOf(seq)
      BY <1>1, <2>3, <2>4, DenseTop
    <2>6. QED BY <1>3, <2>3, <2>4, <2>5 DEF RowsOf, Stored
  <1>4. QED BY <1>2, <1>3 DEF FixServerSeqOrder

-----------------------------------------------------------------------------
(* The frames of the websocket *)

LEMMA FrameFacts ==
    /\ \A k \in Keys, n \in Nat \ {0} : Pushed(k, n) \in Frame /\ Direct(k, n) \in Frame
    /\ \A r \in Nat, d \in BOOLEAN : Revision(r, d) \in Frame
    /\ \A f \in Frame : f.type = "message_sync" => f.key \in Keys /\ f.seq \in Nat \ {0}
    /\ \A f \in Frame : f.type = "history_revision" => f.rev \in Nat
  BY DEF Frame, Pushed, Direct, Revision

(* The first frame leaves and the others move up. *)
LEMMA TailFacts ==
    ASSUME NEW S, NEW s \in Seq(S), s # <<>>
    PROVE  /\ Head(s) \in S /\ Head(s) = s[1] /\ 1 \in DOMAIN s
           /\ Tail(s) \in Seq(S)
           /\ \A i \in DOMAIN Tail(s) : i + 1 \in DOMAIN s /\ Tail(s)[i] = s[i + 1]
           /\ \A i \in DOMAIN s \ {1} : i - 1 \in DOMAIN Tail(s) /\ Tail(s)[i - 1] = s[i]
  OBVIOUS

(* A frame that is put in somewhere moves those behind it one place. *)
LEMMA InsertAtFacts ==
    ASSUME NEW S, NEW s \in Seq(S), NEW e \in S, NEW i \in 0..Len(s)
    PROVE  /\ InsertAt(s, i + 1, e) \in Seq(S)
           /\ DOMAIN InsertAt(s, i + 1, e) = 1..(Len(s) + 1)
           /\ \A j \in 1..(Len(s) + 1) :
                 InsertAt(s, i + 1, e)[j] = IF j <= i THEN s[j]
                                            ELSE IF j = i + 1 THEN e ELSE s[j - 1]
  <1> DEFINE before == SubSeq(s, 1, i)
             after  == SubSeq(s, i + 1, Len(s))
  <1>1. /\ before \in Seq(S) /\ Len(before) = i
        /\ \A j \in 1..i : before[j] = s[j]
    OBVIOUS
  <1>2. /\ after \in Seq(S) /\ Len(after) = Len(s) - i
        /\ \A j \in 1..(Len(s) - i) : after[j] = s[i + j]
    OBVIOUS
  <1>3. InsertAt(s, i + 1, e) = before \o <<e>> \o after
    <2>1. (i + 1) - 1 = i
      OBVIOUS
    <2>2. QED BY <2>1 DEF InsertAt
  <1> HIDE DEF before, after
  <1> DEFINE front == before \o <<e>>
  <1>4. /\ front \in Seq(S) /\ Len(front) = i + 1
        /\ \A j \in 1..(i + 1) : front[j] = IF j <= i THEN s[j] ELSE e
    BY <1>1
  <1> HIDE DEF front
  <1>5. /\ front \o after \in Seq(S) /\ Len(front \o after) = Len(s) + 1
        /\ \A j \in 1..(i + 1) : (front \o after)[j] = front[j]
        /\ \A j \in (i + 2)..(Len(s) + 1) : (front \o after)[j] = after[j - (i + 1)]
    BY <1>2, <1>4
  <1>6. \A j \in (i + 2)..(Len(s) + 1) : after[j - (i + 1)] = s[j - 1]
    <2> SUFFICES ASSUME NEW j \in (i + 2)..(Len(s) + 1) PROVE after[j - (i + 1)] = s[j - 1]
      OBVIOUS
    <2>1. j - (i + 1) \in 1..(Len(s) - i) /\ i + (j - (i + 1)) = j - 1
      OBVIOUS
    <2>2. QED BY <1>2, <2>1
  <1>7. InsertAt(s, i + 1, e) = front \o after
    BY <1>3 DEF front
  <1>8. ASSUME NEW j \in 1..(Len(s) + 1)
        PROVE  (front \o after)[j] = IF j <= i THEN s[j] ELSE IF j = i + 1 THEN e ELSE s[j - 1]
    <2>1. CASE j <= i + 1
      BY <1>4, <1>5, <2>1
    <2>2. CASE ~(j <= i + 1)
      BY <1>5, <1>6, <2>2
    <2>3. QED BY <2>1, <2>2
  <1> DEFINE whole == front \o after
  <1> HIDE DEF whole
  <1>9. whole \in Seq(S) /\ Len(whole) = Len(s) + 1
    BY <1>5 DEF whole
  <1>10. DOMAIN whole = 1..(Len(s) + 1)
    BY <1>9
  <1>11. InsertAt(s, i + 1, e) = whole
    BY <1>7 DEF whole
  <1>12. \A j \in 1..(Len(s) + 1) :
            whole[j] = IF j <= i THEN s[j] ELSE IF j = i + 1 THEN e ELSE s[j - 1]
    BY <1>8 DEF whole
  <1>13. QED BY <1>9, <1>10, <1>11, <1>12

LEMMA AppendFacts ==
    ASSUME NEW S, NEW s \in Seq(S), NEW e \in S
    PROVE  /\ Append(s, e) \in Seq(S)
           /\ DOMAIN Append(s, e) = 1..(Len(s) + 1)
           /\ \A j \in 1..(Len(s) + 1) :
                 Append(s, e)[j] = IF j <= Len(s) THEN s[j] ELSE e
  OBVIOUS

LEMMA BroadcastFacts ==
    ASSUME frames \in Seq(Frame), registered \in BOOLEAN, NEW f \in Frame, Broadcast(f)
    PROVE  /\ frames' \in Seq(Frame) /\ registered' \in BOOLEAN
           /\ frames' = frames \/ frames' = Append(frames, f)
  <1>1. Append(frames, f) \in Seq(Frame)
    BY AppendFacts
  <1>2. frames' = frames \/ frames' = Append(frames, f)
    BY DEF Broadcast
  <1>3. registered' \in BOOLEAN
    BY DEF Broadcast
  <1>4. QED BY <1>1, <1>2, <1>3

LEMMA SendDirectFacts ==
    ASSUME frames \in Seq(Frame), NEW f \in Frame, SendDirect(f)
    PROVE  /\ frames' \in Seq(Frame)
           /\ \/ frames' = frames
              \/ \E i \in 0..Len(frames) : frames' = InsertAt(frames, i + 1, f)
  BY InsertAtFacts DEF SendDirect

-----------------------------------------------------------------------------
(* Types, and what is stored has been written *)

Written == Stored \subseteq 1..created

TypeInv == TypeOK /\ Written

Env == [edits : Nat, drops : Nat, fails : Nat, restarts : Nat]

LEMMA SpentFacts ==
    ASSUME env \in Env
    PROVE  /\ [env EXCEPT !.edits = @ + 1] \in Env /\ [env EXCEPT !.drops = @ + 1] \in Env
           /\ [env EXCEPT !.fails = @ + 1] \in Env /\ [env EXCEPT !.restarts = @ + 1] \in Env
  BY DEF Env

LEMMA ReqFacts ==
    /\ NoReq \in Request
    /\ \A n \in Nat : Ask(n) \in Request /\ Ask(n).stage = "asked" /\ Ask(n).after = n
                      /\ Ask(n).rows = {} /\ Ask(n).top = 0
    /\ \A r \in Request : /\ r.after \in Nat /\ r.top \in Nat /\ r.rev \in Nat
                          /\ r.rows \subseteq Keys
                          /\ r.stage \in {"none", "asked", "answered"}
  BY DEF NoReq, Ask, Request

LEMMA TypeInit == Init => TypeInv /\ SeqDense
  <1> SUFFICES ASSUME Init PROVE TypeInv /\ SeqDense
    OBVIOUS
  <1>1. Stored = {}
    BY DEF Init, Stored
  <1>2. {seq[k] : k \in Stored} = {} /\ Cardinality(Stored) = 0 /\ 1..0 = {}
    BY <1>1, FS_EmptySet
  <1>3. req \in Request /\ frames \in Seq(Frame)
    BY ReqFacts DEF Init
  <1>4. created \in 0..MaxKey /\ seq \in [Keys -> Nat]
    BY HistoryAssumption DEF Init
  <1>5. env \in [edits : Nat, drops : Nat, fails : Nat, restarts : Nat]
    BY DEF Init
  <1>6. TypeOK
    BY <1>3, <1>4, <1>5 DEF Init, TypeOK
  <1>7. QED BY <1>1, <1>2, <1>6 DEF TypeInv, Written, SeqDense

LEMMA ReplaceFacts ==
    ASSUME TypeInv, ReplaceBotSnapshot
    PROVE  /\ log \ Stored \in SUBSET (Keys \ Stored) /\ log \ Stored \subseteq 1..created
           /\ seq' = Numbered(log \ Stored)
           /\ revision' \in Nat /\ env' \in Env
  <1>1. log \subseteq 1..created /\ 1..created \subseteq Keys
    BY HistoryAssumption DEF TypeInv, TypeOK, Keys
  <1>2. revision' \in Nat
    BY DEF TypeInv, TypeOK, ReplaceBotSnapshot
  <1>3. env' \in Env
    <2>1. env \in Env
      BY DEF TypeInv, TypeOK, Env
    <2>2. QED BY <2>1, SpentFacts DEF ReplaceBotSnapshot
  <1>4. QED BY <1>1, <1>2, <1>3 DEF ReplaceBotSnapshot

LEMMA WatcherFacts ==
    ASSUME TypeInv, WatcherReads
    PROVE  \E k \in log \ watched :
              /\ k \in 1..created /\ k \in Keys
              /\ watched' = watched \cup {k}
              /\ \/ k \in Stored /\ UNCHANGED <<seq, registered, frames>>
                 \/ k \in Keys \ Stored /\ Insert(k) /\ Broadcast(Pushed(k, Top + 1))
  <1> DEFINE k == Min(log \ watched)
  <1>1. log \subseteq 1..created /\ 1..created \subseteq Keys
    BY HistoryAssumption DEF TypeInv, TypeOK, Keys
  <1>2. log \ watched # {}
    BY DEF TypeInv, TypeOK, WatcherReads
  <1>3. IsFiniteSet(log \ watched) /\ log \ watched \in SUBSET Nat
    BY <1>1, KeysFacts
  <1>4. k \in log \ watched
    BY <1>2, <1>3, MinFacts
  <1>5. k \in 1..created /\ k \in Keys
    BY <1>1, <1>4
  <1>6. /\ watched' = watched \cup {k}
        /\ \/ k \in Stored /\ UNCHANGED <<seq, registered, frames>>
           \/ k \notin Stored /\ Insert(k) /\ Broadcast(Pushed(k, Top + 1))
    BY DEF WatcherReads
  <1> HIDE DEF k
  <1>7. QED BY <1>4, <1>5, <1>6

(* However rows are stored, except by a restart, the table is numbered on. *)
Grown == \E new \in SUBSET (Keys \ Stored) : new \subseteq 1..created' /\ seq' = Numbered(new)

LEMMA Growth ==
    ASSUME TypeInv, [Next]_vars
    PROVE  Restart \/ Grown
  <1>0. seq \in [Keys -> Nat] /\ created \in Nat /\ created \in 0..MaxKey
    BY HistoryAssumption DEF TypeInv, TypeOK
  <1>1. ASSUME ReplaceBotSnapshot, created' = created PROVE Grown
    BY <1>1, ReplaceFacts DEF Grown
  <1>2. ASSUME seq' = seq PROVE Grown
    BY <1>0, <1>2, NumberedNothing DEF Grown
  <1>3. CASE WatcherReads
    <2>1. PICK k \in log \ watched :
              /\ k \in 1..created /\ k \in Keys
              /\ seq' = seq \/ (k \in Keys \ Stored /\ Insert(k))
      BY <1>3, WatcherFacts
    <2>2. created' = created
      BY <1>3 DEF WatcherReads, agentVars
    <2>3. CASE k \in Keys \ Stored /\ Insert(k)
      <3>1. seq' = Numbered({k}) /\ {k} \in SUBSET (Keys \ Stored) /\ {k} \subseteq 1..created'
        BY <1>0, <2>1, <2>2, <2>3, InsertFacts
      <3>2. QED BY <3>1 DEF Grown
    <2>4. QED BY <1>2, <2>1, <2>3
  <1>4. CASE InsertBoundary
    <2>1. created + 1 \in Keys /\ created' = created + 1 /\ Insert(created + 1)
      BY <1>0, <1>4, HistoryAssumption DEF InsertBoundary, Keys
    <2>2. created + 1 \in Keys \ Stored
      BY <1>0, <2>1 DEF TypeInv, Written
    <2>3. seq' = Numbered({created + 1}) /\ {created + 1} \subseteq 1..created'
      BY <1>0, <2>1, <2>2, InsertFacts
    <2>4. QED BY <2>2, <2>3 DEF Grown
  <1>5. CASE SyncAndAnnounce \/ SyncSilently
    BY <1>1, <1>5 DEF SyncAndAnnounce, SyncSilently, agentVars
  <1>6. CASE ServerAnswers
    BY <1>1, <1>2, <1>6 DEF ServerAnswers, agentVars, storeVars
  <1>7. CASE AgentWrites \/ ClientStep \/ Open \/ Drop \/ UNCHANGED vars
    BY <1>2, <1>7 DEF AgentWrites, ClientStep, SyncTimer, ApplyRows, ApplyReset,
                      ApplyNothing, Fail, Foreground, ReceiveMessage, ReceiveRevision,
                      Open, Drop, storeVars, vars
  <1>8. QED BY <1>3, <1>4, <1>5, <1>6, <1>7 DEF Next, ServerStep

\* canonical_store.py:658: whatever else happens, only the renumbering of a restart
\* gives a stored row another number.
LEMMA GrownKeeps ==
    ASSUME seq \in [Keys -> Nat], Grown
    PROVE  /\ seq' \in [Keys -> Nat]
           /\ \A k \in Stored : seq'[k] = seq[k]
           /\ Stored \subseteq Stored' /\ Stored' \subseteq Stored \cup (1..created')
           /\ \A k \in Stored' \ Stored : seq'[k] > Top
           /\ Top' >= Top
           /\ SeqDense => SeqDense'
  <1>1. PICK new \in SUBSET (Keys \ Stored) : new \subseteq 1..created' /\ seq' = Numbered(new)
    BY DEF Grown
  <1>2. Stored' = RowsOf(seq') /\ Top' = TopOf(seq')
    BY DEF Stored, Top, RowsOf, TopOf
  <1>3. SeqDense' <=> Dense(seq')
    BY <1>2 DEF SeqDense, Dense
  <1>4. Stored \subseteq Keys
    BY DEF Stored
  <1>5. QED BY <1>1, <1>2, <1>3, <1>4, NumberedFacts, NumberedDense

LEMMA TypeStep ==
    ASSUME TypeInv, [Next]_vars
    PROVE  TypeInv'
  <1>0. /\ created \in 0..MaxKey /\ created \in Nat /\ seq \in [Keys -> Nat]
        /\ log \subseteq 1..created /\ watched \subseteq log
        /\ registered \in BOOLEAN /\ frames \in Seq(Frame)
        /\ Top \in Nat /\ Top + 1 \in Nat \ {0} /\ req \in Request
        /\ held \subseteq Keys /\ cursor \in Nat /\ rev \in Nat /\ revision \in Nat
        /\ target \in Nat /\ env \in Env /\ MaxKey \in Nat /\ 0 \in 0..MaxKey
    <2>1. Top \in Nat
      BY TopFacts DEF Top, TopOf, TypeInv, TypeOK
    <2>2. QED BY <2>1, HistoryAssumption DEF TypeInv, TypeOK, Env
  <1>1. seq' \in [Keys -> Nat] /\ Written' /\ created' \in 0..MaxKey
    <2>1. created' = created \/ (created < MaxKey /\ created' = created + 1)
      BY DEF Next, AgentWrites, ServerStep, ClientStep, WatcherReads, InsertBoundary,
             SyncAndAnnounce, SyncSilently, ServerAnswers, Restart, SyncTimer, ApplyRows,
             ApplyReset, ApplyNothing, Fail, Foreground, ReceiveMessage, ReceiveRevision,
             Open, Drop, agentVars, vars
    <2>2. created' \in 0..MaxKey /\ 1..created \subseteq 1..created'
      BY <1>0, <2>1
    <2>3. CASE Restart
      <3>1. created' = created
        BY <2>3 DEF Restart, agentVars
      <3>2. seq' \in [Keys -> Nat] /\ Stored' = Stored
        <4> DEFINE ranks == [k \in Keys |-> IF k \in Stored
                                            THEN Cardinality({j \in Stored : j <= k}) ELSE 0]
        <4>1. Stored \in SUBSET Keys
          BY DEF Stored
        <4>2. \A k \in Stored : Cardinality({j \in Stored : j <= k}) \in Nat \ {0}
          BY <4>1, KeysFacts, RankFacts
        <4>3. ranks \in [Keys -> Nat] /\ \A k \in Keys : k \in Stored <=> ranks[k] > 0
          BY <4>1, <4>2
        <4>4. CASE seq' = ranks
          <5> HIDE DEF ranks
          <5>1. QED BY <4>1, <4>3, <4>4 DEF Stored
        <4>5. CASE seq' = seq
          BY <1>0, <4>5 DEF Stored
        <4>6. QED BY <2>3, <4>4, <4>5 DEF Restart, FixServerSeqOrder
      <3>3. QED BY <2>2, <3>1, <3>2 DEF TypeInv, Written
    <2>4. CASE Grown
      BY <1>0, <2>2, <2>4, GrownKeeps DEF TypeInv, Written
    <2>5. QED BY <2>3, <2>4, Growth
  <1>2. SUFFICES TypeOK'
    BY <1>1 DEF TypeInv
  <1> USE DEF agentVars, storeVars, wireVars, chatVars, syncVars, TypeInv, TypeOK, Env
  <1>3. CASE WatcherReads
    <2>1. PICK k \in log \ watched :
              /\ k \in Keys /\ watched' = watched \cup {k}
              /\ \/ UNCHANGED <<seq, registered, frames>>
                 \/ Broadcast(Pushed(k, Top + 1))
      BY <1>3, WatcherFacts
    <2>2. frames' \in Seq(Frame) /\ registered' \in BOOLEAN
      BY <1>0, <2>1, FrameFacts, BroadcastFacts
    <2>3. watched' \subseteq log
      BY <1>0, <2>1
    <2>4. QED BY <1>1, <1>3, <2>2, <2>3 DEF WatcherReads
  <1>4. CASE InsertBoundary
    <2>1. frames' \in Seq(Frame)
      <3>1. created + 1 \in Keys
        BY <1>0, <1>4 DEF InsertBoundary, Keys
      <3>2. QED BY <1>0, <1>4, <3>1, FrameFacts, SendDirectFacts DEF InsertBoundary
    <2>2. log \subseteq 1..created'
      BY <1>0, <1>4 DEF InsertBoundary
    <2>3. QED BY <1>1, <1>4, <2>1, <2>2 DEF InsertBoundary
  <1>5. CASE SyncAndAnnounce
    <2>1. revision' \in Nat /\ env' \in Env
      BY <1>5, ReplaceFacts DEF SyncAndAnnounce
    <2>2. frames' \in Seq(Frame) /\ registered' \in BOOLEAN
      BY <1>0, <1>5, <2>1, FrameFacts, SendDirectFacts, BroadcastFacts DEF SyncAndAnnounce
    <2>3. QED BY <1>1, <1>5, <2>1, <2>2 DEF SyncAndAnnounce
  <1>6. CASE SyncSilently
    <2>1. revision' \in Nat /\ env' \in Env
      BY <1>6, ReplaceFacts DEF SyncSilently
    <2>2. QED BY <1>1, <1>6, <2>1 DEF SyncSilently
  <1>7. CASE ServerAnswers
    <2>1. revision' \in Nat /\ env' \in Env
      BY <1>0, <1>7, ReplaceFacts DEF ServerAnswers
    <2>2. Max({seq'[k] : k \in Keys}) \in Nat
      BY <1>1, TopFacts DEF TopOf
    <2>3. RowsAfter(req.after) \subseteq Keys
      BY DEF RowsAfter
    <2>4. req' \in Request
      BY <1>0, <1>7, <2>1, <2>2, <2>3 DEF ServerAnswers, Request
    <2>5. QED BY <1>1, <1>7, <2>1, <2>4 DEF ServerAnswers
  <1>8. CASE ApplyRows
    <2>1. held' \subseteq Keys /\ cursor' \in Nat /\ rev' \in Nat
      BY <1>0, <1>8, ReqFacts, PairMax DEF ApplyRows, Merge
    <2>2. QED BY <1>1, <1>8, <2>1, ReqFacts DEF ApplyRows
  <1>9. CASE ApplyReset \/ ApplyNothing
    <2>1. req' \in Request /\ rev' \in Nat /\ held' \subseteq Keys /\ cursor' \in Nat
      BY <1>0, <1>9, ReqFacts DEF ApplyReset, ApplyNothing
    <2>2. target' \in Nat /\ due' \in BOOLEAN
      BY <1>0, <1>9 DEF ApplyReset, ApplyNothing
    <2>3. UNCHANGED <<created, log, watched, revision, connected, registered, frames, env>>
      BY <1>9 DEF ApplyReset, ApplyNothing
    <2>4. QED BY <1>1, <2>1, <2>2, <2>3
  <1>10. ASSUME RequestFailed
         PROVE  req' \in Request /\ target' \in Nat /\ due' \in BOOLEAN
    BY <1>0, <1>10, ReqFacts DEF RequestFailed
  <1>11. CASE Fail
    <2>1. req' \in Request /\ target' \in Nat /\ due' \in BOOLEAN
      BY <1>10, <1>11 DEF Fail
    <2>2. env' \in Env
      <3>1. env' = [env EXCEPT !.fails = @ + 1]
        BY <1>11 DEF Fail
      <3>2. QED BY <1>0, <3>1, SpentFacts
    <2>3. QED BY <1>1, <1>11, <2>1, <2>2 DEF Fail
  <1>12. CASE Restart
    <2>1. req' \in Request /\ target' \in Nat /\ due' \in BOOLEAN
      BY <1>0, <1>10, <1>12 DEF Restart
    <2>2. <<>> \in Seq(Frame) /\ env' \in Env
      BY <1>0, <1>12, SpentFacts DEF Restart
    <2>3. /\ watched' = {} /\ frames' = <<>> /\ connected' = FALSE /\ registered' = FALSE
          /\ UNCHANGED <<agentVars, revision, chatVars>>
      BY <1>12 DEF Restart
    <2>4. QED BY <1>0, <1>1, <2>1, <2>2, <2>3
  <1>13. CASE AgentWrites
    <2>1. log' \subseteq 1..created' /\ watched \subseteq log'
      BY <1>0, <1>13 DEF AgentWrites
    <2>2. QED BY <1>1, <1>13, <2>1 DEF AgentWrites
  <1>14. CASE SyncTimer
    <2>1. req' \in Request
      BY <1>0, <1>14, ReqFacts DEF SyncTimer
    <2>2. QED BY <1>1, <1>14, <2>1 DEF SyncTimer
  <1>15. CASE Foreground \/ Open
    BY <1>1, <1>15 DEF Foreground, Open
  <1>16. CASE ReceiveMessage
    <2>1. frames' \in Seq(Frame) /\ Head(frames) \in Frame
      BY <1>0, <1>16, TailFacts DEF ReceiveMessage
    <2>2. held' \subseteq Keys /\ cursor' \in Nat
      BY <1>0, <1>16, <2>1, FrameFacts, PairMax DEF ReceiveMessage
    <2>3. UNCHANGED <<agentVars, watched, storeVars, connected, registered, rev, syncVars, env>>
      BY <1>16 DEF ReceiveMessage
    <2>4. QED BY <1>0, <1>1, <2>1, <2>2, <2>3
  <1>17. CASE ReceiveRevision
    <2>1. frames' \in Seq(Frame) /\ Head(frames) \in Frame
      BY <1>0, <1>17, TailFacts DEF ReceiveRevision
    <2>2. target' \in Nat /\ due' \in BOOLEAN
      <3>1. CASE Head(frames).rev > rev /\ target' = Max({target, Head(frames).rev}) /\ due' = TRUE
        <4>1. Head(frames).rev \in Nat
          BY <1>17, <2>1, FrameFacts DEF ReceiveRevision
        <4>2. QED BY <1>0, <3>1, <4>1, PairMax
      <3>2. CASE UNCHANGED <<target, due>>
        BY <1>0, <3>2
      <3>3. QED BY <1>17, <3>1, <3>2 DEF ReceiveRevision
    <2>3. UNCHANGED <<agentVars, watched, storeVars, connected, registered, chatVars, req, env>>
      BY <1>17 DEF ReceiveRevision
    <2>4. QED BY <1>0, <1>1, <2>1, <2>2, <2>3
  <1>18. CASE Drop
    <2>1. <<>> \in Seq(Frame) /\ env' \in Env
      BY <1>0, <1>18, SpentFacts DEF Drop
    <2>2. /\ connected' = FALSE /\ registered' = FALSE /\ frames' = <<>>
          /\ UNCHANGED <<agentVars, watched, storeVars, chatVars, syncVars>>
      BY <1>18 DEF Drop
    <2>3. QED BY <1>0, <1>1, <2>1, <2>2
  <1>19. CASE UNCHANGED vars
    BY <1>1, <1>19 DEF vars
  <1>20. QED
    BY <1>3, <1>4, <1>5, <1>6, <1>7, <1>8, <1>9, <1>11, <1>12, <1>13, <1>14, <1>15,
       <1>16, <1>17, <1>18, <1>19 DEF Next, ServerStep, ClientStep

-----------------------------------------------------------------------------
(* The cursor.  Frames and answers say where the table has their rows; an     *)
(* answer in flight is all of the rows between the cursor it was asked with   *)
(* and the last row of its time, and that cursor has not been moved back.     *)

FrameTrue(fr, table) == fr.type = "message_sync" => table[fr.key] = fr.seq

FramesTrue == \A i \in DOMAIN frames : FrameTrue(frames[i], seq)

AnswerTrue ==
    /\ req.top <= Top
    /\ req.stage # "none" => req.after <= cursor
    /\ req.stage = "answered"
          => req.rows = {k \in Keys : req.after < seq[k] /\ seq[k] <= req.top}

CursorInv == SeqDense /\ CursorBounded /\ FramesTrue /\ AnswerTrue

LEMMA CursorInit == Init => CursorInv
  <1> SUFFICES ASSUME Init PROVE CursorInv
    OBVIOUS
  <1>1. Top \in Nat
    BY TypeInit, TopFacts DEF TypeInv, TypeOK, Top, TopOf
  <1>2. FramesTrue
    BY DEF Init, FramesTrue
  <1>3. AnswerTrue
    BY <1>1, ReqFacts DEF Init, AnswerTrue
  <1>4. CursorBounded
    BY <1>1 DEF Init, CursorBounded
  <1>5. QED BY <1>2, <1>3, <1>4, TypeInit DEF CursorInv

LEMMA TableFacts ==
    ASSUME TypeInv
    PROVE  /\ seq \in [Keys -> Nat] /\ Stored \subseteq Keys
           /\ Top \in Nat /\ Top = TopOf(seq) /\ \A k \in Keys : seq[k] <= Top
           /\ \A k \in Keys : k \in Stored <=> seq[k] # 0
  BY TopFacts DEF TypeInv, TypeOK, Top, TopOf, Stored

(* What lies in the table below its top does not change while it grows. *)
LEMMA GrownFacts ==
    ASSUME TypeInv, TypeInv', Grown
    PROVE  /\ \A k \in Stored : k \in Stored' /\ seq'[k] = seq[k]
           /\ \A k \in Keys : seq'[k] # seq[k] => seq'[k] > Top /\ seq[k] = 0
           /\ Top' \in Nat /\ Top <= Top'
  <1>1. /\ \A k \in Stored : seq'[k] = seq[k]
        /\ Stored \subseteq Stored'
        /\ \A k \in Stored' \ Stored : seq'[k] > Top
        /\ Top' >= Top
    BY TableFacts, GrownKeeps
  <1>2. Top \in Nat /\ \A k \in Keys : k \in Stored <=> seq[k] # 0
    BY TableFacts
  <1>3. Top' \in Nat /\ \A k \in Keys : (k \in Stored' <=> seq'[k] # 0) /\ seq[k] \in Nat
    <2>1. seq' \in [Keys -> Nat]
      BY DEF TypeInv, TypeOK
    <2>2. Top' \in Nat
      BY <2>1, TopFacts DEF Top, TopOf
    <2>3. QED BY <2>1, <2>2, TableFacts DEF Stored
  <1>4. QED BY <1>1, <1>2, <1>3

(* A frame stays true while the table grows. *)
LEMMA FramesKept ==
    ASSUME TypeInv, TypeInv', Grown, FramesTrue,
           \A i \in DOMAIN frames' : \/ \E j \in DOMAIN frames : frames'[i] = frames[j]
                                     \/ FrameTrue(frames'[i], seq')
    PROVE  FramesTrue'
  <1> SUFFICES ASSUME NEW i \in DOMAIN frames', NEW j \in DOMAIN frames,
                      frames'[i] = frames[j]
               PROVE  FrameTrue(frames'[i], seq')
    BY DEF FramesTrue
  <1>1. frames[j] \in Frame /\ FrameTrue(frames[j], seq)
    BY DEF TypeInv, TypeOK, FramesTrue
  <1>2. CASE frames[j].type = "message_sync"
    <2>1. frames[j].key \in Keys /\ seq[frames[j].key] # 0
      BY <1>1, <1>2, FrameFacts DEF FrameTrue
    <2>2. seq'[frames[j].key] = seq[frames[j].key]
      BY <2>1, TableFacts, GrownFacts
    <2>3. QED BY <1>1, <2>2 DEF FrameTrue
  <1>3. CASE frames[j].type # "message_sync"
    BY <1>3 DEF FrameTrue
  <1>4. QED BY <1>2, <1>3

LEMMA NewFrame ==
    ASSUME TypeInv, NEW f \in Frame, FrameTrue(f, seq'),
           \/ frames' = frames
           \/ frames' = Append(frames, f)
           \/ \E n \in 0..Len(frames) : frames' = InsertAt(frames, n + 1, f)
    PROVE  \A i \in DOMAIN frames' : \/ \E j \in DOMAIN frames : frames'[i] = frames[j]
                                     \/ FrameTrue(frames'[i], seq')
  <1>0. frames \in Seq(Frame) /\ Len(frames) \in Nat /\ DOMAIN frames = 1..Len(frames)
    BY DEF TypeInv, TypeOK
  <1>1. CASE frames' = frames
    BY <1>1
  <1>2. CASE frames' = Append(frames, f)
    BY <1>0, <1>2, AppendFacts
  <1>3. CASE \E n \in 0..Len(frames) : frames' = InsertAt(frames, n + 1, f)
    <2>1. PICK n \in 0..Len(frames) : frames' = InsertAt(frames, n + 1, f)
      BY <1>3
    <2>2. /\ DOMAIN frames' = 1..(Len(frames) + 1)
          /\ \A j \in 1..(Len(frames) + 1) :
                frames'[j] = IF j <= n THEN frames[j]
                             ELSE IF j = n + 1 THEN f ELSE frames[j - 1]
      <3> DEFINE longer == InsertAt(frames, n + 1, f)
      <3>1. /\ DOMAIN longer = 1..(Len(frames) + 1)
            /\ \A j \in 1..(Len(frames) + 1) :
                  longer[j] = IF j <= n THEN frames[j]
                              ELSE IF j = n + 1 THEN f ELSE frames[j - 1]
        <4>1. ASSUME NEW S, NEW s \in Seq(S), f \in S, n \in 0..Len(s)
              PROVE  /\ DOMAIN InsertAt(s, n + 1, f) = 1..(Len(s) + 1)
                     /\ \A j \in 1..(Len(s) + 1) :
                           InsertAt(s, n + 1, f)[j] = IF j <= n THEN s[j]
                                                      ELSE IF j = n + 1 THEN f ELSE s[j - 1]
          BY <4>1, InsertAtFacts
        <4>2. QED BY <1>0, <4>1
      <3> HIDE DEF longer
      <3>2. frames' = longer
        BY <2>1 DEF longer
      <3>3. QED BY <3>1, <3>2
    <2>3. ASSUME NEW i \in 1..(Len(frames) + 1)
          PROVE  frames'[i] = f \/ \E j \in DOMAIN frames : frames'[i] = frames[j]
      <3>1. CASE i <= n
        BY <1>0, <2>2, <3>1
      <3>2. CASE i > n + 1
        <4>1. i - 1 \in DOMAIN frames /\ frames'[i] = frames[i - 1]
          BY <1>0, <2>2, <3>2
        <4>2. QED BY <4>1
      <3>3. CASE i = n + 1
        BY <1>0, <2>2, <3>3
      <3>4. QED BY <3>1, <3>2, <3>3
    <2>4. QED BY <2>2, <2>3
  <1>4. QED BY <1>1, <1>2, <1>3

LEMMA FramesStep ==
    ASSUME TypeInv, TypeInv', FramesTrue, [Next]_vars, ~Restart
    PROVE  FramesTrue'
  <1> DEFINE Fine == \A i \in DOMAIN frames' :
                        \/ \E j \in DOMAIN frames : frames'[i] = frames[j]
                        \/ FrameTrue(frames'[i], seq')
  <1>0. Grown /\ seq \in [Keys -> Nat] /\ Top \in Nat /\ frames \in Seq(Frame)
        /\ Top + 1 \in Nat \ {0} /\ registered \in BOOLEAN
    <2>1. Grown /\ Top \in Nat
      BY Growth, TableFacts
    <2>2. seq \in [Keys -> Nat] /\ frames \in Seq(Frame) /\ registered \in BOOLEAN
      BY DEF TypeInv, TypeOK
    <2>3. QED BY <2>1, <2>2
  <1>1. CASE WatcherReads
    <2>1. PICK k \in log \ watched :
              /\ k \in Keys
              /\ \/ frames' = frames
                 \/ k \in Keys \ Stored /\ Insert(k) /\ Broadcast(Pushed(k, Top + 1))
      BY <1>1, WatcherFacts
    <2>2. CASE k \in Keys \ Stored /\ Insert(k) /\ Broadcast(Pushed(k, Top + 1))
      <3>1. Pushed(k, Top + 1) \in Frame /\ seq'[k] = Top + 1
        BY <1>0, <2>1, <2>2, FrameFacts, InsertFacts
      <3>2. FrameTrue(Pushed(k, Top + 1), seq')
        BY <3>1 DEF FrameTrue, Pushed
      <3>3. frames' = frames \/ frames' = Append(frames, Pushed(k, Top + 1))
        BY <1>0, <2>2, <3>1, BroadcastFacts
      <3>4. Fine
        BY <3>1, <3>2, <3>3, NewFrame
      <3>5. QED BY <1>0, <3>4, FramesKept
    <2>3. CASE frames' = frames
      BY <1>0, <2>3, FramesKept
    <2>4. QED BY <2>1, <2>2, <2>3
  <1>2. CASE InsertBoundary
    <2>1. created + 1 \in Keys \ Stored /\ Insert(created + 1)
      BY <1>2, HistoryAssumption DEF InsertBoundary, Keys, TypeInv, TypeOK, Written
    <2>2. Direct(created + 1, Top + 1) \in Frame /\ seq'[created + 1] = Top + 1
      BY <1>0, <2>1, FrameFacts, InsertFacts
    <2>3. FrameTrue(Direct(created + 1, Top + 1), seq')
      BY <2>2 DEF FrameTrue, Direct
    <2>4. \/ frames' = frames
          \/ \E n \in 0..Len(frames) :
                frames' = InsertAt(frames, n + 1, Direct(created + 1, Top + 1))
      BY <1>0, <1>2, <2>2, SendDirectFacts DEF InsertBoundary
    <2>5. Fine
      BY <2>2, <2>3, <2>4, NewFrame
    <2>6. QED BY <1>0, <2>5, FramesKept
  <1>3. CASE SyncAndAnnounce
    <2>1. revision' \in Nat
      BY <1>3, ReplaceFacts DEF SyncAndAnnounce
    <2>2. \A d \in BOOLEAN : Revision(revision', d) \in Frame
                             /\ FrameTrue(Revision(revision', d), seq')
      BY <2>1, FrameFacts DEF FrameTrue, Revision
    <2>3. \/ SendDirect(Revision(revision', TRUE))
          \/ Broadcast(Revision(revision', FALSE))
      BY <1>3 DEF SyncAndAnnounce
    <2>4. \E d \in BOOLEAN :
              \/ frames' = frames
              \/ frames' = Append(frames, Revision(revision', d))
              \/ \E n \in 0..Len(frames) :
                    frames' = InsertAt(frames, n + 1, Revision(revision', d))
      BY <1>0, <2>2, <2>3, SendDirectFacts, BroadcastFacts
    <2>5. Fine
      BY <2>2, <2>4, NewFrame
    <2>6. QED BY <1>0, <2>5, FramesKept
  <1>4. CASE ReceiveMessage \/ ReceiveRevision
    <2>1. frames # <<>> /\ frames' = Tail(frames)
      BY <1>4 DEF ReceiveMessage, ReceiveRevision
    <2>2. Fine
      BY <1>0, <2>1, TailFacts
    <2>3. QED BY <1>0, <2>2, FramesKept
  <1>5. CASE Drop
    BY <1>5 DEF Drop, FramesTrue
  <1>6. CASE \/ AgentWrites \/ SyncSilently \/ ServerAnswers \/ SyncTimer \/ ApplyRows
             \/ ApplyReset \/ ApplyNothing \/ Fail \/ Foreground \/ Open \/ UNCHANGED vars
    <2>1. frames' = frames
      BY <1>6 DEF AgentWrites, SyncSilently, ServerAnswers, SyncTimer, ApplyRows,
                  ApplyReset, ApplyNothing, Fail, Foreground, Open, wireVars, vars
    <2>2. QED BY <1>0, <2>1, FramesKept
  <1>7. QED
    BY <1>1, <1>2, <1>3, <1>4, <1>5, <1>6 DEF Next, ServerStep, ClientStep

(* What an answer says stays true while the table grows and the cursor advances. *)
LEMMA AnswerKept ==
    ASSUME TypeInv, TypeInv', AnswerTrue, Grown, cursor <= cursor',
           UNCHANGED req \/ (req'.stage = "none" /\ req'.top = 0)
    PROVE  AnswerTrue'
  <1>0. /\ req \in Request /\ cursor \in Nat /\ cursor' \in Nat
        /\ seq \in [Keys -> Nat] /\ seq' \in [Keys -> Nat]
    BY DEF TypeInv, TypeOK
  <1>1. req.after \in Nat /\ req.top \in Nat /\ Top \in Nat /\ Top' \in Nat /\ Top <= Top'
    BY <1>0, ReqFacts, TableFacts, GrownFacts
  <1>2. CASE req'.stage = "none" /\ req'.top = 0
    BY <1>1, <1>2 DEF AnswerTrue
  <1>3. CASE req' = req
    <2>1. req.top <= Top'
      BY <1>1 DEF AnswerTrue
    <2>2. req.stage # "none" => req.after <= cursor'
      BY <1>0, <1>1 DEF AnswerTrue
    <2>3. ASSUME NEW k \in Keys
          PROVE  (req.after < seq[k] /\ seq[k] <= req.top)
                    <=> (req.after < seq'[k] /\ seq'[k] <= req.top)
      <3>1. CASE seq'[k] = seq[k]
        BY <3>1
      <3>2. CASE seq'[k] # seq[k]
        <4>1. seq[k] = 0 /\ seq'[k] > Top
          BY <3>2, GrownFacts
        <4>2. seq'[k] \in Nat /\ req.top <= Top
          BY <1>0 DEF AnswerTrue
        <4>3. QED BY <1>1, <4>1, <4>2
      <3>3. QED BY <3>1, <3>2
    <2>4. {k \in Keys : req.after < seq[k] /\ seq[k] <= req.top}
             = {k \in Keys : req.after < seq'[k] /\ seq'[k] <= req.top}
      BY <2>3
    <2>5. QED BY <1>3, <2>1, <2>2, <2>4 DEF AnswerTrue
  <1>4. QED BY <1>2, <1>3

(* The table of the server when it answers. *)
LEMMA AnswerFacts ==
    ASSUME TypeInv, TypeInv', AnswerTrue, ServerAnswers
    PROVE  AnswerTrue'
  <1>0. /\ req \in Request /\ req' \in Request
        /\ seq' \in [Keys -> Nat] /\ cursor' = cursor
    BY DEF TypeInv, TypeOK, ServerAnswers, chatVars
  <1>1. /\ req'.after = req.after /\ req'.top = Max({seq'[k] : k \in Keys})
        /\ req'.rows = RowsAfter(req.after) /\ req.stage = "asked"
    BY <1>0 DEF ServerAnswers, Request
  <1>2. /\ TopOf(seq') \in Nat /\ \A k \in Keys : seq'[k] <= TopOf(seq')
        /\ req'.top = TopOf(seq') /\ Top' = TopOf(seq')
    BY <1>0, <1>1, TopFacts DEF Top, TopOf
  <1>3. req'.rows = {k \in Keys : req'.after < seq'[k] /\ seq'[k] <= req'.top}
    <2>1. req.after \in Nat /\ \A k \in Keys : seq'[k] \in Nat
      BY <1>0, ReqFacts
    <2>2. \A k \in Keys : seq'[k] > req.after
                             <=> (req'.after < seq'[k] /\ seq'[k] <= req'.top)
      BY <1>1, <1>2, <2>1
    <2>3. QED BY <1>1, <2>2 DEF RowsAfter
  <1>4. req'.top <= Top' /\ req'.after <= cursor'
    BY <1>0, <1>1, <1>2 DEF AnswerTrue
  <1>5. QED BY <1>3, <1>4 DEF AnswerTrue

LEMMA CursorKept ==
    ASSUME TypeInv, TypeInv', CursorBounded, Grown, UNCHANGED <<held, cursor>>
    PROVE  CursorBounded'
  <1>1. cursor \in Nat /\ Top \in Nat /\ Top' \in Nat /\ Top <= Top'
    BY TableFacts, GrownFacts DEF TypeInv, TypeOK
  <1>2. Stored \subseteq Stored'
    BY GrownFacts
  <1>3. QED BY <1>1, <1>2 DEF CursorBounded

(* The rows of an answer are stored, and the cursor they end at is the table's. *)
LEMMA MergeFacts ==
    ASSUME TypeInv, CursorInv, req.stage = "answered", Merge
    PROVE  /\ held' \subseteq Stored /\ held \subseteq held' /\ req.rows \subseteq held'
           /\ cursor' \in Nat /\ cursor <= cursor' /\ cursor' <= Top
           /\ cursor' = cursor \/ cursor' = req.top
  <1>0. /\ seq \in [Keys -> Nat] /\ req \in Request /\ cursor \in Nat
        /\ req.top \in Nat /\ req.after \in Nat /\ Top \in Nat
    BY TableFacts, ReqFacts DEF TypeInv, TypeOK
  <1>1. req.top <= Top /\ cursor <= Top /\ held \subseteq Stored
        /\ req.rows = {k \in Keys : req.after < seq[k] /\ seq[k] <= req.top}
    BY DEF CursorInv, AnswerTrue, CursorBounded
  <1>2. req.rows \subseteq Stored
    <2> SUFFICES ASSUME NEW k \in Keys, req.after < seq[k] PROVE k \in Stored
      BY <1>1
    <2>1. seq[k] \in Nat
      BY <1>0
    <2>2. QED BY <1>0, <2>1 DEF Stored
  <1>3. cursor' = cursor \/ cursor' = Max({cursor, req.top})
    BY DEF Merge
  <1>4. cursor' \in Nat /\ cursor' \in {cursor, req.top} /\ cursor <= cursor'
    BY <1>0, <1>3, PairMax
  <1>5. held' = held \cup req.rows
    BY DEF Merge
  <1>6. cursor' <= Top
    BY <1>1, <1>4
  <1>7. QED BY <1>1, <1>2, <1>4, <1>5, <1>6

(* A pushed row is stored, with the number it was pushed with. *)
LEMMA ReceiveFacts ==
    ASSUME TypeInv, CursorInv, ReceiveMessage
    PROVE  /\ Head(frames) \in Frame /\ Head(frames).type = "message_sync"
           /\ Head(frames).key \in Stored
           /\ held' = held \cup {Head(frames).key}
           /\ cursor' \in Nat /\ cursor <= cursor' /\ cursor' <= Top
  <1>0. /\ seq \in [Keys -> Nat] /\ cursor \in Nat /\ Top \in Nat /\ frames \in Seq(Frame)
        /\ frames # <<>> /\ Head(frames).type = "message_sync"
    BY TableFacts DEF TypeInv, TypeOK, ReceiveMessage
  <1>1. Head(frames) \in Frame /\ Head(frames) = frames[1] /\ 1 \in DOMAIN frames
    BY <1>0, TailFacts
  <1>2. /\ Head(frames).key \in Keys /\ Head(frames).seq \in Nat \ {0}
        /\ seq[Head(frames).key] = Head(frames).seq
    BY <1>0, <1>1, FrameFacts DEF CursorInv, FramesTrue, FrameTrue
  <1>3. Head(frames).key \in Stored /\ Head(frames).seq <= Top
    <2>1. seq[Head(frames).key] # 0 /\ seq[Head(frames).key] <= Top
      BY <1>2, TableFacts
    <2>2. QED BY <1>2, <2>1, TableFacts
  <1>4. cursor' = Max({cursor, Head(frames).seq})
        /\ held' = held \cup {Head(frames).key}
    BY DEF ReceiveMessage
  <1>5. cursor' \in Nat /\ cursor' \in {cursor, Head(frames).seq} /\ cursor <= cursor'
    BY <1>0, <1>2, <1>4, PairMax
  <1>6. cursor' <= Top
    BY <1>3, <1>5 DEF CursorInv, CursorBounded
  <1>7. QED BY <1>0, <1>1, <1>3, <1>4, <1>5, <1>6

LEMMA CursorStep ==
    ASSUME TypeInv, CursorInv, [Next]_vars
    PROVE  CursorInv'
  <1>0. TypeInv' /\ seq \in [Keys -> Nat] /\ req \in Request /\ cursor \in Nat
    BY TypeStep DEF TypeInv, TypeOK
  <1>1. CASE Restart
    <2>1. /\ Stored' = Stored /\ Dense(seq') /\ TopOf(seq') = TopOf(seq)
      BY <1>0, <1>1, FixFacts DEF CursorInv, Restart
    <2>2. Top' = Top /\ SeqDense'
      BY <2>1 DEF Top, TopOf, SeqDense, Dense, RowsOf, Stored
    <2>3. CursorBounded'
      BY <1>1, <2>1, <2>2 DEF CursorInv, CursorBounded, Restart, chatVars
    <2>4. FramesTrue'
      BY <1>1 DEF Restart, FramesTrue
    <2>5. AnswerTrue'
      <3>1. req'.stage = "none" /\ (req' = req \/ req' = NoReq)
        BY <1>1, ReqFacts DEF Restart, syncVars, RequestFailed, NoReq
      <3>2. req'.top <= Top'
        <4>1. Top \in Nat
          BY TableFacts
        <4>2. QED BY <2>2, <3>1, <4>1 DEF CursorInv, AnswerTrue, NoReq
      <3>3. QED BY <3>1, <3>2 DEF AnswerTrue
    <2>6. QED BY <2>2, <2>3, <2>4, <2>5 DEF CursorInv
  <1>2. CASE ~Restart
    <2>0. Grown /\ Top \in Nat /\ Top <= Top'
      BY <1>0, <1>2, Growth, GrownFacts, TableFacts
    <2>1. SeqDense'
      BY <1>0, <2>0, GrownKeeps DEF CursorInv
    <2>2. FramesTrue'
      BY <1>0, <1>2, FramesStep DEF CursorInv
    <2>3. CASE ApplyRows
      <3>1. req.stage = "answered" /\ Merge /\ req' = NoReq
        BY <2>3 DEF ApplyRows
      <3>2. held' \subseteq Stored /\ cursor <= cursor' /\ cursor' <= Top
        BY <3>1, MergeFacts
      <3>3. Stored' = Stored /\ Top' = Top
        BY <2>3 DEF ApplyRows, storeVars, Stored, Top
      <3>4. CursorBounded'
        BY <3>2, <3>3 DEF CursorBounded
      <3>5. AnswerTrue'
        BY <1>0, <2>0, <3>1, <3>2, AnswerKept DEF CursorInv, NoReq
      <3>6. QED BY <2>1, <2>2, <3>4, <3>5 DEF CursorInv
    <2>4. CASE ApplyReset
      <3>1. Top' = Top /\ held' = {} /\ cursor' = 0 /\ req' = Ask(0)
        BY <2>4 DEF ApplyReset, storeVars, Top
      <3>2. CursorBounded' /\ AnswerTrue'
        BY <2>0, <3>1, ReqFacts DEF CursorBounded, AnswerTrue
      <3>3. QED BY <2>1, <2>2, <3>2 DEF CursorInv
    <2>5. CASE ReceiveMessage
      <3>1. /\ Head(frames).key \in Stored /\ held' = held \cup {Head(frames).key}
            /\ cursor <= cursor' /\ cursor' <= Top
        BY <2>5, ReceiveFacts
      <3>2. Stored' = Stored /\ Top' = Top /\ req' = req
        BY <2>5 DEF ReceiveMessage, storeVars, syncVars, Stored, Top
      <3>3. CursorBounded'
        BY <3>1, <3>2 DEF CursorInv, CursorBounded
      <3>4. AnswerTrue'
        BY <1>0, <2>0, <3>1, <3>2, AnswerKept DEF CursorInv
      <3>5. QED BY <2>1, <2>2, <3>3, <3>4 DEF CursorInv
    <2>6. CASE ServerAnswers
      <3>1. CursorBounded'
        BY <1>0, <2>0, <2>6, CursorKept DEF CursorInv, ServerAnswers, chatVars
      <3>2. AnswerTrue'
        BY <1>0, <2>6, AnswerFacts DEF CursorInv
      <3>3. QED BY <2>1, <2>2, <3>1, <3>2 DEF CursorInv
    <2>7. CASE SyncTimer
      <3>1. CursorBounded'
        BY <1>0, <2>0, <2>7, CursorKept DEF CursorInv, SyncTimer, chatVars
      <3>2. cursor' = cursor
        BY <2>7 DEF SyncTimer, chatVars
      <3>3. CASE req' = req
        <4>1. AnswerTrue'
          BY <1>0, <2>0, <3>2, <3>3, AnswerKept DEF CursorInv
        <4>2. QED BY <2>1, <2>2, <3>1, <4>1 DEF CursorInv
      <3>4. CASE req' = Ask(cursor)
        <4>1. Top' \in Nat
          BY <1>0, <2>0, GrownFacts
        <4>2. AnswerTrue'
          BY <1>0, <3>2, <3>4, <4>1, ReqFacts DEF AnswerTrue
        <4>3. QED BY <2>1, <2>2, <3>1, <4>2 DEF CursorInv
      <3>5. QED BY <2>7, <3>3, <3>4 DEF SyncTimer
    <2>8. CASE \/ AgentWrites \/ WatcherReads \/ InsertBoundary \/ SyncAndAnnounce
               \/ SyncSilently \/ ApplyNothing \/ Fail \/ Foreground \/ ReceiveRevision
               \/ Open \/ Drop \/ UNCHANGED vars
      <3>1. UNCHANGED <<held, cursor>>
        BY <2>8 DEF AgentWrites, WatcherReads, InsertBoundary, SyncAndAnnounce,
                    SyncSilently, ApplyNothing, Fail, Foreground, ReceiveRevision, Open,
                    Drop, chatVars, vars
      <3>2. req' = req \/ req' = NoReq
        BY <2>8 DEF AgentWrites, WatcherReads, InsertBoundary, SyncAndAnnounce,
                    SyncSilently, ApplyNothing, Fail, RequestFailed, Foreground,
                    ReceiveRevision, Open, Drop, syncVars, vars
      <3>3. CursorBounded'
        BY <1>0, <2>0, <3>1, CursorKept DEF CursorInv
      <3>4. AnswerTrue'
        BY <1>0, <2>0, <3>1, <3>2, AnswerKept DEF CursorInv, NoReq
      <3>5. QED BY <2>1, <2>2, <3>3, <3>4 DEF CursorInv
    <2>9. QED
      BY <1>2, <2>3, <2>4, <2>5, <2>6, <2>7, <2>8 DEF Next, ServerStep, ClientStep
  <1>3. QED BY <1>1, <1>2

LEMMA CursorInvariance == Spec => [](TypeInv /\ CursorInv)
  <1>1. TypeInv /\ CursorInv /\ [Next]_vars => (TypeInv /\ CursorInv)'
    BY TypeStep, CursorStep
  <1>2. QED BY TypeInit, CursorInit, <1>1, PTL DEF Spec

\* Every reachable state has the shape TypeOK gives it.
THEOREM TypeCorrect == Spec => []TypeOK
  <1>1. TypeInv => TypeOK
    BY DEF TypeInv
  <1>2. QED BY <1>1, CursorInvariance, PTL

\* Whoever stores rows, in whatever order, and however often a restart renumbers the
\* table, its numbers are 1, 2, 3, ... (canonical_store.py:488, 636-667).
THEOREM NumbersAreDense == Spec => []SeqDense
  <1>1. CursorInv => SeqDense
    BY DEF CursorInv
  <1>2. QED BY <1>1, CursorInvariance, PTL

\* A browser holds only stored rows and its cursor never passes the last of them,
\* through restarts, failed requests and lost connections (chat-store.ts:490).
THEOREM CursorNeverAhead == Spec => []CursorBounded
  <1>1. CursorInv => CursorBounded
    BY DEF CursorInv
  <1>2. QED BY <1>1, CursorInvariance, PTL

\* Only the renumbering of a restart gives a stored row another number
\* (canonical_store.py:658).
THEOREM NumbersAreKept == Spec => AppendOnly
  <1>1. TypeInv /\ [Next]_vars => [Restart \/ \A k \in Stored : seq'[k] = seq[k]]_vars
    <2> SUFFICES ASSUME TypeInv, [Next]_vars PROVE Restart \/ \A k \in Stored : seq'[k] = seq[k]
      OBVIOUS
    <2>1. seq \in [Keys -> Nat]
      BY DEF TypeInv, TypeOK
    <2>2. QED BY <2>1, Growth, GrownKeeps
  <1>2. QED BY <1>1, CursorInvariance, PTL DEF AppendOnly, Spec

LEMMA HolesStep ==
    ASSUME TypeInv, CursorInv, [Next]_vars, ~ReceiveMessage, ~Restart
    PROVE  Holes' \subseteq Holes
  <1> SUFFICES ASSUME NEW k \in Holes' PROVE k \in Holes
    OBVIOUS
  <1>0. /\ TypeInv' /\ Grown /\ k \in Keys /\ seq \in [Keys -> Nat] /\ cursor \in Nat
        /\ seq' \in [Keys -> Nat] /\ Top \in Nat /\ cursor <= Top /\ req \in Request
        /\ k \in Stored' /\ seq'[k] <= cursor' /\ k \notin held' /\ seq'[k] # 0
    <2>1. TypeInv'
      BY TypeStep
    <2>2. k \in Stored' /\ seq'[k] <= cursor' /\ k \notin held'
      BY DEF Holes
    <2>3. k \in Keys /\ seq'[k] # 0
      BY <2>2 DEF Stored
    <2>4. QED
      BY <2>1, <2>2, <2>3, Growth, TableFacts DEF CursorInv, CursorBounded, TypeInv, TypeOK
  <1>1. CASE ApplyRows
    <2>1. /\ req.stage = "answered" /\ Merge /\ seq' = seq
      BY <1>1 DEF ApplyRows, storeVars
    <2>2. /\ held \subseteq held' /\ req.rows \subseteq held'
          /\ cursor' = cursor \/ cursor' = req.top
      BY <2>1, MergeFacts
    <2>3. req.after <= cursor /\ req.after \in Nat
          /\ req.rows = {j \in Keys : req.after < seq[j] /\ seq[j] <= req.top}
      BY <1>0, <2>1, ReqFacts DEF CursorInv, AnswerTrue
    <2>4. seq[k] <= cursor
      <3> SUFFICES ASSUME ~(seq[k] <= cursor) PROVE FALSE
        OBVIOUS
      <3>1. seq[k] \in Nat /\ seq[k] = seq'[k]
        BY <1>0, <2>1
      <3>2. cursor' = req.top
        BY <1>0, <2>2, <3>1
      <3>3. req.after < seq[k] /\ seq[k] <= req.top
        BY <1>0, <2>3, <3>1, <3>2
      <3>4. k \in req.rows
        BY <1>0, <2>3, <3>3
      <3>5. QED BY <1>0, <2>2, <3>4
    <2>5. k \in Stored /\ k \notin held
      BY <1>0, <2>1, <2>2 DEF Stored
    <2>6. QED BY <2>4, <2>5 DEF Holes
  <1>2. CASE ApplyReset
    <2>1. cursor' = 0
      BY <1>2 DEF ApplyReset
    <2>2. QED BY <1>0, <2>1
  <1>3. CASE \/ AgentWrites \/ WatcherReads \/ InsertBoundary \/ SyncAndAnnounce
             \/ SyncSilently \/ ApplyNothing \/ Fail \/ Foreground \/ ReceiveRevision
             \/ Open \/ Drop \/ ServerAnswers \/ SyncTimer \/ UNCHANGED vars
    <2>1. UNCHANGED <<held, cursor>>
      BY <1>3 DEF AgentWrites, WatcherReads, InsertBoundary, SyncAndAnnounce, SyncSilently,
                  ApplyNothing, Fail, Foreground, ReceiveRevision, Open, Drop,
                  ServerAnswers, SyncTimer, chatVars, vars
    <2>2. seq'[k] = seq[k]
      <3> SUFFICES ASSUME seq'[k] # seq[k] PROVE FALSE
        OBVIOUS
      <3>1. seq'[k] > Top /\ seq'[k] <= cursor /\ seq'[k] \in Nat
        BY <1>0, <2>1, GrownFacts
      <3>2. QED BY <1>0, <3>1
    <2>3. k \in Stored /\ k \notin held /\ seq[k] <= cursor
      BY <1>0, <2>1, <2>2, TableFacts
    <2>4. QED BY <2>3 DEF Holes
  <1>4. QED BY <1>1, <1>2, <1>3 DEF Next, ServerStep, ClientStep

\* Only a pushed message, or the renumbering of a restart, leaves a stored message
\* behind the cursor of a browser that does not hold it (chat-store.ts:490): no answer,
\* however late, no failure and no lost connection does.
THEOREM HolesComeFromPushes == Spec => HolesOnlyByPush
  <1>1. TypeInv /\ CursorInv /\ [Next]_vars
            => [Holes' \subseteq Holes \/ ReceiveMessage \/ Restart]_vars
    BY HolesStep
  <1>2. QED BY <1>1, CursorInvariance, PTL DEF HolesOnlyByPush, Spec

-----------------------------------------------------------------------------
(* No hole.  When the watcher and this browser's requests are the only ones to *)
(* store rows and nothing is lost, every stored row is held or on its way,     *)
(* wherever the cursor is.                                                     *)

Quiet == /\ HasWatcher /\ ~OtherSyncs /\ QueueMax >= MaxKey
         /\ MaxDrops = 0 /\ MaxFails = 0 /\ MaxRestarts = 0

NothingMissed == \A k \in Stored : k \in held \/ OnItsWay(k)

\* The queue holds one push for each of the rows it tells of.
PushesDistinct ==
    \A i, j \in Queued : /\ frames[i].type = "message_sync"
                         /\ frames[i].key = frames[j].key => i = j

QuietInv == connected /\ registered /\ PushesDistinct /\ NothingMissed

LEMMA QuietInit == Init => QuietInv
  <1> SUFFICES ASSUME Init PROVE QuietInv
    OBVIOUS
  <1>1. Stored = {}
    BY DEF Init, Stored
  <1>2. Queued = {}
    BY DEF Init, Queued
  <1>3. QED BY <1>1, <1>2 DEF Init, QuietInv, PushesDistinct, NothingMissed

LEMMA QuietSteps ==
    ASSUME Quiet, TypeInv, QuietInv, [Next]_vars
    PROVE  \/ AgentWrites \/ WatcherReads \/ InsertBoundary \/ ServerAnswers
           \/ SyncTimer \/ ApplyRows \/ ApplyReset \/ ApplyNothing \/ Foreground
           \/ ReceiveMessage \/ ReceiveRevision \/ UNCHANGED vars
  <1>1. env.drops \in Nat /\ env.fails \in Nat /\ env.restarts \in Nat
    BY DEF TypeInv, TypeOK
  <1>2. ~Drop /\ ~Fail /\ ~Restart
    BY <1>1 DEF Quiet, Drop, Fail, Restart
  <1>3. ~Open /\ ~SyncAndAnnounce /\ ~SyncSilently
    BY DEF Quiet, QuietInv, Open, SyncAndAnnounce, SyncSilently
  <1>4. QED BY <1>2, <1>3 DEF Next, ServerStep, ClientStep

(* The push queue is never full when a row is left to be pushed. *)
LEMMA QueueSuffices ==
    ASSUME Quiet, TypeInv, CursorInv, QuietInv, NEW k \in Keys \ Stored
    PROVE  Cardinality(Queued) < QueueMax
  <1> DEFINE key == [i \in Queued |-> frames[i].key]
  <1>1. ASSUME NEW i \in Queued PROVE frames[i].key \in Stored
    <2>1. i \in DOMAIN frames /\ frames[i].type = "message_sync" /\ frames[i] \in Frame
      BY DEF Queued, QuietInv, PushesDistinct, TypeInv, TypeOK
    <2>2. frames[i].key \in Keys /\ seq[frames[i].key] # 0
      BY <2>1, FrameFacts DEF CursorInv, FramesTrue, FrameTrue
    <2>3. QED BY <2>2, TableFacts
  <1>2. key \in Injection(Queued, Stored)
    <2>1. key \in [Queued -> Stored]
      BY <1>1
    <2>2. \A i, j \in Queued : key[i] = key[j] => i = j
      BY DEF QuietInv, PushesDistinct
    <2>3. QED BY <2>1, <2>2 DEF Injection, IsInjective
  <1>3. IsFiniteSet(Stored) /\ Cardinality(Stored) \in Nat /\ Stored \in SUBSET Keys
    BY KeysFacts DEF Stored
  <1>4. Cardinality(Queued) <= Cardinality(Stored) /\ IsFiniteSet(Queued)
    BY <1>2, <1>3, FS_Injection
  <1>5. Cardinality(Stored) <= MaxKey /\ Cardinality(Stored) # MaxKey
    BY <1>3, KeysFacts, FS_Subset
  <1>6. Cardinality(Queued) \in Nat /\ QueueMax \in Nat /\ MaxKey \in Nat
        /\ QueueMax >= MaxKey
    BY <1>4, FS_CardinalityType, HistoryAssumption DEF Quiet
  <1>7. QED BY <1>3, <1>4, <1>5, <1>6

(* What happens to the frames in a step of the quiet setting. *)
LEMMA QuietFrames ==
    ASSUME Quiet, TypeInv, CursorInv, QuietInv, [Next]_vars
    PROVE  /\ connected' /\ registered'
           /\ \/ /\ frames' = frames
                 /\ ServerAnswers \/ UNCHANGED seq
              \/ /\ ReceiveMessage \/ ReceiveRevision
                 /\ UNCHANGED seq
              \/ \E k \in Keys \ Stored :
                    /\ Insert(k)
                    /\ \/ frames' = Append(frames, Pushed(k, Top + 1))
                       \/ \E i \in 0..Len(frames) :
                             frames' = InsertAt(frames, i + 1, Direct(k, Top + 1))
  <1>0. connected /\ registered
    BY DEF QuietInv
  <1>1. CASE WatcherReads
    <2>1. PICK k \in log \ watched :
              /\ k \in Keys
              /\ \/ UNCHANGED <<seq, registered, frames>>
                 \/ k \in Keys \ Stored /\ Insert(k) /\ Broadcast(Pushed(k, Top + 1))
      BY <1>1, WatcherFacts
    <2>2. connected' = connected
      BY <1>1 DEF WatcherReads
    <2>3. CASE k \in Keys \ Stored /\ Insert(k) /\ Broadcast(Pushed(k, Top + 1))
      <3>1. ~(Cardinality(Queued) >= QueueMax)
        <4>1. Cardinality(Queued) < QueueMax
          BY <2>3, QueueSuffices
        <4>2. Queued \in SUBSET (1..Len(frames)) /\ Len(frames) \in Nat
          BY DEF Queued, TypeInv, TypeOK
        <4>3. Cardinality(Queued) \in Nat /\ QueueMax \in Nat
          <5>1. IsFiniteSet(1..Len(frames))
            BY <4>2, FS_Interval
          <5>2. IsFiniteSet(Queued)
            BY <4>2, <5>1, FS_Subset
          <5>3. QED BY <5>2, FS_CardinalityType, HistoryAssumption
        <4>4. QED BY <4>1, <4>3
      <3>2. frames' = Append(frames, Pushed(k, Top + 1)) /\ registered' = registered
        BY <1>0, <2>3, <3>1 DEF Broadcast
      <3>3. QED BY <1>0, <2>2, <2>3, <3>2
    <2>4. QED BY <1>0, <2>1, <2>2, <2>3
  <1>2. CASE InsertBoundary
    <2>1. created + 1 \in Keys \ Stored /\ Insert(created + 1)
      BY <1>2, HistoryAssumption DEF InsertBoundary, Keys, TypeInv, TypeOK, Written
    <2>2. SendDirect(Direct(created + 1, Top + 1))
      BY <1>2 DEF InsertBoundary, Quiet
    <2>3. \E i \in 0..Len(frames) :
              frames' = InsertAt(frames, i + 1, Direct(created + 1, Top + 1))
      BY <1>0, <2>2 DEF SendDirect
    <2>4. connected' = connected /\ registered' = registered
      BY <1>2 DEF InsertBoundary
    <2>5. QED BY <1>0, <2>1, <2>3, <2>4
  <1>3. CASE ReceiveMessage \/ ReceiveRevision
    BY <1>0, <1>3 DEF ReceiveMessage, ReceiveRevision, storeVars
  <1>4. CASE \/ AgentWrites \/ ServerAnswers \/ SyncTimer \/ ApplyRows \/ ApplyReset
             \/ ApplyNothing \/ Foreground \/ UNCHANGED vars
    BY <1>0, <1>4 DEF AgentWrites, ServerAnswers, SyncTimer, ApplyRows, ApplyReset,
                      ApplyNothing, Foreground, wireVars, storeVars, vars
  <1>5. QED BY <1>1, <1>2, <1>3, <1>4, QuietSteps

LEMMA PushesStep ==
    ASSUME Quiet, TypeInv, CursorInv, QuietInv, [Next]_vars
    PROVE  PushesDistinct'
  <1> DEFINE Push(fs, i) == i \in DOMAIN fs /\ ~fs[i].direct
             Distinct(fs) == \A i, j : Push(fs, i) /\ Push(fs, j) =>
                                /\ fs[i].type = "message_sync"
                                /\ fs[i].key = fs[j].key => i = j
  <1>0. /\ frames \in Seq(Frame) /\ Len(frames) \in Nat /\ DOMAIN frames = 1..Len(frames)
        /\ seq \in [Keys -> Nat] /\ Top + 1 \in Nat \ {0} /\ Distinct(frames)
    <2>1. Distinct(frames)
      BY DEF QuietInv, PushesDistinct, Queued
    <2>2. QED BY <2>1, TableFacts DEF TypeInv, TypeOK
  <1>1. SUFFICES Distinct(frames')
    BY DEF PushesDistinct, Queued
  <1>2. ASSUME NEW k \in Keys \ Stored, NEW i, Push(frames, i)
        PROVE  frames[i].key # k
    <2>1. i \in DOMAIN frames /\ frames[i].type = "message_sync" /\ frames[i] \in Frame
      BY <1>0, <1>2
    <2>2. frames[i].key \in Keys /\ seq[frames[i].key] # 0
      BY <2>1, FrameFacts DEF CursorInv, FramesTrue, FrameTrue
    <2>3. QED BY <2>2, TableFacts
  <1>3. CASE frames' = frames
    BY <1>0, <1>3
  <1>4. ASSUME frames # <<>>, frames' = Tail(frames) PROVE Distinct(frames')
    <2>1. \A i \in DOMAIN Tail(frames) : /\ i \in Nat /\ i + 1 \in DOMAIN frames
                                         /\ Tail(frames)[i] = frames[i + 1]
      BY <1>0, <1>4, TailFacts
    <2>2. \A i \in DOMAIN Tail(frames) : Push(Tail(frames), i) => Push(frames, i + 1)
      BY <2>1
    <2>3. ASSUME NEW i, NEW j, Push(Tail(frames), i), Push(Tail(frames), j)
          PROVE  /\ Tail(frames)[i].type = "message_sync"
                 /\ Tail(frames)[i].key = Tail(frames)[j].key => i = j
      <3>1. Push(frames, i + 1) /\ Push(frames, j + 1) /\ i \in Nat /\ j \in Nat
        BY <2>1, <2>2, <2>3
      <3>2. /\ frames[i + 1].type = "message_sync"
            /\ frames[i + 1].key = frames[j + 1].key => i + 1 = j + 1
        BY <1>0, <3>1
      <3>3. Tail(frames)[i] = frames[i + 1] /\ Tail(frames)[j] = frames[j + 1]
        BY <2>1, <2>3
      <3>4. Tail(frames)[i].type = "message_sync"
        BY <3>2, <3>3
      <3>5. Tail(frames)[i].key = Tail(frames)[j].key => i + 1 = j + 1
        BY <3>2, <3>3
      <3>6. i + 1 = j + 1 => i = j
        BY <3>1
      <3>7. QED BY <3>4, <3>5, <3>6
    <2>4. QED BY <1>4, <2>3
  <1>5. ASSUME NEW k \in Keys \ Stored, frames' = Append(frames, Pushed(k, Top + 1))
        PROVE  Distinct(frames')
    <2>1. /\ DOMAIN frames' = 1..(Len(frames) + 1)
          /\ \A j \in 1..Len(frames) : frames'[j] = frames[j]
          /\ frames'[Len(frames) + 1] = Pushed(k, Top + 1)
      BY <1>0, <1>5, FrameFacts, AppendFacts
    <2>2. Pushed(k, Top + 1).type = "message_sync" /\ Pushed(k, Top + 1).key = k
      BY DEF Pushed
    <2>3. ASSUME NEW i, NEW j, Push(frames', i), Push(frames', j)
          PROVE  /\ frames'[i].type = "message_sync"
                 /\ frames'[i].key = frames'[j].key => i = j
      <3>1. CASE i \in DOMAIN frames /\ j \in DOMAIN frames
        BY <1>0, <2>1, <2>3, <3>1
      <3>2. CASE i \in DOMAIN frames /\ j = Len(frames) + 1
        <4>1. Push(frames, i) /\ frames'[i] = frames[i]
          BY <1>0, <2>1, <2>3, <3>2
        <4>2. QED BY <1>0, <1>2, <2>1, <2>2, <3>2, <4>1
      <3>3. CASE i = Len(frames) + 1 /\ j \in DOMAIN frames
        <4>1. Push(frames, j) /\ frames'[j] = frames[j]
          BY <1>0, <2>1, <2>3, <3>3
        <4>2. QED BY <1>2, <2>1, <2>2, <3>3, <4>1
      <3>4. CASE i = Len(frames) + 1 /\ j = Len(frames) + 1
        BY <2>1, <2>2, <3>4
      <3>5. QED BY <1>0, <2>1, <2>3, <3>1, <3>2, <3>3, <3>4
    <2>4. QED BY <2>3
  <1>6. ASSUME NEW k \in Keys \ Stored, NEW n \in 0..Len(frames),
               frames' = InsertAt(frames, n + 1, Direct(k, Top + 1))
        PROVE  Distinct(frames')
    <2> DEFINE down(j) == IF j <= n THEN j ELSE j - 1
    <2>1. /\ DOMAIN frames' = 1..(Len(frames) + 1)
          /\ \A j \in 1..(Len(frames) + 1) :
                frames'[j] = IF j <= n THEN frames[j]
                             ELSE IF j = n + 1 THEN Direct(k, Top + 1) ELSE frames[j - 1]
      <3>1. Direct(k, Top + 1) \in Frame
        BY <1>0, FrameFacts
      <3>2. ASSUME NEW S, NEW s \in Seq(S), NEW f \in S, n \in 0..Len(s)
            PROVE  /\ DOMAIN InsertAt(s, n + 1, f) = 1..(Len(s) + 1)
                   /\ \A j \in 1..(Len(s) + 1) :
                         InsertAt(s, n + 1, f)[j] = IF j <= n THEN s[j]
                                                    ELSE IF j = n + 1 THEN f ELSE s[j - 1]
        BY <3>2, InsertAtFacts
      <3> DEFINE longer == InsertAt(frames, n + 1, Direct(k, Top + 1))
      <3>3. /\ DOMAIN longer = 1..(Len(frames) + 1)
            /\ \A j \in 1..(Len(frames) + 1) :
                  longer[j] = IF j <= n THEN frames[j]
                              ELSE IF j = n + 1 THEN Direct(k, Top + 1) ELSE frames[j - 1]
        BY <1>0, <3>1, <3>2
      <3> HIDE DEF longer
      <3>4. frames' = longer
        BY <1>6 DEF longer
      <3>5. QED BY <3>3, <3>4
    <2>2. Direct(k, Top + 1).direct
      BY DEF Direct
    <2>3. ASSUME NEW i, Push(frames', i)
          PROVE  /\ i \in 1..(Len(frames) + 1) /\ i # n + 1
                 /\ down(i) \in DOMAIN frames /\ frames'[i] = frames[down(i)]
      <3>1. i \in 1..(Len(frames) + 1) /\ ~frames'[i].direct
        BY <2>1, <2>3
      <3>2. i # n + 1
        <4>1. i = n + 1 => frames'[i] = Direct(k, Top + 1)
          BY <1>0, <2>1, <3>1
        <4>2. QED BY <2>2, <3>1, <4>1
      <3>3. down(i) \in DOMAIN frames
        BY <1>0, <3>1, <3>2
      <3>4. frames'[i] = frames[down(i)]
        BY <2>1, <3>1, <3>2
      <3>5. QED BY <3>1, <3>2, <3>3, <3>4
    <2>4. ASSUME NEW i, NEW j, Push(frames', i), Push(frames', j)
          PROVE  /\ frames'[i].type = "message_sync"
                 /\ frames'[i].key = frames'[j].key => i = j
      <3>1. /\ i \in 1..(Len(frames) + 1) /\ i # n + 1 /\ frames'[i] = frames[down(i)]
            /\ j \in 1..(Len(frames) + 1) /\ j # n + 1 /\ frames'[j] = frames[down(j)]
            /\ Push(frames, down(i)) /\ Push(frames, down(j))
        BY <2>3, <2>4
      <3>2. /\ frames'[i].type = "message_sync"
            /\ frames'[i].key = frames'[j].key => down(i) = down(j)
        BY <1>0, <3>1
      <3>3. down(i) = down(j) => i = j
        BY <1>0, <3>1
      <3>4. QED BY <3>2, <3>3
    <2>5. QED BY <2>4
  <1>7. CASE ReceiveMessage \/ ReceiveRevision
    BY <1>4, <1>7 DEF ReceiveMessage, ReceiveRevision
  <1>8. QED BY <1>3, <1>5, <1>6, <1>7, QuietFrames

Tells(fs, k) == \E i \in DOMAIN fs : fs[i].type = "message_sync" /\ fs[i].key = k

(* A row that a frame tells of is still told of, unless its frame was received. *)
LEMMA TellsStep ==
    ASSUME Quiet, TypeInv, CursorInv, QuietInv, [Next]_vars, NEW k \in Keys
    PROVE  /\ Tells(frames, k) => \/ Tells(frames', k)
                                  \/ ReceiveMessage /\ Head(frames).key = k
           /\ (k \in Stored' \ Stored /\ ~ServerAnswers) => Tells(frames', k)
  <1>0. /\ frames \in Seq(Frame) /\ Len(frames) \in Nat /\ DOMAIN frames = 1..Len(frames)
        /\ seq \in [Keys -> Nat] /\ Top + 1 \in Nat \ {0}
    BY TableFacts DEF TypeInv, TypeOK
  <1>1. CASE frames' = frames /\ (ServerAnswers \/ UNCHANGED seq)
    BY <1>0, <1>1 DEF Stored
  <1>2. CASE (ReceiveMessage \/ ReceiveRevision) /\ UNCHANGED seq
    <2>0. /\ frames # <<>> /\ frames' = Tail(frames)
          /\ Head(frames).type = "message_sync" => ReceiveMessage
      BY <1>2 DEF ReceiveMessage, ReceiveRevision
    <2>1. Head(frames) = frames[1]
          /\ \A i \in DOMAIN frames \ {1} : i - 1 \in DOMAIN frames'
                                            /\ frames'[i - 1] = frames[i]
      <3>1. Head(frames) = frames[1]
            /\ \A i \in DOMAIN frames \ {1} : /\ i - 1 \in DOMAIN Tail(frames)
                                              /\ Tail(frames)[i - 1] = frames[i]
        BY <1>0, <2>0, TailFacts
      <3>2. QED BY <2>0, <3>1
    <2>2. Stored' = Stored
      BY <1>2 DEF Stored
    <2>3. ASSUME NEW i \in DOMAIN frames, frames[i].type = "message_sync", frames[i].key = k
          PROVE  Tells(frames', k) \/ (ReceiveMessage /\ Head(frames).key = k)
      <3>1. CASE i = 1
        BY <2>0, <2>1, <2>3, <3>1
      <3>2. CASE i # 1
        BY <2>1, <2>3, <3>2 DEF Tells
      <3>3. QED BY <3>1, <3>2
    <2>4. QED BY <1>2, <2>2, <2>3 DEF Tells
  <1>3. ASSUME NEW r \in Keys \ Stored, Insert(r), NEW f \in Frame,
               f.type = "message_sync", f.key = r, NEW n \in 0..Len(frames),
               \/ frames' = Append(frames, f)
               \/ frames' = InsertAt(frames, n + 1, f)
        PROVE  /\ Tells(frames, k) => Tells(frames', k)
               /\ k \in Stored' \ Stored => Tells(frames', k)
    <2>1. Len(frames) + 1 \in DOMAIN Append(frames, f)
          /\ Append(frames, f)[Len(frames) + 1] = f
          /\ \A i \in DOMAIN frames : i \in DOMAIN Append(frames, f)
                                      /\ Append(frames, f)[i] = frames[i]
      BY <1>0, AppendFacts
    <2>2. /\ n + 1 \in DOMAIN InsertAt(frames, n + 1, f)
          /\ InsertAt(frames, n + 1, f)[n + 1] = f
          /\ \A i \in DOMAIN frames :
                \E m \in DOMAIN InsertAt(frames, n + 1, f) :
                   InsertAt(frames, n + 1, f)[m] = frames[i]
      <3>1. /\ DOMAIN InsertAt(frames, n + 1, f) = 1..(Len(frames) + 1)
            /\ \A j \in 1..(Len(frames) + 1) :
                  InsertAt(frames, n + 1, f)[j]
                     = IF j <= n THEN frames[j] ELSE IF j = n + 1 THEN f ELSE frames[j - 1]
        <4>1. ASSUME NEW S, NEW s \in Seq(S), f \in S, n \in 0..Len(s)
              PROVE  /\ DOMAIN InsertAt(s, n + 1, f) = 1..(Len(s) + 1)
                     /\ \A j \in 1..(Len(s) + 1) :
                           InsertAt(s, n + 1, f)[j] = IF j <= n THEN s[j]
                                                      ELSE IF j = n + 1 THEN f ELSE s[j - 1]
          BY <4>1, InsertAtFacts
        <4>2. QED BY <1>0, <4>1
      <3>2. n + 1 \in 1..(Len(frames) + 1) /\ ~(n + 1 <= n)
        BY <1>0
      <3>3. ASSUME NEW i \in DOMAIN frames
            PROVE  \E m \in DOMAIN InsertAt(frames, n + 1, f) :
                      InsertAt(frames, n + 1, f)[m] = frames[i]
        <4>1. CASE i <= n
          <5>1. i \in 1..(Len(frames) + 1)
            BY <1>0
          <5>2. QED BY <3>1, <4>1, <5>1
        <4>2. CASE ~(i <= n)
          <5>1. /\ i + 1 \in 1..(Len(frames) + 1) /\ ~(i + 1 <= n) /\ i + 1 # n + 1
                /\ (i + 1) - 1 = i
            BY <1>0, <4>2
          <5>2. InsertAt(frames, n + 1, f)[i + 1] = frames[i]
            BY <3>1, <5>1
          <5>3. QED BY <3>1, <5>1, <5>2
        <4>3. QED BY <4>1, <4>2
      <3>4. QED BY <3>1, <3>2, <3>3
    <2>3. /\ \E m \in DOMAIN frames' : frames'[m] = f
          /\ \A i \in DOMAIN frames : \E m \in DOMAIN frames' : frames'[m] = frames[i]
      <3>1. CASE frames' = Append(frames, f)
        BY <2>1, <3>1
      <3>2. CASE frames' = InsertAt(frames, n + 1, f)
        BY <2>2, <3>2
      <3>3. QED BY <1>3, <3>1, <3>2
    <2>4. k \in Stored' \ Stored => k = r
      BY <1>0, <1>3 DEF Insert, Stored
    <2>5. QED BY <1>3, <2>3, <2>4 DEF Tells
  <1>4. ASSUME NEW r \in Keys \ Stored, Insert(r),
               \/ frames' = Append(frames, Pushed(r, Top + 1))
               \/ \E i \in 0..Len(frames) :
                     frames' = InsertAt(frames, i + 1, Direct(r, Top + 1))
        PROVE  /\ Tells(frames, k) => Tells(frames', k)
               /\ k \in Stored' \ Stored => Tells(frames', k)
    <2>1. /\ Pushed(r, Top + 1) \in Frame /\ Direct(r, Top + 1) \in Frame
          /\ Pushed(r, Top + 1).type = "message_sync" /\ Pushed(r, Top + 1).key = r
          /\ Direct(r, Top + 1).type = "message_sync" /\ Direct(r, Top + 1).key = r
      BY <1>0, FrameFacts DEF Pushed, Direct
    <2>2. 0 \in 0..Len(frames)
      BY <1>0
    <2>3. CASE frames' = Append(frames, Pushed(r, Top + 1))
      BY <1>3, <1>4, <2>1, <2>2, <2>3
    <2>4. CASE \E i \in 0..Len(frames) :
                  frames' = InsertAt(frames, i + 1, Direct(r, Top + 1))
      <3>1. PICK i \in 0..Len(frames) :
                 frames' = InsertAt(frames, i + 1, Direct(r, Top + 1))
        BY <2>4
      <3>2. QED BY <1>3, <1>4, <2>1, <3>1
    <2>5. QED BY <1>4, <2>3, <2>4
  <1>5. CASE \E r \in Keys \ Stored :
                /\ Insert(r)
                /\ \/ frames' = Append(frames, Pushed(r, Top + 1))
                   \/ \E i \in 0..Len(frames) :
                         frames' = InsertAt(frames, i + 1, Direct(r, Top + 1))
    BY <1>4, <1>5
  <1>6. QED BY <1>1, <1>2, <1>5, QuietFrames

LEMMA MissedStep ==
    ASSUME Quiet, TypeInv, CursorInv, QuietInv, [Next]_vars
    PROVE  NothingMissed'
  <1> SUFFICES ASSUME NEW k \in Stored' PROVE k \in held' \/ OnItsWay(k)'
    BY DEF NothingMissed
  <1>0. /\ TypeInv' /\ Grown /\ k \in Keys /\ Top \in Nat /\ Top <= Top'
        /\ seq \in [Keys -> Nat] /\ seq' \in [Keys -> Nat] /\ req \in Request
        /\ req.after \in Nat /\ cursor \in Nat /\ cursor <= Top
    <2>1. TypeInv' /\ ~Restart
      <3>1. env.restarts \in Nat
        BY DEF TypeInv, TypeOK
      <3>2. QED BY <3>1, TypeStep DEF Quiet, Restart
    <2>2. k \in Keys
      BY DEF Stored
    <2>3. QED
      BY <2>1, <2>2, Growth, GrownFacts, TableFacts, ReqFacts
         DEF CursorInv, CursorBounded, TypeInv, TypeOK
  <1>1. Tells(frames', k) => OnItsWay(k)'
    BY DEF Tells, OnItsWay
  <1>2. CASE k \notin Stored
    <2>1. CASE ~ServerAnswers
      BY <1>0, <1>1, <1>2, <2>1, TellsStep
    <2>2. CASE ServerAnswers
      <3>1. req.stage = "asked" /\ req'.stage = "answered"
            /\ req'.rows = {j \in Keys : seq'[j] > req.after}
        BY <1>0, <2>2 DEF ServerAnswers, RowsAfter, Request
      <3>2. seq'[k] > Top
        BY <1>0, <1>2, GrownKeeps
      <3>3. req.after <= cursor
        BY <3>1 DEF CursorInv, AnswerTrue
      <3>4. seq'[k] > req.after
        BY <1>0, <3>2, <3>3
      <3>5. QED BY <1>0, <3>1, <3>4 DEF OnItsWay
    <2>3. QED BY <2>1, <2>2
  <1>3. CASE k \in Stored
    <2>0. seq'[k] = seq[k] /\ seq[k] \in Nat /\ seq[k] # 0
      BY <1>0, <1>3, GrownFacts, TableFacts
    <2>1. CASE ApplyReset
      <3>1. req' = Ask(0)
        BY <2>1 DEF ApplyReset
      <3>2. req'.stage = "asked" /\ req'.after < seq'[k]
        BY <2>0, <3>1, ReqFacts
      <3>3. QED BY <3>2 DEF OnItsWay
    <2>2. CASE k \in held /\ ~ApplyReset
      <3>1. held \subseteq held'
        <4>1. CASE ApplyRows
          BY <4>1, MergeFacts DEF ApplyRows
        <4>2. CASE ReceiveMessage
          BY <4>2 DEF ReceiveMessage
        <4>3. CASE ~ApplyRows /\ ~ReceiveMessage
          BY <2>2, <4>3, QuietSteps
             DEF AgentWrites, WatcherReads, InsertBoundary, ServerAnswers, SyncTimer,
                 ApplyNothing, Foreground, ReceiveRevision, chatVars, vars
        <4>4. QED BY <4>1, <4>2, <4>3
      <3>2. QED BY <2>2, <3>1
    <2>3. CASE Tells(frames, k)
      <3>1. CASE ReceiveMessage /\ Head(frames).key = k
        BY <3>1 DEF ReceiveMessage
      <3>2. CASE Tells(frames', k)
        BY <1>1, <3>2
      <3>3. QED BY <1>0, <2>3, <3>1, <3>2, TellsStep
    <2>4. CASE req.stage = "asked" /\ req.after < seq[k]
      <3>1. CASE ServerAnswers
        <4>1. req'.stage = "answered" /\ req'.rows = {j \in Keys : seq'[j] > req.after}
          BY <1>0, <3>1 DEF ServerAnswers, RowsAfter, Request
        <4>2. seq'[k] > req.after
          BY <1>0, <2>0, <2>4
        <4>3. QED BY <1>0, <4>1, <4>2 DEF OnItsWay
      <3>2. CASE ~ServerAnswers
        <4>1. req' = req
          BY <2>4, <3>2, QuietSteps
             DEF AgentWrites, WatcherReads, InsertBoundary, SyncTimer, ApplyRows,
                 ApplyReset, ApplyNothing, Foreground, ReceiveMessage, ReceiveRevision,
                 syncVars, vars
        <4>2. QED BY <2>0, <2>4, <4>1 DEF OnItsWay
      <3>3. QED BY <3>1, <3>2
    <2>5. CASE req.stage = "answered" /\ k \in req.rows /\ ~ApplyReset
      <3>1. CASE ApplyRows
        BY <2>5, <3>1, MergeFacts DEF ApplyRows
      <3>2. ~ApplyNothing
        BY <2>5 DEF ApplyNothing
      <3>3. CASE ~ApplyRows
        <4>1. req' = req
          BY <2>5, <3>2, <3>3, QuietSteps
             DEF AgentWrites, WatcherReads, InsertBoundary, SyncTimer, ServerAnswers,
                 Foreground, ReceiveMessage, ReceiveRevision, syncVars, vars
        <4>2. QED BY <2>5, <4>1 DEF OnItsWay
      <3>4. QED BY <3>1, <3>3
    <2>6. k \in held \/ OnItsWay(k)
      BY <1>3 DEF QuietInv, NothingMissed
    <2>7. QED BY <2>1, <2>2, <2>3, <2>4, <2>5, <2>6 DEF OnItsWay, Tells
  <1>4. QED BY <1>2, <1>3

\* As long as rows are stored by the watcher and this browser's own requests only, and
\* nothing is lost, a stored message is held by the browser or on its way to it, however
\* pushes, boundaries that overtake them, answers and reloads of the cache interleave: so
\* no message stays behind the cursor.  A push queue with room for one push of every
\* message suffices (connection_registry.py:91).
THEOREM NoMessageMissed == Quiet => (Spec => [](NothingMissed /\ NoHole))
  <1> SUFFICES ASSUME Quiet PROVE Spec => [](NothingMissed /\ NoHole)
    OBVIOUS
  <1>1. TypeInv /\ CursorInv /\ QuietInv /\ [Next]_vars => QuietInv'
    BY PushesStep, MissedStep, QuietFrames DEF QuietInv
  <1>2. QuietInv => NothingMissed /\ NoHole
    BY DEF QuietInv, NothingMissed, NoHole, Holes
  <1>3. QED BY QuietInit, <1>1, <1>2, CursorInvariance, PTL DEF Spec
=============================================================================
