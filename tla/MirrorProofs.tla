---------------------------- MODULE MirrorProofs ----------------------------
(***************************************************************************)
(* The two services of MCServices.  The rows of the mirror's outbox, for   *)
(* every number of rows, channels, attempts and stops: how often a row     *)
(* arrives, in which order rows are sent, when one is given up, and that   *)
(* the mirror implements Forwarding.  The wakeword training, for every     *)
(* number of sessions, tasks and samples: what a thread leaves behind, and *)
(* that neither a settled task nor a sample of the user is overwritten.    *)
(***************************************************************************)
EXTENDS MCServices, TLAPS, FiniteSetTheorems, SequenceTheorems, WellFoundedInduction

-----------------------------------------------------------------------------
(* Finite sets of numbers *)

LEMMA MinFacts ==
    ASSUME NEW S \in SUBSET Nat, S # {}
    PROVE  Min(S) \in S /\ \A j \in S : Min(S) <= j
  <1>1. PICK k \in S : \A j \in S : ~ (<<j, k>> \in OpToRel(<, Nat))
    BY NatLessThanWellFounded, WFMin
  <1>2. ASSUME NEW j \in S PROVE k <= j
    <2>1. j \in Nat /\ k \in Nat /\ <<j, k>> \in Nat \X Nat
      OBVIOUS
    <2>2. j < k => <<j, k>> \in OpToRel(<, Nat)
      BY <2>1 DEF OpToRel
    <2>3. ~ (<<j, k>> \in OpToRel(<, Nat))
      BY <1>1
    <2>4. ~ (j < k)
      BY <2>2, <2>3, Zenon
    <2>5. QED BY <2>1, <2>4
  <1>3. QED BY <1>2 DEF Min

(* The elements of a finite set that have fewer than n elements of it below *)
(* them are at most n.                                                      *)
LEMMA FirstFew ==
    ASSUME NEW S \in SUBSET Nat, IsFiniteSet(S), NEW n \in Nat
    PROVE  Cardinality({r \in S : Cardinality({q \in S : q < r}) < n}) <= n
  <1> DEFINE below(r) == {q \in S : q < r}
             T == {r \in S : Cardinality(below(r)) < n}
             rank == [r \in T |-> Cardinality(below(r))]
  <1>1. ASSUME NEW r \in S PROVE IsFiniteSet(below(r)) /\ Cardinality(below(r)) \in Nat
    <2>1. IsFiniteSet(below(r))
      BY FS_Subset
    <2>2. QED BY <2>1, FS_CardinalityType
  <1>2. rank \in [T -> 0 .. n - 1]
    <2>1. ASSUME NEW r \in T PROVE Cardinality(below(r)) \in 0 .. n - 1
      <3>1. Cardinality(below(r)) \in Nat /\ Cardinality(below(r)) < n
        BY <1>1
      <3>2. QED BY <3>1
    <2>2. QED BY <2>1
  <1>3. ASSUME NEW r \in T, NEW q \in T, q < r PROVE rank[q] # rank[r]
    <2>1. below(q) \subseteq below(r) /\ q \in below(r) /\ q \notin below(q)
      <3>1. q \in Nat /\ r \in Nat /\ \A i \in S : i \in Nat
        OBVIOUS
      <3>2. \A i \in S : i < q => i < r
        BY <1>3, <3>1
      <3>3. ~ (q < q)
        BY <3>1
      <3>4. QED BY <1>3, <3>2, <3>3
    <2>2. IsFiniteSet(below(r)) /\ below(q) \in SUBSET below(r) /\ below(q) # below(r)
      BY <1>1, <2>1
    <2>3. Cardinality(below(q)) # Cardinality(below(r))
      BY <2>2, FS_Subset
    <2>4. QED BY <2>3
  <1>4. rank \in Injection(T, 0 .. n - 1)
    <2>1. ASSUME NEW q \in T, NEW r \in T, rank[q] = rank[r] PROVE q = r
      <3>1. q \in Nat /\ r \in Nat
        OBVIOUS
      <3>2. ~ (q < r) /\ ~ (r < q)
        BY <1>3, <2>1
      <3>3. QED BY <3>1, <3>2
    <2>2. QED BY <1>2, <2>1 DEF Injection, IsInjective
  <1>5. IsFiniteSet(0 .. n - 1) /\ Cardinality(0 .. n - 1) = n
    BY FS_Interval
  <1>6. Cardinality(T) <= Cardinality(0 .. n - 1)
    BY <1>4, <1>5, FS_Injection
  <1>7. QED BY <1>5, <1>6

-----------------------------------------------------------------------------
(* The table and the batch of the drain loop *)

Waiting(r) == rows[r].status \in {"pending", "retry"}

(* A row that waits has an attempt left, the rows of a batch wait, and a     *)
(* process that is down drains nothing.                                      *)
AttemptsLeft == \A r \in DOMAIN rows : Waiting(r) => rows[r].retries < MaxRetries
BatchWaits == \A r \in drain.batch : Waiting(r)
DownIsIdle == ~up => drain = Idle
AnswerAwaited == drain.at # "answer" => drain.ok = FALSE

TypeInv == TypeOK /\ AttemptsLeft /\ BatchWaits /\ DownIsIdle /\ AnswerAwaited

LEMMA Parameters ==
    /\ BatchSize \in Nat /\ BatchSize > 0 /\ MaxRetries \in Nat /\ MaxRetries > 0
    /\ MaxRows \in Nat /\ RowIds \subseteq Nat /\ IsFiniteSet(RowIds)
    /\ MaxConfigs \in Nat /\ MaxRevoked \in Nat /\ MaxStops \in Nat
  <1>1. MaxRows \in Nat
    BY MirrorAssumption
  <1>2. IsFiniteSet(RowIds)
    BY <1>1, FS_Interval DEF RowIds
  <1>3. QED BY <1>1, <1>2, MirrorAssumption DEF RowIds

LEMMA TableFacts ==
    ASSUME TypeOK
    PROVE  /\ rows \in Seq(Row) /\ Len(rows) \in Nat /\ Len(rows) <= MaxRows
           /\ DOMAIN rows = 1 .. Len(rows)
           /\ DOMAIN rows \subseteq RowIds /\ DOMAIN rows \subseteq Nat
           /\ IsFiniteSet(DOMAIN rows)
           /\ \A r \in DOMAIN rows : rows[r] \in Row
           /\ drain.at \in {"idle", "row", "answer"} /\ drain.ok \in BOOLEAN
           /\ drain.batch \subseteq DOMAIN rows
           /\ IsFiniteSet(drain.batch) /\ Cardinality(drain.batch) \in Nat
           /\ drain.at # "idle" => /\ Current \in drain.batch /\ Current \in DOMAIN rows
                                   /\ Current \in Nat /\ Current \in RowIds
                                   /\ \A q \in drain.batch : Current <= q
  <1>1. /\ rows \in Seq(Row) /\ Len(rows) \in Nat /\ Len(rows) <= MaxRows
        /\ DOMAIN rows = 1 .. Len(rows)
        /\ \A r \in DOMAIN rows : rows[r] \in Row
    BY DEF TypeOK
  <1>2. DOMAIN rows \subseteq RowIds /\ DOMAIN rows \subseteq Nat
    BY <1>1, Parameters DEF RowIds
  <1>3. IsFiniteSet(DOMAIN rows)
    BY <1>1, FS_Interval
  <1>4. /\ drain.at \in {"idle", "row", "answer"} /\ drain.ok \in BOOLEAN
        /\ drain.batch \subseteq DOMAIN rows
        /\ drain.at # "idle" <=> drain.batch # {}
    BY DEF TypeOK
  <1>5. IsFiniteSet(drain.batch)
    BY <1>3, <1>4, FS_Subset
  <1>6. Cardinality(drain.batch) \in Nat
    BY <1>5, FS_CardinalityType
  <1>7. drain.at # "idle" => /\ Current \in drain.batch
                             /\ \A q \in drain.batch : Current <= q
    BY <1>2, <1>4, MinFacts DEF Current
  <1>8. QED BY <1>1, <1>2, <1>3, <1>4, <1>5, <1>6, <1>7

(* The rows that are written first keep their place; the others are new.     *)
LEMMA EnqueueFacts ==
    ASSUME TypeOK, NEW e \in Events, Enqueue(e)
    PROVE  /\ rows' \in Seq(Row) /\ Len(rows') \in Nat /\ Len(rows) <= Len(rows')
           /\ Len(rows') <= MaxRows
           /\ DOMAIN rows' = 1 .. Len(rows')
           /\ \A r \in DOMAIN rows : rows'[r] = rows[r]
           /\ \A r \in DOMAIN rows' \ DOMAIN rows :
                /\ rows'[r].status = "pending" /\ rows'[r].retries = 0 /\ rows'[r].due = TRUE
                /\ rows'[r].channel \in Channels
  <1> DEFINE S == NotYetEnqueued(e)
             n == Cardinality(S)
  <1>0. rows \in Seq(Row) /\ Len(rows) \in Nat /\ DOMAIN rows = 1 .. Len(rows)
    BY TableFacts
  <1>1. S \subseteq Channels /\ \A c \in S : Resolved(c)
    BY DEF NotYetEnqueued, ResolveBotChannels
  <1>2. n \in Nat
    <2>1. IsFiniteSet(Channels)
      <3>1. Registered \in Seq(Channels) /\ Len(Registered) \in Nat
            /\ DOMAIN Registered = 1 .. Len(Registered)
        BY MirrorAssumption
      <3>2. IsFiniteSet(DOMAIN Registered)
        BY <3>1, FS_Interval
      <3>3. /\ \A c \in Channels : \E i \in DOMAIN Registered : Registered[i] = c
        BY DEF Channels, ToSet
      <3>4. Registered \in Surjection(DOMAIN Registered, Channels)
        BY <3>1, <3>3 DEF Surjection
      <3>5. QED BY <3>2, <3>4, FS_Surjection
    <2>2. IsFiniteSet(S)
      BY <1>1, <2>1, FS_Subset
    <2>3. QED BY <2>2, FS_CardinalityType
  <1>3. PICK order \in [1 .. n -> S] :
          rows' = rows \o [i \in DOMAIN order |->
                             NewRow(e, order[i], ResolveTarget(order[i]))]
    BY DEF Enqueue, InOrder
  <1>4. ASSUME NEW c \in S
        PROVE  /\ NewRow(e, c, ResolveTarget(c)) \in Row /\ c \in Channels
               /\ NewRow(e, c, ResolveTarget(c)).status = "pending"
               /\ NewRow(e, c, ResolveTarget(c)).retries = 0
               /\ NewRow(e, c, ResolveTarget(c)).due = TRUE
               /\ NewRow(e, c, ResolveTarget(c)).channel = c
    <2>1. c \in Channels /\ ResolveTarget(c) # NoTarget
      BY <1>1 DEF Resolved
    <2>2. slot[c].target \in Targets \cup {NoTarget}
          /\ defaults[c].target \in Targets \cup {NoTarget}
      BY <2>1 DEF TypeOK, Setting, EnvDefault
    <2>3. ResolveTarget(c) \in Targets
      BY <2>1, <2>2 DEF ResolveTarget
    <2>4. QED BY <2>1, <2>3, Parameters DEF NewRow, Row
  <1> DEFINE new == [i \in 1 .. n |-> NewRow(e, order[i], ResolveTarget(order[i]))]
  <1>5. rows' = rows \o new /\ new \in Seq(Row) /\ Len(new) = n
    <2>1. DOMAIN order = 1 .. n /\ \A i \in 1 .. n : order[i] \in S
      BY <1>3
    <2>2. rows' = rows \o new
      BY <1>3, <2>1
    <2>3. new \in [1 .. n -> Row]
      BY <1>4, <2>1
    <2> HIDE DEF new
    <2>4. new \in Seq(Row)
      BY <1>2, <2>3, SeqDef
    <2>5. Len(new) = n
      BY <1>2, <2>3, <2>4
    <2>6. QED BY <2>2, <2>4, <2>5
  <1>6. \A i \in 1 .. n : /\ new[i].status = "pending" /\ new[i].retries = 0
                         /\ new[i].due = TRUE /\ new[i].channel \in Channels
    BY <1>3, <1>4
  <1> HIDE DEF new, n, S
  <1>7. Len(rows') = Len(rows) + n /\ rows' \in Seq(Row)
    <2>1. rows \o new \in Seq(Row) /\ Len(rows \o new) = Len(rows) + Len(new)
      BY <1>0, <1>5, ConcatProperties
    <2>2. QED BY <1>5, <2>1
  <1>8. \A r \in 1 .. Len(rows) : rows'[r] = rows[r]
    BY <1>0, <1>2, <1>5
  <1>9. \A r \in 1 .. Len(rows') : r > Len(rows) => rows'[r] = new[r - Len(rows)]
    BY <1>0, <1>2, <1>5, <1>7
  <1>10. \A r \in DOMAIN rows' \ DOMAIN rows :
           r > Len(rows) /\ r - Len(rows) \in 1 .. n /\ r \in 1 .. Len(rows')
    BY <1>0, <1>2, <1>7
  <1>11. Len(rows') <= MaxRows
    BY DEF Enqueue
  <1>12. Len(rows') \in Nat /\ Len(rows) <= Len(rows') /\ DOMAIN rows' = 1 .. Len(rows')
    BY <1>0, <1>2, <1>7
  <1>13. ASSUME NEW r \in DOMAIN rows' \ DOMAIN rows
         PROVE  /\ rows'[r].status = "pending" /\ rows'[r].retries = 0 /\ rows'[r].due = TRUE
                /\ rows'[r].channel \in Channels
    <2>1. rows'[r] = new[r - Len(rows)] /\ r - Len(rows) \in 1 .. n
      BY <1>9, <1>10
    <2>2. QED BY <1>6, <2>1
  <1>14. QED BY <1>0, <1>7, <1>8, <1>11, <1>12, <1>13

(* A step of the loop that changes one row of the table. *)
LEMMA OneRow ==
    ASSUME TypeOK, NEW r \in DOMAIN rows, NEW row \in Row, rows' = [rows EXCEPT ![r] = row]
    PROVE  /\ rows' \in Seq(Row) /\ Len(rows') = Len(rows) /\ DOMAIN rows' = DOMAIN rows
           /\ rows'[r] = row
           /\ \A q \in DOMAIN rows : q # r => rows'[q] = rows[q]
  BY TableFacts

LEMMA MarkFailedFacts ==
    ASSUME TypeOK, NEW r \in DOMAIN rows, MarkFailed(r)
    PROVE  /\ rows' \in Seq(Row) /\ Len(rows') = Len(rows) /\ DOMAIN rows' = DOMAIN rows
           /\ rows'[r] = [rows[r] EXCEPT !.status = "failed"]
           /\ \A q \in DOMAIN rows : q # r => rows'[q] = rows[q]
  <1>1. [rows[r] EXCEPT !.status = "failed"] \in Row
    BY TableFacts DEF Row
  <1>2. rows' = [rows EXCEPT ![r] = [rows[r] EXCEPT !.status = "failed"]]
    BY DEF MarkFailed
  <1>3. QED BY <1>1, <1>2, OneRow

LEMMA MarkSentFacts ==
    ASSUME TypeOK, NEW r \in DOMAIN rows, MarkSent(r)
    PROVE  /\ rows' \in Seq(Row) /\ Len(rows') = Len(rows) /\ DOMAIN rows' = DOMAIN rows
           /\ rows'[r] = [rows[r] EXCEPT !.status = "sent"]
           /\ \A q \in DOMAIN rows : q # r => rows'[q] = rows[q]
  <1>1. [rows[r] EXCEPT !.status = "sent"] \in Row
    BY TableFacts DEF Row
  <1>2. rows' = [rows EXCEPT ![r] = [rows[r] EXCEPT !.status = "sent"]]
    BY DEF MarkSent
  <1>3. QED BY <1>1, <1>2, OneRow

LEMMA MarkRetryFacts ==
    ASSUME TypeOK, AttemptsLeft, NEW r \in DOMAIN rows, Waiting(r), MarkRetry(r)
    PROVE  /\ rows' \in Seq(Row) /\ Len(rows') = Len(rows) /\ DOMAIN rows' = DOMAIN rows
           /\ rows'[r].channel = rows[r].channel /\ rows'[r].target = rows[r].target
           /\ rows'[r].retries \in Nat /\ rows'[r].retries <= MaxRetries
           /\ rows'[r].retries < MaxRetries => rows'[r].status = "retry"
           /\ rows'[r].retries = MaxRetries => rows'[r].status = "failed"
           /\ \A q \in DOMAIN rows : q # r => rows'[q] = rows[q]
  <1> DEFINE n == rows[r].retries + 1
             row == [rows[r] EXCEPT !.retries = n,
                                    !.status = IF n >= MaxRetries THEN "failed" ELSE "retry",
                                    !.due = n >= MaxRetries]
  <1>0. rows[r] \in Row /\ rows[r].retries \in Nat /\ rows[r].retries < MaxRetries
    BY TableFacts, Parameters DEF Row, AttemptsLeft
  <1>1. n \in Nat /\ n <= MaxRetries /\ n \in 0 .. MaxRetries /\ MaxRetries \in Nat
    BY <1>0, Parameters
  <1>2. row \in Row
    <2>1. ASSUME NEW s \in {"failed", "retry"}, NEW d \in BOOLEAN
          PROVE  [rows[r] EXCEPT !.retries = n, !.status = s, !.due = d] \in Row
      BY <1>0, <1>1 DEF Row
    <2>2. (IF n >= MaxRetries THEN "failed" ELSE "retry") \in {"failed", "retry"}
          /\ (n >= MaxRetries) \in BOOLEAN
      OBVIOUS
    <2>3. QED BY <2>1, <2>2
  <1>3. rows' = [rows EXCEPT ![r] = row]
    BY DEF MarkRetry
  <1>4. /\ row.channel = rows[r].channel /\ row.target = rows[r].target
        /\ row.retries = n
        /\ row.status = IF n >= MaxRetries THEN "failed" ELSE "retry"
    BY <1>0 DEF Row
  <1> HIDE DEF row
  <1>5. /\ rows' \in Seq(Row) /\ Len(rows') = Len(rows) /\ DOMAIN rows' = DOMAIN rows
        /\ rows'[r] = row
        /\ \A q \in DOMAIN rows : q # r => rows'[q] = rows[q]
    BY <1>2, <1>3, OneRow
  <1> HIDE DEF n
  <1>6. QED BY <1>1, <1>4, <1>5

LEMMA RetryDueFacts ==
    ASSUME TypeOK, NEW r \in RowIds, RetryDue(r)
    PROVE  /\ rows' \in Seq(Row) /\ Len(rows') = Len(rows) /\ DOMAIN rows' = DOMAIN rows
           /\ r \in DOMAIN rows /\ rows'[r].due = TRUE
           /\ \A q \in DOMAIN rows : q # r => rows'[q] = rows[q]
           /\ \A q \in DOMAIN rows : /\ rows'[q].status = rows[q].status
                                     /\ rows'[q].retries = rows[q].retries
                                     /\ rows'[q].channel = rows[q].channel
  <1>1. r \in DOMAIN rows /\ rows[r] \in Row
    BY TableFacts DEF RetryDue
  <1> DEFINE row == [rows[r] EXCEPT !.due = TRUE]
  <1>2. /\ row \in Row /\ row.due = TRUE /\ row.status = rows[r].status
        /\ row.retries = rows[r].retries /\ row.channel = rows[r].channel
    BY <1>1 DEF Row
  <1>3. rows' = [rows EXCEPT ![r] = row]
    BY DEF RetryDue
  <1> HIDE DEF row
  <1>4. /\ rows' \in Seq(Row) /\ Len(rows') = Len(rows) /\ DOMAIN rows' = DOMAIN rows
        /\ rows'[r] = row
        /\ \A q \in DOMAIN rows : q # r => rows'[q] = rows[q]
    BY <1>1, <1>2, <1>3, OneRow
  <1>5. ASSUME NEW q \in DOMAIN rows
        PROVE  /\ rows'[q].status = rows[q].status /\ rows'[q].retries = rows[q].retries
               /\ rows'[q].channel = rows[q].channel
    <2>1. CASE q = r
      BY <1>2, <1>4, <2>1
    <2>2. CASE q # r
      BY <1>4, <2>2
    <2>3. QED BY <2>1, <2>2
  <1>6. QED BY <1>1, <1>2, <1>4, <1>5

LEMMA StartFacts ==
    ASSUME TypeOK, Start
    PROVE  /\ rows' \in Seq(Row) /\ Len(rows') = Len(rows) /\ DOMAIN rows' = DOMAIN rows
           /\ \A r \in DOMAIN rows : /\ rows'[r] = ResetFailed(rows[r])
                                     /\ rows'[r].channel = rows[r].channel
                                     /\ rows'[r].target = rows[r].target
                                     /\ rows[r].status # "failed" => rows'[r] = rows[r]
                                     /\ rows[r].status = "failed" =>
                                          /\ rows'[r].status = "pending"
                                          /\ rows'[r].retries = 0 /\ rows'[r].due = TRUE
  <1>0. rows \in Seq(Row) /\ Len(rows) \in Nat /\ DOMAIN rows = 1 .. Len(rows)
        /\ \A r \in DOMAIN rows : rows[r] \in Row
    BY TableFacts
  <1>1. rows' = [r \in 1 .. Len(rows) |-> ResetFailed(rows[r])]
    BY <1>0 DEF Start
  <1>2. ASSUME NEW row \in Row
        PROVE  /\ ResetFailed(row) \in Row
               /\ ResetFailed(row).channel = row.channel /\ ResetFailed(row).target = row.target
               /\ row.status # "failed" => ResetFailed(row) = row
               /\ row.status = "failed" => /\ ResetFailed(row).status = "pending"
                                           /\ ResetFailed(row).retries = 0
                                           /\ ResetFailed(row).due = TRUE
    <2>1. CASE row.status = "failed"
      <3>1. ResetFailed(row) = [row EXCEPT !.status = "pending", !.retries = 0, !.due = TRUE]
        BY <2>1 DEF ResetFailed
      <3>2. 0 \in 0 .. MaxRetries
        BY Parameters
      <3>3. QED BY <2>1, <3>1, <3>2 DEF Row
    <2>2. CASE row.status # "failed"
      BY <2>2 DEF ResetFailed
    <2>3. QED BY <2>1, <2>2
  <1>3. rows' \in [1 .. Len(rows) -> Row]
    BY <1>0, <1>1, <1>2
  <1>4. rows' \in Seq(Row)
    BY <1>0, <1>3, SeqDef
  <1>5. Len(rows') = Len(rows) /\ DOMAIN rows' = DOMAIN rows
    BY <1>0, <1>3, <1>4
  <1>6. QED BY <1>0, <1>1, <1>2, <1>4, <1>5

(* After the current row of a batch comes the rest of it. *)
LEMMA NextRowFacts ==
    ASSUME TypeOK, drain.at # "idle", NextRow
    PROVE  /\ drain' \in [at : {"idle", "row", "answer"}, batch : SUBSET DOMAIN rows, ok : BOOLEAN]
           /\ drain'.batch = drain.batch \ {Current} /\ drain'.ok = FALSE
           /\ drain'.at \in {"idle", "row"}
           /\ drain'.at # "idle" <=> drain'.batch # {}
           /\ Cardinality(drain'.batch) <= BatchSize
  <1>1. Current \in drain.batch /\ drain.batch \subseteq DOMAIN rows
        /\ IsFiniteSet(drain.batch) /\ Cardinality(drain.batch) \in Nat
        /\ Cardinality(drain.batch) <= BatchSize /\ BatchSize \in Nat
    BY TableFacts, Parameters DEF TypeOK
  <1>2. drain'.batch = drain.batch \ {Current}
    BY <1>1 DEF NextRow, Idle
  <1>3. Cardinality(drain'.batch) <= BatchSize
    <2>1. Cardinality(drain.batch \ {Current}) = Cardinality(drain.batch) - 1
      BY <1>1, FS_RemoveElement
    <2>2. QED BY <1>1, <1>2, <2>1
  <1>4. CASE drain.batch = {Current}
    BY <1>1, <1>2, <1>3, <1>4 DEF NextRow, Idle
  <1>5. CASE drain.batch # {Current}
    BY <1>1, <1>2, <1>3, <1>5 DEF NextRow
  <1>6. QED BY <1>4, <1>5

-----------------------------------------------------------------------------
(* Type correctness *)

\* The two halves of TypeOK: what is written around the table, and the table itself.
AroundOK ==
    /\ defaults \in [Channels -> EnvDefault]
    /\ slot \in [Channels -> Setting]
    /\ token \in [Cached -> {"none", "valid", "revoked"}]
    /\ up \in BOOLEAN
    /\ arrived \in [RowIds -> Nat] /\ excuses \in [RowIds -> Nat]
    /\ configs \in 0 .. MaxConfigs /\ revoked \in 0 .. MaxRevoked /\ stops \in 0 .. MaxStops

TableOK ==
    /\ rows \in Seq(Row) /\ Len(rows) <= MaxRows
    /\ drain \in [at : {"idle", "row", "answer"}, batch : SUBSET DOMAIN rows, ok : BOOLEAN]
    /\ Cardinality(drain.batch) <= BatchSize
    /\ drain.at # "idle" <=> drain.batch # {}
    /\ tried \subseteq DOMAIN rows

LEMMA TypeHalves == TypeOK <=> AroundOK /\ TableOK
  BY DEF TypeOK, AroundOK, TableOK

LEMMA SettingTyped == ASSUME NEW s \in Settings PROVE s \in Setting
  BY MirrorAssumption

(* What one send leaves: the row is tried, it arrived at most once more, and *)
(* a lost answer excuses it.                                                 *)
LEMMA PostedFacts ==
    ASSUME TypeOK, NEW r \in RowIds, NEW got \in BOOLEAN, NEW answered \in BOOLEAN,
           Posted(r, got, answered)
    PROVE  /\ arrived' \in [RowIds -> Nat] /\ excuses' \in [RowIds -> Nat]
           /\ tried' = tried \cup {r}
           /\ drain'.at = "answer" /\ drain'.batch = drain.batch
           /\ drain'.ok = (got /\ answered)
           /\ \A q \in RowIds : q # r => arrived'[q] = arrived[q] /\ excuses'[q] = excuses[q]
           /\ arrived'[r] = IF got THEN arrived[r] + 1 ELSE arrived[r]
           /\ excuses'[r] = IF got /\ ~answered THEN excuses[r] + 1 ELSE excuses[r]
  <1>1. arrived \in [RowIds -> Nat] /\ excuses \in [RowIds -> Nat]
        /\ drain \in [at : {"idle", "row", "answer"}, batch : SUBSET DOMAIN rows, ok : BOOLEAN]
    BY DEF TypeOK
  <1>2. /\ drain'.at = "answer" /\ drain'.batch = drain.batch
        /\ drain'.ok = (got /\ answered)
    BY <1>1, Zenon DEF Posted
  <1>3. arrived' \in [RowIds -> Nat] /\ excuses' \in [RowIds -> Nat]
    BY <1>1 DEF Posted
  <1>4. \A q \in RowIds : q # r => arrived'[q] = arrived[q] /\ excuses'[q] = excuses[q]
    BY <1>1 DEF Posted
  <1>5. /\ arrived'[r] = IF got THEN arrived[r] + 1 ELSE arrived[r]
        /\ excuses'[r] = IF got /\ ~answered THEN excuses[r] + 1 ELSE excuses[r]
    BY <1>1 DEF Posted
  <1>6. tried' = tried \cup {r}
    BY DEF Posted
  <1>7. QED BY <1>2, <1>3, <1>4, <1>5, <1>6

(* A send posts the current row, through a token where the channel has one. *)
LEMMA SendFacts ==
    ASSUME TypeOK, Send
    PROVE  /\ drain.at = "row" /\ rows[Current].channel \in Channels
           /\ token' \in [Cached -> {"none", "valid", "revoked"}]
           /\ \E got, answered \in BOOLEAN : Posted(Current, got, answered)
  <1>0. token \in [Cached -> {"none", "valid", "revoked"}]
    BY DEF TypeOK
  <1>1. drain.at = "row" /\ rows[Current].channel \in Channels
    BY DEF Send
  <1>2. SendTelegram(Current) \/ SendWithToken(Current)
    BY DEF Send
  <1>3. CASE SendTelegram(Current)
    BY <1>0, <1>1, <1>3 DEF SendTelegram
  <1>4. CASE SendWithToken(Current)
    <2>1. \E got, answered \in BOOLEAN : Posted(Current, got, answered)
      BY <1>4 DEF SendWithToken
    <2>2. token' \in [Cached -> {"none", "valid", "revoked"}]
      BY <1>0, <1>4 DEF SendWithToken
    <2>3. QED BY <1>1, <2>1, <2>2
  <1>5. QED BY <1>2, <1>3, <1>4

LEMMA ExcusedFacts ==
    ASSUME TypeOK
    PROVE  Excused \in [RowIds -> Nat]
  <1>1. excuses \in [RowIds -> Nat] /\ (drain.at = "answer" => Current \in RowIds)
    BY TableFacts DEF TypeOK
  <1>2. QED BY <1>1 DEF Excused

LEMMA AroundStep == TypeOK /\ [Next]_vars => AroundOK'
  <1> SUFFICES ASSUME TypeOK, [Next]_vars PROVE AroundOK'
    OBVIOUS
  <1>0. AroundOK
    BY TypeHalves
  <1>1. ASSUME NEW e \in Events, Enqueue(e) PROVE AroundOK'
    BY <1>0, <1>1 DEF AroundOK, Enqueue, bounds
  <1>2. CASE Configure
    <2>1. PICK c \in Channels, s \in Settings : slot' = [slot EXCEPT ![c] = s]
      BY <1>2 DEF Configure
    <2>2. slot' \in [Channels -> Setting]
      BY <1>0, <2>1, SettingTyped DEF AroundOK
    <2>3. configs' \in 0 .. MaxConfigs
      BY <1>0, <1>2, Parameters DEF AroundOK, Configure
    <2>4. QED BY <1>0, <1>2, <2>2, <2>3 DEF AroundOK, Configure
  <1>3. CASE DrainOnce
    BY <1>0, <1>3 DEF AroundOK, DrainOnce, bounds
  <1>4. CASE UnknownChannel
    BY <1>0, <1>4 DEF AroundOK, UnknownChannel, bounds
  <1>5. CASE Send
    <2>1. drain.at = "row" /\ Current \in RowIds
      BY <1>5, SendFacts, TableFacts
    <2>2. PICK got \in BOOLEAN, answered \in BOOLEAN : Posted(Current, got, answered)
      BY <1>5, SendFacts
    <2>3. arrived' \in [RowIds -> Nat] /\ excuses' \in [RowIds -> Nat]
      BY <2>1, <2>2, PostedFacts
    <2>4. token' \in [Cached -> {"none", "valid", "revoked"}]
      BY <1>5, SendFacts
    <2>5. QED BY <1>0, <1>5, <2>3, <2>4 DEF AroundOK, Send, bounds
  <1>6. CASE Mark
    BY <1>0, <1>6 DEF AroundOK, Mark, bounds
  <1>7. CASE DrainError
    <2>1. excuses' \in [RowIds -> Nat]
      BY <1>7, ExcusedFacts DEF DrainError
    <2>2. stops' \in 0 .. MaxStops
      BY <1>0, <1>7, Parameters DEF AroundOK, DrainError
    <2>3. QED BY <1>0, <1>7, <2>1, <2>2 DEF AroundOK, DrainError
  <1>8. ASSUME NEW r \in RowIds, RetryDue(r) PROVE AroundOK'
    BY <1>0, <1>8 DEF AroundOK, RetryDue, bounds
  <1>9. ASSUME NEW c \in Cached, TokenExpires(c) PROVE AroundOK'
    BY <1>0, <1>9 DEF AroundOK, TokenExpires, bounds
  <1>10. ASSUME NEW c \in Cached, TokenRevoked(c) PROVE AroundOK'
    <2>1. token' \in [Cached -> {"none", "valid", "revoked"}]
      BY <1>0, <1>10 DEF AroundOK, TokenRevoked
    <2>2. revoked' \in 0 .. MaxRevoked
      BY <1>0, <1>10, Parameters DEF AroundOK, TokenRevoked
    <2>3. QED BY <1>0, <1>10, <2>1, <2>2 DEF AroundOK, TokenRevoked
  <1>11. CASE Stop
    <2>1. excuses' \in [RowIds -> Nat]
      BY <1>11, ExcusedFacts DEF Stop
    <2>2. stops' \in 0 .. MaxStops
      BY <1>0, <1>11, Parameters DEF AroundOK, Stop
    <2>3. token' \in [Cached -> {"none", "valid", "revoked"}] /\ up' \in BOOLEAN
      BY <1>11 DEF Stop
    <2>4. QED BY <1>0, <1>11, <2>1, <2>2, <2>3 DEF AroundOK, Stop
  <1>12. CASE Start
    BY <1>0, <1>12 DEF AroundOK, Start, bounds
  <1>13. CASE UNCHANGED vars
    BY <1>0, <1>13 DEF AroundOK, vars, bounds
  <1>14. QED
    BY <1>1, <1>2, <1>3, <1>4, <1>5, <1>6, <1>7, <1>8, <1>9, <1>10, <1>11, <1>12, <1>13
    DEF Next, DrainLoop

LEMMA ListPendingFacts ==
    ASSUME TypeOK
    PROVE  /\ ListPending \subseteq DOMAIN rows
           /\ \A r \in ListPending : Waiting(r)
           /\ Cardinality(ListPending) <= BatchSize
  <1> DEFINE S == {r \in DOMAIN rows : Due(r)}
             First == {r \in S : Cardinality({q \in S : q < r}) < BatchSize}
  <1>1. ListPending \subseteq DOMAIN rows /\ \A r \in ListPending : Waiting(r)
    BY DEF ListPending, Due, Waiting
  <1>2. S \in SUBSET Nat /\ IsFiniteSet(S) /\ BatchSize \in Nat
    BY TableFacts, Parameters, FS_Subset
  <1>3. ASSUME NEW r PROVE {q \in DOMAIN rows : Due(q) /\ q < r} = {q \in S : q < r}
    OBVIOUS
  <1>4. ListPending = First
    BY <1>3 DEF ListPending
  <1>5. Cardinality(First) <= BatchSize
    BY <1>2, FirstFew
  <1>6. QED BY <1>1, <1>4, <1>5

\* The rows of the table as they are, or with others behind them, and a batch that has rows
\* of it only: what is left to show is said of the rows that changed.
LEMMA TableKept ==
    ASSUME TypeInv, UNCHANGED <<rows, drain, tried>>, up' = up
    PROVE  TableOK' /\ AttemptsLeft' /\ BatchWaits' /\ DownIsIdle' /\ AnswerAwaited'
  BY DEF TypeInv, TypeOK, TableOK, AttemptsLeft, BatchWaits, DownIsIdle, AnswerAwaited, Waiting, Idle

LEMMA TableStep ==
    TypeInv /\ [Next]_vars
    => TableOK' /\ AttemptsLeft' /\ BatchWaits' /\ DownIsIdle' /\ AnswerAwaited'
  <1> DEFINE Goal == TableOK' /\ AttemptsLeft' /\ BatchWaits' /\ DownIsIdle' /\ AnswerAwaited'
  <1> SUFFICES ASSUME TypeInv, [Next]_vars PROVE Goal
    OBVIOUS
  <1>0. /\ TypeOK /\ TableOK /\ AttemptsLeft /\ BatchWaits /\ DownIsIdle /\ AnswerAwaited
        /\ drain \in [at : {"idle", "row", "answer"}, batch : SUBSET DOMAIN rows, ok : BOOLEAN]
        /\ tried \subseteq DOMAIN rows /\ Cardinality(drain.batch) <= BatchSize
        /\ drain.at # "idle" <=> drain.batch # {}
        /\ Len(rows) <= MaxRows
    BY TypeHalves DEF TypeInv, TableOK
  <1>a. Cardinality({}) = 0 /\ 0 <= BatchSize /\ Cardinality(Idle.batch) <= BatchSize
        /\ Idle \in [at : {"idle", "row", "answer"}, batch : SUBSET DOMAIN rows, ok : BOOLEAN]
        /\ Idle.at = "idle" /\ Idle.batch = {} /\ Idle.ok = FALSE
    BY FS_EmptySet, Parameters DEF Idle
  <1>1. ASSUME NEW e \in Events, Enqueue(e) PROVE Goal
    <2>0. UNCHANGED <<drain, tried>> /\ up' = up
      BY <1>1 DEF Enqueue
    <2>1. /\ rows' \in Seq(Row) /\ Len(rows') <= MaxRows /\ DOMAIN rows \subseteq DOMAIN rows'
          /\ \A r \in DOMAIN rows : rows'[r] = rows[r]
          /\ \A r \in DOMAIN rows' \ DOMAIN rows : rows'[r].retries = 0
      <3>1. Len(rows) \in Nat /\ DOMAIN rows = 1 .. Len(rows)
        BY <1>0, TableFacts
      <3>2. /\ rows' \in Seq(Row) /\ Len(rows') <= MaxRows /\ Len(rows') \in Nat
            /\ Len(rows) <= Len(rows') /\ DOMAIN rows' = 1 .. Len(rows')
            /\ \A r \in DOMAIN rows : rows'[r] = rows[r]
            /\ \A r \in DOMAIN rows' \ DOMAIN rows : rows'[r].retries = 0
        BY <1>0, <1>1, EnqueueFacts
      <3>3. QED BY <3>1, <3>2
    <2>2. TableOK'
      BY <1>0, <2>0, <2>1 DEF TableOK
    <2>3. AttemptsLeft'
      <3> SUFFICES ASSUME NEW r \in DOMAIN rows', rows'[r].status \in {"pending", "retry"}
                   PROVE  rows'[r].retries < MaxRetries
        BY DEF AttemptsLeft, Waiting
      <3>1. CASE r \in DOMAIN rows
        BY <1>0, <2>1, <3>1 DEF AttemptsLeft, Waiting
      <3>2. CASE r \notin DOMAIN rows
        BY <2>1, <3>2, Parameters
      <3>3. QED BY <3>1, <3>2
    <2>4. BatchWaits'
      BY <1>0, <2>0, <2>1 DEF BatchWaits, Waiting
    <2>5. DownIsIdle' /\ AnswerAwaited'
      BY <1>0, <2>0 DEF DownIsIdle, AnswerAwaited, Idle
    <2>6. QED BY <2>2, <2>3, <2>4, <2>5
  <1>2. CASE Configure
    BY <1>2, TableKept DEF Configure
  <1>3. CASE DrainOnce
    <2>0. /\ UNCHANGED <<rows, tried>> /\ up' = up /\ up
          /\ drain' = [at |-> "row", batch |-> ListPending, ok |-> FALSE]
          /\ ListPending # {}
      BY <1>3 DEF DrainOnce
    <2>1. /\ ListPending \subseteq DOMAIN rows /\ \A r \in ListPending : Waiting(r)
          /\ Cardinality(ListPending) <= BatchSize
      BY <1>0, ListPendingFacts
    <2>2. /\ drain'.at = "row" /\ drain'.batch = ListPending /\ drain'.ok = FALSE
          /\ drain' \in [at : {"idle", "row", "answer"}, batch : SUBSET DOMAIN rows, ok : BOOLEAN]
      BY <2>0, <2>1
    <2>3. TableOK'
      BY <1>0, <2>0, <2>1, <2>2 DEF TableOK
    <2>4. AttemptsLeft' /\ BatchWaits'
      BY <1>0, <2>0, <2>1, <2>2 DEF AttemptsLeft, BatchWaits, Waiting
    <2>5. DownIsIdle' /\ AnswerAwaited'
      BY <2>0, <2>2 DEF DownIsIdle, AnswerAwaited
    <2>6. QED BY <2>3, <2>4, <2>5
  <1>4. ASSUME drain.at # "idle", NextRow, up' = up, up, UNCHANGED tried,
               rows' \in Seq(Row), Len(rows') = Len(rows), DOMAIN rows' = DOMAIN rows,
               \A q \in DOMAIN rows : q # Current => rows'[q] = rows[q],
               rows'[Current].status \in {"pending", "retry"}
                 => rows'[Current].retries < MaxRetries
        PROVE  Goal
    <2>0. drain.batch \subseteq DOMAIN rows
      BY <1>0, TableFacts
    <2>1. /\ drain' \in [at : {"idle", "row", "answer"}, batch : SUBSET DOMAIN rows, ok : BOOLEAN]
          /\ drain'.batch = drain.batch \ {Current} /\ drain'.ok = FALSE
          /\ drain'.at \in {"idle", "row"}
          /\ drain'.at # "idle" <=> drain'.batch # {}
          /\ Cardinality(drain'.batch) <= BatchSize
      BY <1>0, <1>4, NextRowFacts
    <2>2. TableOK'
      BY <1>0, <1>4, <2>1 DEF TableOK
    <2>3. AttemptsLeft'
      BY <1>0, <1>4 DEF AttemptsLeft, Waiting
    <2>4. BatchWaits'
      BY <1>0, <1>4, <2>0, <2>1 DEF BatchWaits, Waiting
    <2>5. DownIsIdle' /\ AnswerAwaited'
      BY <1>4, <2>1 DEF DownIsIdle, AnswerAwaited
    <2>6. QED BY <2>2, <2>3, <2>4, <2>5
  <1>5. CASE UnknownChannel
    <2>0. drain.at # "idle" /\ NextRow /\ up' = up /\ up /\ UNCHANGED tried
          /\ MarkFailed(Current)
      BY <1>5 DEF UnknownChannel
    <2>1. Current \in DOMAIN rows /\ rows[Current] \in Row
      BY <1>0, <2>0, TableFacts
    <2>2. /\ rows' \in Seq(Row) /\ Len(rows') = Len(rows) /\ DOMAIN rows' = DOMAIN rows
          /\ rows'[Current] = [rows[Current] EXCEPT !.status = "failed"]
          /\ \A q \in DOMAIN rows : q # Current => rows'[q] = rows[q]
      BY <1>0, <2>0, <2>1, MarkFailedFacts
    <2>3. rows'[Current].status = "failed"
      BY <2>1, <2>2 DEF Row
    <2>4. QED BY <1>4, <2>0, <2>2, <2>3
  <1>6. CASE Send
    <2>0. UNCHANGED rows /\ up' = up /\ up
      BY <1>6 DEF Send
    <2>1. drain.at = "row" /\ Current \in RowIds /\ Current \in DOMAIN rows
      BY <1>0, <1>6, SendFacts, TableFacts
    <2>2. PICK got \in BOOLEAN, answered \in BOOLEAN : Posted(Current, got, answered)
      BY <1>0, <1>6, SendFacts
    <2>3. tried' = tried \cup {Current} /\ drain'.at = "answer" /\ drain'.batch = drain.batch
      BY <1>0, <2>1, <2>2, PostedFacts
    <2>4. drain' \in [at : {"idle", "row", "answer"}, batch : SUBSET DOMAIN rows, ok : BOOLEAN]
      BY <1>0, <2>2 DEF Posted
    <2>5. TableOK'
      BY <1>0, <2>0, <2>1, <2>3, <2>4 DEF TableOK
    <2>6. AttemptsLeft' /\ BatchWaits'
      BY <1>0, <2>0, <2>3 DEF AttemptsLeft, BatchWaits, Waiting
    <2>7. DownIsIdle' /\ AnswerAwaited'
      BY <2>0, <2>3 DEF DownIsIdle, AnswerAwaited
    <2>8. QED BY <2>5, <2>6, <2>7
  <1>7. CASE Mark
    <2>0. drain.at # "idle" /\ NextRow /\ up' = up /\ up /\ UNCHANGED tried
          /\ (IF drain.ok THEN MarkSent(Current) ELSE MarkRetry(Current))
      BY <1>7 DEF Mark
    <2>1. Current \in DOMAIN rows /\ rows[Current] \in Row /\ Waiting(Current)
      BY <1>0, <2>0, TableFacts DEF BatchWaits
    <2>2. CASE drain.ok
      <3>1. /\ rows' \in Seq(Row) /\ Len(rows') = Len(rows) /\ DOMAIN rows' = DOMAIN rows
            /\ rows'[Current] = [rows[Current] EXCEPT !.status = "sent"]
            /\ \A q \in DOMAIN rows : q # Current => rows'[q] = rows[q]
        BY <1>0, <2>0, <2>1, <2>2, MarkSentFacts
      <3>2. rows'[Current].status = "sent"
        BY <2>1, <3>1 DEF Row
      <3>3. QED BY <1>4, <2>0, <3>1, <3>2
    <2>3. CASE ~drain.ok
      <3>1. /\ rows' \in Seq(Row) /\ Len(rows') = Len(rows) /\ DOMAIN rows' = DOMAIN rows
            /\ rows'[Current].retries \in Nat /\ rows'[Current].retries <= MaxRetries
            /\ rows'[Current].retries = MaxRetries => rows'[Current].status = "failed"
            /\ \A q \in DOMAIN rows : q # Current => rows'[q] = rows[q]
        BY <1>0, <2>0, <2>1, <2>3, MarkRetryFacts
      <3>2. rows'[Current].status \in {"pending", "retry"}
              => rows'[Current].retries < MaxRetries
        BY <3>1, Parameters
      <3>3. QED BY <1>4, <2>0, <3>1, <3>2
    <2>4. QED BY <2>2, <2>3
  <1>8. ASSUME drain' = Idle, UNCHANGED <<rows, tried>>
        PROVE  Goal
    BY <1>0, <1>8, <1>a DEF TableOK, AttemptsLeft, BatchWaits, Waiting, DownIsIdle, AnswerAwaited
  <1>9. CASE DrainError
    BY <1>8, <1>9 DEF DrainError
  <1>10. ASSUME NEW r \in RowIds, RetryDue(r) PROVE Goal
    <2>0. UNCHANGED <<drain, tried>> /\ up' = up
      BY <1>10 DEF RetryDue
    <2>1. /\ rows' \in Seq(Row) /\ Len(rows') = Len(rows) /\ DOMAIN rows' = DOMAIN rows
          /\ r \in DOMAIN rows
      BY <1>0, <1>10, RetryDueFacts
    <2>2. \A q \in DOMAIN rows : /\ rows'[q].status = rows[q].status
                                 /\ rows'[q].retries = rows[q].retries
      BY <1>0, <1>10, RetryDueFacts
    <2>3. TableOK'
      BY <1>0, <2>0, <2>1 DEF TableOK
    <2>4. AttemptsLeft' /\ BatchWaits'
      BY <1>0, <2>0, <2>1, <2>2 DEF AttemptsLeft, BatchWaits, Waiting
    <2>5. DownIsIdle' /\ AnswerAwaited'
      BY <1>0, <2>0 DEF DownIsIdle, AnswerAwaited, Idle
    <2>6. QED BY <2>3, <2>4, <2>5
  <1>11. ASSUME NEW c \in Cached, TokenExpires(c) \/ TokenRevoked(c) PROVE Goal
    BY <1>11, TableKept DEF TokenExpires, TokenRevoked
  <1>12. CASE Stop
    BY <1>8, <1>12 DEF Stop
  <1>13. CASE Start
    <2>0. UNCHANGED <<drain, tried>> /\ drain = Idle
      BY <1>0, <1>13 DEF Start, DownIsIdle
    <2>1. /\ rows' \in Seq(Row) /\ Len(rows') = Len(rows) /\ DOMAIN rows' = DOMAIN rows
          /\ \A r \in DOMAIN rows : /\ rows[r].status # "failed" => rows'[r] = rows[r]
                                    /\ rows[r].status = "failed" => rows'[r].retries = 0
      BY <1>0, <1>13, StartFacts
    <2>2. TableOK'
      BY <1>0, <2>0, <2>1 DEF TableOK
    <2>3. AttemptsLeft'
      BY <1>0, <2>1, Parameters DEF AttemptsLeft, Waiting
    <2>4. BatchWaits' /\ DownIsIdle' /\ AnswerAwaited'
      BY <1>a, <2>0 DEF BatchWaits, DownIsIdle, AnswerAwaited, Idle
    <2>5. QED BY <2>2, <2>3, <2>4
  <1>14. CASE UNCHANGED vars
    BY <1>14, TableKept DEF vars
  <1>15. QED
    BY <1>1, <1>2, <1>3, <1>5, <1>6, <1>7, <1>9, <1>10, <1>11, <1>12, <1>13, <1>14
    DEF Next, DrainLoop

LEMMA TypeStart == Init => TypeInv
  <1> SUFFICES ASSUME Init PROVE TypeInv
    OBVIOUS
  <1>0. MaxRows \in Nat \ {0}
    BY MirrorAssumption
  <1>1. AroundOK
    <2>1. defaults \in [Channels -> EnvDefault]
      BY MirrorAssumption DEF Init
    <2>2. slot \in [Channels -> Setting] /\ token \in [Cached -> {"none", "valid", "revoked"}]
      BY DEF Init, Setting
    <2>3. QED BY <2>1, <2>2, Parameters DEF AroundOK, Init
  <1>2. ASSUME NEW e \in Events, NEW target \in Targets PROVE NewRow(e, OldChannel, target) \in Row
    BY Parameters DEF NewRow, Row
  <1>3. rows \in Seq(Row) /\ Len(rows) <= MaxRows
        /\ \A r \in DOMAIN rows : rows[r].retries = 0
    <2>1. CASE rows = <<>>
      BY <1>0, <2>1
    <2>2. ASSUME NEW e \in Events, NEW target \in Targets, rows = <<NewRow(e, OldChannel, target)>>
          PROVE  rows \in Seq(Row) /\ Len(rows) <= MaxRows
                 /\ \A r \in DOMAIN rows : rows[r].retries = 0
      <3>1. NewRow(e, OldChannel, target) \in Row /\ NewRow(e, OldChannel, target).retries = 0
        BY <1>2 DEF NewRow
      <3>2. QED BY <1>0, <2>2, <3>1
    <2>3. QED BY <2>1, <2>2 DEF Init
  <1>4. drain = Idle /\ Idle.at = "idle" /\ Idle.batch = {} /\ Idle.ok = FALSE /\ tried = {}
        /\ Idle \in [at : {"idle", "row", "answer"}, batch : SUBSET DOMAIN rows, ok : BOOLEAN]
    BY DEF Init, Idle
  <1>5. TableOK
    BY <1>3, <1>4, FS_EmptySet, Parameters DEF TableOK
  <1>6. AttemptsLeft /\ BatchWaits /\ DownIsIdle /\ AnswerAwaited
    BY <1>3, <1>4, Parameters DEF AttemptsLeft, BatchWaits, DownIsIdle, AnswerAwaited
  <1>7. QED BY <1>1, <1>5, <1>6, TypeHalves DEF TypeInv

LEMMA TypeStep == TypeInv /\ [Next]_vars => TypeInv'
  <1> SUFFICES ASSUME TypeInv, [Next]_vars PROVE TypeInv'
    OBVIOUS
  <1>1. AroundOK' /\ TableOK'
    BY AroundStep, TableStep DEF TypeInv
  <1>2. TypeOK'
    BY <1>1 DEF TypeOK, AroundOK, TableOK
  <1>3. QED BY <1>2, TableStep DEF TypeInv

(* Every variable keeps its type, whatever the settings, the answers of the  *)
(* platforms and the stops: a batch is never longer than BATCH_SIZE and a    *)
(* row is never tried more than MAX_RETRIES times between resets.            *)
THEOREM TypeCorrect == Spec => []TypeOK
  <1>1. TypeInv => TypeOK
    BY DEF TypeInv
  <1>2. QED BY <1>1, TypeStart, TypeStep, PTL DEF Spec

-----------------------------------------------------------------------------
(* The answer to a send is written to its row, and the row leaves the batch. *)
LEMMA MarkFacts ==
    ASSUME TypeInv, Mark
    PROVE  /\ drain.at = "answer" /\ NextRow /\ UNCHANGED <<arrived, tried, excuses>>
           /\ Current \in drain.batch /\ Current \in DOMAIN rows /\ Current \in RowIds
           /\ Waiting(Current) /\ rows[Current].retries < MaxRetries
           /\ rows' \in Seq(Row) /\ Len(rows') = Len(rows) /\ DOMAIN rows' = DOMAIN rows
           /\ \A q \in DOMAIN rows : /\ q # Current => rows'[q] = rows[q]
                                     /\ rows'[q].channel = rows[q].channel
                                     /\ rows'[q].target = rows[q].target
           /\ drain.ok => /\ rows'[Current].status = "sent"
                          /\ rows'[Current].retries = rows[Current].retries
           /\ ~drain.ok => /\ rows'[Current].retries \in Nat
                           /\ rows'[Current].retries <= MaxRetries
                           /\ rows'[Current].retries < MaxRetries => rows'[Current].status = "retry"
                           /\ rows'[Current].retries = MaxRetries => rows'[Current].status = "failed"
           /\ drain'.batch = drain.batch \ {Current} /\ drain'.ok = FALSE
           /\ drain'.at \in {"idle", "row"}
  <1>0. TypeOK /\ AttemptsLeft /\ BatchWaits
    BY DEF TypeInv
  <1>1. /\ drain.at = "answer" /\ NextRow /\ UNCHANGED <<arrived, tried, excuses>>
        /\ (IF drain.ok THEN MarkSent(Current) ELSE MarkRetry(Current))
    BY DEF Mark
  <1>2. /\ Current \in drain.batch /\ Current \in DOMAIN rows /\ Current \in RowIds
        /\ rows[Current] \in Row
    BY <1>0, <1>1, TableFacts
  <1>3. Waiting(Current) /\ rows[Current].retries < MaxRetries
    BY <1>0, <1>2 DEF BatchWaits, AttemptsLeft
  <1>4. drain'.batch = drain.batch \ {Current} /\ drain'.ok = FALSE /\ drain'.at \in {"idle", "row"}
    BY <1>0, <1>1, NextRowFacts
  <1>5. CASE drain.ok
    <2>1. /\ rows' \in Seq(Row) /\ Len(rows') = Len(rows) /\ DOMAIN rows' = DOMAIN rows
          /\ rows'[Current] = [rows[Current] EXCEPT !.status = "sent"]
          /\ \A q \in DOMAIN rows : q # Current => rows'[q] = rows[q]
      BY <1>0, <1>1, <1>2, <1>5, MarkSentFacts
    <2>2. /\ rows'[Current].status = "sent" /\ rows'[Current].retries = rows[Current].retries
          /\ rows'[Current].channel = rows[Current].channel
          /\ rows'[Current].target = rows[Current].target
      BY <1>2, <2>1 DEF Row
    <2>3. QED BY <1>1, <1>2, <1>3, <1>4, <1>5, <2>1, <2>2
  <1>6. CASE ~drain.ok
    <2>1. /\ rows' \in Seq(Row) /\ Len(rows') = Len(rows) /\ DOMAIN rows' = DOMAIN rows
          /\ rows'[Current].channel = rows[Current].channel
          /\ rows'[Current].target = rows[Current].target
          /\ rows'[Current].retries \in Nat /\ rows'[Current].retries <= MaxRetries
          /\ rows'[Current].retries < MaxRetries => rows'[Current].status = "retry"
          /\ rows'[Current].retries = MaxRetries => rows'[Current].status = "failed"
          /\ \A q \in DOMAIN rows : q # Current => rows'[q] = rows[q]
      BY <1>0, <1>1, <1>2, <1>3, <1>6, MarkRetryFacts
    <2>2. QED BY <1>1, <1>2, <1>3, <1>4, <1>6, <2>1
  <1>7. QED BY <1>5, <1>6

LEMMA UnknownChannelFacts ==
    ASSUME TypeInv, UnknownChannel
    PROVE  /\ drain.at = "row" /\ NextRow /\ UNCHANGED <<arrived, tried, excuses>>
           /\ Current \in drain.batch /\ Current \in DOMAIN rows /\ Current \in RowIds
           /\ Waiting(Current) /\ rows[Current].channel \notin Channels
           /\ rows' \in Seq(Row) /\ Len(rows') = Len(rows) /\ DOMAIN rows' = DOMAIN rows
           /\ \A q \in DOMAIN rows : /\ q # Current => rows'[q] = rows[q]
                                     /\ rows'[q].channel = rows[q].channel
                                     /\ rows'[q].target = rows[q].target
           /\ rows'[Current].status = "failed"
           /\ drain'.batch = drain.batch \ {Current} /\ drain'.ok = FALSE
           /\ drain'.at \in {"idle", "row"}
  <1>0. TypeOK /\ AttemptsLeft /\ BatchWaits
    BY DEF TypeInv
  <1>1. /\ drain.at = "row" /\ NextRow /\ UNCHANGED <<arrived, tried, excuses>>
        /\ MarkFailed(Current) /\ rows[Current].channel \notin Channels
    BY DEF UnknownChannel
  <1>2. /\ Current \in drain.batch /\ Current \in DOMAIN rows /\ Current \in RowIds
        /\ rows[Current] \in Row
    BY <1>0, <1>1, TableFacts
  <1>3. Waiting(Current)
    BY <1>0, <1>2 DEF BatchWaits
  <1>4. drain'.batch = drain.batch \ {Current} /\ drain'.ok = FALSE /\ drain'.at \in {"idle", "row"}
    BY <1>0, <1>1, NextRowFacts
  <1>5. /\ rows' \in Seq(Row) /\ Len(rows') = Len(rows) /\ DOMAIN rows' = DOMAIN rows
        /\ rows'[Current] = [rows[Current] EXCEPT !.status = "failed"]
        /\ \A q \in DOMAIN rows : q # Current => rows'[q] = rows[q]
    BY <1>0, <1>1, <1>2, MarkFailedFacts
  <1>6. /\ rows'[Current].status = "failed"
        /\ rows'[Current].channel = rows[Current].channel
        /\ rows'[Current].target = rows[Current].target
    BY <1>2, <1>5 DEF Row
  <1>7. QED BY <1>1, <1>2, <1>3, <1>4, <1>5, <1>6

-----------------------------------------------------------------------------
(* Giving up *)

LEMMA GivenUpStep == TypeInv /\ GivenUpAfterRetries /\ [Next]_vars => GivenUpAfterRetries'
  <1> SUFFICES ASSUME TypeInv, GivenUpAfterRetries, [Next]_vars PROVE GivenUpAfterRetries'
    OBVIOUS
  <1>0. TypeOK /\ AttemptsLeft /\ MaxRetries \in Nat /\ MaxRetries > 0
    BY Parameters DEF TypeInv
  <1>1. CASE UNCHANGED rows
    BY <1>1 DEF GivenUpAfterRetries
  <1>2. ASSUME NEW e \in Events, Enqueue(e) PROVE GivenUpAfterRetries'
    <2>1. /\ \A r \in DOMAIN rows : rows'[r] = rows[r]
          /\ \A r \in DOMAIN rows' \ DOMAIN rows :
               rows'[r].status = "pending" /\ rows'[r].retries = 0
      BY <1>0, <1>2, EnqueueFacts
    <2>2. QED BY <1>0, <2>1 DEF GivenUpAfterRetries
  <1>3. CASE UnknownChannel
    <2>1. /\ DOMAIN rows' = DOMAIN rows /\ rows[Current].channel \notin Channels
          /\ \A q \in DOMAIN rows : /\ q # Current => rows'[q] = rows[q]
                                    /\ rows'[q].channel = rows[q].channel
      BY <1>3, UnknownChannelFacts
    <2>2. QED BY <2>1 DEF GivenUpAfterRetries
  <1>4. CASE Mark
    <2>1. /\ DOMAIN rows' = DOMAIN rows
          /\ \A q \in DOMAIN rows : q # Current => rows'[q] = rows[q]
          /\ drain.ok => rows'[Current].status = "sent"
          /\ ~drain.ok => /\ rows'[Current].retries \in Nat
                          /\ rows'[Current].retries <= MaxRetries
                          /\ rows'[Current].retries < MaxRetries => rows'[Current].status = "retry"
                          /\ rows'[Current].retries = MaxRetries => rows'[Current].status = "failed"
      BY <1>4, MarkFacts
    <2>2. rows'[Current].status = "failed"
            <=> rows'[Current].retries = MaxRetries /\ rows'[Current].status # "sent"
      BY <1>0, <2>1
    <2>3. QED BY <2>1, <2>2 DEF GivenUpAfterRetries
  <1>5. ASSUME NEW r \in RowIds, RetryDue(r) PROVE GivenUpAfterRetries'
    <2>1. /\ DOMAIN rows' = DOMAIN rows
          /\ \A q \in DOMAIN rows : /\ rows'[q].status = rows[q].status
                                    /\ rows'[q].retries = rows[q].retries
                                    /\ rows'[q].channel = rows[q].channel
      BY <1>0, <1>5, RetryDueFacts
    <2>2. QED BY <2>1 DEF GivenUpAfterRetries
  <1>6. CASE Start
    <2>1. /\ DOMAIN rows' = DOMAIN rows
          /\ \A r \in DOMAIN rows : /\ rows[r].status # "failed" => rows'[r] = rows[r]
                                    /\ rows[r].status = "failed" =>
                                         /\ rows'[r].status = "pending" /\ rows'[r].retries = 0
      BY <1>0, <1>6, StartFacts
    <2>2. \A r \in DOMAIN rows : rows'[r].channel = rows[r].channel
      BY <1>0, <1>6, StartFacts
    <2>3. QED BY <1>0, <2>1, <2>2 DEF GivenUpAfterRetries
  <1>7. Configure \/ DrainOnce \/ Send \/ DrainError \/ Stop \/ UNCHANGED vars
        \/ (\E c \in Cached : TokenExpires(c) \/ TokenRevoked(c))
        => UNCHANGED rows
    BY DEF Configure, DrainOnce, Send, DrainError, Stop, TokenExpires, TokenRevoked, vars
  <1>8. QED BY <1>1, <1>2, <1>3, <1>4, <1>5, <1>6, <1>7 DEF Next, DrainLoop

LEMMA GivenUpStart == Init => GivenUpAfterRetries
  <1> SUFFICES ASSUME Init PROVE GivenUpAfterRetries
    OBVIOUS
  <1>1. \A r \in DOMAIN rows : rows[r].status = "pending" /\ rows[r].retries = 0
    BY DEF Init, NewRow
  <1>2. QED BY <1>1, Parameters DEF GivenUpAfterRetries

-----------------------------------------------------------------------------
(* The order of the rows *)

\* A row of a registered channel that was never sent waits and is due, and no row behind it
\* was sent or is sent next: a batch has the first of the due rows.
ArrivedIsTried == \A q \in RowIds : arrived[q] > 0 => q \in tried
TriedIsRegistered == \A q \in tried : rows[q].channel \in Channels
UntriedIsDue ==
    \A r \in DOMAIN rows :
        rows[r].channel \in Channels /\ r \notin tried
          => rows[r].status = "pending" /\ rows[r].due = TRUE
TriedInTurn ==
    \A q \in tried, r \in DOMAIN rows :
        r < q /\ rows[r].channel \in Channels => r \in tried
BatchInTurn ==
    \A q \in drain.batch, r \in DOMAIN rows :
        r < q /\ rows[r].channel \in Channels => r \in tried \/ r \in drain.batch
AnswerIsTried == drain.at = "answer" => Current \in tried

OrderInv == /\ ArrivedIsTried /\ TriedIsRegistered /\ UntriedIsDue
            /\ TriedInTurn /\ BatchInTurn /\ AnswerIsTried

LEMMA ListedInTurn ==
    ASSUME TypeOK, NEW q \in ListPending, NEW r \in DOMAIN rows, r < q, Due(r)
    PROVE  r \in ListPending
  <1> DEFINE below(p) == {i \in DOMAIN rows : Due(i) /\ i < p}
  <1>0. /\ DOMAIN rows \subseteq Nat /\ IsFiniteSet(DOMAIN rows) /\ BatchSize \in Nat
        /\ q \in DOMAIN rows /\ Cardinality(below(q)) < BatchSize
    BY TableFacts, Parameters DEF ListPending
  <1>1. below(r) \in SUBSET below(q)
    <2>1. \A i \in DOMAIN rows : i < r => i < q
      BY <1>0
    <2>2. QED BY <2>1
  <1>2. IsFiniteSet(below(q)) /\ IsFiniteSet(below(r))
    BY <1>0, FS_Subset
  <1>3. Cardinality(below(r)) <= Cardinality(below(q))
    BY <1>1, <1>2, FS_Subset
  <1>4. Cardinality(below(r)) \in Nat /\ Cardinality(below(q)) \in Nat
    BY <1>2, FS_CardinalityType
  <1> HIDE DEF below
  <1>5. Cardinality(below(r)) < BatchSize
    BY <1>0, <1>3, <1>4
  <1>6. QED BY <1>5 DEF ListPending, below

\* A step that leaves the rows, what was tried and what arrived, and takes nothing into the
\* batch that was not in it.
LEMMA OrderKept ==
    ASSUME OrderInv, UNCHANGED <<rows, tried, arrived>>, drain'.batch \subseteq drain.batch,
           \A r \in drain.batch \ drain'.batch : rows[r].channel \in Channels => r \in tried,
           drain'.at = "answer" => UNCHANGED drain
    PROVE  OrderInv'
  <1>1. ArrivedIsTried' /\ TriedIsRegistered' /\ UntriedIsDue' /\ TriedInTurn'
    BY DEF OrderInv, ArrivedIsTried, TriedIsRegistered, UntriedIsDue, TriedInTurn
  <1>2. BatchInTurn'
    BY DEF OrderInv, BatchInTurn
  <1>3. AnswerIsTried'
    BY DEF OrderInv, AnswerIsTried, Current
  <1>4. QED BY <1>1, <1>2, <1>3 DEF OrderInv

LEMMA OrderStep == TypeInv /\ OrderInv /\ [Next]_vars => OrderInv'
  <1> SUFFICES ASSUME TypeInv, OrderInv, [Next]_vars PROVE OrderInv'
    OBVIOUS
  <1>0. /\ TypeOK /\ AttemptsLeft /\ BatchWaits
        /\ drain.batch \subseteq DOMAIN rows /\ tried \subseteq DOMAIN rows
        /\ DOMAIN rows \subseteq RowIds
        /\ DOMAIN rows = 1 .. Len(rows) /\ Len(rows) \in Nat
        /\ drain.at # "idle" <=> drain.batch # {}
    BY TableFacts DEF TypeInv, TypeOK
  <1>a. /\ ArrivedIsTried /\ TriedIsRegistered /\ UntriedIsDue
        /\ TriedInTurn /\ BatchInTurn /\ AnswerIsTried
    BY DEF OrderInv
  <1>1. ASSUME NEW e \in Events, Enqueue(e) PROVE OrderInv'
    <2>0. UNCHANGED <<drain, tried, arrived>>
      BY <1>1 DEF Enqueue
    <2>1. /\ \A r \in DOMAIN rows : rows'[r] = rows[r]
          /\ \A r \in DOMAIN rows' \ DOMAIN rows : rows'[r].status = "pending" /\ rows'[r].due = TRUE
          /\ DOMAIN rows' = 1 .. Len(rows') /\ Len(rows') \in Nat /\ Len(rows) <= Len(rows')
      BY <1>0, <1>1, EnqueueFacts
    <2>2. \A q \in DOMAIN rows, r \in DOMAIN rows' : r < q => r \in DOMAIN rows
      BY <1>0, <2>1
    <2>3. ArrivedIsTried' /\ TriedIsRegistered' /\ UntriedIsDue'
      BY <1>0, <1>a, <2>0, <2>1 DEF ArrivedIsTried, TriedIsRegistered, UntriedIsDue
    <2>4. TriedInTurn' /\ BatchInTurn'
      BY <1>0, <1>a, <2>0, <2>1, <2>2 DEF TriedInTurn, BatchInTurn
    <2>5. AnswerIsTried'
      BY <1>a, <2>0 DEF AnswerIsTried, Current
    <2>6. QED BY <2>3, <2>4, <2>5 DEF OrderInv
  <1>2. CASE DrainOnce
    <2>0. /\ UNCHANGED <<rows, tried, arrived>> /\ drain'.at = "row"
          /\ drain'.batch = ListPending
      BY <1>2 DEF DrainOnce
    <2>1. ArrivedIsTried' /\ TriedIsRegistered' /\ UntriedIsDue' /\ TriedInTurn' /\ AnswerIsTried'
      BY <1>a, <2>0 DEF ArrivedIsTried, TriedIsRegistered, UntriedIsDue, TriedInTurn, AnswerIsTried
    <2>2. ASSUME NEW q \in ListPending, NEW r \in DOMAIN rows, r < q,
                 rows[r].channel \in Channels, r \notin tried
          PROVE  r \in ListPending
      <3>1. Due(r)
        BY <1>a, <2>2 DEF UntriedIsDue, Due
      <3>2. QED BY <1>0, <2>2, <3>1, ListedInTurn
    <2>3. BatchInTurn'
      BY <2>0, <2>2 DEF BatchInTurn
    <2>4. QED BY <2>1, <2>3 DEF OrderInv
  <1>3. ASSUME UNCHANGED <<tried, arrived>>, DOMAIN rows' = DOMAIN rows,
               \A r \in DOMAIN rows : rows'[r].channel = rows[r].channel,
               \A r \in DOMAIN rows :
                 rows[r].channel \in Channels /\ r \notin tried
                   => rows'[r].status = "pending" /\ rows'[r].due = TRUE,
               drain'.batch \subseteq drain.batch,
               \A r \in drain.batch \ drain'.batch : rows[r].channel \in Channels => r \in tried,
               drain'.at = "answer" => UNCHANGED drain
        PROVE  OrderInv'
    <2>1. ArrivedIsTried' /\ TriedIsRegistered' /\ UntriedIsDue' /\ TriedInTurn'
      BY <1>0, <1>a, <1>3 DEF ArrivedIsTried, TriedIsRegistered, UntriedIsDue, TriedInTurn
    <2>2. BatchInTurn'
      BY <1>a, <1>3 DEF BatchInTurn
    <2>3. AnswerIsTried'
      BY <1>a, <1>3 DEF AnswerIsTried, Current
    <2>4. QED BY <2>1, <2>2, <2>3 DEF OrderInv
  <1>4. CASE UnknownChannel
    <2>1. /\ UNCHANGED <<arrived, tried>> /\ DOMAIN rows' = DOMAIN rows
          /\ \A r \in DOMAIN rows : /\ r # Current => rows'[r] = rows[r]
                                    /\ rows'[r].channel = rows[r].channel
          /\ rows[Current].channel \notin Channels
          /\ drain'.batch = drain.batch \ {Current} /\ drain'.at # "answer"
      BY <1>4, UnknownChannelFacts
    <2>2. ASSUME NEW r \in DOMAIN rows, rows[r].channel \in Channels /\ r \notin tried
          PROVE  rows'[r].status = "pending" /\ rows'[r].due = TRUE
      <3>1. rows[r].status = "pending" /\ rows[r].due = TRUE
        BY <1>a, <2>2 DEF UntriedIsDue
      <3>2. QED BY <2>1, <2>2, <3>1
    <2>3. QED BY <1>3, <2>1, <2>2
  <1>5. CASE Send
    <2>0. UNCHANGED rows
      BY <1>5 DEF Send
    <2>1. /\ drain.at = "row" /\ rows[Current].channel \in Channels
          /\ Current \in RowIds /\ Current \in DOMAIN rows /\ Current \in drain.batch
          /\ Current \in Nat /\ \A q \in drain.batch : Current <= q
      BY <1>0, <1>5, SendFacts, TableFacts
    <2>2. PICK got \in BOOLEAN, answered \in BOOLEAN : Posted(Current, got, answered)
      BY <1>0, <1>5, SendFacts
    <2>3. /\ tried' = tried \cup {Current} /\ drain'.batch = drain.batch
          /\ \A q \in RowIds : q # Current => arrived'[q] = arrived[q]
      BY <1>0, <2>1, <2>2, PostedFacts
    <2>4. ArrivedIsTried' /\ TriedIsRegistered' /\ UntriedIsDue'
      BY <1>a, <2>0, <2>1, <2>3 DEF ArrivedIsTried, TriedIsRegistered, UntriedIsDue
    <2>5. ASSUME NEW r \in DOMAIN rows, r < Current, rows[r].channel \in Channels
          PROVE  r \in tried
      <3>1. r \in tried \/ r \in drain.batch
        BY <1>a, <2>1, <2>5 DEF BatchInTurn
      <3>2. r \notin drain.batch
        BY <1>0, <2>1, <2>5
      <3>3. QED BY <3>1, <3>2
    <2>6. TriedInTurn' /\ BatchInTurn'
      BY <1>a, <2>0, <2>3, <2>5 DEF TriedInTurn, BatchInTurn
    <2>7. AnswerIsTried'
      BY <2>3 DEF AnswerIsTried, Current
    <2>8. QED BY <2>4, <2>6, <2>7 DEF OrderInv
  <1>6. CASE Mark
    <2>1. /\ drain.at = "answer" /\ UNCHANGED <<arrived, tried>> /\ DOMAIN rows' = DOMAIN rows
          /\ \A r \in DOMAIN rows : /\ r # Current => rows'[r] = rows[r]
                                    /\ rows'[r].channel = rows[r].channel
          /\ drain'.batch = drain.batch \ {Current} /\ drain'.at # "answer"
      BY <1>6, MarkFacts
    <2>2. Current \in tried
      BY <1>a, <2>1 DEF AnswerIsTried
    <2>3. ASSUME NEW r \in DOMAIN rows, rows[r].channel \in Channels /\ r \notin tried
          PROVE  rows'[r].status = "pending" /\ rows'[r].due = TRUE
      <3>1. rows[r].status = "pending" /\ rows[r].due = TRUE
        BY <1>a, <2>3 DEF UntriedIsDue
      <3>2. QED BY <2>1, <2>2, <2>3, <3>1
    <2>4. QED BY <1>3, <2>1, <2>2, <2>3
  <1>7. ASSUME drain' = Idle, UNCHANGED <<rows, tried, arrived>>
        PROVE  OrderInv'
    <2>1. drain'.batch = {} /\ drain'.at = "idle"
      BY <1>7 DEF Idle
    <2>2. ArrivedIsTried' /\ TriedIsRegistered' /\ UntriedIsDue' /\ TriedInTurn'
      BY <1>a, <1>7 DEF ArrivedIsTried, TriedIsRegistered, UntriedIsDue, TriedInTurn
    <2>3. BatchInTurn' /\ AnswerIsTried'
      BY <2>1 DEF BatchInTurn, AnswerIsTried
    <2>4. QED BY <2>2, <2>3 DEF OrderInv
  <1>8. CASE DrainError \/ Stop
    BY <1>7, <1>8 DEF DrainError, Stop
  <1>9. ASSUME NEW r \in RowIds, RetryDue(r) PROVE OrderInv'
    <2>0. UNCHANGED <<drain, tried, arrived>>
      BY <1>9 DEF RetryDue
    <2>1. /\ DOMAIN rows' = DOMAIN rows /\ r \in DOMAIN rows
          /\ \A q \in DOMAIN rows : q # r => rows'[q] = rows[q]
      BY <1>0, <1>9, RetryDueFacts
    <2>2. /\ \A q \in DOMAIN rows : /\ rows'[q].status = rows[q].status
                                    /\ rows'[q].channel = rows[q].channel
          /\ rows'[r].due = TRUE
      BY <1>0, <1>9, RetryDueFacts
    <2>3. ASSUME NEW q \in DOMAIN rows, rows[q].channel \in Channels /\ q \notin tried
          PROVE  rows'[q].status = "pending" /\ rows'[q].due = TRUE
      <3>1. rows[q].status = "pending" /\ rows[q].due = TRUE
        BY <1>a, <2>3 DEF UntriedIsDue
      <3>2. q # r => rows'[q] = rows[q]
        BY <2>1
      <3>3. QED BY <2>2, <3>1, <3>2
    <2>4. QED BY <1>3, <2>0, <2>1, <2>2, <2>3
  <1>10. CASE Start
    <2>0. UNCHANGED <<drain, tried, arrived>>
      BY <1>10 DEF Start
    <2>1. /\ DOMAIN rows' = DOMAIN rows
          /\ \A r \in DOMAIN rows : /\ rows'[r].channel = rows[r].channel
                                    /\ rows[r].status # "failed" => rows'[r] = rows[r]
      BY <1>0, <1>10, StartFacts
    <2>2. ASSUME NEW r \in DOMAIN rows, rows[r].channel \in Channels /\ r \notin tried
          PROVE  rows'[r].status = "pending" /\ rows'[r].due = TRUE
      <3>1. rows[r].status = "pending" /\ rows[r].due = TRUE
        BY <1>a, <2>2 DEF UntriedIsDue
      <3>2. QED BY <2>1, <3>1
    <2>3. QED BY <1>3, <2>0, <2>1, <2>2
  <1>11. Configure \/ UNCHANGED vars \/ (\E c \in Cached : TokenExpires(c) \/ TokenRevoked(c))
         => UNCHANGED <<rows, drain, tried, arrived>>
    BY DEF Configure, TokenExpires, TokenRevoked, vars
  <1>12. UNCHANGED <<rows, drain, tried, arrived>> => OrderInv'
    BY OrderKept
  <1>13. QED BY <1>1, <1>2, <1>4, <1>5, <1>6, <1>8, <1>9, <1>10, <1>11, <1>12
         DEF Next, DrainLoop

LEMMA OrderStart == Init => OrderInv
  <1> SUFFICES ASSUME Init PROVE OrderInv
    OBVIOUS
  <1>1. tried = {} /\ drain.batch = {} /\ drain.at = "idle"
        /\ \A r \in DOMAIN rows : rows[r].status = "pending" /\ rows[r].due = TRUE
    BY DEF Init, Idle, NewRow
  <1>2. \A q \in RowIds : ~ (arrived[q] > 0)
    BY DEF Init
  <1>3. QED
    BY <1>1, <1>2
    DEF OrderInv, ArrivedIsTried, TriedIsRegistered, UntriedIsDue, TriedInTurn, BatchInTurn,
        AnswerIsTried

LEMMA OrderShows == TypeInv /\ OrderInv => OvertakenOnlyAfterAttempt
  <1> SUFFICES ASSUME TypeInv, OrderInv, NEW r \in DOMAIN rows, NEW q \in DOMAIN rows,
                      r < q, rows[r].channel = rows[q].channel, arrived[q] > 0
               PROVE  r \in tried
    BY DEF OvertakenOnlyAfterAttempt
  <1>1. q \in tried
    BY TableFacts DEF TypeInv, OrderInv, ArrivedIsTried
  <1>2. QED BY <1>1 DEF OrderInv, TriedIsRegistered, TriedInTurn

-----------------------------------------------------------------------------
(* How often a row arrives *)

\* What arrived once more than what is excused is marked as sent, or is about to be.
Answered(r) == drain.at = "answer" /\ drain.ok /\ r = Current
Settled(r) == r \in DOMAIN rows /\ (rows[r].status = "sent" \/ Answered(r))
LossInv ==
    /\ \A r \in RowIds : arrived[r] <= 1 + excuses[r]
    /\ \A r \in RowIds : ~Settled(r) => arrived[r] <= excuses[r]
    /\ \A r \in RowIds : Answered(r) => arrived[r] > 0

LEMMA LossStep == TypeInv /\ LossInv /\ [Next]_vars => LossInv'
  <1> SUFFICES ASSUME TypeInv, LossInv, [Next]_vars PROVE LossInv'
    OBVIOUS
  <1>0. /\ TypeOK /\ BatchWaits
        /\ \A r \in RowIds : arrived[r] \in Nat /\ excuses[r] \in Nat
        /\ drain.ok \in BOOLEAN
    BY DEF TypeInv, TypeOK
  <1>1. ASSUME UNCHANGED <<drain, arrived, excuses>>, DOMAIN rows \subseteq DOMAIN rows',
               \A r \in DOMAIN rows : rows[r].status = "sent" => rows'[r].status = "sent"
        PROVE  LossInv'
    <2>1. \A r : Answered(r)' = Answered(r)
      BY <1>1 DEF Answered, Current
    <2>2. \A r \in RowIds : Settled(r) => Settled(r)'
      BY <1>1, <2>1 DEF Settled
    <2>3. QED BY <1>1, <2>1, <2>2 DEF LossInv
  <1>2. ASSUME NEW e \in Events, Enqueue(e) PROVE LossInv'
    <2>1. UNCHANGED <<drain, arrived, excuses>>
      BY <1>2 DEF Enqueue
    <2>2. /\ \A r \in DOMAIN rows : rows'[r] = rows[r]
          /\ DOMAIN rows' = 1 .. Len(rows') /\ DOMAIN rows = 1 .. Len(rows)
          /\ Len(rows) \in Nat /\ Len(rows') \in Nat /\ Len(rows) <= Len(rows')
      BY <1>0, <1>2, EnqueueFacts, TableFacts
    <2>3. DOMAIN rows \subseteq DOMAIN rows'
      BY <2>2
    <2>4. QED BY <1>1, <2>1, <2>2, <2>3
  <1>3. ASSUME ~Answered(Current), drain'.at # "answer", UNCHANGED <<arrived, excuses>>,
               DOMAIN rows' = DOMAIN rows,
               \A r \in DOMAIN rows : rows[r].status = "sent" => rows'[r].status = "sent"
        PROVE  LossInv'
    <2>1. \A r : ~Answered(r) /\ ~Answered(r)'
      BY <1>3 DEF Answered
    <2>2. \A r \in RowIds : Settled(r) => Settled(r)'
      BY <1>3, <2>1 DEF Settled
    <2>3. QED BY <1>3, <2>1, <2>2 DEF LossInv
  <1>4. CASE DrainOnce
    <2>1. /\ UNCHANGED <<rows, arrived, excuses>> /\ drain.at = "idle" /\ drain'.at = "row"
      BY <1>4 DEF DrainOnce
    <2>2. QED BY <1>3, <2>1 DEF Answered
  <1>5. CASE UnknownChannel
    <2>1. /\ drain.at = "row" /\ UNCHANGED <<arrived, excuses>> /\ DOMAIN rows' = DOMAIN rows
          /\ \A r \in DOMAIN rows : r # Current => rows'[r] = rows[r]
          /\ Waiting(Current) /\ drain'.at # "answer"
      BY <1>5, UnknownChannelFacts
    <2>2. \A r \in DOMAIN rows : rows[r].status = "sent" => rows'[r].status = "sent"
      BY <2>1 DEF Waiting
    <2>3. QED BY <1>3, <2>1, <2>2 DEF Answered
  <1>6. CASE Send
    <2>0. UNCHANGED rows
      BY <1>6 DEF Send
    <2>1. drain.at = "row" /\ Current \in RowIds /\ Current \in DOMAIN rows /\ Waiting(Current)
      BY <1>0, <1>6, SendFacts, TableFacts DEF BatchWaits
    <2>2. PICK got \in BOOLEAN, answered \in BOOLEAN : Posted(Current, got, answered)
      BY <1>0, <1>6, SendFacts
    <2>3. /\ drain'.at = "answer" /\ drain'.batch = drain.batch
          /\ drain'.ok = (got /\ answered)
          /\ \A q \in RowIds : q # Current => arrived'[q] = arrived[q] /\ excuses'[q] = excuses[q]
          /\ arrived'[Current] = IF got THEN arrived[Current] + 1 ELSE arrived[Current]
          /\ excuses'[Current] = IF got /\ ~answered THEN excuses[Current] + 1
                                 ELSE excuses[Current]
      BY <1>0, <2>1, <2>2, PostedFacts
    <2>4. Current' = Current
      BY <2>3 DEF Current
    <2>5. \A r : ~Answered(r) /\ (Answered(r)' => r = Current)
      BY <2>1, <2>4 DEF Answered
    <2>6. arrived[Current] <= excuses[Current]
      BY <2>1, <2>5 DEF LossInv, Settled, Waiting
    <2>7. \A r : r = Current => (Answered(r)' <=> got /\ answered)
      BY <2>3, <2>4, Zenon DEF Answered
    <2>8. ASSUME NEW r \in RowIds, r # Current
          PROVE  /\ arrived'[r] <= 1 + excuses'[r]
                 /\ ~Settled(r)' => arrived'[r] <= excuses'[r]
                 /\ ~Answered(r)'
      <3>1. ~Answered(r)' /\ (Settled(r) => Settled(r)')
        BY <2>0, <2>5, <2>8 DEF Settled
      <3>2. arrived'[r] = arrived[r] /\ excuses'[r] = excuses[r]
        BY <2>3, <2>8
      <3>3. QED BY <3>1, <3>2 DEF LossInv
    <2>9. ASSUME NEW r \in RowIds, r = Current
          PROVE  /\ arrived'[r] <= 1 + excuses'[r]
                 /\ ~Settled(r)' => arrived'[r] <= excuses'[r]
                 /\ Answered(r)' => arrived'[r] > 0
      <3>0. /\ arrived[r] \in Nat /\ excuses[r] \in Nat /\ arrived[r] <= excuses[r]
            /\ arrived'[r] = IF got THEN arrived[r] + 1 ELSE arrived[r]
            /\ excuses'[r] = IF got /\ ~answered THEN excuses[r] + 1 ELSE excuses[r]
            /\ Answered(r)' <=> got /\ answered
        BY <1>0, <2>3, <2>6, <2>7, <2>9
      <3>1. Answered(r)' => Settled(r)'
        BY <2>0, <2>1, <2>9 DEF Settled
      <3>2. CASE got /\ answered
        BY <3>0, <3>1, <3>2
      <3>3. CASE got /\ ~answered
        BY <3>0, <3>3
      <3>4. CASE ~got
        BY <3>0, <3>4
      <3>5. QED BY <3>2, <3>3, <3>4
    <2>10. QED BY <2>8, <2>9 DEF LossInv
  <1>7. CASE Mark
    <2>1. /\ drain.at = "answer" /\ UNCHANGED <<arrived, excuses>> /\ DOMAIN rows' = DOMAIN rows
          /\ Current \in DOMAIN rows /\ Waiting(Current)
          /\ \A r \in DOMAIN rows : r # Current => rows'[r] = rows[r]
          /\ drain.ok => rows'[Current].status = "sent"
          /\ drain'.at # "answer"
      BY <1>7, MarkFacts
    <2>2. \A r : ~Answered(r)'
      BY <2>1 DEF Answered
    <2>3. \A r \in RowIds : Settled(r) => Settled(r)'
      <3> SUFFICES ASSUME NEW r \in DOMAIN rows, rows[r].status = "sent" \/ Answered(r)
                   PROVE  rows'[r].status = "sent"
        BY <2>1 DEF Settled
      <3>1. CASE r = Current
        <4>1. drain.ok
          BY <2>1, <3>1 DEF Waiting, Answered
        <4>2. QED BY <2>1, <3>1, <4>1
      <3>2. CASE r # Current
        BY <2>1, <3>2 DEF Answered
      <3>3. QED BY <3>1, <3>2
    <2>4. QED BY <2>1, <2>2, <2>3 DEF LossInv
  <1>8. ASSUME drain' = Idle, excuses' = Excused, UNCHANGED <<rows, arrived>>
        PROVE  LossInv'
    <2>0. excuses \in [RowIds -> Nat]
      BY <1>0 DEF TypeOK
    <2>1. \A r : ~Answered(r)'
      BY <1>8 DEF Answered, Idle
    <2>2. ASSUME NEW r \in RowIds
          PROVE  /\ Answered(r) => excuses'[r] = excuses[r] + 1
                 /\ ~Answered(r) => excuses'[r] = excuses[r]
      BY <1>8, <2>0, <2>2 DEF Excused, Answered
    <2>3. ASSUME NEW r \in RowIds
          PROVE  /\ arrived'[r] <= 1 + excuses'[r]
                 /\ ~Settled(r)' => arrived'[r] <= excuses'[r]
      <3>0. arrived[r] \in Nat /\ excuses[r] \in Nat /\ arrived'[r] = arrived[r]
        BY <1>0, <1>8
      <3>1. CASE Answered(r)
        BY <2>2, <3>0, <3>1 DEF LossInv
      <3>2. CASE ~Answered(r)
        <4>1. Settled(r) => Settled(r)'
          BY <1>8, <3>2 DEF Settled
        <4>2. QED BY <2>2, <3>0, <3>2, <4>1 DEF LossInv
      <3>3. QED BY <3>1, <3>2
    <2>4. QED BY <2>1, <2>3 DEF LossInv
  <1>9. CASE DrainError \/ Stop
    BY <1>8, <1>9 DEF DrainError, Stop
  <1>10. ASSUME NEW r \in RowIds, RetryDue(r) PROVE LossInv'
    <2>0. UNCHANGED <<drain, arrived, excuses>>
      BY <1>10 DEF RetryDue
    <2>1. DOMAIN rows' = DOMAIN rows
      BY <1>0, <1>10, RetryDueFacts
    <2>2. \A q \in DOMAIN rows : rows'[q].status = rows[q].status
      BY <1>0, <1>10, RetryDueFacts
    <2>3. QED BY <1>1, <2>0, <2>1, <2>2
  <1>11. CASE Start
    <2>0. UNCHANGED <<drain, arrived, excuses>>
      BY <1>11 DEF Start
    <2>1. /\ DOMAIN rows' = DOMAIN rows
          /\ \A r \in DOMAIN rows : rows[r].status # "failed" => rows'[r] = rows[r]
      BY <1>0, <1>11, StartFacts
    <2>2. QED BY <1>1, <2>0, <2>1
  <1>12. Configure \/ UNCHANGED vars \/ (\E c \in Cached : TokenExpires(c) \/ TokenRevoked(c))
         => UNCHANGED <<rows, drain, arrived, excuses>>
    BY DEF Configure, TokenExpires, TokenRevoked, vars
  <1>13. UNCHANGED <<rows, drain, arrived, excuses>> => LossInv'
    BY <1>1
  <1>14. QED BY <1>2, <1>4, <1>5, <1>6, <1>7, <1>9, <1>10, <1>11, <1>12, <1>13
         DEF Next, DrainLoop

LEMMA LossStart == Init => LossInv
  <1> SUFFICES ASSUME Init PROVE LossInv
    OBVIOUS
  <1>1. \A r \in RowIds : arrived[r] = 0 /\ excuses[r] = 0 /\ ~Answered(r)
    BY DEF Init, Idle, Answered
  <1>2. QED BY <1>1 DEF LossInv

-----------------------------------------------------------------------------

(* A row reaches its platform more than once only if an answer, a mark or    *)
(* the loop was lost after it had arrived, messages for one target are       *)
(* overtaken only after a failed send, and a row is given up after exactly   *)
(* MAX_RETRIES attempts (_drain_once, mirror/manager.py:149, and             *)
(* mark_mirror_retry), for every number of rows, attempts and stops.         *)
THEOREM MirrorIsSafe == Spec => []MirrorSafe
  <1> DEFINE IInv == TypeInv /\ GivenUpAfterRetries /\ OrderInv /\ LossInv
  <1>1. Init => IInv
    BY TypeStart, GivenUpStart, OrderStart, LossStart
  <1>2. IInv /\ [Next]_vars => IInv'
    BY TypeStep, GivenUpStep, OrderStep, LossStep
  <1>3. IInv => MirrorSafe
    BY OrderShows DEF MirrorSafe, TypeInv, LossInv, RepeatedOnlyAfterLoss
  <1>4. QED BY <1>1, <1>2, <1>3, PTL DEF Spec

-----------------------------------------------------------------------------
(* The mirror implements Forwarding *)

\* The outcome of a row that the table has, and of one that it has not.
LEMMA OutcomeFacts ==
    /\ \A r \in RowIds : Outcome[r] = IF r \notin DOMAIN rows THEN "none"
                                      ELSE IF rows[r].status = "retry" THEN "pending"
                                      ELSE rows[r].status
    /\ Outcome = [r \in RowIds |-> Outcome[r]]
    /\ \A r \in RowIds : Outcome'[r] = IF r \notin DOMAIN rows' THEN "none"
                                       ELSE IF rows'[r].status = "retry" THEN "pending"
                                       ELSE rows'[r].status
    /\ Outcome' = [r \in RowIds |-> Outcome'[r]]
  BY DEF Outcome

LEMMA OutcomeKept ==
    ASSUME DOMAIN rows' = DOMAIN rows,
           \A r \in DOMAIN rows : \/ rows'[r].status = rows[r].status
                                  \/ {rows[r].status, rows'[r].status} \subseteq {"pending", "retry"}
    PROVE  Outcome' = Outcome
  <1>1. ASSUME NEW r \in RowIds PROVE Outcome'[r] = Outcome[r]
    <2>1. CASE r \notin DOMAIN rows
      BY <2>1, OutcomeFacts
    <2>2. CASE r \in DOMAIN rows
      <3>1. CASE rows'[r].status = rows[r].status
        BY <2>2, <3>1, OutcomeFacts
      <3>2. CASE {rows[r].status, rows'[r].status} \subseteq {"pending", "retry"}
        BY <2>2, <3>2, OutcomeFacts
      <3>3. QED BY <2>2, <3>1, <3>2
    <2>3. QED BY <2>1, <2>2
  <1>2. QED BY <1>1, OutcomeFacts

\* One row of the table changed: so did one outcome.
LEMMA OutcomeMoves ==
    ASSUME TypeOK, NEW r \in DOMAIN rows, DOMAIN rows' = DOMAIN rows,
           \A q \in DOMAIN rows : q # r => rows'[q] = rows[q],
           NEW s, s # "retry", rows'[r].status = s
    PROVE  Outcome' = [Outcome EXCEPT ![r] = s]
  <1>0. r \in RowIds
    BY TableFacts
  <1>1. ASSUME NEW q \in RowIds PROVE Outcome'[q] = IF q = r THEN s ELSE Outcome[q]
    BY <1>1, OutcomeFacts
  <1>2. QED BY <1>0, <1>1, OutcomeFacts

LEMMA ForwardingStep == TypeInv /\ LossInv /\ [Next]_vars => [F!Next]_<<Outcome, arrived>>
  <1> DEFINE Goal == [F!Next]_<<Outcome, arrived>>
  <1> SUFFICES ASSUME TypeInv, LossInv, [Next]_vars PROVE Goal
    OBVIOUS
  <1>0. TypeOK /\ BatchWaits /\ arrived \in [RowIds -> Nat]
    BY DEF TypeInv, TypeOK
  <1>1. UNCHANGED <<rows, arrived>> => Goal
    BY DEF Outcome
  <1>2. ASSUME NEW e \in Events, Enqueue(e) PROVE Goal
    <2> DEFINE S == DOMAIN rows' \ DOMAIN rows
    <2>0. UNCHANGED arrived
      BY <1>2 DEF Enqueue
    <2>1. /\ DOMAIN rows' = 1 .. Len(rows') /\ DOMAIN rows = 1 .. Len(rows)
          /\ Len(rows) \in Nat /\ Len(rows') \in Nat /\ Len(rows) <= Len(rows')
          /\ Len(rows') <= MaxRows
          /\ \A r \in DOMAIN rows : rows'[r] = rows[r]
          /\ \A r \in S : rows'[r].status = "pending"
      BY <1>0, <1>2, EnqueueFacts, TableFacts
    <2>2. DOMAIN rows \subseteq DOMAIN rows' /\ S \subseteq RowIds
      BY <2>1, Parameters DEF RowIds
    <2>3. ASSUME NEW r \in RowIds
          PROVE  Outcome'[r] = IF r \in S THEN "pending" ELSE Outcome[r]
      <3>1. CASE r \in S
        BY <2>1, <3>1, OutcomeFacts
      <3>2. CASE r \in DOMAIN rows
        BY <2>1, <2>2, <3>2, OutcomeFacts
      <3>3. CASE r \notin DOMAIN rows'
        BY <2>2, <3>3, OutcomeFacts
      <3>4. QED BY <3>1, <3>2, <3>3
    <2>4. \A r \in S : Outcome[r] = "none"
      BY <2>2, OutcomeFacts
    <2> HIDE DEF S
    <2>5. CASE S = {}
      <3>1. Outcome' = Outcome
        BY <2>3, <2>5, OutcomeFacts
      <3>2. QED BY <2>0, <3>1
    <2>6. CASE S # {}
      <3>1. Outcome' = [r \in RowIds |-> IF r \in S THEN "pending" ELSE Outcome[r]]
        BY <2>3, OutcomeFacts
      <3>2. S \in (SUBSET RowIds) \ {{}}
        BY <2>2, <2>6
      <3>3. F!AcceptSome
        BY <2>0, <2>4, <3>1, <3>2, Zenon DEF F!AcceptSome
      <3>4. QED BY <3>3 DEF F!Next
    <2>7. QED BY <2>5, <2>6
  <1>3. CASE UnknownChannel
    <2>1. /\ UNCHANGED arrived /\ DOMAIN rows' = DOMAIN rows
          /\ \A r \in DOMAIN rows : r # Current => rows'[r] = rows[r]
          /\ Current \in DOMAIN rows /\ Current \in RowIds /\ Waiting(Current)
          /\ rows'[Current].status = "failed"
      BY <1>3, UnknownChannelFacts
    <2>2. Outcome' = [Outcome EXCEPT ![Current] = "failed"]
      BY <1>0, <2>1, OutcomeMoves
    <2>3. Outcome[Current] = "pending"
      BY <2>1, OutcomeFacts DEF Waiting
    <2>4. F!GiveUp(Current)
      BY <2>1, <2>2, <2>3 DEF F!GiveUp
    <2>5. QED BY <2>1, <2>4 DEF F!Next
  <1>4. CASE Send
    <2>0. UNCHANGED rows
      BY <1>4 DEF Send
    <2>1. Current \in RowIds /\ Current \in DOMAIN rows /\ Waiting(Current)
      BY <1>0, <1>4, SendFacts, TableFacts DEF BatchWaits
    <2>2. PICK got \in BOOLEAN, answered \in BOOLEAN : Posted(Current, got, answered)
      BY <1>0, <1>4, SendFacts
    <2>3. Outcome' = Outcome
      BY <2>0 DEF Outcome
    <2>4. CASE got
      <3>1. Outcome[Current] = "pending"
        BY <2>1, OutcomeFacts DEF Waiting
      <3>2. arrived' = [arrived EXCEPT ![Current] = arrived[Current] + 1]
        BY <2>2, <2>4 DEF Posted
      <3>3. F!Arrive(Current)
        BY <2>3, <3>1, <3>2 DEF F!Arrive
      <3>4. QED BY <2>1, <3>3 DEF F!Next
    <2>5. CASE ~got
      BY <2>2, <2>3, <2>5 DEF Posted
    <2>6. QED BY <2>4, <2>5
  <1>5. CASE Mark
    <2>1. /\ drain.at = "answer" /\ UNCHANGED arrived /\ DOMAIN rows' = DOMAIN rows
          /\ Current \in DOMAIN rows /\ Current \in RowIds /\ Waiting(Current)
          /\ \A r \in DOMAIN rows : r # Current => rows'[r] = rows[r]
      BY <1>5, MarkFacts
    <2>2. /\ drain.ok => rows'[Current].status = "sent"
          /\ ~drain.ok => rows'[Current].status \in {"retry", "failed"}
      <3>1. /\ drain.ok => rows'[Current].status = "sent"
            /\ ~drain.ok => /\ rows'[Current].retries \in Nat
                            /\ rows'[Current].retries <= MaxRetries
                            /\ rows'[Current].retries < MaxRetries => rows'[Current].status = "retry"
                            /\ rows'[Current].retries = MaxRetries => rows'[Current].status = "failed"
        BY <1>5, MarkFacts
      <3>2. QED BY <3>1, Parameters
    <2>3. Outcome[Current] = "pending"
      BY <2>1, OutcomeFacts DEF Waiting
    <2>4. CASE rows'[Current].status = "retry"
      <3>1. \A r \in DOMAIN rows :
              \/ rows'[r].status = rows[r].status
              \/ {rows[r].status, rows'[r].status} \subseteq {"pending", "retry"}
        BY <2>1, <2>4 DEF Waiting
      <3>2. Outcome' = Outcome
        BY <2>1, <3>1, OutcomeKept
      <3>3. QED BY <2>1, <3>2
    <2>5. CASE rows'[Current].status = "failed"
      <3>1. Outcome' = [Outcome EXCEPT ![Current] = "failed"]
        BY <1>0, <2>1, <2>5, OutcomeMoves
      <3>2. F!GiveUp(Current)
        BY <2>1, <2>3, <3>1 DEF F!GiveUp
      <3>3. QED BY <2>1, <3>2 DEF F!Next
    <2>6. CASE drain.ok
      <3>1. arrived[Current] > 0
        BY <2>1, <2>6 DEF LossInv, Answered
      <3>2. Outcome' = [Outcome EXCEPT ![Current] = "sent"]
        BY <1>0, <2>1, <2>2, <2>6, OutcomeMoves
      <3>3. F!Confirm(Current)
        BY <2>1, <2>3, <3>1, <3>2 DEF F!Confirm
      <3>4. QED BY <2>1, <3>3 DEF F!Next
    <2>7. QED BY <2>2, <2>4, <2>5, <2>6
  <1>6. ASSUME NEW r \in RowIds, RetryDue(r) PROVE Goal
    <2>1. DOMAIN rows' = DOMAIN rows
      BY <1>0, <1>6, RetryDueFacts
    <2>2. \A q \in DOMAIN rows : rows'[q].status = rows[q].status
      BY <1>0, <1>6, RetryDueFacts
    <2>3. Outcome' = Outcome
      BY <2>1, <2>2, OutcomeKept
    <2>4. QED BY <1>6, <2>3 DEF RetryDue
  <1>7. CASE Start
    <2>1. /\ DOMAIN rows' = DOMAIN rows
          /\ \A r \in DOMAIN rows :
               /\ rows[r].status # "failed" => rows'[r] = rows[r]
               /\ rows[r].status = "failed" => rows'[r].status = "pending"
      BY <1>0, <1>7, StartFacts
    <2>2. ASSUME NEW r \in RowIds
          PROVE  Outcome'[r] = IF Outcome[r] = "failed" THEN "pending" ELSE Outcome[r]
      BY <2>1, OutcomeFacts
    <2>3. Outcome' = [r \in RowIds |-> IF Outcome[r] = "failed" THEN "pending" ELSE Outcome[r]]
      BY <2>2, OutcomeFacts
    <2>4. F!Revive
      BY <1>7, <2>3 DEF F!Revive, Start
    <2>5. QED BY <2>4 DEF F!Next
  <1>8. Configure \/ DrainOnce \/ DrainError \/ Stop \/ UNCHANGED vars
        \/ (\E c \in Cached : TokenExpires(c) \/ TokenRevoked(c))
        => UNCHANGED <<rows, arrived>>
    BY DEF Configure, DrainOnce, DrainError, Stop, TokenExpires, TokenRevoked, vars
  <1>9. QED BY <1>1, <1>2, <1>3, <1>4, <1>5, <1>6, <1>7, <1>8 DEF Next, DrainLoop

LEMMA ForwardingStart == Init => F!Init
  <1> SUFFICES ASSUME Init PROVE F!Init
    OBVIOUS
  <1>1. \A r \in DOMAIN rows : rows[r].status = "pending"
    BY DEF Init, NewRow
  <1>2. \A r \in RowIds : Outcome[r] \in {"none", "pending"}
    BY <1>1, OutcomeFacts
  <1>3. Outcome \in [RowIds -> {"none", "pending"}]
    BY <1>2, OutcomeFacts
  <1>4. QED BY <1>3 DEF Init, F!Init

(* The mirror implements Forwarding: every accepted row reaches its platform *)
(* before it is called sent, arrives only while it is pending, and is not    *)
(* taken up again once it was sent (_drain_once, mirror/manager.py:149).     *)
THEOREM ImplementsForwarding == Spec => ForwardingSpec
  <1>1. TypeInv /\ LossInv /\ [Next]_vars => TypeInv' /\ LossInv'
    BY TypeStep, LossStep
  <1>2. QED
    BY <1>1, TypeStart, LossStart, ForwardingStart, ForwardingStep, PTL
    DEF Spec, ForwardingSpec, F!Spec

-----------------------------------------------------------------------------
(* A training task and its thread, process and cancel request.              *)
Places   == {"none", "start", "positive", "negative", "choose", "launch", "record", "read",
             "finish", "done"}
NoProcessAt == {"none", "start", "positive", "negative", "choose", "launch"}
Methods  == {"none", "docker", "local", "whisper", "simulated"}
Statuses == {"none"} \cup W!Active \cup W!Settled

TasksTyped ==
  /\ task \in [Tasks -> [session : Sessions \cup {None}, status : Statuses, process : BOOLEAN]]
  /\ thread \in [Tasks -> Places] /\ method \in [Tasks -> Methods]
  /\ process \in [Tasks -> {"none", "alive", "stopping", "ok", "bad"}]
  /\ cancelling \in Tasks \cup {None}

\* Where the thread is says what the status may be, and what the process.
TaskInv(t) ==
  /\ task[t].status = "none" <=> thread[t] = "none"
  /\ task[t].status # "none" => task[t].session \in known
  /\ task[t].status = "pending" => thread[t] = "start"
  /\ thread[t] = "start" => task[t].status \in {"pending", "cancelled"}
  /\ task[t].status \in {"completed", "failed"} => thread[t] = "done"
  /\ thread[t] = "done" => task[t].status \in W!Settled /\ process[t] # "alive"
  /\ thread[t] \in NoProcessAt => process[t] = "none"
  /\ thread[t] = "finish" => method[t] = "simulated" \/ process[t] \in {"ok", "bad"}
  /\ method[t] = "simulated" => process[t] = "none"
  /\ task[t].status = "completed" => method[t] = "simulated" \/ process[t] = "ok"
  /\ cancelling = t => task[t].status # "none"

TasksInv == TasksTyped /\ \A t \in Tasks : TaskInv(t)

\* What SettledStays says of one step.
StaysSettled ==
  \A t \in Tasks : task[t].status \in {"completed", "failed"} /\ cancelling # t
    => task'[t].status = task[t].status /\ cancelling' # t

\* A step that leaves a task alone.
Untouched(t) ==
  /\ task'[t] = task[t] /\ thread'[t] = thread[t] /\ method'[t] = method[t]
  /\ process'[t] = process[t] /\ (cancelling' = t => cancelling = t)

\* A step of one task.
Touched(t) == TasksTyped' /\ TaskInv(t)' /\ \A u \in Tasks \ {t} : Untouched(u)
Settling(t) ==
  task[t].status \in {"completed", "failed"} /\ cancelling # t
    => task'[t].status = task[t].status /\ cancelling' # t

LEMMA OneTask ==
  ASSUME TasksInv, known \subseteq known', NEW t \in Tasks, Touched(t), Settling(t)
  PROVE  TasksInv' /\ StaysSettled
<1>1. ASSUME NEW u \in Tasks, u # t
      PROVE  TaskInv(u)'
  <2>1. TaskInv(u) /\ Untouched(u)
    BY <1>1 DEF TasksInv, Touched
  <2> QED BY <2>1 DEF TaskInv, Untouched
<1>2. ASSUME NEW u \in Tasks, u # t, task[u].status \in {"completed", "failed"}, cancelling # u
      PROVE  task'[u].status = task[u].status /\ cancelling' # u
  BY <1>2 DEF Touched, Untouched
<1>3. TasksTyped' /\ TaskInv(t)'
  BY DEF Touched
<1>4. \A u \in Tasks : TaskInv(u)'
  BY <1>1, <1>3
<1>5. StaysSettled
  BY <1>2 DEF StaysSettled, Settling
<1> QED BY <1>3, <1>4, <1>5 DEF TasksInv

LEMMA NoTask ==
  ASSUME TasksInv, known \subseteq known', UNCHANGED <<task, thread, method, process, cancelling>>
  PROVE  TasksInv' /\ StaysSettled
<1>1. TasksTyped'
  BY DEF TasksInv, TasksTyped
<1>2. \A t \in Tasks : TaskInv(t)'
  BY DEF TasksInv, TaskInv
<1>3. StaysSettled
  BY DEF StaysSettled
<1> QED BY <1>1, <1>2, <1>3 DEF TasksInv

LEMMA StartStep ==
  ASSUME TasksInv, NEW t \in Tasks, known \subseteq Sessions, W!StartTraining(t)
  PROVE  Touched(t) /\ Settling(t)
<1>1. PICK s \in known : task' = [task EXCEPT ![t] = [session |-> s, status |-> "pending", process |-> FALSE]]
  BY DEF W!StartTraining
<1>2. TasksTyped /\ TaskInv(t) /\ FALSE \in BOOLEAN
  BY DEF TasksInv
<1> QED BY <1>1, <1>2 DEF W!StartTraining, W!LoopFree, Touched, Settling, TasksTyped, TaskInv, Untouched, W!sessionVars,
                  Places, NoProcessAt, Statuses, W!Active, W!Settled

LEMMA MarkStep ==
  ASSUME TasksInv, NEW t \in Tasks, W!MarkRunning(t)
  PROVE  Touched(t) /\ Settling(t)
<1>2. TasksTyped /\ TaskInv(t) /\ FALSE \in BOOLEAN
  BY DEF TasksInv
<1> QED BY <1>2 DEF W!MarkRunning, W!SetStatus, W!Goto, W!LoopFree, Touched, Settling, TasksTyped, TaskInv, Untouched, W!sessionVars,
                  Places, NoProcessAt, Statuses, W!Active, W!Settled

LEMMA GotoStep ==
  ASSUME TasksInv, NEW t \in Tasks, W!PreparePositive(t) \/ W!PrepareNegative(t), known' = known
  PROVE  Touched(t) /\ Settling(t)
<1>2. TasksTyped /\ TaskInv(t) /\ UNCHANGED <<task, method, process, cancelling>> /\
     (\/ thread[t] = "positive" /\ thread' = [thread EXCEPT ![t] = "negative"]
      \/ thread[t] = "negative" /\ thread' = [thread EXCEPT ![t] = "choose"])
  BY DEF TasksInv, W!PreparePositive, W!PrepareNegative, W!Goto
<1> QED BY <1>2 DEF Touched, Settling, TasksTyped, TaskInv, Untouched, 
                  Places, NoProcessAt, Statuses, W!Active, W!Settled

LEMMA ChooseStep ==
  ASSUME TasksInv, NEW t \in Tasks, W!ChooseMethod(t)
  PROVE  Touched(t) /\ Settling(t)
<1>2. TasksTyped /\ TaskInv(t) /\ W!Method(t) \in Methods
  BY DEF TasksInv, W!Method, Methods
<1> QED BY <1>2 DEF W!ChooseMethod, W!Goto, W!LoopFree, Touched, Settling, TasksTyped, TaskInv, Untouched, W!sessionVars,
                  Places, NoProcessAt, Statuses, W!Active, W!Settled

LEMMA RunStep ==
  ASSUME TasksInv, NEW t \in Tasks, NEW kind, method[t] # "simulated",
         W!RunProcess(t, kind) \/ (thread[t] = "launch" /\ W!Fail(t) /\ UNCHANGED <<process, models>>),
         UNCHANGED <<host, W!sessionVars, method, cancelling>>
  PROVE  Touched(t) /\ Settling(t)
<1> USE DEF Touched, Settling, TasksTyped, TaskInv, Untouched, W!sessionVars,
                  Places, NoProcessAt, Statuses, W!Active, W!Settled, W!Goto, W!SetStatus, W!Fail
<1>0. TasksTyped /\ TaskInv(t) /\ TRUE \in BOOLEAN
  BY DEF TasksInv
<1>1. CASE W!Launch(t)
  BY <1>0, <1>1 DEF W!Launch
<1>2. CASE W!RecordProcess(t)
  BY <1>0, <1>2 DEF W!RecordProcess
<1>3. CASE W!SeesCancelled(t)
  BY <1>0, <1>3 DEF W!SeesCancelled, W!Terminated
<1>4. CASE W!EndOfOutput(t)
  BY <1>0, <1>4 DEF W!EndOfOutput
<1>5. CASE W!Finish(t, kind)
  <2>0. thread[t] = "finish" /\ UNCHANGED process /\ thread' = [thread EXCEPT ![t] = "done"]
    BY <1>5 DEF W!Finish
  <2>1. CASE process[t] = "ok" /\ task' = [task EXCEPT ![t].status = "completed"]
    BY <1>0, <2>0, <2>1
  <2>2. CASE task' = [task EXCEPT ![t].status = "failed"]
    BY <1>0, <2>0, <2>2
  <2> QED BY <1>5, <2>1, <2>2 DEF W!Finish
<1>6. CASE thread[t] = "launch" /\ W!Fail(t) /\ UNCHANGED <<process, models>>
  BY <1>0, <1>6
<1> QED BY <1>1, <1>2, <1>3, <1>4, <1>5, <1>6 DEF W!RunProcess

LEMMA SimulatedStep ==
  ASSUME TasksInv, NEW t \in Tasks, W!RunSimulatedTraining(t)
  PROVE  Touched(t) /\ Settling(t)
<1>0. TasksTyped /\ TaskInv(t)
  BY DEF TasksInv
<1>1. method[t] = "simulated" /\ UNCHANGED <<W!sessionVars, method, process, cancelling>>
  BY DEF W!RunSimulatedTraining
<1> USE DEF Touched, Settling, TasksTyped, TaskInv, Untouched, W!sessionVars,
                  Places, NoProcessAt, Statuses, W!Active, W!Settled
<1>2. CASE /\ thread[t] = "launch" /\ task[t].status = "cancelled"
           /\ thread' = [thread EXCEPT ![t] = "done"] /\ UNCHANGED task
  BY <1>0, <1>1, <1>2
<1>3. CASE /\ thread[t] = "launch" /\ thread' = [thread EXCEPT ![t] = "finish"] /\ UNCHANGED task
  BY <1>0, <1>1, <1>3
<1>4. CASE /\ thread[t] = "finish" /\ thread' = [thread EXCEPT ![t] = "done"]
           /\ task' = [task EXCEPT ![t].status = "completed"]
  BY <1>0, <1>1, <1>4
<1> QED BY <1>2, <1>3, <1>4 DEF W!RunSimulatedTraining, W!SetStatus, W!Goto

LEMMA EndsStep ==
  ASSUME TasksInv, NEW t \in Tasks, W!ProcessEnds(t)
  PROVE  Touched(t) /\ Settling(t)
<1>0. TasksTyped /\ TaskInv(t)
  BY DEF TasksInv
<1> QED BY <1>0 DEF W!ProcessEnds, Touched, Settling, TasksTyped, TaskInv, Untouched, W!sessionVars,
                  Places, NoProcessAt, Statuses, W!Active, W!Settled

LEMMA ChecksStep ==
  ASSUME TasksInv, NEW t \in Tasks, W!CancelChecks(t)
  PROVE  Touched(t) /\ Settling(t)
<1>0. TasksTyped /\ TaskInv(t)
  BY DEF TasksInv
<1> QED BY <1>0, TrainingAssumption DEF W!CancelChecks, W!LoopFree, W!Terminated, Touched, Settling, TasksTyped, TaskInv, Untouched, W!sessionVars,
                  Places, NoProcessAt, Statuses, W!Active, W!Settled

LEMMA CancelStep ==
  ASSUME TasksInv, NEW t \in Tasks, W!CancelWrites(t)
  PROVE  Touched(t) /\ Settling(t)
<1>0. TasksTyped /\ TaskInv(t)
  BY DEF TasksInv
<1> QED BY <1>0, TrainingAssumption DEF W!CancelWrites, W!SetStatus, Touched, Settling, TasksTyped, TaskInv, Untouched, W!sessionVars,
                  Places, NoProcessAt, Statuses, W!Active, W!Settled

-----------------------------------------------------------------------------
(* The samples of a session and of the library.                             *)
\* The user's files are numbered from 0.
Numbered(files) ==
  \A f \in DOMAIN files : files[f] = "user" =>
    f[1] # "library" /\ \A j \in 0..f[2] : <<f[1], j>> \in DOMAIN files

SamplesTyped ==
  /\ host \in Hosts
  /\ session \in [Sessions -> Keywords \cup {None}]
  /\ known \subseteq {s \in Sessions : session[s] # None}
  /\ DOMAIN positive = Sessions /\ negative \in [Sessions -> SUBSET W!Names]
  /\ \A s \in Sessions : DOMAIN positive[s] \subseteq W!Names
  /\ sampleCount \in [Sessions -> Nat]
  /\ library \in [Keywords \cup {None} -> SUBSET Nat]
  /\ models \subseteq Keywords \X {"model", "head"}

Finite ==
  /\ \A s \in Sessions : IsFiniteSet(DOMAIN positive[s]) /\ IsFiniteSet(negative[s])
  /\ \A k \in Keywords \cup {None} : IsFiniteSet(library[k])

SamplesInv ==
  /\ SamplesTyped /\ Finite
  /\ \A s \in Sessions : Numbered(positive[s])
  /\ \A s \in Sessions : session[s] = None => DOMAIN positive[s] = {} /\ sampleCount[s] = 0

UserFilesStay ==
  \A s \in Sessions : \A f \in DOMAIN positive[s] :
    positive[s][f] = "user" => f \in DOMAIN positive'[s] /\ positive'[s][f] = "user"

\* Files numbered from one number to another.
Run(a, d, b, c) == {<<a, d + i>> : i \in b..c}

LEMMA RunFinite ==
  ASSUME NEW a, NEW b \in Int, NEW c \in Int, NEW d \in Int
  PROVE  IsFiniteSet(Run(a, d, b, c))
<1> DEFINE T == {<<a, d + i>> : i \in b..c}
           f == [i \in b..c |-> <<a, d + i>>]
<1>1. f \in Surjection(b..c, T)
  BY DEF Surjection
<1>2. IsFiniteSet(b..c)
  BY FS_Interval
<1> HIDE DEF f, T
<1>3. IsFiniteSet(T)
  BY <1>1, <1>2, FS_Surjection
<1> QED BY <1>3 DEF Run, T

\* Files numbered from 0 to n are more than n.
LEMMA RunCounts ==
  ASSUME NEW S, IsFiniteSet(S), NEW a, NEW n \in Nat, \A j \in 0..n : <<a, j>> \in S
  PROVE  Cardinality(S) > n
<1> DEFINE f == [j \in 0..n |-> <<a, j>>]
<1>1. f \in [0..n -> S] /\ \A i, j \in 0..n : i # j => f[i] # f[j]
  OBVIOUS
<1>2. IsFiniteSet(0..n) /\ Cardinality(0..n) = n + 1
  BY FS_Interval
<1>3. Cardinality(S) \in Nat
  BY FS_CardinalityType
<1>4. ~(Cardinality(S) < Cardinality(0..n))
  BY <1>1, <1>2, FS_PigeonHole
<1> QED BY <1>2, <1>3, <1>4

LEMMA SameCardinality == \A E : W!Cardinality(E) = Cardinality(E)
BY DEF W!Cardinality, Cardinality

LEMMA PreparedFacts ==
  ASSUME NEW names, IsFiniteSet(names), NEW stored, IsFiniteSet(stored), NEW target \in Nat,
         NEW failed
  PROVE  LET p == W!Prepared(names, stored, target, failed) IN
         /\ p.files \subseteq W!Names /\ IsFiniteSet(p.files)
         /\ p.made \subseteq Nat /\ IsFiniteSet(p.made)
         /\ \A f \in p.files : f[1] = "library" \/ (f[1] = "tts" /\ f[2] >= Cardinality(names))
<1> DEFINE have == Cardinality(names)
           needed == target - have
           copied == IF Cardinality(stored) < needed THEN Cardinality(stored) ELSE needed
           made == (0 .. needed - copied - 1) \ failed
           A == {<<"library", i>> : i \in 0 .. copied - 1}
           B == {<<"tts", have + copied + i>> : i \in made}
           p == W!Prepared(names, stored, target, failed)
<1>1. have \in Nat /\ Cardinality(stored) \in Nat
  BY FS_CardinalityType
<1>2. CASE needed <= 0
  <2>1. p.files = {} /\ p.made = {}
    BY <1>2, SameCardinality DEF W!Prepared
  <2> QED BY <2>1, FS_EmptySet
<1>3. CASE ~(needed <= 0)
  <2>1. p.files = A \cup B /\ p.made = made
    BY <1>3, SameCardinality DEF W!Prepared
  <2>2. needed \in Int /\ copied \in Nat
    BY <1>1, <1>3
  <2> HIDE DEF p
  <2> HIDE DEF have, needed, copied
  <2>3. made \subseteq Nat /\ IsFiniteSet(made)
    <3>1. needed - copied - 1 \in Int /\ IsFiniteSet(0 .. needed - copied - 1)
      BY <2>2, FS_Interval
    <3> QED BY <3>1, FS_Subset
  <2>4. IsFiniteSet(A)
    <3>1. A = Run("library", 0, 0, copied - 1) /\ copied - 1 \in Int /\ 0 \in Int
      BY <2>2 DEF Run
    <3> QED BY <3>1, RunFinite
  <2>5. IsFiniteSet(B)
    <3>1. needed - copied - 1 \in Int /\ have + copied \in Int
      BY <1>1, <2>2
    <3>2. IsFiniteSet(Run("tts", have + copied, 0, needed - copied - 1))
      BY <3>1, RunFinite
    <3>3. B \subseteq Run("tts", have + copied, 0, needed - copied - 1)
      BY DEF Run
    <3> QED BY <3>2, <3>3, FS_Subset
  <2>6. A \subseteq W!Names /\ B \subseteq W!Names
    BY <1>1, <2>2, <2>3 DEF W!Names
  <2>7. \A f \in A \cup B : f[1] = "library" \/ (f[1] = "tts" /\ f[2] >= have)
    BY <1>1, <2>2, <2>3
  <2> HIDE DEF A, B, made
  <2>8. IsFiniteSet(A \cup B)
    BY <2>4, <2>5, FS_Union
  <2> QED BY <2>1, <2>3, <2>6, <2>7, <2>8 DEF p, have
<1> QED BY <1>2, <1>3

LEMMA AddFacts ==
  ASSUME SamplesInv, NEW s \in Sessions, NEW k \in Keywords, NEW source \in {"mic", "tts"},
         NEW n \in 0..MaxUpload, W!CreateSession(s, k), W!AddSamples(s, source, n)
  PROVE  /\ DOMAIN positive' = Sessions /\ sampleCount' \in [Sessions -> Nat]
         /\ \A r \in Sessions \ {s} : positive'[r] = positive[r] /\ sampleCount'[r] = sampleCount[r]
         /\ DOMAIN positive'[s] \subseteq W!Names /\ IsFiniteSet(DOMAIN positive'[s])
         /\ Numbered(positive'[s]) /\ UserFilesStay
<1>1. DOMAIN positive[s] = {} /\ sampleCount[s] = 0 /\ n \in Nat /\ DOMAIN positive = Sessions
      /\ sampleCount \in [Sessions -> Nat]
  BY TrainingAssumption DEF W!CreateSession, SamplesInv, SamplesTyped
<1> DEFINE new == [f \in {source} \X (0 .. n - 1) |-> "user"]
<1>2. 0 + n - 1 = n - 1
  BY <1>1
<1>3. positive' = [positive EXCEPT ![s] = W!Over(new, positive[s])]
  BY <1>1, <1>2 DEF W!AddSamples
<1>4. W!Over(new, positive[s]) = new
  BY <1>1 DEF W!Over
<1>5. positive'[s] = new /\ DOMAIN positive' = Sessions /\ \A r \in Sessions \ {s} : positive'[r] = positive[r]
  BY <1>1, <1>3, <1>4
<1>6. sampleCount' \in [Sessions -> Nat] /\ \A r \in Sessions \ {s} : sampleCount'[r] = sampleCount[r]
  BY <1>1 DEF W!AddSamples
<1>7. DOMAIN new \subseteq W!Names
  BY <1>1 DEF W!Names
<1>8. IsFiniteSet(DOMAIN new)
  <2>1. DOMAIN new = Run(source, 0, 0, n - 1)
    BY <1>1 DEF Run
  <2>2. n - 1 \in Int /\ 0 \in Int
    BY <1>1
  <2>3. IsFiniteSet(Run(source, 0, 0, n - 1))
    BY <2>2, RunFinite
  <2> QED BY <2>1, <2>3
<1>9. Numbered(new)
  BY <1>1 DEF Numbered
<1>10. UserFilesStay
  BY <1>1, <1>5 DEF UserFilesStay
<1> HIDE DEF new
<1> QED BY <1>5, <1>6, <1>7, <1>8, <1>9, <1>10

LEMMA CreateKeeps ==
  ASSUME SamplesInv, NEW s \in Sessions, NEW k \in Keywords, W!CreateSession(s, k),
         known' \in {known, known \cup {s}}
  PROVE  /\ session' \in [Sessions -> Keywords \cup {None}] /\ session'[s] # None
         /\ \A r \in Sessions \ {s} : session'[r] = session[r]
         /\ known' \subseteq {r \in Sessions : session'[r] # None}
BY TrainingAssumption DEF SamplesInv, SamplesTyped, W!CreateSession

LEMMA UploadStep ==
  ASSUME SamplesInv, W!UploadSamples \/ W!TtsGenerate
  PROVE  SamplesInv' /\ UserFilesStay
<1>0. UNCHANGED <<host, negative, library, models>>
  BY DEF W!UploadSamples, W!TtsGenerate
<1>1. ASSUME NEW s \in Sessions, NEW k \in Keywords, NEW source \in {"mic", "tts"}, NEW n \in 0..MaxUpload,
             W!CreateSession(s, k), W!AddSamples(s, source, n), known' = known \cup {s}
      PROVE  SamplesInv' /\ UserFilesStay
  <2>1. /\ DOMAIN positive' = Sessions /\ sampleCount' \in [Sessions -> Nat]
        /\ \A r \in Sessions \ {s} : positive'[r] = positive[r] /\ sampleCount'[r] = sampleCount[r]
        /\ DOMAIN positive'[s] \subseteq W!Names /\ IsFiniteSet(DOMAIN positive'[s])
        /\ Numbered(positive'[s]) /\ UserFilesStay
    BY <1>1, AddFacts
  <2>2. /\ session' \in [Sessions -> Keywords \cup {None}] /\ session'[s] # None
        /\ \A r \in Sessions \ {s} : session'[r] = session[r]
        /\ known' \subseteq {r \in Sessions : session'[r] # None}
    BY <1>1, CreateKeeps
  <2>3. SamplesTyped'
    BY <1>0, <2>1, <2>2 DEF SamplesInv, SamplesTyped
  <2>4. Finite'
    BY <1>0, <2>1 DEF SamplesInv, Finite
  <2>5. \A r \in Sessions : Numbered(positive'[r])
    BY <2>1 DEF SamplesInv
  <2>6. \A r \in Sessions : session'[r] = None => DOMAIN positive'[r] = {} /\ sampleCount'[r] = 0
    BY <2>1, <2>2 DEF SamplesInv
  <2> QED BY <2>1, <2>3, <2>4, <2>5, <2>6 DEF SamplesInv
<1>2. ASSUME NEW s \in Sessions, NEW k \in Keywords, W!CreateSession(s, k),
             UNCHANGED <<positive, sampleCount, known>>
      PROVE  SamplesInv' /\ UserFilesStay
  <2>1. /\ session' \in [Sessions -> Keywords \cup {None}] /\ session'[s] # None
        /\ \A r \in Sessions \ {s} : session'[r] = session[r]
        /\ known' \subseteq {r \in Sessions : session'[r] # None}
    BY <1>2, CreateKeeps
  <2>2. SamplesTyped'
    BY <1>0, <1>2, <2>1 DEF SamplesInv, SamplesTyped
  <2>3. Finite' /\ UserFilesStay
    BY <1>0, <1>2 DEF SamplesInv, Finite, UserFilesStay
  <2>4. \A r \in Sessions : Numbered(positive'[r])
    BY <1>2 DEF SamplesInv
  <2>5. \A r \in Sessions : session'[r] = None => DOMAIN positive'[r] = {} /\ sampleCount'[r] = 0
    BY <1>2, <2>1 DEF SamplesInv
  <2> QED BY <2>2, <2>3, <2>4, <2>5 DEF SamplesInv
<1> QED BY <1>1, <1>2 DEF W!UploadSamples, W!TtsGenerate

LEMMA SamplesSame ==
  ASSUME SamplesInv, UNCHANGED <<host, W!sessionVars>>, models' \subseteq Keywords \X {"model", "head"}
  PROVE  SamplesInv' /\ UserFilesStay
<1>1. UNCHANGED <<session, known, positive, negative, sampleCount, library, host>>
  BY DEF W!sessionVars
<1>2. SamplesTyped' /\ Finite' /\ UserFilesStay
  BY <1>1 DEF SamplesInv, SamplesTyped, Finite, UserFilesStay
<1> QED BY <1>1, <1>2 DEF SamplesInv

LEMMA PositiveStep ==
  ASSUME SamplesInv, TasksInv, NEW t \in Tasks, W!PreparePositive(t)
  PROVE  SamplesInv' /\ UserFilesStay
<1> DEFINE s == task[t].session
           k == session[s]
<1>1. s \in known /\ s \in Sessions /\ k \in Keywords /\ k # None
  <2>1. task[t].session \in known
    BY DEF TasksInv, TaskInv, W!PreparePositive
  <2> QED BY <2>1 DEF SamplesInv, SamplesTyped
<1>2. PICK failed \in SUBSET (0 .. PositiveTarget - 1) :
        LET p == W!Prepared(DOMAIN positive[s], library[k], PositiveTarget, failed)
        IN  /\ positive' = [positive EXCEPT ![s] = W!Over([f \in p.files |-> "made"], @)]
            /\ library' = [library EXCEPT ![k] = @ \cup p.made]
            /\ sampleCount' = [sampleCount EXCEPT ![s] = @ + Cardinality(p.made)]
  BY SameCardinality DEF W!PreparePositive
<1> DEFINE p == W!Prepared(DOMAIN positive[s], library[k], PositiveTarget, failed)
<1>3. IsFiniteSet(DOMAIN positive[s]) /\ IsFiniteSet(library[k])
  BY <1>1 DEF SamplesInv, Finite
<1>4. /\ p.files \subseteq W!Names /\ IsFiniteSet(p.files)
      /\ p.made \subseteq Nat /\ IsFiniteSet(p.made)
      /\ \A f \in p.files : f[1] = "library" \/ (f[1] = "tts" /\ f[2] >= Cardinality(DOMAIN positive[s]))
  BY <1>3, TrainingAssumption, PreparedFacts
<1> HIDE DEF p, s, k
<1> DEFINE new == [f \in p.files |-> "made"]
<1>5. /\ positive' = [positive EXCEPT ![s] = W!Over(new, positive[s])]
      /\ library' = [library EXCEPT ![k] = @ \cup p.made]
      /\ sampleCount' = [sampleCount EXCEPT ![s] = @ + Cardinality(p.made)]
  BY <1>2, SameCardinality DEF p, s, k
<1>6. UNCHANGED <<host, session, known, negative, models>>
  BY DEF W!PreparePositive
<1>7. Cardinality(p.made) \in Nat
  BY <1>4, FS_CardinalityType
<1>8. SamplesTyped /\ Finite /\ \A r \in Sessions : Numbered(positive[r])
  BY DEF SamplesInv
<1>9. /\ DOMAIN positive' = Sessions /\ \A r \in Sessions \ {s} : positive'[r] = positive[r]
      /\ positive'[s] = W!Over(new, positive[s])
  BY <1>1, <1>5, <1>8 DEF SamplesTyped
<1>10. /\ DOMAIN positive'[s] = p.files \cup DOMAIN positive[s]
       /\ \A f \in p.files : positive'[s][f] = "made"
       /\ \A f \in DOMAIN positive[s] \ p.files : positive'[s][f] = positive[s][f]
  BY <1>9 DEF W!Over
<1>11. ASSUME NEW f \in DOMAIN positive[s], positive[s][f] = "user", f \in p.files
       PROVE  FALSE
  <2>1. f \in W!Names /\ f[1] # "library" /\ \A j \in 0..f[2] : <<f[1], j>> \in DOMAIN positive[s]
    BY <1>1, <1>8, <1>11 DEF SamplesTyped, Numbered
  <2>2. f[2] \in Nat
    BY <2>1 DEF W!Names
  <2>3. Cardinality(DOMAIN positive[s]) > f[2] /\ Cardinality(DOMAIN positive[s]) \in Nat
    <3>1. IsFiniteSet(DOMAIN positive[s])
      BY <1>1, <1>8 DEF Finite
    <3> QED BY <2>1, <2>2, <3>1, RunCounts, FS_CardinalityType
  <2> QED BY <1>4, <1>11, <2>1, <2>2, <2>3
<1>12. UserFilesStay
  BY <1>9, <1>10, <1>11 DEF UserFilesStay
<1>13. Numbered(positive'[s])
  <2>1. Numbered(positive[s])
    BY <1>1, <1>8
  <2> QED BY <1>10, <2>1 DEF Numbered
<1>14. IsFiniteSet(DOMAIN positive'[s])
  <2>1. IsFiniteSet(DOMAIN positive[s]) /\ IsFiniteSet(p.files)
    BY <1>1, <1>4, <1>8 DEF Finite
  <2>2. IsFiniteSet(p.files \cup DOMAIN positive[s])
    BY <2>1, FS_Union
  <2> QED BY <1>10, <2>2
<1>15. /\ library' \in [Keywords \cup {None} -> SUBSET Nat]
       /\ \A q \in Keywords \cup {None} : IsFiniteSet(library'[q])
  <2>1. IsFiniteSet(library[k] \cup p.made)
    BY <1>1, <1>4, <1>8, FS_Union DEF Finite
  <2>2. library'[k] = library[k] \cup p.made /\ \A q \in (Keywords \cup {None}) \ {k} : library'[q] = library[q]
    BY <1>1, <1>5, <1>8 DEF SamplesTyped
  <2> QED BY <1>1, <1>4, <1>5, <1>8, <2>1, <2>2 DEF SamplesTyped, Finite
<1>16. sampleCount' \in [Sessions -> Nat] /\ \A r \in Sessions \ {s} : sampleCount'[r] = sampleCount[r]
  BY <1>1, <1>5, <1>7, <1>8 DEF SamplesTyped
<1>17. SamplesTyped'
  <2>1. DOMAIN positive'[s] \subseteq W!Names
    BY <1>1, <1>4, <1>8, <1>10 DEF SamplesTyped
  <2> QED BY <1>6, <1>8, <1>9, <1>15, <1>16, <2>1 DEF SamplesTyped
<1>18. Finite'
  BY <1>6, <1>8, <1>9, <1>14, <1>15 DEF Finite
<1>19. \A r \in Sessions : Numbered(positive'[r])
  BY <1>8, <1>9, <1>13
<1>20. \A r \in Sessions : session'[r] = None => DOMAIN positive'[r] = {} /\ sampleCount'[r] = 0
  <2>1. session[s] # None
    BY <1>1 DEF k
  <2> QED BY <1>6, <1>9, <1>16, <2>1 DEF SamplesInv
<1> QED BY <1>12, <1>17, <1>18, <1>19, <1>20 DEF SamplesInv

LEMMA NegativeStep ==
  ASSUME SamplesInv, TasksInv, NEW t \in Tasks, W!PrepareNegative(t)
  PROVE  SamplesInv' /\ UserFilesStay
<1> DEFINE s == task[t].session
<1>1. s \in Sessions
  <2>1. task[t].session \in known
    BY DEF TasksInv, TaskInv, W!PrepareNegative
  <2> QED BY <2>1 DEF SamplesInv, SamplesTyped
<1>2. PICK failed \in SUBSET (0 .. NegativeTarget - 1) :
        LET p == W!Prepared(negative[s], library[None], NegativeTarget, failed)
        IN  /\ negative' = [negative EXCEPT ![s] = @ \cup p.files]
            /\ library' = [library EXCEPT ![None] = @ \cup p.made]
  BY DEF W!PrepareNegative
<1> DEFINE p == W!Prepared(negative[s], library[None], NegativeTarget, failed)
<1>3. IsFiniteSet(negative[s]) /\ IsFiniteSet(library[None])
  BY <1>1 DEF SamplesInv, Finite
<1>4. /\ p.files \subseteq W!Names /\ IsFiniteSet(p.files)
      /\ p.made \subseteq Nat /\ IsFiniteSet(p.made)
  BY <1>3, TrainingAssumption, PreparedFacts
<1>5. /\ negative' = [negative EXCEPT ![s] = @ \cup p.files]
      /\ library' = [library EXCEPT ![None] = @ \cup p.made]
  BY <1>2
<1> HIDE DEF p, s
<1>6. UNCHANGED <<host, session, known, positive, sampleCount, models>>
  BY DEF W!PrepareNegative
<1>8. SamplesTyped /\ Finite
  BY DEF SamplesInv
<1>9. IsFiniteSet(library[None] \cup p.made) /\ IsFiniteSet(negative[s] \cup p.files)
  BY <1>3, <1>4, FS_Union
<1>10. SamplesTyped'
  BY <1>1, <1>4, <1>5, <1>6, <1>8 DEF SamplesTyped
<1>11. Finite'
  BY <1>1, <1>5, <1>6, <1>8, <1>9 DEF Finite, SamplesTyped
<1>12. UserFilesStay
  BY <1>6 DEF UserFilesStay
<1> QED BY <1>6, <1>10, <1>11, <1>12 DEF SamplesInv

-----------------------------------------------------------------------------
TrainingInv == TasksInv /\ SamplesInv

LEMMA TrainingStart ==
  ASSUME W!Init
  PROVE  TrainingInv
<1>1. TasksInv
  <2>1. FALSE \in BOOLEAN
    OBVIOUS
  <2> QED BY <2>1, TrainingAssumption DEF W!Init, TasksInv, TasksTyped, TaskInv, Places, NoProcessAt, Methods,
             Statuses, W!Active, W!Settled
<1>2. SamplesTyped
  BY DEF W!Init, SamplesTyped
<1>3. Finite
  BY FS_EmptySet DEF W!Init, Finite
<1>4. \A s \in Sessions : Numbered(positive[s])
  BY DEF W!Init, Numbered
<1> QED BY <1>1, <1>2, <1>3, <1>4 DEF TrainingInv, SamplesInv, W!Init

LEMMA TrainingGivesSafe ==
  ASSUME TrainingInv
  PROVE  W!TypeOK /\ W!EndedIsSettled /\ W!CompletedSucceeded
<1>1. W!TypeOK
  BY DEF TrainingInv, TasksInv, TasksTyped, SamplesInv, SamplesTyped, W!TypeOK, Places, Methods, Statuses
<1>2. W!EndedIsSettled /\ W!CompletedSucceeded
  BY DEF TrainingInv, TasksInv, TaskInv, W!EndedIsSettled, W!CompletedSucceeded
<1> QED BY <1>1, <1>2

LEMMA TrainingStep ==
  ASSUME TrainingInv, W!Next
  PROVE  TrainingInv' /\ StaysSettled /\ UserFilesStay
<1>0. TasksInv /\ SamplesInv /\ known \subseteq Sessions
  BY DEF TrainingInv, SamplesInv, SamplesTyped
<1>1. CASE W!UploadSamples \/ W!TtsGenerate
  <2>1. SamplesInv' /\ UserFilesStay
    BY <1>0, <1>1, UploadStep
  <2>2. known \subseteq known' /\ UNCHANGED <<task, thread, method, process, cancelling>>
    BY <1>1 DEF W!UploadSamples, W!TtsGenerate
  <2> QED BY <1>0, <2>1, <2>2, NoTask DEF TrainingInv
<1>2. CASE W!DeleteModel
  <2>1. models' \subseteq Keywords \X {"model", "head"} /\ UNCHANGED <<host, W!sessionVars>>
    BY <1>0, <1>2 DEF W!DeleteModel, SamplesInv, SamplesTyped
  <2>2. UNCHANGED <<known, task, thread, method, process, cancelling>>
    BY <1>2 DEF W!DeleteModel, W!sessionVars
  <2> QED BY <1>0, <2>1, <2>2, NoTask, SamplesSame DEF TrainingInv
<1>3. ASSUME NEW t \in Tasks, W!PreparePositive(t) \/ W!PrepareNegative(t)
      PROVE  TrainingInv' /\ StaysSettled /\ UserFilesStay
  <2>1. known' = known
    BY <1>3 DEF W!PreparePositive, W!PrepareNegative
  <2>2. TasksInv' /\ StaysSettled
    BY <1>0, <1>3, <2>1, GotoStep, OneTask
  <2>3. SamplesInv' /\ UserFilesStay
    BY <1>0, <1>3, PositiveStep, NegativeStep
  <2> QED BY <2>2, <2>3 DEF TrainingInv
<1>4. ASSUME NEW t \in Tasks, Touched(t), Settling(t), UNCHANGED <<host, W!sessionVars>>,
             models' \subseteq Keywords \X {"model", "head"}
      PROVE  TrainingInv' /\ StaysSettled /\ UserFilesStay
  <2>1. known' = known
    BY <1>4 DEF W!sessionVars
  <2> QED BY <1>0, <1>4, <2>1, OneTask, SamplesSame DEF TrainingInv
<1>5. models \subseteq Keywords \X {"model", "head"}
  BY <1>0 DEF SamplesInv, SamplesTyped
<1>6. ASSUME NEW t \in Tasks, W!StartTraining(t)
      PROVE  TrainingInv' /\ StaysSettled /\ UserFilesStay
  BY <1>0, <1>4, <1>5, <1>6, StartStep DEF W!StartTraining
<1>7. ASSUME NEW t \in Tasks, W!MarkRunning(t) \/ W!ChooseMethod(t)
      PROVE  TrainingInv' /\ StaysSettled /\ UserFilesStay
  BY <1>0, <1>4, <1>5, <1>7, MarkStep, ChooseStep DEF W!MarkRunning, W!ChooseMethod
<1>8. ASSUME NEW t \in Tasks,
             W!RunDockerTraining(t) \/ W!RunLocalTraining(t) \/ W!RunWhisperTraining(t) \/ W!RunSimulatedTraining(t)
      PROVE  TrainingInv' /\ StaysSettled /\ UserFilesStay
  <2>1. UNCHANGED <<host, W!sessionVars>> /\ models' = models
    BY <1>8 DEF W!RunDockerTraining, W!RunLocalTraining, W!RunWhisperTraining, W!RunSimulatedTraining, W!RunProcess,
                W!Launch, W!RecordProcess, W!SeesCancelled, W!EndOfOutput, W!Finish, W!Fail
  <2>2. Touched(t) /\ Settling(t)
    <3>1. CASE W!RunDockerTraining(t)
      BY <1>0, <3>1, RunStep DEF W!RunDockerTraining
    <3>2. CASE W!RunLocalTraining(t)
      BY <1>0, <3>2, RunStep DEF W!RunLocalTraining
    <3>3. CASE W!RunWhisperTraining(t)
      BY <1>0, <3>3, RunStep DEF W!RunWhisperTraining
    <3>4. CASE W!RunSimulatedTraining(t)
      BY <1>0, <3>4, SimulatedStep
    <3> QED BY <1>8, <3>1, <3>2, <3>3, <3>4
  <2> QED BY <1>4, <1>5, <2>1, <2>2
<1>9. ASSUME NEW t \in Tasks, W!ProcessEnds(t)
      PROVE  TrainingInv' /\ StaysSettled /\ UserFilesStay
  <2>1. process[t] \in {"alive", "stopping"}
    BY <1>9 DEF W!ProcessEnds
  <2>2. task[t].session \in known /\ session[task[t].session] \in Keywords
    BY <1>0, <2>1 DEF TasksInv, TaskInv, SamplesInv, SamplesTyped, NoProcessAt
  <2>3. models' \subseteq Keywords \X {"model", "head"} /\ UNCHANGED <<host, W!sessionVars>>
    BY <1>5, <1>9, <2>2 DEF W!ProcessEnds
  <2> QED BY <1>0, <1>4, <1>9, <2>3, EndsStep
<1>10. ASSUME NEW t \in Tasks, W!CancelChecks(t) \/ W!CancelWrites(t)
       PROVE  TrainingInv' /\ StaysSettled /\ UserFilesStay
  BY <1>0, <1>4, <1>5, <1>10, ChecksStep, CancelStep DEF W!CancelChecks, W!CancelWrites
<1> QED BY <1>1, <1>2, <1>3, <1>6, <1>7, <1>8, <1>9, <1>10 DEF W!Next, W!TrainingThread

LEMMA TrainingStutter ==
  ASSUME TrainingInv, UNCHANGED W!vars
  PROVE  TrainingInv'
<1>1. UNCHANGED <<task, thread, method, process, cancelling, known, models, host, W!sessionVars>>
  BY DEF W!vars, W!sessionVars
<1>2. models' \subseteq Keywords \X {"model", "head"}
  BY <1>1 DEF TrainingInv, SamplesInv, SamplesTyped
<1> QED BY <1>1, <1>2, NoTask, SamplesSame DEF TrainingInv

-----------------------------------------------------------------------------
LEMMA ServicesTrainingInv == ServicesSpec => []TrainingInv
<1>1. ServicesInit => TrainingInv
  BY TrainingStart DEF ServicesInit
<1>2. TrainingInv /\ [ServicesNext]_<<running, vars, trainingVars>> => TrainingInv'
  <2> SUFFICES ASSUME TrainingInv, [ServicesNext]_<<running, vars, trainingVars>>
               PROVE  TrainingInv'
    OBVIOUS
  <2>1. W!Next \/ UNCHANGED W!vars
    BY DEF ServicesNext, Mirrors, Trains, trainingVars, W!vars, W!sessionVars
  <2> QED BY <2>1, TrainingStep, TrainingStutter
<1> QED BY <1>1, <1>2, PTL DEF ServicesSpec

(* For any sessions, keywords, tasks, sizes and hosts: a thread that has ended *)
(* leaves its task settled and no process unattended, and what is reported     *)
(* completed, its own process completed (training_service.py:261,              *)
(* _run_training).                                                             *)
THEOREM TasksAreSafe == ServicesSpec => []TasksSafe
<1>1. TrainingInv => TasksSafe
  BY TrainingGivesSafe DEF TasksSafe
<1> QED BY <1>1, ServicesTrainingInv, PTL

(* In the same setting: a settled task keeps its status unless a cancel        *)
(* request had read it as running (training_service.py:1030), and no sample of *)
(* the user is overwritten by a copied or generated one                        *)
(* (training_service.py:710, _prepare_positive_samples).                       *)
THEOREM TasksAreKept == ServicesSpec => TasksKeep
<1>1. TrainingInv /\ [ServicesNext]_<<running, vars, trainingVars>>
        => [StaysSettled /\ UserFilesStay]_W!vars
  <2> SUFFICES ASSUME TrainingInv, [ServicesNext]_<<running, vars, trainingVars>>
               PROVE  [StaysSettled /\ UserFilesStay]_W!vars
    OBVIOUS
  <2>1. W!Next \/ UNCHANGED W!vars
    BY DEF ServicesNext, Mirrors, Trains, trainingVars, W!vars, W!sessionVars
  <2> QED BY <2>1, TrainingStep
<1>2. [StaysSettled /\ UserFilesStay]_W!vars
        => [\A t \in Tasks : task[t].status \in {"completed", "failed"} /\ cancelling # t
              => task'[t].status = task[t].status /\ cancelling' # t]_W!vars
  BY DEF StaysSettled
<1>3. [StaysSettled /\ UserFilesStay]_W!vars
        => [\A s \in Sessions : \A f \in DOMAIN positive[s] :
              positive[s][f] = "user" => f \in DOMAIN positive'[s] /\ positive'[s][f] = "user"]_W!vars
  BY DEF UserFilesStay
<1>4. ServicesSpec => W!SettledStays
  BY <1>1, <1>2, ServicesTrainingInv, PTL DEF ServicesSpec, W!SettledStays
<1>5. ServicesSpec => W!UploadsKept
  BY <1>1, <1>3, ServicesTrainingInv, PTL DEF ServicesSpec, W!UploadsKept
<1> QED BY <1>4, <1>5 DEF TasksKeep
=============================================================================
