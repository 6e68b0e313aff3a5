----------------------------- MODULE SetupProofs -----------------------------
(* Theorems about the four parts of MCRecords: for any number of requests,   *)
(* crashes, wizards and edits, and any addresses and keys, the running       *)
(* server and the files agree as ConfigKept says; and for any accounts,      *)
(* texts, rows and sizes the registry, the filter of the history and the     *)
(* view of a browser keep what RegistryKept, FilterKeeps and ViewKeeps say.  *)
EXTENDS MCRecords, TLAPS, SequenceTheorems, FiniteSetTheorems, WellFoundedInduction

(* Where the running server's address comes from: while a request is handled, *)
(* its own row does not count yet.                                            *)
UrlOf(S) == IF S = {} THEN Or(env.url, DefaultUrl) ELSE rows[Max(S)].url
Counted  == IF busy = Free THEN Addressed(rows) ELSE Addressed(rows) \ {Len(rows)}

(* The request under way is the newest row's; once that is active it is alone. *)
RequestSaved ==
  busy # Free =>
    /\ rows # <<>>
    /\ rows[Len(rows)].type = busy.type /\ rows[Len(rows)].url = busy.url
    /\ busy.at = "active" =>
         "file" \in apart /\ \A n \in DOMAIN rows : rows[n].active => rows[n].type = busy.type

(* Until another hand writes the file, the environment is the file, and the   *)
(* provider and the address are what it and the rows say.                     *)
EnvFollows == up /\ ~edited => environ = env /\ stt = SttOf(env)
UrlFollows == up /\ ~edited => url = UrlOf(Counted)

(* The file names the active row's adapter, unless another hand or a setup    *)
(* that did not finish wrote last; the router has what the file names, unless *)
(* the settings panel chose otherwise.                                        *)
FileNames ==
  "file" \notin apart =>
    \A n \in DOMAIN rows : rows[n].active => rows[n].type = Or(env.active, Claude)
RouterFollows == up /\ apart = {} => fallback = Or(env.active, Claude)

SetupInv ==
  /\ TypeOK /\ RequestSaved /\ EnvFollows /\ UrlFollows /\ ModeKept
  /\ FileNames /\ RouterFollows /\ KeyKept

-----------------------------------------------------------------------------
LEMMA MaxFacts ==
    ASSUME NEW n \in Nat, NEW S \in SUBSET (1 .. n), S # {}
    PROVE  Max(S) \in S /\ \A j \in S : j <= Max(S)
  <1> DEFINE bounds == {k \in Nat : \A j \in S : j <= k}
  <1>1. bounds \in SUBSET Nat /\ n \in bounds
    OBVIOUS
  <1>2. PICK k \in bounds : \A j \in bounds : ~ (<<j, k>> \in OpToRel(<, Nat))
    BY <1>1, NatLessThanWellFounded, WFMin
  <1>3. k \in Nat /\ \A j \in S : j <= k
    BY <1>2
  <1>4. k \in S
    <2>1. SUFFICES ASSUME k \notin S PROVE FALSE
      OBVIOUS
    <2>2. PICK j \in S : TRUE
      OBVIOUS
    <2>3. \A i \in S : i < k
      BY <1>3, <2>1
    <2>4. k - 1 \in Nat /\ \A i \in S : i <= k - 1
      BY <1>3, <2>2, <2>3
    <2>5. k - 1 \in bounds
      BY <2>4
    <2>6. <<k - 1, k>> \in OpToRel(<, Nat)
      BY <1>3, <2>4 DEF OpToRel
    <2>7. QED BY <1>2, <2>5, <2>6
  <1>5. QED BY <1>3, <1>4 DEF Max

(* The newest of the rows is the greatest of a set that holds it. *)
LEMMA MaxIsLast ==
    ASSUME NEW n \in Nat, NEW S \in SUBSET (1 .. n), n \in S
    PROVE  Max(S) = n
  <1>1. Max(S) \in S /\ \A j \in S : j <= Max(S)
    BY MaxFacts
  <1>0. \A j \in S : j \in Nat /\ j <= n
    OBVIOUS
  <1>2. Max(S) \in Nat /\ Max(S) <= n
    BY <1>1, <1>0, Zenon
  <1>3. n <= Max(S)
    BY <1>1
  <1>4. QED BY <1>2, <1>3

LEMMA TypeFacts ==
    ASSUME TypeOK
    PROVE  /\ rows \in Seq(Row) /\ Len(rows) \in Nat /\ DOMAIN rows = 1 .. Len(rows)
           /\ \A n \in DOMAIN rows :
                /\ rows[n].type \in Adapters /\ rows[n].url \in Urls \cup {None}
                /\ rows[n].active \in BOOLEAN
           /\ Addressed(rows) \in SUBSET DOMAIN rows
           /\ env \in Env /\ environ \in Env /\ cli \in Env \cup {None}
           /\ busy \in Request \cup {Free}
           /\ (busy = Free <=> busy.at = "none")
           /\ None \notin Adapters
  <1>1. rows \in Seq(Row) /\ Len(rows) \in Nat /\ DOMAIN rows = 1 .. Len(rows)
    BY DEF TypeOK
  <1>2. \A n \in DOMAIN rows : rows[n] \in Row
    BY <1>1
  <1>3. \A n \in DOMAIN rows :
          /\ rows[n].type \in Adapters /\ rows[n].url \in Urls \cup {None}
          /\ rows[n].active \in BOOLEAN
    BY <1>2 DEF Row
  <1>4. env \in Env /\ environ \in Env /\ cli \in Env \cup {None}
    BY DEF TypeOK
  <1>5. busy \in Request \cup {Free}
    BY DEF TypeOK
  <1>6. busy = Free <=> busy.at = "none"
    BY <1>5 DEF Request, Free
  <1>7. None \notin Adapters
    BY SetupAssumption DEF Adapters
  <1>8. Addressed(rows) \in SUBSET DOMAIN rows
    BY DEF Addressed
  <1>9. QED BY <1>1, <1>3, <1>4, <1>5, <1>6, <1>7, <1>8

(* Rows that keep their addresses leave the server its own. *)
LEMMA SameUrl ==
    ASSUME TypeOK, rows' \in Seq(Row), env'.url = env.url,
           NEW S \in SUBSET DOMAIN rows, \A n \in S : rows'[n].url = rows[n].url
    PROVE  UrlOf(S)' = UrlOf(S)
  <1>1. S # {} => Max(S) \in S
    BY TypeFacts, MaxFacts
  <1>2. QED BY <1>1 DEF UrlOf

-----------------------------------------------------------------------------
(* Types.                                                                    *)
LEMMA RowFacts ==
    ASSUME NEW rs \in Seq(Row)
    PROVE  /\ Len(rs) \in Nat /\ DOMAIN rs = 1 .. Len(rs)
           /\ \A n \in DOMAIN rs : /\ rs[n].type \in Adapters /\ rs[n].url \in Urls \cup {None}
                                   /\ rs[n].active \in BOOLEAN
           /\ Addressed(rs) \in SUBSET (1 .. Len(rs))
  <1>1. Len(rs) \in Nat /\ DOMAIN rs = 1 .. Len(rs)
    OBVIOUS
  <1>2. \A n \in DOMAIN rs : rs[n] \in Row
    BY <1>1
  <1>3. QED BY <1>1, <1>2 DEF Row, Addressed

LEMMA StartUrlType ==
    ASSUME NEW rs \in Seq(Row), NEW e \in Env
    PROVE  StartUrl(rs, e) \in Urls \cup {DefaultUrl}
  <1>1. Or(e.url, DefaultUrl) \in Urls \cup {DefaultUrl}
    BY DEF Or, Env
  <1>2. ASSUME Addressed(rs) # {} PROVE rs[Max(Addressed(rs))].url \in Urls
    <2>1. Max(Addressed(rs)) \in Addressed(rs)
      BY <1>2, RowFacts, MaxFacts
    <2>2. QED BY <2>1, RowFacts DEF Addressed
  <1>3. QED BY <1>1, <1>2 DEF StartUrl

(* What the first start of an empty store takes over from the file. *)
LEMMA MigratedFacts ==
    ASSUME TypeOK
    PROVE  /\ Migrated(rows, env) \in Seq(Row)
           /\ rows # <<>> => Migrated(rows, env) = rows
           /\ rows = <<>> => \A n \in DOMAIN Migrated(rows, env) :
                                Migrated(rows, env)[n].type = Or(env.active, Claude)
  <1> DEFINE row == [type |-> env.active, url |-> IF env.active = Gateway THEN env.url ELSE None,
                     active |-> TRUE]
  <1>0. rows \in Seq(Row) /\ env.active \in Adapters \cup {None} /\ env.url \in Urls \cup {None}
    BY TypeFacts DEF Env
  <1>1. CASE rows # <<>> \/ env.active = None
    <2>1. Migrated(rows, env) = rows
      BY <1>1 DEF Migrated, MigratedAlways
    <2>2. rows = <<>> => DOMAIN rows = {}
      OBVIOUS
    <2>3. QED BY <1>0, <2>1, <2>2
  <1>2. CASE rows = <<>> /\ env.active # None
    <2>1. row \in Row
      BY <1>0, <1>2 DEF Row
    <2>2. Migrated(rows, env) = Append(<<>>, row)
      BY <1>2 DEF Migrated, MigratedAlways
    <2>3. Append(<<>>, row) \in Seq(Row) /\ DOMAIN Append(<<>>, row) = {1}
          /\ Append(<<>>, row)[1] = row
      <3> HIDE DEF row
      <3> QED BY <2>1
    <2>4. row.type = env.active
      OBVIOUS
    <2>5. QED BY <1>2, <2>2, <2>3, <2>4 DEF Or
  <1>3. QED BY <1>1, <1>2

(* A saved row comes after the others. *)
LEMMA SaveFacts ==
    ASSUME TypeOK, SetupSave
    PROVE  /\ rows' \in Seq(Row) /\ Len(rows') = Len(rows) + 1
           /\ \A n \in DOMAIN rows : rows'[n] = rows[n]
           /\ busy' \in Request /\ busy'.at = "saved"
           /\ rows'[Len(rows')].type = busy'.type /\ rows'[Len(rows')].url = busy'.url
           /\ rows'[Len(rows')].active = FALSE
  <1>0. rows \in Seq(Row) /\ Len(rows) \in Nat /\ DOMAIN rows = 1 .. Len(rows)
    BY TypeFacts
  <1>1. PICK a \in Adapters, u \in Urls \cup {None} :
          /\ rows' = Append(rows, [type |-> a, url |-> u, active |-> FALSE])
          /\ busy' = [type |-> a, url |-> u, at |-> "saved"]
    BY DEF SetupSave
  <1> DEFINE row == [type |-> a, url |-> u, active |-> FALSE]
  <1>2. row \in Row /\ row.type = a /\ row.url = u
    BY DEF Row
  <1>3. row.active = FALSE
    BY Zenon
  <1>4. busy' \in Request /\ busy'.at = "saved" /\ busy'.type = a /\ busy'.url = u
    BY <1>1 DEF Request
  <1>5. rows' = Append(rows, row)
    BY <1>1
  <1> HIDE DEF row
  <1>6. /\ rows' \in Seq(Row) /\ Len(rows') = Len(rows) + 1
        /\ \A n \in DOMAIN rows : rows'[n] = rows[n]
        /\ rows'[Len(rows')] = row
    BY <1>0, <1>2, <1>5
  <1>7. QED BY <1>2, <1>3, <1>4, <1>6

LEMMA ActivateFacts ==
    ASSUME TypeOK, SetupActivate
    PROVE  /\ rows' \in Seq(Row) /\ Len(rows') = Len(rows)
           /\ \A n \in DOMAIN rows : /\ rows'[n].type = rows[n].type /\ rows'[n].url = rows[n].url
                                     /\ rows'[n].active => n = Len(rows)
           /\ busy' \in Request /\ busy'.at = "active"
           /\ busy'.type = busy.type /\ busy'.url = busy.url
  <1>0. rows \in Seq(Row) /\ Len(rows) \in Nat /\ DOMAIN rows = 1 .. Len(rows)
        /\ busy \in Request \cup {Free}
    BY TypeFacts
  <1> DEFINE now(n) == [rows[n] EXCEPT !.active = n = Len(rows)]
  <1>1. \A n \in DOMAIN rows : rows[n] \in Row
    BY <1>0
  <1>2. ASSUME NEW n \in DOMAIN rows
        PROVE  now(n) \in Row /\ now(n).type = rows[n].type /\ now(n).url = rows[n].url
    BY <1>1 DEF Row
  <1>3. ASSUME NEW n \in DOMAIN rows PROVE now(n).active => n = Len(rows)
    <2>1. rows[n] \in Row
      BY <1>1
    <2>2. now(n).active = (n = Len(rows))
      BY <2>1, Zenon DEF Row
    <2>3. QED BY <2>2, Zenon
  <1>4. rows' = [n \in 1 .. Len(rows) |-> now(n)]
    BY <1>0 DEF SetupActivate
  <1> HIDE DEF now
  <1>5. rows' \in Seq(Row) /\ Len(rows') = Len(rows)
    <2>1. rows' \in [1 .. Len(rows) -> Row]
      BY <1>0, <1>2, <1>4
    <2>2. QED BY <1>0, <2>1, SeqDef
  <1>6. \A n \in DOMAIN rows : rows'[n] = now(n)
    BY <1>0, <1>4
  <1>7. busy \in Request
    BY <1>0 DEF SetupActivate, Free
  <1>8. busy' \in Request /\ busy'.at = "active"
        /\ busy'.type = busy.type /\ busy'.url = busy.url
    BY <1>7 DEF SetupActivate, Request
  <1>9. QED BY <1>2, <1>3, <1>5, <1>6, <1>8

(* Loading a file that only replaces values by values leaves what it says. *)
LEMMA LoadedFacts ==
    ASSUME NEW e \in Env, NEW f \in Env
    PROVE  /\ Loaded(e, f) \in Env
           /\ (\A k \in DOMAIN e : f[k] = None => e[k] = None) => Loaded(e, f) = f
  <1>1. /\ DOMAIN e = {"active", "groq", "stt", "url", "field"}
        /\ DOMAIN f = {"active", "groq", "stt", "url", "field"}
    BY DEF Env
  <1>2. Loaded(e, f) = [active |-> Or(f.active, e.active), groq |-> Or(f.groq, e.groq),
                        stt |-> Or(f.stt, e.stt), url |-> Or(f.url, e.url),
                        field |-> Or(f.field, e.field)]
    BY <1>1 DEF Loaded
  <1>3. Loaded(e, f) \in Env
    BY <1>2 DEF Env, Or
  <1>4. ASSUME \A k \in DOMAIN e : f[k] = None => e[k] = None PROVE Loaded(e, f) = f
    <2>1. \A k \in DOMAIN e : Or(f[k], e[k]) = f[k]
      BY <1>4 DEF Or
    <2>2. Loaded(e, f) = [k \in DOMAIN f |-> f[k]]
      BY <1>1, <2>1 DEF Loaded
    <2>3. QED BY <2>2 DEF Env
  <1>5. QED BY <1>3, <1>4

LEMMA NoEnvType == NoEnv \in Env
  BY DEF NoEnv, Env

LEMMA TypeStart == Init => TypeOK
  <1> SUFFICES ASSUME Init PROVE TypeOK
    OBVIOUS
  <1>1. rows \in Seq(Row)
    BY DEF Init
  <1>2. {env, environ} \subseteq Env /\ cli \in Env \cup {None}
    BY NoEnvType DEF Init
  <1>3. shared \in Modes \cup {"absent", "torn"} /\ fallback \in Adapters
        /\ url \in Urls \cup {DefaultUrl} /\ stt \in {"groq", "whisper"} /\ mode \in Modes
    BY DEF Init, Modes, Adapters
  <1>4. up \in BOOLEAN /\ edited \in BOOLEAN /\ lost \in BOOLEAN
    BY Zenon DEF Init
  <1>5. ops \in 0 .. MaxOps
    BY SetupAssumption DEF Init
  <1>6. busy \in Request \cup {Free} /\ (busy # Free => up)
        /\ apart \subseteq {"memory", "file"} /\ saved \in VoiceKeys \cup {None}
    BY DEF Init
  <1>7. QED BY <1>1, <1>2, <1>3, <1>4, <1>5, <1>6 DEF TypeOK

(* The steps that change one part at a time. *)
FilesOK  == rows \in Seq(Row) /\ env \in Env /\ environ \in Env /\ cli \in Env \cup {None}
MemoryOK == /\ shared \in Modes \cup {"absent", "torn"} /\ fallback \in Adapters
            /\ url \in Urls \cup {DefaultUrl} /\ stt \in {"groq", "whisper"} /\ mode \in Modes
RequestOK == up \in BOOLEAN /\ busy \in Request \cup {Free} /\ (busy # Free => up)
MarksOK  == /\ ops \in 0 .. MaxOps /\ edited \in BOOLEAN /\ lost \in BOOLEAN
            /\ apart \subseteq {"memory", "file"} /\ saved \in VoiceKeys \cup {None}

LEMMA TypeParts == TypeOK <=> FilesOK /\ MemoryOK /\ RequestOK /\ MarksOK
  BY DEF TypeOK, FilesOK, MemoryOK, RequestOK, MarksOK

LEMMA FilesStep == ASSUME TypeOK, Next PROVE FilesOK'
  <1>0. /\ rows \in Seq(Row) /\ env \in Env /\ environ \in Env /\ cli \in Env \cup {None}
        /\ busy \in Request \cup {Free} /\ (busy = Free <=> busy.at = "none")
    BY TypeFacts
  <1>1. CASE Start
    BY <1>0, <1>1, MigratedFacts DEF Start, FilesOK
  <1>2. CASE SetupSave
    BY <1>0, <1>2, SaveFacts DEF SetupSave, FilesOK, memory
  <1>3. CASE SetupActivate
    BY <1>0, <1>3, ActivateFacts DEF SetupActivate, FilesOK, memory
  <1>4. CASE SetupFinish
    <2>1. busy \in Request
      BY <1>0, <1>4 DEF SetupFinish, Free
    <2>2. env' \in Env
      BY <1>0, <1>4, <2>1 DEF SetupFinish, WriteEnv, Env, Request
    <2>3. environ' \in Env
      BY <1>0, <1>4, <2>2, LoadedFacts DEF SetupFinish, WriteEnv
    <2>4. QED BY <1>0, <1>4, <2>2, <2>3 DEF SetupFinish, FilesOK
  <1>5. CASE PutActive
    BY <1>0, <1>5 DEF PutActive, FilesOK, file
  <1>6. CASE GroqKey
    <2>1. PICK k \in VoiceKeys : WriteEnv([env EXCEPT !.groq = k])
      BY <1>6 DEF GroqKey
    <2>2. env' \in Env
      BY <1>0, <2>1 DEF WriteEnv, Env
    <2>3. environ' \in Env
      BY <1>0, <2>1, <2>2, LoadedFacts DEF WriteEnv
    <2>4. QED BY <1>0, <1>6, <2>2, <2>3 DEF GroqKey, FilesOK
  <1>7. CASE PutSettings
    BY <1>0, <1>7 DEF PutSettings, FilesOK
  <1>8. CASE Crash \/ CrashWritingSettings
    BY <1>0, <1>8 DEF Crash, CrashWritingSettings, Down, FilesOK, memory
  <1>9. CASE CrashWritingEnv
    BY <1>0, <1>9, NoEnvType DEF CrashWritingEnv, Down, FilesOK, memory
  <1>10. CASE CliReads
    BY <1>0, <1>10 DEF CliReads, FilesOK, file, memory
  <1>11. CASE CliWrites
    <2>1. cli \in Env
      BY <1>0, <1>11 DEF CliWrites
    <2>2. env' \in Env
      BY <1>11, <2>1 DEF CliWrites, Env, Adapters
    <2>3. QED BY <1>0, <1>11, <2>2 DEF CliWrites, FilesOK, memory
  <1>12. CASE HandEdits
    <2>1. env' \in Env
      BY <1>0, <1>12 DEF HandEdits, Env
    <2>2. QED BY <1>0, <1>12, <2>1 DEF HandEdits, FilesOK, memory
  <1>13. QED BY <1>1, <1>2, <1>3, <1>4, <1>5, <1>6, <1>7, <1>8, <1>9, <1>10, <1>11, <1>12 DEF Next

LEMMA MemoryStep == ASSUME TypeOK, Next PROVE MemoryOK'
  <1>0. /\ env \in Env /\ environ \in Env /\ busy \in Request \cup {Free} /\ MemoryOK
    BY TypeFacts, TypeParts
  <1>1. \A e \in Env : SttOf(e) \in {"groq", "whisper"}
    BY DEF SttOf, Or, Env
  <1>2. CASE Start
    <2>1. url' \in Urls \cup {DefaultUrl}
      BY <1>0, <1>2, MigratedFacts, StartUrlType DEF Start
    <2>2. stt' \in {"groq", "whisper"} /\ mode' \in Modes /\ fallback' \in Adapters
      BY <1>0, <1>1, <1>2 DEF Start, ModeOf, Modes, Or, Env, Adapters
    <2>3. QED BY <1>0, <1>2, <2>1, <2>2 DEF Start, MemoryOK
  <1>3. CASE SetupFinish
    <2>1. busy.type \in Adapters /\ busy.url \in Urls \cup {None}
      BY <1>0, <1>3 DEF SetupFinish, Free, Request
    <2>2. url' \in Urls \cup {DefaultUrl}
      BY <1>0, <1>3, <2>1 DEF SetupFinish, Applied, Or, MemoryOK
    <2>3. QED BY <1>0, <1>3, <2>1, <2>2 DEF SetupFinish, MemoryOK
  <1>4. CASE GroqKey
    <2>1. environ' \in Env
      BY FilesStep DEF FilesOK
    <2>2. stt' \in {"groq", "whisper"}
      BY <1>1, <1>4, <2>1 DEF GroqKey
    <2>3. QED BY <1>0, <1>4, <2>2 DEF GroqKey, MemoryOK
  <1>5. CASE PutActive
    BY <1>0, <1>5 DEF PutActive, MemoryOK, file
  <1>6. CASE PutSettings
    BY <1>0, <1>6 DEF PutSettings, MemoryOK
  <1>7. CASE SetupSave \/ SetupActivate \/ Crash \/ CrashWritingEnv
             \/ CliReads \/ CliWrites \/ HandEdits
    BY <1>0, <1>7 DEF SetupSave, SetupActivate, Crash, CrashWritingEnv, Down, CliReads, CliWrites,
                      HandEdits, MemoryOK, memory, file
  <1>8. CASE CrashWritingSettings
    BY <1>0, <1>8 DEF CrashWritingSettings, Down, MemoryOK, memory
  <1>9. QED BY <1>2, <1>3, <1>4, <1>5, <1>6, <1>7, <1>8 DEF Next

LEMMA RequestStep == ASSUME TypeOK, Next PROVE RequestOK'
  <1>0. /\ RequestOK /\ busy \in Request \cup {Free} /\ (busy = Free <=> busy.at = "none")
    BY TypeFacts, TypeParts
  <1>1. CASE Start
    BY <1>0, <1>1 DEF Start, RequestOK
  <1>2. CASE SetupSave
    BY <1>0, <1>2, SaveFacts DEF SetupSave, Idle, RequestOK
  <1>3. CASE SetupActivate
    BY <1>0, <1>3, ActivateFacts DEF SetupActivate, RequestOK
  <1>4. CASE SetupFinish
    BY <1>0, <1>4 DEF SetupFinish, RequestOK
  <1>5. CASE Crash \/ CrashWritingEnv \/ CrashWritingSettings
    BY <1>0, <1>5 DEF Crash, CrashWritingEnv, CrashWritingSettings, Down, RequestOK
  <1>6. CASE PutActive \/ GroqKey \/ PutSettings \/ CliReads \/ CliWrites \/ HandEdits
    BY <1>0, <1>6 DEF PutActive, GroqKey, PutSettings, CliReads, CliWrites, HandEdits, RequestOK
  <1>7. QED BY <1>1, <1>2, <1>3, <1>4, <1>5, <1>6 DEF Next

LEMMA MarksStep == ASSUME TypeOK, Next PROVE MarksOK'
  <1>0. MarksOK
    BY TypeParts
  <1>1. ops' \in 0 .. MaxOps
    <2>1. Op \/ ops' = ops
      BY DEF Next, Start, SetupSave, SetupActivate, SetupFinish, PutActive, GroqKey, PutSettings,
             Crash, CrashWritingEnv, CrashWritingSettings, CliReads, CliWrites, HandEdits
    <2>2. QED BY <1>0, <2>1, SetupAssumption DEF Op, MarksOK
  <1>2. edited' \in BOOLEAN /\ lost' \in BOOLEAN
    <2>1. /\ edited' = edited \/ edited' = TRUE \/ edited' = FALSE
          /\ lost' = lost \/ lost' = TRUE \/ lost' = (lost \/ cli.groq # env.groq)
      BY Zenon
         DEF Next, Start, SetupSave, SetupActivate, SetupFinish, PutActive, GroqKey, PutSettings,
             Crash, CrashWritingEnv, CrashWritingSettings, CliReads, CliWrites, HandEdits, Down, hist
    <2>2. QED BY <1>0, <2>1, Zenon DEF MarksOK
  <1>3. apart' \subseteq {"memory", "file"}
    <2>1. apart' \in {apart, {}, apart \ {"memory"}, apart \cup {"memory"}, apart \cup {"file"}}
      BY DEF Next, Start, SetupSave, SetupActivate, SetupFinish, PutActive, GroqKey, PutSettings,
             Crash, CrashWritingEnv, CrashWritingSettings, CliReads, CliWrites, HandEdits, hist
    <2>2. QED BY <1>0, <2>1 DEF MarksOK
  <1>4. saved' \in VoiceKeys \cup {None}
    <2>1. saved' = saved \/ saved' \in VoiceKeys
      BY DEF Next, Start, SetupSave, SetupActivate, SetupFinish, PutActive, GroqKey, PutSettings,
             Crash, CrashWritingEnv, CrashWritingSettings, CliReads, CliWrites, HandEdits, Down, hist
    <2>2. QED BY <1>0, <2>1 DEF MarksOK
  <1>5. QED BY <1>1, <1>2, <1>3, <1>4 DEF MarksOK

LEMMA TypeStep == TypeOK /\ [Next]_vars => TypeOK'
  <1>1. ASSUME TypeOK, Next PROVE TypeOK'
    <2>1. FilesOK' /\ MemoryOK' /\ RequestOK' /\ MarksOK'
      BY <1>1, FilesStep, MemoryStep, RequestStep, MarksStep
    <2>2. QED BY <2>1 DEF TypeOK, FilesOK, MemoryOK, RequestOK, MarksOK
  <1>2. ASSUME TypeOK, UNCHANGED vars PROVE TypeOK'
    BY <1>2 DEF TypeOK, vars, file, memory, hist
  <1>3. QED BY <1>1, <1>2

-----------------------------------------------------------------------------
(* The row of the request under way.                                         *)
LEMMA RequestSavedStep ==
    ASSUME SetupInv, Next
    PROVE  RequestSaved'
  <1>0. /\ TypeOK /\ RequestSaved
        /\ rows \in Seq(Row) /\ Len(rows) \in Nat /\ DOMAIN rows = 1 .. Len(rows)
        /\ busy \in Request \cup {Free} /\ (busy = Free <=> busy.at = "none")
    BY TypeFacts DEF SetupInv
  <1>1. CASE busy' = Free
    BY <1>1 DEF RequestSaved
  <1>2. CASE SetupSave
    <2>1. rows' # <<>> /\ busy'.at # "active"
      BY <1>0, <1>2, SaveFacts
    <2>2. QED BY <1>0, <1>2, <2>1, SaveFacts DEF RequestSaved
  <1>3. CASE SetupActivate
    <2>1. /\ rows' \in Seq(Row) /\ Len(rows') = Len(rows) /\ Len(rows) \in Nat
          /\ DOMAIN rows' = DOMAIN rows
      BY <1>0, <1>3, ActivateFacts
    <2>2. busy # Free /\ rows # <<>> /\ rows[Len(rows)].type = busy.type
          /\ rows[Len(rows)].url = busy.url
      BY <1>0, <1>3 DEF SetupActivate, RequestSaved
    <2>3. Len(rows) \in DOMAIN rows
      BY <1>0, <2>2
    <2>4. "file" \in apart'
      BY <1>3 DEF SetupActivate
    <2>5. rows' # <<>>
      BY <2>1, <2>3
    <2>6. rows'[Len(rows')].type = busy'.type /\ rows'[Len(rows')].url = busy'.url
      BY <1>0, <1>3, <2>1, <2>2, <2>3, ActivateFacts
    <2>7. \A n \in DOMAIN rows' : rows'[n].active => rows'[n].type = busy'.type
      BY <1>0, <1>3, <2>1, <2>6, ActivateFacts
    <2>8. QED BY <2>4, <2>5, <2>6, <2>7 DEF RequestSaved
  <1>4. CASE PutActive \/ GroqKey \/ PutSettings \/ CliReads \/ CliWrites \/ HandEdits
    <2>1. rows' = rows /\ busy' = busy
      BY <1>4 DEF PutActive, GroqKey, PutSettings, CliReads, CliWrites, HandEdits, file
    <2>2. "file" \in apart => "file" \in apart'
      BY <1>4 DEF PutActive, GroqKey, PutSettings, CliReads, CliWrites, HandEdits, hist
    <2>3. QED BY <1>0, <2>1, <2>2 DEF RequestSaved
  <1>5. CASE Start
    <2>1. busy' = Free
      BY <1>0, <1>5 DEF Start, TypeOK
    <2>2. QED BY <1>1, <2>1
  <1>6. CASE SetupFinish \/ Crash \/ CrashWritingEnv \/ CrashWritingSettings
    <2>1. busy' = Free
      BY <1>6 DEF SetupFinish, Crash, CrashWritingEnv, CrashWritingSettings, Down
    <2>2. QED BY <1>1, <2>1
  <1>7. QED BY <1>2, <1>3, <1>4, <1>5, <1>6 DEF Next

(* The environment and the provider. *)
LEMMA EnvStep ==
    ASSUME SetupInv, Next
    PROVE  EnvFollows'
  <1>0. /\ TypeOK /\ EnvFollows /\ env \in Env /\ environ \in Env /\ busy \in Request \cup {Free}
        /\ (busy = Free <=> busy.at = "none") /\ None \notin Adapters /\ None \notin VoiceKeys
    BY TypeFacts, SetupAssumption DEF SetupInv
  <1>1. CASE ~up' \/ edited'
    BY <1>1 DEF EnvFollows
  <1>2. CASE Start
    BY <1>2 DEF Start, EnvFollows
  <1>3. ASSUME up, ~edited, environ = env, NEW e \in Env, WriteEnv(e),
               \A k \in DOMAIN env : e[k] = None => env[k] = None
        PROVE  environ' = env'
    BY <1>0, <1>3, LoadedFacts DEF WriteEnv
  <1>4. CASE SetupFinish
    <2> DEFINE e == [env EXCEPT !.active = busy.type]
    <2>1. SUFFICES ASSUME up, ~edited PROVE EnvFollows'
      BY <1>4 DEF SetupFinish, EnvFollows
    <2>2. busy.type \in Adapters
      BY <1>0, <1>4 DEF SetupFinish, Free, Request
    <2>3. e \in Env /\ \A k \in DOMAIN env : e[k] = None => env[k] = None
      BY <1>0, <2>2 DEF Env
    <2>4. WriteEnv(e)
      BY <1>4 DEF SetupFinish
    <2>5. environ' = env'
      BY <1>0, <1>3, <2>1, <2>3, <2>4 DEF EnvFollows
    <2>6. stt' = stt /\ env'.stt = env.stt /\ env'.groq = env.groq
      BY <1>0, <1>4, <2>4 DEF SetupFinish, WriteEnv, Env
    <2>7. QED BY <1>0, <2>1, <2>5, <2>6 DEF EnvFollows, SttOf
  <1>5. CASE GroqKey
    <2>1. SUFFICES ASSUME up, ~edited PROVE EnvFollows'
      BY <1>5 DEF GroqKey, EnvFollows
    <2>2. PICK k \in VoiceKeys : WriteEnv([env EXCEPT !.groq = k]) /\ stt' = SttOf(environ')
      BY <1>5 DEF GroqKey
    <2> DEFINE e == [env EXCEPT !.groq = k]
    <2>3. e \in Env /\ \A f \in DOMAIN env : e[f] = None => env[f] = None
      BY <1>0 DEF Env
    <2>4. environ' = env'
      BY <1>0, <1>3, <2>1, <2>2, <2>3 DEF EnvFollows
    <2>5. QED BY <2>2, <2>4 DEF EnvFollows
  <1>6. CASE CliWrites \/ HandEdits \/ Crash \/ CrashWritingEnv \/ CrashWritingSettings
    <2>1. ~up' \/ edited' = TRUE
      BY <1>6, Zenon DEF CliWrites, HandEdits, Crash, CrashWritingEnv, CrashWritingSettings, Down
    <2>2. QED BY <1>1, <2>1
  <1>7. CASE SetupSave \/ SetupActivate \/ PutActive \/ PutSettings \/ CliReads
    <2>1. UNCHANGED <<up, edited, env, environ, stt>>
      BY <1>7 DEF SetupSave, SetupActivate, PutActive, PutSettings, CliReads, file, memory, hist
    <2>2. QED BY <1>0, <2>1 DEF EnvFollows
  <1>8. QED BY <1>2, <1>4, <1>5, <1>6, <1>7 DEF Next

(* The address. *)
LEMMA UrlStep ==
    ASSUME SetupInv, Next
    PROVE  UrlFollows'
  <1>0. /\ TypeOK /\ UrlFollows /\ RequestSaved
        /\ rows \in Seq(Row) /\ Len(rows) \in Nat /\ DOMAIN rows = 1 .. Len(rows)
        /\ env \in Env /\ busy \in Request \cup {Free} /\ (busy = Free <=> busy.at = "none")
        /\ Addressed(rows) \in SUBSET (1 .. Len(rows))
    BY TypeFacts DEF SetupInv
  <1>1. CASE ~up' \/ edited'
    BY <1>1 DEF UrlFollows
  <1>2. CASE Start
    <2>1. busy' = Free
      BY <1>0, <1>2 DEF Start, TypeOK
    <2>2. url' = StartUrl(rows', env) /\ env' = env
      BY <1>2 DEF Start
    <2>3. QED BY <2>1, <2>2 DEF UrlFollows, UrlOf, Counted, StartUrl
  <1>3. CASE SetupSave
    <2> DEFINE S == Addressed(rows)
    <2>1. /\ rows' \in Seq(Row) /\ Len(rows') = Len(rows) + 1
          /\ \A n \in DOMAIN rows : rows'[n] = rows[n]
      BY <1>0, <1>3, SaveFacts
    <2>2. Addressed(rows') \ {Len(rows')} = S
      <3>1. DOMAIN rows' = 1 .. Len(rows) + 1
        BY <1>0, <2>1
      <3>2. \A n : n \in DOMAIN rows' \ {Len(rows')} <=> n \in DOMAIN rows
        BY <1>0, <2>1, <3>1
      <3>3. QED BY <2>1, <3>2 DEF Addressed
    <2>3. busy' # Free /\ busy = Free
      BY <1>0, <1>3, SaveFacts DEF SetupSave, Idle, Free
    <2>4. UNCHANGED <<env, up, edited, url>>
      BY <1>3 DEF SetupSave, memory, hist
    <2>5. UrlOf(S) = IF S = {} THEN Or(env.url, DefaultUrl) ELSE rows[Max(S)].url
      BY DEF UrlOf
    <2>6. S # {} => Max(S) \in DOMAIN rows
      BY <1>0, MaxFacts
    <2>7. UrlOf(Counted)' = IF S = {} THEN Or(env.url, DefaultUrl) ELSE rows'[Max(S)].url
      BY <2>2, <2>3, <2>4 DEF UrlOf, Counted
    <2>8. UrlOf(Counted)' = UrlOf(S)
      BY <2>1, <2>5, <2>6, <2>7
    <2>9. Counted = S
      BY <2>3 DEF Counted
    <2>10. QED BY <1>0, <2>4, <2>8, <2>9 DEF UrlFollows
  <1>4. CASE SetupActivate
    <2> DEFINE S == Addressed(rows) \ {Len(rows)}
    <2>1. /\ rows' \in Seq(Row) /\ Len(rows') = Len(rows) /\ DOMAIN rows' = DOMAIN rows
          /\ \A n \in DOMAIN rows : rows'[n].type = rows[n].type /\ rows'[n].url = rows[n].url
      BY <1>0, <1>4, ActivateFacts
    <2>2. Addressed(rows') \ {Len(rows')} = S
      BY <2>1 DEF Addressed
    <2>3. busy' # Free /\ busy # Free
      BY <1>0, <1>4, ActivateFacts DEF SetupActivate, Free
    <2>4. UNCHANGED <<env, up, edited, url>>
      BY <1>4 DEF SetupActivate, memory
    <2>5. UrlOf(S) = IF S = {} THEN Or(env.url, DefaultUrl) ELSE rows[Max(S)].url
      BY DEF UrlOf
    <2>6. S # {} => Max(S) \in DOMAIN rows
      BY <1>0, MaxFacts
    <2>7. UrlOf(Counted)' = IF S = {} THEN Or(env.url, DefaultUrl) ELSE rows'[Max(S)].url
      BY <2>2, <2>3, <2>4 DEF UrlOf, Counted
    <2>8. UrlOf(Counted)' = UrlOf(S)
      BY <2>1, <2>5, <2>6, <2>7
    <2>9. Counted = S
      BY <2>3 DEF Counted
    <2>10. QED BY <1>0, <2>4, <2>8, <2>9 DEF UrlFollows
  <1>5. CASE SetupFinish
    <2> DEFINE S == Addressed(rows)
    <2>1. SUFFICES ASSUME up, ~edited PROVE url' = UrlOf(Counted)'
      BY <1>5 DEF SetupFinish, UrlFollows
    <2>2. /\ busy # Free /\ rows # <<>> /\ Len(rows) \in DOMAIN rows
          /\ rows[Len(rows)].type = busy.type /\ rows[Len(rows)].url = busy.url
      BY <1>0, <1>5 DEF SetupFinish, RequestSaved
    <2>3. url = UrlOf(S \ {Len(rows)})
      BY <1>0, <2>1, <2>2 DEF UrlFollows, Counted
    <2>4. rows' = rows /\ busy' = Free /\ env'.url = env.url
      BY <1>0, <1>5 DEF SetupFinish, WriteEnv, Env
    <2>5. UrlOf(Counted)' = UrlOf(S)
      BY <2>4 DEF UrlOf, Counted
    <2>6. url' = Applied(url, busy)
      BY <1>5 DEF SetupFinish
    <2>7. CASE busy.type = Gateway /\ busy.url # None
      <3>1. Len(rows) \in S
        BY <2>2, <2>7 DEF Addressed
      <3>2. Max(S) = Len(rows)
        BY <1>0, <3>1, MaxIsLast
      <3>3. UrlOf(S) = busy.url
        BY <2>2, <3>1, <3>2 DEF UrlOf
      <3>4. QED BY <2>5, <2>6, <2>7, <3>3 DEF Applied, Or
    <2>8. CASE ~ (busy.type = Gateway /\ busy.url # None)
      <3>1. Len(rows) \notin S
        BY <2>2, <2>8 DEF Addressed
      <3>2. S \ {Len(rows)} = S
        BY <3>1
      <3>3. url' = url
        BY <2>6, <2>8 DEF Applied, Or
      <3>4. QED BY <2>3, <2>5, <3>2, <3>3
    <2>9. QED BY <2>7, <2>8
  <1>6. CASE CliWrites \/ HandEdits \/ Crash \/ CrashWritingEnv \/ CrashWritingSettings
    <2>1. ~up' \/ edited' = TRUE
      BY <1>6, Zenon DEF CliWrites, HandEdits, Crash, CrashWritingEnv, CrashWritingSettings, Down
    <2>2. QED BY <1>1, <2>1
  <1>7. CASE PutActive \/ GroqKey \/ PutSettings \/ CliReads
    <2>1. UNCHANGED <<up, edited, rows, busy, url>>
      BY <1>7 DEF PutActive, GroqKey, PutSettings, CliReads, file, memory, hist
    <2>2. env'.url = env.url
      BY <1>0, <1>7 DEF PutActive, GroqKey, PutSettings, CliReads, WriteEnv, Env, file
    <2>3. QED BY <1>0, <2>1, <2>2 DEF UrlFollows, UrlOf, Counted
  <1>8. QED BY <1>2, <1>3, <1>4, <1>5, <1>6, <1>7 DEF Next

(* The session mode and the voice key: every step that touches one of the     *)
(* two places touches the other, or says so.                                  *)
LEMMA ModeStep == ASSUME SetupInv, Next PROVE ModeKept'
  <1>0. ModeKept /\ mode \in Modes
    BY DEF SetupInv, TypeOK
  <1>1. CASE Start
    BY <1>1 DEF Start, ModeKept
  <1>2. CASE PutSettings
    BY <1>2 DEF PutSettings, ModeKept, ModeOf
  <1>3. CASE Crash \/ CrashWritingEnv \/ CrashWritingSettings
    BY <1>3 DEF Crash, CrashWritingEnv, CrashWritingSettings, Down, ModeKept
  <1>4. CASE SetupSave \/ SetupActivate \/ SetupFinish \/ PutActive \/ GroqKey
             \/ CliReads \/ CliWrites \/ HandEdits
    <2>1. UNCHANGED <<up, mode, shared>>
      BY <1>4 DEF SetupSave, SetupActivate, SetupFinish, PutActive, GroqKey, CliReads, CliWrites,
                  HandEdits, memory, file
    <2>2. QED BY <1>0, <2>1 DEF ModeKept
  <1>5. QED BY <1>1, <1>2, <1>3, <1>4 DEF Next

LEMMA KeyStep == ASSUME SetupInv, Next PROVE KeyKept'
  <1>0. KeyKept /\ env \in Env /\ cli \in Env \cup {None}
    BY TypeFacts DEF SetupInv
  <1>1. CASE GroqKey
    BY <1>0, <1>1 DEF GroqKey, WriteEnv, KeyKept, Env
  <1>2. CASE CliWrites
    <2>1. cli \in Env
      BY <1>0, <1>2 DEF CliWrites
    <2>2. env'.groq = cli.groq /\ saved' = saved
      BY <1>2, <2>1 DEF CliWrites, Env
    <2>3. ~lost' => ~lost /\ cli.groq = env.groq
      BY <1>2, Zenon DEF CliWrites
    <2>4. QED BY <1>0, <2>2, <2>3 DEF KeyKept
  <1>3. CASE CrashWritingEnv
    <2>1. lost' = TRUE
      BY <1>3 DEF CrashWritingEnv
    <2>2. QED BY <2>1 DEF KeyKept
  <1>4. CASE Start \/ SetupSave \/ SetupActivate \/ SetupFinish \/ PutActive \/ PutSettings
             \/ Crash \/ CrashWritingSettings \/ CliReads \/ HandEdits
    <2>1. UNCHANGED <<lost, saved>>
      BY <1>4 DEF Start, SetupSave, SetupActivate, SetupFinish, PutActive, PutSettings, Crash,
                  CrashWritingSettings, Down, CliReads, HandEdits, hist
    <2>2. env'.groq = env.groq
      BY <1>0, <1>4 DEF Start, SetupSave, SetupActivate, SetupFinish, PutActive, PutSettings, Crash,
                  CrashWritingSettings, CliReads, HandEdits, WriteEnv, Env, file
    <2>3. QED BY <1>0, <2>1, <2>2 DEF KeyKept
  <1>5. QED BY <1>1, <1>2, <1>3, <1>4 DEF Next

(* The adapter: the active row, the file and the router. *)
LEMMA FileNamesStep == ASSUME SetupInv, Next PROVE FileNames'
  <1>0. /\ TypeOK /\ FileNames /\ RequestSaved
        /\ rows \in Seq(Row) /\ Len(rows) \in Nat /\ DOMAIN rows = 1 .. Len(rows)
        /\ env \in Env /\ busy \in Request \cup {Free} /\ (busy = Free <=> busy.at = "none")
        /\ None \notin Adapters
    BY TypeFacts DEF SetupInv
  <1>1. CASE "file" \in apart'
    BY <1>1 DEF FileNames
  <1>2. CASE Start
    <2>1. rows' = Migrated(rows, env) /\ env' = env
      BY <1>2 DEF Start
    <2>2. CASE rows = <<>>
      BY <1>0, <2>1, <2>2, MigratedFacts DEF FileNames
    <2>3. CASE rows # <<>>
      <3>1. rows' = rows
        BY <1>0, <2>1, <2>3, MigratedFacts
      <3>2. "file" \notin apart' => "file" \notin apart
        BY <1>2, <2>3 DEF Start
      <3>3. QED BY <1>0, <2>1, <3>1, <3>2 DEF FileNames
    <2>4. QED BY <2>2, <2>3
  <1>3. CASE SetupSave
    <2>1. apart' = apart /\ env' = env
      BY <1>3 DEF SetupSave, hist
    <2>2. /\ rows' \in Seq(Row) /\ Len(rows') = Len(rows) + 1
          /\ \A n \in DOMAIN rows : rows'[n] = rows[n]
          /\ rows'[Len(rows')].active = FALSE
      BY <1>0, <1>3, SaveFacts
    <2>3. DOMAIN rows' = 1 .. Len(rows) + 1
      BY <2>2
    <2>4. \A n \in DOMAIN rows' : rows'[n].active => n # Len(rows')
      BY <2>2, Zenon
    <2>5. \A n \in DOMAIN rows' : n # Len(rows') => n \in DOMAIN rows
      BY <1>0, <2>2, <2>3
    <2>6. QED BY <1>0, <2>1, <2>2, <2>4, <2>5 DEF FileNames
  <1>4. CASE SetupActivate \/ PutActive
    <2>1. CASE SetupActivate
      BY <1>1, <2>1 DEF SetupActivate
    <2>2. CASE PutActive
      BY <1>0, <2>2 DEF PutActive, FileNames, file
    <2>3. QED BY <1>4, <2>1, <2>2
  <1>5. CASE SetupFinish
    <2>1. busy # Free /\ busy.type \in Adapters
      BY <1>0, <1>5 DEF SetupFinish, Free, Request
    <2>2. \A n \in DOMAIN rows : rows[n].active => rows[n].type = busy.type
      BY <1>0, <1>5, <2>1 DEF SetupFinish, RequestSaved
    <2>3. rows' = rows /\ env'.active = busy.type
      BY <1>0, <1>5 DEF SetupFinish, WriteEnv, Env
    <2>4. QED BY <1>0, <2>1, <2>2, <2>3 DEF FileNames, Or
  <1>6. CASE CliWrites \/ HandEdits \/ CrashWritingEnv
    BY <1>1, <1>6 DEF CliWrites, HandEdits, CrashWritingEnv
  <1>7. CASE GroqKey \/ PutSettings \/ Crash \/ CrashWritingSettings \/ CliReads
    <2>1. UNCHANGED <<rows, apart>>
      BY <1>7 DEF GroqKey, PutSettings, Crash, CrashWritingSettings, Down, CliReads, file, hist
    <2>2. env'.active = env.active
      BY <1>0, <1>7 DEF GroqKey, PutSettings, Crash, CrashWritingSettings, CliReads, WriteEnv, Env,
                        file
    <2>3. QED BY <1>0, <2>1, <2>2 DEF FileNames
  <1>8. QED BY <1>2, <1>3, <1>4, <1>5, <1>6, <1>7 DEF Next

LEMMA RouterStep == ASSUME SetupInv, Next PROVE RouterFollows'
  <1>0. /\ TypeOK /\ RouterFollows /\ env \in Env /\ busy \in Request \cup {Free}
        /\ (busy = Free <=> busy.at = "none") /\ None \notin Adapters
    BY TypeFacts DEF SetupInv
  <1>1. CASE ~up' \/ apart' # {}
    BY <1>1 DEF RouterFollows
  <1>2. CASE Start
    BY <1>2 DEF Start, RouterFollows
  <1>3. CASE SetupFinish
    <2>1. busy.type \in Adapters
      BY <1>0, <1>3 DEF SetupFinish, Free, Request
    <2>2. fallback' = busy.type /\ env'.active = busy.type
      BY <1>0, <1>3 DEF SetupFinish, WriteEnv, Env
    <2>3. QED BY <1>0, <2>1, <2>2 DEF RouterFollows, Or
  <1>4. CASE SetupActivate \/ PutActive \/ CliWrites \/ HandEdits
    BY <1>1, <1>4 DEF SetupActivate, PutActive, CliWrites, HandEdits
  <1>5. CASE Crash \/ CrashWritingEnv \/ CrashWritingSettings
    BY <1>1, <1>5 DEF Crash, CrashWritingEnv, CrashWritingSettings, Down
  <1>6. CASE SetupSave \/ GroqKey \/ PutSettings \/ CliReads
    <2>1. UNCHANGED <<up, apart, fallback>>
      BY <1>6 DEF SetupSave, GroqKey, PutSettings, CliReads, memory, hist
    <2>2. env'.active = env.active
      BY <1>0, <1>6 DEF SetupSave, GroqKey, PutSettings, CliReads, WriteEnv, Env, file
    <2>3. QED BY <1>0, <2>1, <2>2 DEF RouterFollows
  <1>7. QED BY <1>2, <1>3, <1>4, <1>5, <1>6 DEF Next

-----------------------------------------------------------------------------
LEMMA SetupStart == Init => SetupInv
  <1> SUFFICES ASSUME Init PROVE SetupInv
    OBVIOUS
  <1>1. TypeOK
    BY TypeStart
  <1>2. up = FALSE /\ busy = Free /\ rows = <<>> /\ env.groq = saved
    BY DEF Init, NoEnv
  <1>3. QED BY <1>1, <1>2
        DEF SetupInv, RequestSaved, EnvFollows, UrlFollows, ModeKept, FileNames, RouterFollows, KeyKept

LEMMA SetupStep == SetupInv /\ [Next]_vars => SetupInv'
  <1>1. ASSUME SetupInv, Next PROVE SetupInv'
    <2>1. TypeOK'
      BY <1>1, TypeStep DEF SetupInv
    <2>2. QED BY <1>1, <2>1, RequestSavedStep, EnvStep, UrlStep, ModeStep, FileNamesStep, RouterStep,
                 KeyStep DEF SetupInv
  <1>2. ASSUME SetupInv, UNCHANGED vars PROVE SetupInv'
    <2>1. TypeOK'
      BY <1>2, TypeStep DEF SetupInv
    <2>2. RequestSaved' /\ EnvFollows' /\ UrlFollows'
      BY <1>2 DEF SetupInv, RequestSaved, EnvFollows, UrlFollows, UrlOf, Counted,
                  vars, file, memory, hist
    <2>3. ModeKept' /\ FileNames' /\ RouterFollows' /\ KeyKept'
      BY <1>2 DEF SetupInv, ModeKept, FileNames, RouterFollows, KeyKept, vars, file, memory, hist
    <2>4. QED BY <2>1, <2>2, <2>3 DEF SetupInv
  <1>3. QED BY <1>1, <1>2

LEMMA SetupInvariance == Spec => []SetupInv
  BY SetupStart, SetupStep, PTL DEF Spec

(* For any addresses, keys and number of requests, crashes, wizards and edits: *)
(* between requests the server talks to the gateway, speaks with the provider, *)
(* works in the mode and answers with the adapter that a restart would find,   *)
(* and the voice key kept is the one saved last, with the exceptions ConfigKept *)
(* names (app.py:154-179, misc.py:128-200, 848).                               *)
THEOREM ConfigIsKept == Spec => []ConfigKept
  <1>1. SetupInv => ConfigKept
    <2> SUFFICES ASSUME SetupInv PROVE ConfigKept
      OBVIOUS
    <2>1. GatewayKept
      BY DEF SetupInv, UrlFollows, UrlOf, Counted, GatewayKept, Idle, StartUrl
    <2>2. ProviderKept
      BY DEF SetupInv, EnvFollows, ProviderKept, Idle
    <2>3. ActiveIsFallback
      BY DEF SetupInv, FileNames, RouterFollows, ActiveIsFallback, Idle
    <2>4. QED BY <2>1, <2>2, <2>3 DEF SetupInv, ConfigKept
  <1>2. QED BY <1>1, SetupInvariance, PTL

(* A saved row keeps its adapter and its address and is never dropped, and a   *)
(* start adds a row to an empty store only (config_store.py:74,                *)
(* config_migration.py:38).                                                    *)
THEOREM RowsAreKept == Spec => RowsKept
  <1> DEFINE Kept == /\ Len(rows) <= Len(rows')
                     /\ \A n \in DOMAIN rows : /\ rows'[n].type = rows[n].type
                                               /\ rows'[n].url = rows[n].url
                     /\ ~up /\ rows # <<>> => rows' = rows
  <1>1. ASSUME TypeOK, Next PROVE Kept
    <2>0. rows \in Seq(Row) /\ Len(rows) \in Nat /\ DOMAIN rows = 1 .. Len(rows)
      BY <1>1, TypeFacts
    <2>1. CASE rows' = rows
      BY <2>0, <2>1
    <2>2. CASE Start
      <3>1. rows' = Migrated(rows, env)
        BY <2>2 DEF Start
      <3>2. rows' \in Seq(Row) /\ (rows # <<>> => rows' = rows)
        BY <1>1, <3>1, MigratedFacts
      <3>3. rows = <<>> => Len(rows) = 0 /\ DOMAIN rows = {}
        OBVIOUS
      <3>4. QED BY <2>0, <3>2, <3>3
    <2>3. CASE SetupSave
      BY <1>1, <2>0, <2>3, SaveFacts DEF SetupSave, Idle
    <2>4. CASE SetupActivate
      BY <1>1, <2>0, <2>4, ActivateFacts DEF SetupActivate
    <2>5. CASE SetupFinish \/ PutActive \/ GroqKey \/ PutSettings \/ Crash \/ CrashWritingEnv
               \/ CrashWritingSettings \/ CliReads \/ CliWrites \/ HandEdits
      BY <2>1, <2>5 DEF SetupFinish, PutActive, GroqKey, PutSettings, Crash, CrashWritingEnv,
                        CrashWritingSettings, Down, CliReads, CliWrites, HandEdits, file
    <2>6. QED BY <1>1, <2>2, <2>3, <2>4, <2>5 DEF Next
  <1>2. SetupInv => TypeOK
    BY DEF SetupInv
  <1>3. TypeOK /\ [Next]_vars
          => [/\ Len(rows) <= Len(rows')
              /\ \A n \in DOMAIN rows : rows'[n].type = rows[n].type /\ rows'[n].url = rows[n].url
              /\ ~up /\ rows # <<>> => rows' = rows]_vars
    BY <1>1
  <1>4. QED BY <1>2, <1>3, SetupInvariance, PTL DEF Spec, RowsKept

-----------------------------------------------------------------------------
(* Lists of slots. *)
Rec == [id : Reg!Ids, legacy : Reg!Ids, key : Reg!Keys, online : BOOLEAN, mirror : {"none", "filled", "user"}]

\* The sessions that have one slot each as long as no discovery was synchronised.
Singles == Accounts \cup {Shared} \cup Temps \cup Foreign

KeysApart(s) == \A m, n \in DOMAIN s : m # n => s[m].key # s[n].key
IdsApart(s)  == \A m, n \in DOMAIN s : m # n => s[m].id # s[n].id
OwnNames(s)  ==
  \A n \in DOMAIN s : s[n].key \in Reg!Claudes => s[n].id = s[n].key /\ s[n].legacy = s[n].key
Plain(s)     == \A n \in DOMAIN s : s[n].id = s[n].key /\ s[n].legacy = s[n].key

-----------------------------------------------------------------------------
(* Numbers and sequences. *)
LEMMA UpTo ==
  ASSUME NEW N \in Nat, NEW T, 0 \in T, \A m \in 0..N : m \in T /\ m < N => m + 1 \in T
  PROVE  0..N \subseteq T
<1> DEFINE missing == (0..N) \ T
<1> SUFFICES ASSUME missing # {} PROVE FALSE
  OBVIOUS
<1>1. missing \in SUBSET Nat
  OBVIOUS
<1>2. PICK k \in missing : \A j \in missing : ~ (<<j, k>> \in OpToRel(<, Nat))
  BY <1>1, NatLessThanWellFounded, WFMin
<1>3. k \in 0..N /\ k \notin T /\ k # 0
  BY <1>2
<1>4. k - 1 \in 0..N /\ k - 1 < N /\ k - 1 + 1 = k
  BY <1>3
<1>5. <<k - 1, k>> \in OpToRel(<, Nat)
  BY <1>3, <1>4 DEF OpToRel
<1>6. k - 1 \notin missing
  BY <1>2, <1>5
<1> QED BY <1>3, <1>4, <1>6

\* What starts with x0 and goes on with one step after the other exists.
Iterates(f, N, X, x0, F) ==
  f \in [0..N -> X] /\ f[0] = x0 /\ \A n \in 1..N : f[n] = F[n][f[n - 1]]

LEMMA Iterated ==
  ASSUME NEW N \in Nat, NEW X, NEW x0 \in X, NEW F \in [1..N -> [X -> X]]
  PROVE  \E f : Iterates(f, N, X, x0, F)
<1> DEFINE Run(f, m) == f \in [0..m -> X] /\ f[0] = x0 /\ \A n \in 1..m : f[n] = F[n][f[n - 1]]
<1> DEFINE T == {m \in 0..N : \E f : Run(f, m)}
<1>1. 0 \in T
  <2>1. Run([n \in 0..0 |-> x0], 0)
    OBVIOUS
  <2> HIDE DEF Run
  <2> QED BY <2>1
<1>2. \A m \in 0..N : m \in T /\ m < N => m + 1 \in T
  <2> SUFFICES ASSUME NEW m \in 0..N, m \in T, m < N PROVE m + 1 \in T
    OBVIOUS
  <2>1. PICK f : Run(f, m)
    OBVIOUS
  <2> DEFINE g == [n \in 0..(m + 1) |-> IF n = m + 1 THEN F[m + 1][f[m]] ELSE f[n]]
  <2>2. m \in 0..m /\ m + 1 \in 1..N /\ f[m] \in X
    BY <2>1
  <2>3. F[m + 1][f[m]] \in X
    BY <2>2
  <2>4. g \in [0..(m + 1) -> X]
    BY <2>1, <2>3
  <2>5. \A n \in 0..m : n # m + 1 /\ n \in 0..(m + 1) /\ g[n] = f[n]
    OBVIOUS
  <2>6. g[m + 1] = F[m + 1][f[m]] /\ g[m] = f[m] /\ g[0] = f[0]
    BY <2>5, <2>2
  <2> HIDE DEF g
  <2>7. \A n \in 1..(m + 1) : g[n] = F[n][g[n - 1]]
    <3> SUFFICES ASSUME NEW n \in 1..(m + 1) PROVE g[n] = F[n][g[n - 1]]
      OBVIOUS
    <3>1. CASE n = m + 1
      BY <2>6, <3>1
    <3>2. CASE n # m + 1
      <4>1. n \in 1..m /\ n \in 0..m /\ n - 1 \in 0..m
        BY <3>2
      <4>2. g[n] = f[n] /\ g[n - 1] = f[n - 1]
        BY <2>5, <4>1
      <4> QED BY <2>1, <4>1, <4>2
    <3> QED BY <3>1, <3>2
  <2>8. Run(g, m + 1)
    BY <2>1, <2>4, <2>6, <2>7
  <2> HIDE DEF Run
  <2> QED BY <2>2, <2>8
<1>3. N \in T
  <2> HIDE DEF T
  <2>1. 0..N \subseteq T
    BY <1>1, <1>2, UpTo
  <2> QED BY <2>1
<1> QED BY <1>3 DEF Iterates

LEMMA OneMore ==
  ASSUME NEW n \in Nat
  PROVE  \A m : m \in 1..(n + 1) <=> m \in 1..n \/ m = n + 1
OBVIOUS

LEMMA NextOne ==
  ASSUME NEW N \in Nat, NEW n \in 0..N, n < N
  PROVE  n \in Nat /\ n + 1 \in 1..N /\ n + 1 - 1 = n
OBVIOUS

LEMMA ImageFinite ==
  ASSUME NEW E, IsFiniteSet(E), NEW T, NEW f, f \in [E -> T], \A y \in T : \E x \in E : f[x] = y
  PROVE  IsFiniteSet(T)
<1>1. f \in Surjection(E, T)
  BY DEF Surjection
<1> QED BY <1>1, FS_Surjection

LEMMA ListOfSet ==
  ASSUME NEW E, IsFiniteSet(E)
  PROVE  /\ Reg!SetToSeq(E) \in Seq(E)
         /\ \A m, n \in DOMAIN Reg!SetToSeq(E) : m # n => Reg!SetToSeq(E)[m] # Reg!SetToSeq(E)[n]
<1>1. Cardinality(E) \in Nat /\ ExistsBijection(1..Cardinality(E), E)
  BY FS_CardinalityType
<1>2. PICK f : f \in Bijection(1..Cardinality(E), E)
  BY <1>1 DEF ExistsBijection
<1>3. f \in [1..Cardinality(E) -> E] /\ \A x, y \in 1..Cardinality(E) : f[x] = f[y] => x = y
  BY <1>2 DEF Bijection, Injection, IsInjective
<1>4. Reg!IsInjective(f)
  BY <1>3 DEF Reg!IsInjective
<1>5. Reg!SetToSeq(E) \in [1..Cardinality(E) -> E] /\ Reg!IsInjective(Reg!SetToSeq(E))
  <2>1. Reg!Cardinality(E) = Cardinality(E)
    BY DEF Reg!Cardinality, Cardinality
  <2> QED BY <2>1, <1>3, <1>4 DEF Reg!SetToSeq
<1>6. Reg!SetToSeq(E) \in Seq(E)
  BY <1>1, <1>5, SeqDef
<1> QED BY <1>5, <1>6 DEF Reg!IsInjective

LEMMA ListFacts ==
  ASSUME NEW E, NEW s \in Seq(E)
  PROVE  /\ Len(s) \in Nat /\ DOMAIN s = 1..Len(s) /\ \A n \in DOMAIN s : s[n] \in E
OBVIOUS

LEMMA Appended ==
  ASSUME NEW E, NEW s \in Seq(E), NEW x \in E
  PROVE  /\ Append(s, x) \in Seq(E) /\ DOMAIN Append(s, x) = DOMAIN s \cup {Len(s) + 1}
         /\ \A n \in DOMAIN s : Append(s, x)[n] = s[n]
         /\ Append(s, x)[Len(s) + 1] = x /\ Len(s) + 1 \notin DOMAIN s
OBVIOUS

LEMMA Mapped ==
  ASSUME NEW E, NEW s \in Seq(E), NEW t, DOMAIN t = DOMAIN s, \A n \in DOMAIN s : t[n] \in E,
         t = [n \in DOMAIN s |-> t[n]]
  PROVE  t \in Seq(E)
<1>1. Len(s) \in Nat /\ DOMAIN s = 1..Len(s)
  OBVIOUS
<1> QED BY <1>1, SeqDef

-----------------------------------------------------------------------------
(* Lists of slots. *)

\* A list of slots of different sessions, in which a terminal has its own name.
Fits(s) == s \in Seq(Rec) /\ KeysApart(s) /\ OwnNames(s)

\* What a list still says of the slots of another one.
Keeps(s, t) ==
  /\ DOMAIN s \subseteq DOMAIN t
  /\ \A n \in DOMAIN s : /\ t[n].key = s[n].key /\ t[n].legacy = s[n].legacy
                         /\ s[n].mirror = "user" => t[n].mirror = "user"

\* A slot that may be added to a list.
Fresh(x) == x \in Rec /\ (x.key \in Reg!Claudes => x.id = x.key /\ x.legacy = x.key)

LEMMA AppendFits ==
  ASSUME NEW s, NEW x, Fits(s), Fresh(x), x.key \notin Reg!KeysOf(s)
  PROVE  /\ Fits(Append(s, x)) /\ Keeps(s, Append(s, x))
         /\ Reg!KeysOf(Append(s, x)) = Reg!KeysOf(s) \cup {x.key}
         /\ IdsApart(s) /\ x.id \notin Reg!IdsOf(s) => IdsApart(Append(s, x))
         /\ Plain(s) /\ x.id = x.key /\ x.legacy = x.key => Plain(Append(s, x))
<1> DEFINE t == Append(s, x)
<1>1. /\ t \in Seq(Rec) /\ DOMAIN t = DOMAIN s \cup {Len(s) + 1}
      /\ \A n \in DOMAIN s : t[n] = s[n]
      /\ t[Len(s) + 1] = x /\ Len(s) + 1 \notin DOMAIN s
  BY Appended DEF Fits, Fresh
<1> HIDE DEF t
<1>2. Fits(t)
  BY <1>1 DEF Fits, Fresh, KeysApart, OwnNames, Reg!KeysOf
<1>3. Keeps(s, t) /\ Reg!KeysOf(t) = Reg!KeysOf(s) \cup {x.key}
  BY <1>1 DEF Keeps, Reg!KeysOf
<1>4. IdsApart(s) /\ x.id \notin Reg!IdsOf(s) => IdsApart(t)
  BY <1>1 DEF IdsApart, Reg!IdsOf
<1>5. Plain(s) /\ x.id = x.key /\ x.legacy = x.key => Plain(t)
  BY <1>1 DEF Plain
<1> QED BY <1>2, <1>3, <1>4, <1>5 DEF t

LEMMA KeepsItself ==
  ASSUME NEW s
  PROVE  Keeps(s, s)
BY DEF Keeps

LEMMA KeepsOn ==
  ASSUME NEW s, NEW t, NEW u, Keeps(s, t), Keeps(t, u)
  PROVE  Keeps(s, u)
BY DEF Keeps

LEMMA MergedRuns ==
  ASSUME NEW s \in Seq(Rec), NEW new \in Seq(Rec)
  PROVE  \E h : /\ Reg!Merged(s, new) = h[Len(new)] /\ h[0] = s
                /\ \A n \in 1..Len(new) : h[n] = Reg!MergeOne(h[n - 1], new[n])
<1> DEFINE N == Len(new)
           X == Seq(Rec)
           F == [n \in 1..N |-> [y \in X |-> Reg!MergeOne(y, new[n])]]
           Run(h) == h = [n \in 0..N |-> IF n = 0 THEN s ELSE Reg!MergeOne(h[n - 1], new[n])]
<1>1. N \in Nat /\ \A n \in 1..N : new[n] \in Rec
  OBVIOUS
<1>2. \A n \in 1..N, y \in X : Reg!MergeOne(y, new[n]) \in X
  BY <1>1 DEF Reg!MergeOne
<1>3. F \in [1..N -> [X -> X]]
  BY <1>2
<1>4. \A n \in 1..N, y \in X : F[n][y] = Reg!MergeOne(y, new[n])
  OBVIOUS
<1>0. s \in X
  OBVIOUS
<1> HIDE DEF F, X
<1>12. PICK f : Iterates(f, N, X, s, F)
  BY <1>0, <1>1, <1>3, Iterated
<1>5. f \in [0..N -> X] /\ f[0] = s /\ \A n \in 1..N : f[n] = F[n][f[n - 1]]
  BY <1>12 DEF Iterates
<1>6. \A n \in 0..N : f[n] = IF n = 0 THEN s ELSE Reg!MergeOne(f[n - 1], new[n])
  <2> SUFFICES ASSUME NEW n \in 0..N, n # 0 PROVE f[n] = Reg!MergeOne(f[n - 1], new[n])
    BY <1>5
  <2>1. n \in 1..N /\ n - 1 \in 0..N
    BY <1>1
  <2> QED BY <1>4, <1>5, <2>1
<1>7. Run(f)
  <2>1. f = [n \in 0..N |-> f[n]]
    BY <1>5
  <2> HIDE DEF Reg!MergeOne
  <2> QED BY <1>6, <2>1
<1> DEFINE h == CHOOSE k : Run(k)
<1>8. Run(h)
  BY <1>7
<1>9. Reg!Merged(s, new) = h[N]
  BY DEF Reg!Merged
<1>10. \A n \in 0..N : h[n] = IF n = 0 THEN s ELSE Reg!MergeOne(h[n - 1], new[n])
  <2> HIDE DEF h, Reg!MergeOne
  <2> QED BY <1>8
<1> HIDE DEF h
<1>11. h[0] = s /\ \A n \in 1..N : h[n] = Reg!MergeOne(h[n - 1], new[n])
  BY <1>1, <1>10
<1> QED BY <1>9, <1>11

LEMMA MergedFits ==
  ASSUME NEW s, NEW new, Fits(s), IdsApart(s), Fits(new)
  PROVE  /\ Fits(Reg!Merged(s, new)) /\ IdsApart(Reg!Merged(s, new)) /\ Keeps(s, Reg!Merged(s, new))
         /\ Reg!KeysOf(Reg!Merged(s, new)) \subseteq Reg!KeysOf(s) \cup Reg!KeysOf(new)
         /\ Plain(s) /\ Plain(new) => Plain(Reg!Merged(s, new))
<1>1. PICK h : /\ Reg!Merged(s, new) = h[Len(new)] /\ h[0] = s
               /\ \A n \in 1..Len(new) : h[n] = Reg!MergeOne(h[n - 1], new[n])
  BY MergedRuns DEF Fits
<1>2. Len(new) \in Nat /\ DOMAIN new = 1..Len(new) /\ \A n \in 1..Len(new) : new[n] \in Rec
  BY DEF Fits
<1> DEFINE Well(t) == /\ Fits(t) /\ IdsApart(t) /\ Keeps(s, t)
                      /\ Reg!KeysOf(t) \subseteq Reg!KeysOf(s) \cup Reg!KeysOf(new)
                      /\ Plain(s) /\ Plain(new) => Plain(t)
           T == {n \in 0..Len(new) : Well(h[n])}
<1>3. 0 \in T
  BY <1>1, <1>2, KeepsItself
<1>4. \A n \in 0..Len(new) : n \in T /\ n < Len(new) => n + 1 \in T
  <2> SUFFICES ASSUME NEW n \in 0..Len(new), Well(h[n]), n < Len(new) PROVE Well(h[n + 1])
    BY <1>2
  <2>1. n + 1 \in 1..Len(new) /\ n + 1 - 1 = n
    BY <1>2
  <2> DEFINE t == h[n]
             x == new[n + 1]
  <2>2. h[n + 1] = Reg!MergeOne(t, x) /\ x \in Rec /\ x.key \in Reg!KeysOf(new)
    BY <1>1, <1>2, <2>1 DEF Reg!KeysOf
  <2>3. Fresh(x) /\ (Plain(new) => x.id = x.key /\ x.legacy = x.key)
    BY <1>2, <2>1 DEF Fits, OwnNames, Fresh, Plain
  <2>4. CASE x.id \in Reg!IdsOf(t) \/ x.key \in Reg!KeysOf(t)
    BY <2>2, <2>4 DEF Reg!MergeOne
  <2>5. CASE ~(x.id \in Reg!IdsOf(t) \/ x.key \in Reg!KeysOf(t))
    <3>1. h[n + 1] = Append(t, x)
      BY <2>2, <2>5 DEF Reg!MergeOne
    <3>2. Well(t)
      OBVIOUS
    <3> HIDE DEF t, x
    <3> QED BY <2>2, <2>3, <2>5, <3>1, <3>2, AppendFits, KeepsOn
  <2> QED BY <2>4, <2>5
<1>5. Len(new) \in T
  <2> HIDE DEF T
  <2>1. 0..Len(new) \subseteq T
    BY <1>2, <1>3, <1>4, UpTo
  <2> QED BY <1>2, <2>1
<1> QED BY <1>1, <1>5

\* A bot found in a discovery: a terminal is named after its conversation, an account
\* after itself, and while no session moved the account's session is its own.
Found(b) ==
  /\ b.id \in Reg!Ids /\ b.key \in Reg!Keys
  /\ b.key \in Reg!Claudes => b.id = b.key
  /\ ~moved => b.id = b.key

LEMMA PlacedFits ==
  ASSUME NEW s, NEW b, Fits(s), Found(b)
  PROVE  /\ Fits(Reg!Placed(s, b)) /\ Keeps(s, Reg!Placed(s, b))
         /\ Reg!KeysOf(Reg!Placed(s, b)) = Reg!KeysOf(s) \cup {b.key}
         /\ ~moved /\ Plain(s) => Plain(Reg!Placed(s, b))
<1>1. CASE b.key \in Reg!KeysOf(s)
  <2> DEFINE t == Reg!Placed(s, b)
  <2>1. t = [n \in DOMAIN s |-> IF s[n].key = b.key
                                THEN [s[n] EXCEPT !.id = b.id, !.online = TRUE] ELSE s[n]]
    BY <1>1 DEF Reg!Placed
  <2>2. Len(s) \in Nat /\ DOMAIN s = 1..Len(s) /\ \A n \in DOMAIN s : s[n] \in Rec
    BY DEF Fits
  <2>3. \A n \in DOMAIN s : /\ t[n].key = s[n].key /\ t[n].legacy = s[n].legacy
                            /\ t[n].mirror = s[n].mirror
                            /\ t[n].id = IF s[n].key = b.key THEN b.id ELSE s[n].id
    BY <2>1, <2>2 DEF Rec
  <2>4. \A n \in DOMAIN s : t[n] \in Rec
    <3> SUFFICES ASSUME NEW n \in DOMAIN s PROVE t[n] \in Rec
      OBVIOUS
    <3>1. s[n] \in Rec /\ TRUE \in BOOLEAN /\ b.id \in Reg!Ids
      BY <2>2 DEF Found
    <3>2. [s[n] EXCEPT !.id = b.id, !.online = TRUE] \in Rec
      BY <3>1 DEF Rec
    <3> QED BY <2>1, <3>1, <3>2
  <2>5. DOMAIN t = DOMAIN s
    BY <2>1
  <2>6. t \in Seq(Rec)
    <3>1. t = [n \in DOMAIN s |-> t[n]]
      BY <2>1
    <3> QED BY <2>4, <2>5, <3>1, Mapped DEF Fits
  <2> HIDE DEF t
  <2>7. Fits(t)
    BY <2>3, <2>5, <2>6 DEF Fits, KeysApart, OwnNames, Found
  <2>8. Keeps(s, t) /\ Reg!KeysOf(t) = Reg!KeysOf(s) \cup {b.key}
    BY <1>1, <2>3, <2>5 DEF Keeps, Reg!KeysOf
  <2>9. ~moved /\ Plain(s) => Plain(t)
    BY <2>3, <2>5 DEF Plain, Found
  <2> QED BY <2>7, <2>8, <2>9 DEF t
<1>2. CASE b.key \notin Reg!KeysOf(s)
  <2>1. Reg!Placed(s, b) = Append(s, Reg!FoundSlot(b))
    BY <1>2 DEF Reg!Placed
  <2> DEFINE x == Reg!FoundSlot(b)
  <2>2. x.id = b.id /\ x.legacy = b.id /\ x.key = b.key /\ x \in Rec
    BY DEF Reg!FoundSlot, Reg!Slot, Rec, Found
  <2>3. Fresh(x)
    BY <2>2 DEF Fresh, Found
  <2> HIDE DEF x
  <2>4. /\ Fits(Append(s, x)) /\ Keeps(s, Append(s, x))
        /\ Reg!KeysOf(Append(s, x)) = Reg!KeysOf(s) \cup {x.key}
        /\ Plain(s) /\ x.id = x.key /\ x.legacy = x.key => Plain(Append(s, x))
    BY <1>2, <2>2, <2>3, AppendFits
  <2>5. ~moved => x.id = x.key /\ x.legacy = x.key
    BY <2>2 DEF Found
  <2> QED BY <2>1, <2>2, <2>4, <2>5 DEF x
<1> QED BY <1>1, <1>2

LEMMA PlacedRuns ==
  ASSUME NEW s, Fits(s), NEW bots, Len(bots) \in Nat, \A n \in 1..Len(bots) : Found(bots[n])
  PROVE  \E h : /\ Reg!AllPlaced(s, bots) = h[Len(bots)] /\ h[0] = s
                /\ \A n \in 1..Len(bots) : h[n] = Reg!Placed(h[n - 1], bots[n])
<1> DEFINE N == Len(bots)
           X == {y \in Seq(Rec) : Fits(y)}
           F == [n \in 1..N |-> [y \in X |-> Reg!Placed(y, bots[n])]]
           Run(h) == h = [n \in 0..N |-> IF n = 0 THEN s ELSE Reg!Placed(h[n - 1], bots[n])]
<1>1. N \in Nat /\ s \in X
  BY DEF Fits
<1>2. \A n \in 1..N, y \in X : Reg!Placed(y, bots[n]) \in X
  <2> SUFFICES ASSUME NEW n \in 1..N, NEW y \in X PROVE Reg!Placed(y, bots[n]) \in X
    OBVIOUS
  <2>1. Found(bots[n]) /\ Fits(y)
    OBVIOUS
  <2>2. Fits(Reg!Placed(y, bots[n]))
    BY <2>1, PlacedFits
  <2> QED BY <2>2 DEF Fits
<1>3. F \in [1..N -> [X -> X]]
  BY <1>2
<1>4. \A n \in 1..N, y \in X : F[n][y] = Reg!Placed(y, bots[n])
  OBVIOUS
<1> HIDE DEF F, X
<1>12. PICK f : Iterates(f, N, X, s, F)
  BY <1>1, <1>3, Iterated
<1>5. f \in [0..N -> X] /\ f[0] = s /\ \A n \in 1..N : f[n] = F[n][f[n - 1]]
  BY <1>12 DEF Iterates
<1>6. \A n \in 0..N : f[n] = IF n = 0 THEN s ELSE Reg!Placed(f[n - 1], bots[n])
  <2> SUFFICES ASSUME NEW n \in 0..N, n # 0 PROVE f[n] = Reg!Placed(f[n - 1], bots[n])
    BY <1>5
  <2>1. n \in 1..N /\ n - 1 \in 0..N
    BY <1>1
  <2> QED BY <1>4, <1>5, <2>1
<1>7. Run(f)
  <2>1. f = [n \in 0..N |-> f[n]]
    BY <1>5
  <2> QED BY <1>6, <2>1
<1> DEFINE h == CHOOSE k : Run(k)
<1>8. Run(h)
  BY <1>7
<1>9. Reg!AllPlaced(s, bots) = h[N]
  BY DEF Reg!AllPlaced
<1>10. \A n \in 0..N : h[n] = IF n = 0 THEN s ELSE Reg!Placed(h[n - 1], bots[n])
  <2> HIDE DEF h
  <2> QED BY <1>8
<1> HIDE DEF h
<1>11. h[0] = s /\ \A n \in 1..N : h[n] = Reg!Placed(h[n - 1], bots[n])
  BY <1>1, <1>10
<1> QED BY <1>9, <1>11

LEMMA AllPlacedFits ==
  ASSUME NEW s, Fits(s), NEW bots, Len(bots) \in Nat, \A n \in 1..Len(bots) : Found(bots[n])
  PROVE  /\ Fits(Reg!AllPlaced(s, bots)) /\ Keeps(s, Reg!AllPlaced(s, bots))
         /\ Reg!KeysOf(Reg!AllPlaced(s, bots)) = Reg!KeysOf(s) \cup {bots[n].key : n \in 1..Len(bots)}
         /\ ~moved /\ Plain(s) => Plain(Reg!AllPlaced(s, bots))
<1>1. PICK h : /\ Reg!AllPlaced(s, bots) = h[Len(bots)] /\ h[0] = s
               /\ \A n \in 1..Len(bots) : h[n] = Reg!Placed(h[n - 1], bots[n])
  BY PlacedRuns
<1> DEFINE Well(t, n) == /\ Fits(t) /\ Keeps(s, t)
                         /\ Reg!KeysOf(t) = Reg!KeysOf(s) \cup {bots[m].key : m \in 1..n}
                         /\ ~moved /\ Plain(s) => Plain(t)
           T == {n \in 0..Len(bots) : Well(h[n], n)}
<1>3. 0 \in T
  BY <1>1, KeepsItself
<1>4. \A n \in 0..Len(bots) : n \in T /\ n < Len(bots) => n + 1 \in T
  <2> HIDE DEF Well
  <2> SUFFICES ASSUME NEW n \in 0..Len(bots), Well(h[n], n), n < Len(bots)
               PROVE  Well(h[n + 1], n + 1)
    OBVIOUS
  <2> USE DEF Well
  <2> DEFINE t == h[n]
             b == bots[n + 1]
  <2>1. n \in Nat /\ n + 1 \in 1..Len(bots) /\ n + 1 - 1 = n
    <3> HIDE DEF t, b
    <3> QED BY NextOne
  <2>2. h[n + 1] = Reg!Placed(t, b) /\ Found(b) /\ Well(t, n)
    BY <1>1, <2>1
  <2>4. \A m : m \in 1..(n + 1) <=> m \in 1..n \/ m = n + 1
    BY <2>1, OneMore
  <2>3. {bots[m].key : m \in 1..(n + 1)} = {bots[m].key : m \in 1..n} \cup {b.key}
    BY <2>4
  <2> HIDE DEF t, b
  <2>5. /\ Fits(Reg!Placed(t, b)) /\ Keeps(t, Reg!Placed(t, b))
        /\ Reg!KeysOf(Reg!Placed(t, b)) = Reg!KeysOf(t) \cup {b.key}
        /\ ~moved /\ Plain(t) => Plain(Reg!Placed(t, b))
    BY <2>2, PlacedFits
  <2>6. Keeps(s, Reg!Placed(t, b))
    BY <2>2, <2>5, KeepsOn
  <2>7. Reg!KeysOf(Reg!Placed(t, b)) = Reg!KeysOf(s) \cup {bots[m].key : m \in 1..(n + 1)}
    BY <2>2, <2>3, <2>5
  <2> QED BY <2>2, <2>5, <2>6, <2>7
<1>5. Len(bots) \in T
  <2> HIDE DEF T
  <2>1. 0..Len(bots) \subseteq T
    BY <1>3, <1>4, UpTo
  <2> QED BY <2>1
<1> QED BY <1>1, <1>5

LeavesOut(h, s, i) ==
  /\ h[0] = <<>>
  /\ \A n \in 1..Len(s) : h[n] = IF s[n].id = i THEN h[n - 1] ELSE Append(h[n - 1], s[n])

LEMMA WithoutRuns ==
  ASSUME NEW s \in Seq(Rec), NEW i
  PROVE  \E h : Reg!Without(s, i) = h[Len(s)] /\ LeavesOut(h, s, i)
<1> DEFINE N == Len(s)
           X == Seq(Rec)
           Put1(y, n) == IF s[n].id = i THEN y ELSE Append(y, s[n])
           F == [n \in 1..N |-> [y \in X |-> Put1(y, n)]]
           Run(h) == h = [n \in 0..N |-> IF n = 0 THEN <<>> ELSE Put1(h[n - 1], n)]
<1>1. N \in Nat /\ <<>> \in X /\ \A n \in 1..N : s[n] \in Rec
  OBVIOUS
<1>2. \A n \in 1..N, y \in X : Put1(y, n) \in X
  BY <1>1
<1>3. F \in [1..N -> [X -> X]]
  BY <1>2
<1>4. \A n \in 1..N, y \in X : F[n][y] = Put1(y, n)
  OBVIOUS
<1> HIDE DEF F, X, Put1
<1>12. PICK f : Iterates(f, N, X, <<>>, F)
  BY <1>1, <1>3, Iterated
<1>5. f \in [0..N -> X] /\ f[0] = <<>> /\ \A n \in 1..N : f[n] = F[n][f[n - 1]]
  BY <1>12 DEF Iterates
<1>6. \A n \in 0..N : f[n] = IF n = 0 THEN <<>> ELSE Put1(f[n - 1], n)
  <2> SUFFICES ASSUME NEW n \in 0..N, n # 0 PROVE f[n] = Put1(f[n - 1], n)
    BY <1>5
  <2>1. n \in 1..N /\ n - 1 \in 0..N
    BY <1>1
  <2> QED BY <1>4, <1>5, <2>1
<1>7. Run(f)
  <2>1. f = [n \in 0..N |-> f[n]]
    BY <1>5
  <2> QED BY <1>6, <2>1
<1> DEFINE h == CHOOSE k : Run(k)
<1>8. Run(h)
  BY <1>7
<1>9. Reg!Without(s, i) = h[N]
  BY DEF Reg!Without, Put1
<1>10. \A n \in 0..N : h[n] = IF n = 0 THEN <<>> ELSE Put1(h[n - 1], n)
  <2> HIDE DEF h
  <2> QED BY <1>8
<1> HIDE DEF h
<1>11. h[0] = <<>> /\ \A n \in 1..N : h[n] = Put1(h[n - 1], n)
  BY <1>1, <1>10
<1> QED BY <1>9, <1>11 DEF Put1, LeavesOut

\* Every slot of t is one of s.
From(t, s) == \A n \in DOMAIN t : \E m \in DOMAIN s : t[n] = s[m]

LEMMA FromFits ==
  ASSUME NEW s, NEW t, Fits(s), t \in Seq(Rec), KeysApart(t), From(t, s)
  PROVE  /\ Fits(t) /\ Reg!KeysOf(t) \subseteq Reg!KeysOf(s) /\ Reg!IdsOf(t) \subseteq Reg!IdsOf(s)
         /\ Plain(s) => Plain(t)
         /\ \A m \in DOMAIN s, n \in DOMAIN t :
              s[m].key = t[n].key /\ s[m].mirror = "user" => t[n].mirror = "user"
<1>1. Fits(t)
  BY DEF Fits, From, OwnNames
<1>2. Reg!KeysOf(t) \subseteq Reg!KeysOf(s) /\ Reg!IdsOf(t) \subseteq Reg!IdsOf(s)
  BY DEF Reg!KeysOf, Reg!IdsOf, From
<1>3. Plain(s) => Plain(t)
  BY DEF Plain, From
<1>4. \A m \in DOMAIN s, n \in DOMAIN t :
        s[m].key = t[n].key /\ s[m].mirror = "user" => t[n].mirror = "user"
  BY DEF From, Fits, KeysApart
<1> QED BY <1>1, <1>2, <1>3, <1>4

LEMMA WithoutFits ==
  ASSUME NEW s, NEW i, Fits(s), IdsApart(s)
  PROVE  /\ Reg!Without(s, i) \in Seq(Rec) /\ KeysApart(Reg!Without(s, i)) /\ IdsApart(Reg!Without(s, i))
         /\ From(Reg!Without(s, i), s) /\ i \notin Reg!IdsOf(Reg!Without(s, i))
<1>7. s \in Seq(Rec)
  BY DEF Fits
<1>8. PICK h : Reg!Without(s, i) = h[Len(s)] /\ LeavesOut(h, s, i)
  BY <1>7, WithoutRuns
<1>1. /\ Reg!Without(s, i) = h[Len(s)] /\ h[0] = <<>>
      /\ \A n \in 1..Len(s) : h[n] = IF s[n].id = i THEN h[n - 1] ELSE Append(h[n - 1], s[n])
  BY <1>8 DEF LeavesOut
<1>2. s \in Seq(Rec) /\ Len(s) \in Nat /\ DOMAIN s = 1..Len(s) /\ \A n \in 1..Len(s) : s[n] \in Rec
  BY DEF Fits
<1> DEFINE Well(t, n) == /\ t \in Seq(Rec) /\ KeysApart(t) /\ IdsApart(t)
                         /\ \A k \in DOMAIN t : \E m \in 1..n : t[k] = s[m] /\ s[m].id # i
           T == {n \in 0..Len(s) : Well(h[n], n)}
<1>3. 0 \in T
  <2>1. Well(<<>>, 0)
    BY DEF KeysApart, IdsApart
  <2>2. 0 \in 0..Len(s) /\ h[0] = <<>>
    BY <1>1, <1>2
  <2> HIDE DEF Well
  <2> QED BY <2>1, <2>2
<1>4. \A n \in 0..Len(s) : n \in T /\ n < Len(s) => n + 1 \in T
  <2> SUFFICES ASSUME NEW n \in 0..Len(s), Well(h[n], n), n < Len(s)
               PROVE  Well(h[n + 1], n + 1)
    BY <1>2
  <2> DEFINE t == h[n]
             x == s[n + 1]
  <2>1. /\ n + 1 \in 1..Len(s) /\ n + 1 - 1 = n /\ n + 1 \in DOMAIN s
        /\ \A m \in 1..n : m \in 1..(n + 1) /\ m \in DOMAIN s /\ m # n + 1
    BY <1>2
  <2>2. h[n + 1] = (IF x.id = i THEN t ELSE Append(t, x)) /\ x \in Rec /\ Well(t, n)
    BY <1>1, <1>2, <2>1
  <2>3. \A k \in DOMAIN t : t[k].key # x.key /\ t[k].id # x.id
    BY <2>1, <2>2 DEF Fits, KeysApart, IdsApart
  <2>4. CASE x.id = i
    BY <2>1, <2>2, <2>4
  <2>5. CASE x.id # i
    <3> DEFINE u == Append(t, x)
    <3>1. h[n + 1] = u
      BY <2>2, <2>5
    <3>2. /\ u \in Seq(Rec) /\ DOMAIN u = DOMAIN t \cup {Len(t) + 1}
          /\ \A k \in DOMAIN t : u[k] = t[k]
          /\ u[Len(t) + 1] = x /\ Len(t) + 1 \notin DOMAIN t
      BY <2>2, Appended
    <3> HIDE DEF u
    <3>3. KeysApart(u) /\ IdsApart(u)
      BY <2>2, <2>3, <3>2 DEF KeysApart, IdsApart
    <3>4. \A k \in DOMAIN u : \E m \in 1..(n + 1) : u[k] = s[m] /\ s[m].id # i
      BY <2>1, <2>2, <2>5, <3>2
    <3> QED BY <3>1, <3>2, <3>3, <3>4
  <2> QED BY <2>4, <2>5
<1>5. Len(s) \in T
  <2> HIDE DEF T
  <2>1. 0..Len(s) \subseteq T
    BY <1>2, <1>3, <1>4, UpTo
  <2> QED BY <1>2, <2>1
<1>6. Well(Reg!Without(s, i), Len(s))
  BY <1>1, <1>5
<1> QED BY <1>2, <1>6 DEF From, Reg!IdsOf

LEMMA Cut ==
  ASSUME NEW E, NEW s \in Seq(E), NEW i \in 1..Len(s)
  PROVE  LET t == SubSeq(s, 1, i - 1) \o SubSeq(s, i + 1, Len(s)) IN
         /\ t \in Seq(E) /\ Len(t) = Len(s) - 1 /\ DOMAIN t = 1..(Len(s) - 1)
         /\ \A n \in 1..(Len(s) - 1) : t[n] = s[IF n < i THEN n ELSE n + 1]
<1> DEFINE p == SubSeq(s, 1, i - 1)
           q == SubSeq(s, i + 1, Len(s))
<1>0. Len(s) \in Nat /\ i \in Nat /\ \A n \in 1..Len(s) : s[n] \in E
  OBVIOUS
<1>1. p \in Seq(E) /\ Len(p) = i - 1 /\ \A n \in 1..(i - 1) : p[n] = s[n]
  <2>1. \A n \in 1..(i - 1) : n \in 1..Len(s) /\ s[n] \in E
    BY <1>0
  <2> QED BY <1>0, <2>1, SubSeqProperties
<1>2. q \in Seq(E) /\ Len(q) = Len(s) - i /\ \A n \in 1..(Len(s) - i) : q[n] = s[i + n]
  <2>1. \A n \in (i + 1)..Len(s) : n \in 1..Len(s) /\ s[n] \in E
    BY <1>0
  <2> QED BY <1>0, <2>1, SubSeqProperties
<1> DEFINE t == p \o q
<1> HIDE DEF p, q
<1>3. t \in Seq(E) /\ Len(t) = Len(p) + Len(q)
      /\ \A n \in 1..Len(t) : t[n] = IF n <= Len(p) THEN p[n] ELSE q[n - Len(p)]
  <2>1. /\ t \in Seq(E) /\ Len(t) = Len(p) + Len(q)
        /\ \A n \in 1..(Len(p) + Len(q)) : t[n] = IF n <= Len(p) THEN p[n] ELSE q[n - Len(p)]
    BY <1>1, <1>2, ConcatProperties
  <2> HIDE DEF t
  <2> QED BY <2>1
<1> HIDE DEF t
<1>4. Len(t) = Len(s) - 1 /\ DOMAIN t = 1..(Len(s) - 1)
  BY <1>0, <1>1, <1>2, <1>3
<1>5. \A n \in 1..(Len(s) - 1) : t[n] = s[IF n < i THEN n ELSE n + 1]
  <2> SUFFICES ASSUME NEW n \in 1..(Len(s) - 1) PROVE t[n] = s[IF n < i THEN n ELSE n + 1]
    OBVIOUS
  <2>1. CASE n < i
    <3>1. n \in 1..(i - 1) /\ n \in 1..Len(t) /\ n <= Len(p)
      BY <1>0, <1>1, <1>4, <2>1
    <3> QED BY <1>1, <1>3, <2>1, <3>1
  <2>2. CASE ~(n < i)
    <3>1. /\ n - (i - 1) \in 1..(Len(s) - i) /\ n \in 1..Len(t) /\ ~(n <= Len(p))
          /\ i + (n - (i - 1)) = n + 1
      BY <1>0, <1>1, <1>4, <2>2
    <3> QED BY <1>1, <1>2, <1>3, <2>2, <3>1
  <2> QED BY <2>1, <2>2
<1> QED BY <1>3, <1>4, <1>5 DEF t, p, q

LEMMA RemovedFits ==
  ASSUME NEW s, NEW i \in DOMAIN s, Fits(s), IdsApart(s)
  PROVE  /\ Reg!RemoveAt(s, i) \in Seq(Rec) /\ KeysApart(Reg!RemoveAt(s, i)) /\ IdsApart(Reg!RemoveAt(s, i))
         /\ From(Reg!RemoveAt(s, i), s)
<1> DEFINE t == Reg!RemoveAt(s, i)
<1>1. s \in Seq(Rec) /\ Len(s) \in Nat /\ DOMAIN s = 1..Len(s) /\ i \in 1..Len(s)
  BY DEF Fits
<1>2. t \in Seq(Rec) /\ Len(t) = Len(s) - 1 /\ DOMAIN t = 1..(Len(s) - 1)
  BY <1>1, Cut DEF Reg!RemoveAt
<1>3. \A n \in 1..(Len(s) - 1) : t[n] = s[IF n < i THEN n ELSE n + 1]
  BY <1>1, Cut DEF Reg!RemoveAt
<1> HIDE DEF t
<1>4. KeysApart(t) /\ IdsApart(t)
  <2> SUFFICES ASSUME NEW m \in DOMAIN t, NEW n \in DOMAIN t, m # n
               PROVE  t[m].key # t[n].key /\ t[m].id # t[n].id
    BY DEF KeysApart, IdsApart
  <2> DEFINE p == IF m < i THEN m ELSE m + 1
             q == IF n < i THEN n ELSE n + 1
  <2>1. p \in DOMAIN s /\ q \in DOMAIN s /\ p # q
    BY <1>1, <1>2
  <2>2. t[m] = s[p] /\ t[n] = s[q]
    BY <1>2, <1>3
  <2> HIDE DEF p, q
  <2> QED BY <2>1, <2>2 DEF Fits, KeysApart, IdsApart
<1>5. From(t, s)
  <2> SUFFICES ASSUME NEW n \in DOMAIN t PROVE \E m \in DOMAIN s : t[n] = s[m]
    BY DEF From
  <2>1. (IF n < i THEN n ELSE n + 1) \in DOMAIN s
    BY <1>1, <1>2
  <2> QED BY <1>2, <1>3, <2>1
<1> QED BY <1>2, <1>4, <1>5 DEF t

LEMMA EnrichedFits ==
  ASSUME NEW s, Fits(s)
  PROVE  /\ Fits(Reg!Enriched(s)) /\ Keeps(s, Reg!Enriched(s)) /\ DOMAIN Reg!Enriched(s) = DOMAIN s
         /\ \A n \in DOMAIN s : Reg!Enriched(s)[n].id = s[n].id
         /\ Reg!KeysOf(Reg!Enriched(s)) = Reg!KeysOf(s)
         /\ IdsApart(s) => IdsApart(Reg!Enriched(s))
         /\ Plain(s) => Plain(Reg!Enriched(s))
<1> DEFINE t == Reg!Enriched(s)
<1>1. t = [n \in DOMAIN s |-> IF s[n].legacy \in Accounts /\ s[n].mirror = "none"
                              THEN [s[n] EXCEPT !.mirror = "filled"] ELSE s[n]]
  BY DEF Reg!Enriched
<1>2. \A n \in DOMAIN s : s[n] \in Rec
  BY DEF Fits
<1>3. \A n \in DOMAIN s :
        /\ t[n].key = s[n].key /\ t[n].legacy = s[n].legacy /\ t[n].id = s[n].id
        /\ s[n].mirror = "user" => t[n].mirror = "user"
  BY <1>1, <1>2 DEF Rec
<1>4. \A n \in DOMAIN s : t[n] \in Rec
  BY <1>1, <1>2 DEF Rec
<1>5. DOMAIN t = DOMAIN s
  BY <1>1
<1>6. t \in Seq(Rec)
  <2>1. t = [n \in DOMAIN s |-> t[n]]
    BY <1>1
  <2> QED BY <1>4, <1>5, <2>1, Mapped DEF Fits
<1> HIDE DEF t
<1>7. Fits(t)
  BY <1>3, <1>5, <1>6 DEF Fits, KeysApart, OwnNames
<1>8. Keeps(s, t) /\ Reg!KeysOf(t) = Reg!KeysOf(s)
  BY <1>3, <1>5 DEF Keeps, Reg!KeysOf
<1>9. (IdsApart(s) => IdsApart(t)) /\ (Plain(s) => Plain(t))
  BY <1>3, <1>5 DEF IdsApart, Plain
<1> QED BY <1>3, <1>5, <1>7, <1>8, <1>9 DEF t

LEMMA DefaultFits ==
  /\ Fits(Reg!Default) /\ IdsApart(Reg!Default) /\ Plain(Reg!Default) /\ Reg!KeysOf(Reg!Default) = {Main}
  /\ DOMAIN Reg!Default = {1} /\ Reg!Default[1] = Reg!Slot(Main, Main)
<1>1. Main \in Reg!Ids /\ Main \in Reg!Keys /\ Main \notin Reg!Claudes
  BY RegistryAssumption DEF Reg!Ids, Reg!Keys
<1>2. Reg!Slot(Main, Main) \in Rec
  BY <1>1 DEF Reg!Slot, Rec
<1>3. Reg!Default \in Seq(Rec) /\ DOMAIN Reg!Default = {1} /\ Reg!Default[1] = Reg!Slot(Main, Main)
  BY <1>2 DEF Reg!Default
<1>4. Reg!Default[1].id = Main /\ Reg!Default[1].key = Main /\ Reg!Default[1].legacy = Main
  BY <1>3 DEF Reg!Slot
<1> QED BY <1>1, <1>3, <1>4 DEF Fits, KeysApart, IdsApart, OwnNames, Plain, Reg!KeysOf

-----------------------------------------------------------------------------
(* The registry. *)

Booked(s) == Fits(s) /\ IdsApart(s)

\* What the user set up for the mirror of a session is not lost from s to t.
MirrorsStay(s, t) ==
  \A m \in DOMAIN s, n \in DOMAIN t :
    s[m].key = t[n].key /\ s[m].mirror = "user" => t[n].mirror = "user"

RegistryTypes ==
  /\ disk = slots
  /\ warming \cup live \subseteq Reg!Claudes /\ warmed \cup again \cup chosen \subseteq Reg!Keys
  /\ deleting \subseteq Reg!Ids /\ warming \subseteq warmed
  /\ holder \in Accounts \cup {NoAccount} /\ (holder # NoAccount => moved)
  /\ moved \in BOOLEAN /\ synced \in BOOLEAN

\* The bots on show are different bots, in different sessions; none is a conversation
\* that a created bot has or will have.
OffersApart ==
  /\ IsFiniteSet(offered)
  /\ \A b \in offered : b = Reg!Bot(b.id, b.key) /\ Found(b) /\ b.key \in Singles
  /\ \A b, d \in offered : b # d => b.id # d.id /\ b.key # d.key
  /\ \A b \in offered : b.id \in Reg!Claudes => b.key = b.id

SlotsBooked ==
  /\ Booked(slots)
  /\ ~moved => Plain(slots)
  /\ ~synced => Reg!KeysOf(slots) \subseteq Singles

WarmKeys == \A k \in Reg!KeysOf(slots) :
              k \in warmed /\ k \in Reg!Claudes /\ k \notin again => k \in live \cup warming \cup deleting

RegistryInv == RegistryTypes /\ OffersApart /\ SlotsBooked /\ WarmKeys

LEMMA NamesApart ==
  /\ Reg!Claudes \subseteq Reg!Ids /\ Reg!Ids \subseteq Reg!Keys /\ Singles \subseteq Reg!Keys
  /\ Accounts \subseteq Reg!Ids /\ Temps \subseteq Reg!Claudes /\ Foreign \subseteq Reg!Claudes
  /\ Reg!Convs \subseteq Reg!Claudes /\ Temps \subseteq Singles /\ Foreign \subseteq Singles
  /\ Accounts \subseteq Singles /\ Accounts \subseteq Reg!Keys
  /\ Shared \in Reg!Keys /\ Shared \in Singles
  /\ Main \in Accounts /\ Main \in Reg!Ids /\ Main \in Singles /\ Main \notin Reg!Claudes
  /\ Accounts \cap Reg!Claudes = {} /\ Shared \notin Reg!Claudes /\ Shared \notin Accounts
  /\ \A a \in Reg!Ids : a \in Accounts \/ a \in Reg!Claudes
  /\ NoAccount \notin Accounts
BY RegistryAssumption DEF Reg!Claudes, Reg!Ids, Reg!Keys, Singles, Reg!Convs

LEMMA MirrorsKept ==
  ASSUME NEW s, NEW t, Fits(t), Keeps(s, t)
  PROVE  MirrorsStay(s, t)
BY DEF MirrorsStay, Keeps, Fits, KeysApart

LEMMA RegistryGivesKept ==
  RegistryInv => Reg!TypeOK /\ Reg!OneSlotPerSession /\ Reg!RestartKeeps /\ Reg!ListedIsWarm /\ Reg!PhantomOnlyBySync
<1> SUFFICES ASSUME RegistryInv
             PROVE  Reg!TypeOK /\ Reg!OneSlotPerSession /\ Reg!RestartKeeps /\ Reg!ListedIsWarm /\ Reg!PhantomOnlyBySync
  OBVIOUS
<1> USE DEF RegistryInv
<1>1. Reg!TypeOK
  <2>1. \A n \in DOMAIN slots : slots[n] \in Rec
    BY DEF SlotsBooked, Booked, Fits
  <2> QED BY <2>1 DEF Reg!TypeOK, Rec, RegistryTypes
<1>2. Reg!OneSlotPerSession
  BY DEF Reg!OneSlotPerSession, SlotsBooked, Booked, Fits, KeysApart, IdsApart
<1>3. Reg!RestartKeeps
  <2> SUFFICES ASSUME disk # Torn, ~moved PROVE Reg!Load(disk) = slots
    BY DEF Reg!RestartKeeps
  <2>1. Plain(slots) /\ KeysApart(slots) /\ disk = slots
    BY DEF SlotsBooked, Booked, Fits, RegistryTypes
  <2>2. Reg!Distinct(Reg!Legacies(slots)) /\ Reg!Distinct(Reg!SlotIds(slots))
    BY <2>1 DEF Reg!Distinct, Reg!Legacies, Reg!SlotIds, Plain, KeysApart
  <2> QED BY <2>1, <2>2 DEF Reg!Load
<1>4. Reg!ListedIsWarm
  <2> SUFFICES ASSUME NEW n \in DOMAIN slots, slots[n].key \in (warmed \cap Reg!Claudes) \ again
               PROVE  slots[n].key \in live \cup warming \/ slots[n].id \in deleting
    BY DEF Reg!ListedIsWarm
  <2>1. slots[n].id = slots[n].key
    BY DEF SlotsBooked, Booked, Fits, OwnNames
  <2> QED BY <2>1 DEF WarmKeys, Reg!KeysOf
<1>5. Reg!PhantomOnlyBySync
  <2> SUFFICES ASSUME ~synced, NEW m \in DOMAIN slots, NEW n \in DOMAIN slots, m # n,
                      Reg!ConvOf(slots[m].key) = Reg!ConvOf(slots[n].key)
               PROVE  FALSE
    BY DEF Reg!PhantomOnlyBySync
  <2>1. slots[m].key \in Singles /\ slots[n].key \in Singles /\ slots[m].key # slots[n].key
    BY DEF SlotsBooked, Booked, Fits, KeysApart, Reg!KeysOf
  <2>2. \A k \in Singles, x \in Singles : Reg!ConvOf(k) = Reg!ConvOf(x) => k = x
    <3> SUFFICES ASSUME NEW k \in Singles, NEW x \in Singles, Reg!ConvOf(k) = Reg!ConvOf(x)
                 PROVE  k = x
      OBVIOUS
    <3>1. \A y \in Singles : y \in Temps => Conv[y] \in Reg!Convs /\ Conv[y] \notin Singles
      BY RegistryAssumption DEF Singles, Reg!Convs, Reg!Claudes, Reg!Ids
    <3> QED BY <3>1, RegistryAssumption DEF Reg!ConvOf
  <2> QED BY <2>1, <2>2
<1> QED BY <1>1, <1>2, <1>3, <1>4, <1>5

LEMMA RegistryStart ==
  ASSUME Reg!Init
  PROVE  RegistryInv
<1>1. RegistryTypes
  BY DEF Reg!Init, RegistryTypes
<1>2. OffersApart
  BY FS_EmptySet DEF Reg!Init, OffersApart
<1>3. SlotsBooked
  BY DefaultFits, NamesApart DEF Reg!Init, SlotsBooked, Booked
<1>4. WarmKeys
  BY DEF Reg!Init, WarmKeys
<1> QED BY <1>1, <1>2, <1>3, <1>4 DEF RegistryInv

\* A request that writes the registry writes its file.
LEMMA SetFits ==
  ASSUME NEW s, Fits(s), Reg!SetSlots(s), disk = slots, Booked(slots)
  PROVE  /\ disk' = slots' /\ Booked(slots')
         /\ slots' = s \/ (slots' = slots /\ ~(IdsApart(s) /\ Reg!Distinct(Reg!Legacies(s))))
<1>1. CASE Reg!Distinct(Reg!SlotIds(s)) /\ Reg!Distinct(Reg!Legacies(s))
  <2>1. slots' = s /\ disk' = s
    BY <1>1 DEF Reg!SetSlots, Reg!Saves
  <2>2. IdsApart(s)
    BY <1>1 DEF IdsApart, Reg!Distinct, Reg!SlotIds
  <2> QED BY <2>1, <2>2 DEF Booked
<1>2. CASE ~(Reg!Distinct(Reg!SlotIds(s)) /\ Reg!Distinct(Reg!Legacies(s)))
  <2>1. slots' = slots /\ disk' = disk
    BY <1>2 DEF Reg!SetSlots
  <2>2. IdsApart(s) => Reg!Distinct(Reg!SlotIds(s))
    BY DEF IdsApart, Reg!Distinct, Reg!SlotIds
  <2> QED BY <1>2, <2>1, <2>2
<1> QED BY <1>1, <1>2

-----------------------------------------------------------------------------
(* The requests one by one. *)
\* A step that leaves the bots on show and the account that holds the session alone.
LEMMA RegistryStays ==
  ASSUME RegistryInv, UNCHANGED <<offered, holder, moved>>,
         disk' = slots', Booked(slots'), ~moved => Plain(slots'),
         synced' = synced \/ synced' = TRUE, ~synced' => Reg!KeysOf(slots') \subseteq Singles,
         warming' \cup live' \subseteq Reg!Claudes, warmed' \cup again' \cup chosen' \subseteq Reg!Keys,
         deleting' \subseteq Reg!Ids, warming' \subseteq warmed', WarmKeys'
  PROVE  RegistryInv'
<1>1. RegistryTypes'
  BY DEF RegistryInv, RegistryTypes
<1>2. OffersApart'
  BY DEF RegistryInv, OffersApart, Found
<1>3. SlotsBooked'
  BY DEF SlotsBooked
<1> QED BY <1>1, <1>2, <1>3 DEF RegistryInv

LEMMA MovesStep ==
  ASSUME RegistryInv, Reg!SessionMoves
  PROVE  RegistryInv' /\ deleting' = deleting /\ slots' = slots
<1> USE DEF Reg!SessionMoves, Reg!hist
<1>1. RegistryTypes'
  BY DEF RegistryInv, RegistryTypes
<1>2. OffersApart'
  BY DEF RegistryInv, OffersApart, Found
<1>3. SlotsBooked' /\ WarmKeys'
  BY DEF RegistryInv, SlotsBooked, WarmKeys
<1> QED BY <1>1, <1>2, <1>3 DEF RegistryInv

LEMMA BotsFound ==
  ASSUME RegistryInv
  PROVE  /\ IsFiniteSet(Reg!AccountBots) /\ IsFiniteSet(Reg!ClaudeBots)
         /\ \A b \in Reg!AccountBots : /\ b = Reg!Bot(b.id, b.key) /\ b.id \in Accounts /\ Found(b)
                                       /\ b.key = IF holder = b.id THEN Shared ELSE b.id
         /\ \A b \in Reg!ClaudeBots : /\ b = Reg!Bot(b.id, b.key) /\ b.id = b.key /\ b.id \in Reg!Claudes
                                      /\ Found(b) /\ b.id \in Reg!Managed \cup Foreign
<1>1. IsFiniteSet(Reg!AccountBots)
  <2> DEFINE f == [a \in Accounts |-> Reg!Bot(a, IF holder = a THEN Shared ELSE a)]
  <2>1. f \in [Accounts -> Reg!AccountBots] /\ \A y \in Reg!AccountBots : \E a \in Accounts : f[a] = y
    BY DEF Reg!AccountBots
  <2> HIDE DEF f
  <2> QED BY <2>1, ImageFinite, RegistryAssumption
<1>2. IsFiniteSet(Reg!Convs)
  <2> DEFINE T == {Conv[t] : t \in Temps}
             f == [t \in Temps |-> Conv[t]]
  <2>2. f \in [Temps -> T] /\ \A y \in T : \E t \in Temps : f[t] = y
    OBVIOUS
  <2> HIDE DEF f
  <2>1. IsFiniteSet(T)
    BY <2>2, ImageFinite, RegistryAssumption
  <2> QED BY <2>1, FS_Union, RegistryAssumption DEF Reg!Convs
<1>3. IsFiniteSet(Reg!Claudes)
  BY <1>2, FS_Union, RegistryAssumption DEF Reg!Claudes
<1>4. Reg!Managed \subseteq Reg!Claudes
  BY NamesApart DEF RegistryInv, RegistryTypes, Reg!Managed, Reg!ConvOf, Reg!Convs
<1>5. IsFiniteSet(Reg!Managed \cup Foreign)
  <2>1. Reg!Managed \cup Foreign \subseteq Reg!Claudes
    BY <1>4, NamesApart
  <2> QED BY <1>3, <2>1, FS_Subset
<1>6. IsFiniteSet(Reg!ClaudeBots)
  <2> DEFINE f == [d \in Reg!Managed \cup Foreign |-> Reg!Bot(d, d)]
  <2>1. f \in [Reg!Managed \cup Foreign -> Reg!ClaudeBots]
        /\ \A y \in Reg!ClaudeBots : \E d \in Reg!Managed \cup Foreign : f[d] = y
    BY DEF Reg!ClaudeBots
  <2> HIDE DEF f
  <2> QED BY <1>5, <2>1, ImageFinite
<1>7. ASSUME NEW b \in Reg!AccountBots
      PROVE  /\ b = Reg!Bot(b.id, b.key) /\ b.id \in Accounts /\ Found(b)
             /\ b.key = IF holder = b.id THEN Shared ELSE b.id
  <2>1. PICK a \in Accounts : b = Reg!Bot(a, IF holder = a THEN Shared ELSE a)
    BY DEF Reg!AccountBots
  <2>2. b.id = a /\ b.key = (IF holder = a THEN Shared ELSE a) /\ b = Reg!Bot(b.id, b.key)
    BY <2>1 DEF Reg!Bot
  <2>3. holder = a => moved
    BY NamesApart DEF RegistryInv, RegistryTypes
  <2> QED BY <2>2, <2>3, NamesApart DEF Found
<1>8. ASSUME NEW b \in Reg!ClaudeBots
      PROVE  /\ b = Reg!Bot(b.id, b.key) /\ b.id = b.key /\ b.id \in Reg!Claudes /\ Found(b)
             /\ b.id \in Reg!Managed \cup Foreign
  <2>1. PICK d \in Reg!Managed \cup Foreign : b = Reg!Bot(d, d)
    BY DEF Reg!ClaudeBots
  <2>2. b.id = d /\ b.key = d /\ d \in Reg!Claudes
    BY <1>4, <2>1, NamesApart DEF Reg!Bot
  <2> QED BY <2>1, <2>2, NamesApart DEF Found
<1> QED BY <1>1, <1>6, <1>7, <1>8

LEMMA DiscoverOnlyStep ==
  ASSUME RegistryInv, Reg!DiscoverOnly
  PROVE  RegistryInv' /\ deleting' = deleting /\ slots' = slots
<1> USE DEF Reg!DiscoverOnly, Reg!hist
<1>1. RegistryTypes'
  BY DEF RegistryInv, RegistryTypes
<1>2. SlotsBooked' /\ WarmKeys'
  BY DEF RegistryInv, SlotsBooked, WarmKeys
<1>3. IsFiniteSet(offered')
  <2>1. IsFiniteSet(Reg!AccountBots \cup Reg!ClaudeBots)
    BY BotsFound, FS_Union
  <2> QED BY <2>1, FS_Subset
<1>4. ASSUME NEW b \in offered'
      PROVE  /\ b = Reg!Bot(b.id, b.key) /\ Found(b) /\ b.key \in Singles
             /\ b.id \in Accounts \/ (b.id \in Reg!Claudes /\ b.key = b.id)
             /\ b.id \in Accounts => b.key = IF holder = b.id THEN Shared ELSE b.id
  <2>1. b \in Reg!AccountBots \/ (b \in Reg!ClaudeBots /\ b.key \notin Reg!Managed)
    OBVIOUS
  <2> QED BY <2>1, BotsFound, NamesApart
<1>5. \A b, d \in offered' : b # d => b.id # d.id /\ b.key # d.key
  <2> SUFFICES ASSUME NEW b \in offered', NEW d \in offered', b.id = d.id \/ b.key = d.key
               PROVE  b = d
    OBVIOUS
  <2>1. b.id = d.id /\ b.key = d.key
    BY <1>4, NamesApart
  <2>2. b = Reg!Bot(b.id, b.key) /\ d = Reg!Bot(d.id, d.key)
    BY <1>4
  <2> QED BY <2>1, <2>2
<1>6. \A b \in offered' : b.id \in Reg!Claudes => b.key = b.id
  BY <1>4, NamesApart
<1>7. \A b \in offered' : b = Reg!Bot(b.id, b.key) /\ Found(b)' /\ b.key \in Singles
  BY <1>4 DEF Found
<1>8. OffersApart'
  BY <1>3, <1>5, <1>6, <1>7 DEF OffersApart
<1> QED BY <1>1, <1>2, <1>8 DEF RegistryInv

LEMMA GetSlotsStep ==
  ASSUME RegistryInv, Reg!GetSlots
  PROVE  RegistryInv' /\ deleting' = deleting /\ slots' = slots
<1> USE DEF Reg!GetSlots, Reg!hist
<1>1. Reg!KeysOf(slots) \subseteq Reg!Keys
  <2>1. \A n \in DOMAIN slots : slots[n] \in Rec
    BY DEF RegistryInv, SlotsBooked, Booked, Fits
  <2> QED BY <2>1 DEF Reg!KeysOf, Rec
<1>2. RegistryTypes'
  BY <1>1 DEF RegistryInv, RegistryTypes, Reg!Warm
<1>3. OffersApart'
  BY DEF RegistryInv, OffersApart, Found
<1>4. SlotsBooked' /\ WarmKeys'
  BY DEF RegistryInv, SlotsBooked, WarmKeys, Reg!Warm
<1> QED BY <1>2, <1>3, <1>4 DEF RegistryInv

LEMMA PreWarmedStep ==
  ASSUME RegistryInv, NEW k \in Reg!Claudes, Reg!PreWarmed(k)
  PROVE  RegistryInv' /\ deleting' = deleting /\ slots' = slots
<1> USE DEF Reg!PreWarmed, Reg!hist
<1>2. RegistryTypes'
  BY DEF RegistryInv, RegistryTypes
<1>3. OffersApart'
  BY DEF RegistryInv, OffersApart, Found
<1>4. SlotsBooked' /\ WarmKeys'
  BY DEF RegistryInv, SlotsBooked, WarmKeys
<1> QED BY <1>2, <1>3, <1>4 DEF RegistryInv

LEMMA SelectStep ==
  ASSUME RegistryInv, NEW way \in {"append", "replace"}, NEW p \in SUBSET offered,
         Reg!SelectBots(way, p)
  PROVE  /\ RegistryInv' /\ deleting' = deleting
         /\ way # "replace" => MirrorsStay(slots, slots')
<1> DEFINE P   == {Reg!Slot(b.id, b.key) : b \in p}
           new == Reg!SetToSeq(P)
           all == IF way = "append" THEN Reg!Merged(slots, new) ELSE new
<1>1. IsFiniteSet(P)
  <2>1. IsFiniteSet(p)
    BY FS_Subset DEF RegistryInv, OffersApart
  <2> DEFINE f == [b \in p |-> Reg!Slot(b.id, b.key)]
  <2>2. f \in [p -> P] /\ \A y \in P : \E b \in p : f[b] = y
    OBVIOUS
  <2> HIDE DEF f, P
  <2> QED BY <2>1, <2>2, ImageFinite
<1>11. \A b \in p : /\ Found(b) /\ b.key \in Singles
                     /\ Reg!Slot(b.id, b.key).id = b.id /\ Reg!Slot(b.id, b.key).legacy = b.id
                     /\ Reg!Slot(b.id, b.key).key = b.key
                     /\ Reg!Slot(b.id, b.key) \in Rec
  <2> SUFFICES ASSUME NEW b \in p
               PROVE  /\ Found(b) /\ b.key \in Singles
                      /\ Reg!Slot(b.id, b.key).id = b.id /\ Reg!Slot(b.id, b.key).legacy = b.id
                      /\ Reg!Slot(b.id, b.key).key = b.key
                      /\ Reg!Slot(b.id, b.key) \in Rec
    OBVIOUS
  <2>1. Found(b) /\ b.key \in Singles
    BY DEF RegistryInv, OffersApart
  <2> QED BY <2>1 DEF Found, Reg!Slot, Rec
<1>2. \A x \in P : /\ Fresh(x) /\ x.legacy = x.id /\ x.key \in Singles
                   /\ ~moved => x.id = x.key
  <2> SUFFICES ASSUME NEW b \in p
               PROVE  LET x == Reg!Slot(b.id, b.key) IN
                      /\ Fresh(x) /\ x.legacy = x.id /\ x.key \in Singles
                      /\ ~moved => x.id = x.key
    OBVIOUS
  <2> QED BY <1>11 DEF Fresh, Found
<1>3. \A x, y \in P : x # y => x.id # y.id /\ x.key # y.key
  <2> SUFFICES ASSUME NEW b \in p, NEW d \in p, Reg!Slot(b.id, b.key) # Reg!Slot(d.id, d.key)
               PROVE  b.id # d.id /\ b.key # d.key
    BY <1>11
  <2>1. b # d /\ b \in offered /\ d \in offered
    OBVIOUS
  <2> QED BY <2>1 DEF RegistryInv, OffersApart
<1> HIDE DEF P
<1>4. /\ new \in Seq(P) /\ \A n \in DOMAIN new : new[n] \in P
      /\ \A m, n \in DOMAIN new : m # n => new[m] # new[n]
  BY <1>1, ListOfSet
<1> HIDE DEF new
<1>5. Fits(new) /\ IdsApart(new) /\ (~moved => Plain(new)) /\ Reg!KeysOf(new) \subseteq Singles
  <2>1. new \in Seq(Rec)
    <3>1. P \subseteq Rec
      BY <1>2 DEF Fresh
    <3> QED BY <1>4, <3>1
  <2> QED BY <1>2, <1>3, <1>4, <2>1 DEF Fits, KeysApart, OwnNames, IdsApart, Plain, Reg!KeysOf, Fresh
<1>6. Booked(slots) /\ (~moved => Plain(slots)) /\ (~synced => Reg!KeysOf(slots) \subseteq Singles)
  BY DEF RegistryInv, SlotsBooked
<1>7. /\ Booked(all) /\ (~moved => Plain(all))
      /\ Reg!KeysOf(all) \subseteq Reg!KeysOf(slots) \cup Reg!KeysOf(new)
      /\ way # "replace" => Keeps(slots, all)
  BY <1>5, <1>6, MergedFits DEF Booked
<1> HIDE DEF all
<1>8. UNCHANGED <<live, deleting, offered, holder, moved, synced>>
  BY DEF Reg!SelectBots
<1>9. CASE way = "replace" /\ ~Reg!Distinct(Reg!SlotIds(new))
  <2>1. UNCHANGED <<slots, disk, warmed, warming, again, chosen>>
    BY <1>9 DEF Reg!SelectBots, new, P
  <2>2. WarmKeys' /\ disk' = slots' /\ Booked(slots')
    BY <1>8, <2>1 DEF RegistryInv, WarmKeys, SlotsBooked, RegistryTypes
  <2>3. RegistryInv'
    BY <1>6, <1>8, <2>1, <2>2, RegistryStays DEF RegistryInv, RegistryTypes
  <2> QED BY <1>8, <1>9, <2>3
<1>10. CASE ~(way = "replace" /\ ~Reg!Distinct(Reg!SlotIds(new)))
  <2>1. /\ slots' = Reg!Enriched(all) /\ disk' = Reg!Enriched(all)
        /\ warmed' = warmed \cup Reg!KeysOf(new) /\ warming' = warming \cup (Reg!KeysOf(new) \cap Reg!Claudes)
        /\ again' = again \ Reg!KeysOf(new) /\ chosen' = chosen \cup Reg!KeysOf(new)
    BY <1>10 DEF Reg!SelectBots, new, P, all, Reg!Saves, Reg!Warm
  <2>2. /\ Booked(slots') /\ (~moved => Plain(slots')) /\ Keeps(all, slots')
        /\ Reg!KeysOf(slots') \subseteq Reg!KeysOf(slots) \cup Reg!KeysOf(new)
    BY <1>7, <2>1, EnrichedFits DEF Booked
  <2>3. WarmKeys'
    BY <1>8, <2>1, <2>2 DEF RegistryInv, WarmKeys
  <2>4. RegistryInv'
    BY <1>5, <1>6, <1>8, <2>1, <2>2, <2>3, RegistryStays, NamesApart DEF RegistryInv, RegistryTypes
  <2>5. way # "replace" => MirrorsStay(slots, slots')
    BY <1>7, <2>2, KeepsOn, MirrorsKept DEF Booked
  <2> QED BY <1>8, <2>4, <2>5
<1> QED BY <1>9, <1>10

LEMMA CreateStep ==
  ASSUME RegistryInv, NEW t \in Temps, Reg!CreateBot(t)
  PROVE  RegistryInv' /\ deleting' = deleting /\ MirrorsStay(slots, slots')
<1> DEFINE new == <<Reg!Slot(t, t)>>
<1>1. /\ t \notin Reg!KeysOf(slots) /\ t \notin live /\ t \notin warmed
      /\ slots' = Reg!Merged(slots, new) /\ disk' = slots' /\ offered' = offered \cup {Reg!Bot(t, t)}
      /\ UNCHANGED <<warmed, warming, live, deleting, holder, moved, again, synced, chosen>>
  BY DEF Reg!CreateBot, Reg!Saves, Reg!hist
<1>2. Reg!Slot(t, t) \in Rec /\ Reg!Slot(t, t).key = t /\ Reg!Slot(t, t).id = t /\ Reg!Slot(t, t).legacy = t
  BY NamesApart DEF Reg!Slot, Rec
<1>3. new \in Seq(Rec) /\ DOMAIN new = {1} /\ new[1] = Reg!Slot(t, t)
  BY <1>2
<1> HIDE DEF new
<1>4. Fits(new) /\ Plain(new) /\ Reg!KeysOf(new) = {t}
  BY <1>2, <1>3 DEF Fits, KeysApart, OwnNames, Plain, Reg!KeysOf
<1>5. /\ Booked(slots') /\ (~moved => Plain(slots')) /\ Keeps(slots, slots')
      /\ Reg!KeysOf(slots') \subseteq Reg!KeysOf(slots) \cup {t}
  BY <1>1, <1>4, MergedFits DEF RegistryInv, SlotsBooked, Booked
<1>6. RegistryTypes'
  BY <1>1 DEF RegistryInv, RegistryTypes
<1>7. SlotsBooked'
  BY <1>1, <1>5, NamesApart DEF RegistryInv, SlotsBooked
<1>8. WarmKeys'
  BY <1>1, <1>5 DEF RegistryInv, WarmKeys
<1>9. OffersApart'
  <2> DEFINE x == Reg!Bot(t, t)
  <2>1. x.id = t /\ x.key = t /\ x = Reg!Bot(x.id, x.key)
    BY DEF Reg!Bot
  <2> HIDE DEF x
  <2>2. Found(x)
    BY <2>1, NamesApart DEF Found
  <2>3. \A b \in offered : b.id = t \/ b.key = t => b = x
    <3> SUFFICES ASSUME NEW b \in offered, b.id = t \/ b.key = t PROVE b = x
      OBVIOUS
    <3>1. b = Reg!Bot(b.id, b.key) /\ b.id = t /\ b.key = t
      BY NamesApart DEF RegistryInv, OffersApart, Found
    <3> QED BY <2>1, <3>1
  <2>4. offered' = offered \cup {x}
    BY <1>1 DEF x
  <2>5. IsFiniteSet(offered')
    BY <2>4, FS_AddElement DEF RegistryInv, OffersApart
  <2>6. \A b, d \in offered' : b # d => b.id # d.id /\ b.key # d.key
    BY <2>1, <2>3, <2>4 DEF RegistryInv, OffersApart
  <2>7. \A b \in offered' : /\ b = Reg!Bot(b.id, b.key) /\ Found(b)' /\ b.key \in Singles
                            /\ b.id \in Reg!Claudes => b.key = b.id
    BY <1>1, <2>1, <2>2, <2>4, NamesApart DEF RegistryInv, OffersApart, Found
  <2> QED BY <2>5, <2>6, <2>7 DEF OffersApart
<1> QED BY <1>1, <1>5, <1>6, <1>7, <1>8, <1>9, MirrorsKept DEF RegistryInv, Booked

-----------------------------------------------------------------------------
(* The synchronised discovery. *)
LEMMA DiscoveredFound ==
  ASSUME RegistryInv
  PROVE  Len(Reg!Discovered) \in Nat /\ DOMAIN Reg!Discovered = 1..Len(Reg!Discovered)
         /\ \A n \in 1..Len(Reg!Discovered) : Found(Reg!Discovered[n])
<1> DEFINE E == Reg!AccountBots \cup Reg!ClaudeBots
<1>1. Reg!SetToSeq(Reg!AccountBots) \in Seq(Reg!AccountBots) /\ Reg!SetToSeq(Reg!ClaudeBots) \in Seq(Reg!ClaudeBots)
  BY BotsFound, ListOfSet
<1>2. Reg!SetToSeq(Reg!AccountBots) \in Seq(E) /\ Reg!SetToSeq(Reg!ClaudeBots) \in Seq(E)
  <2>1. Reg!AccountBots \subseteq E /\ Reg!ClaudeBots \subseteq E
    OBVIOUS
  <2> HIDE DEF E
  <2> QED BY <1>1, <2>1
<1>3. \A b \in E : Found(b)
  BY BotsFound
<1> HIDE DEF E
<1>4. Reg!Discovered \in Seq(E)
  BY <1>2 DEF Reg!Discovered
<1> QED BY <1>3, <1>4, ListFacts

Filled(s) ==
  [n \in DOMAIN s |-> IF s[n].id \in Accounts /\ s[n].mirror = "none"
                      THEN [s[n] EXCEPT !.mirror = "filled"] ELSE s[n]]

LEMMA FilledFits ==
  ASSUME NEW s, Fits(s)
  PROVE  Fits(Filled(s)) /\ Keeps(s, Filled(s)) /\ Reg!KeysOf(Filled(s)) = Reg!KeysOf(s)
         /\ (Plain(s) => Plain(Filled(s)))
<1> DEFINE t == Filled(s)
<1>1. t = [n \in DOMAIN s |-> IF s[n].id \in Accounts /\ s[n].mirror = "none"
                              THEN [s[n] EXCEPT !.mirror = "filled"] ELSE s[n]]
  BY DEF Filled
<1>2. \A n \in DOMAIN s : s[n] \in Rec
  BY DEF Fits
<1>3. \A n \in DOMAIN s :
        /\ t[n].key = s[n].key /\ t[n].legacy = s[n].legacy /\ t[n].id = s[n].id
        /\ s[n].mirror = "user" => t[n].mirror = "user"
  BY <1>1, <1>2 DEF Rec
<1>4. \A n \in DOMAIN s : t[n] \in Rec
  BY <1>1, <1>2 DEF Rec
<1>5. DOMAIN t = DOMAIN s
  BY <1>1
<1>6. t \in Seq(Rec)
  <2>1. t = [n \in DOMAIN s |-> t[n]]
    BY <1>1
  <2> QED BY <1>4, <1>5, <2>1, Mapped DEF Fits
<1> HIDE DEF t
<1>7. Fits(t)
  BY <1>3, <1>5, <1>6 DEF Fits, KeysApart, OwnNames
<1>8. Keeps(s, t) /\ Reg!KeysOf(t) = Reg!KeysOf(s)
  BY <1>3, <1>5 DEF Keeps, Reg!KeysOf
<1>9. Plain(s) => Plain(t)
  BY <1>3, <1>5 DEF Plain
<1> QED BY <1>7, <1>8, <1>9 DEF t

Marked(s, found) ==
  [n \in DOMAIN s |-> IF s[n].key \in Reg!Claudes \ found THEN [s[n] EXCEPT !.online = FALSE]
                      ELSE s[n]]

LEMMA MarkedFits ==
  ASSUME NEW s, NEW found, Fits(s)
  PROVE  Fits(Marked(s, found)) /\ Keeps(s, Marked(s, found))
         /\ Reg!KeysOf(Marked(s, found)) = Reg!KeysOf(s)
         /\ (Plain(s) => Plain(Marked(s, found)))
<1> DEFINE t == Marked(s, found)
<1>1. t = [n \in DOMAIN s |-> IF s[n].key \in Reg!Claudes \ found
                              THEN [s[n] EXCEPT !.online = FALSE] ELSE s[n]]
  BY DEF Marked
<1>2. \A n \in DOMAIN s : s[n] \in Rec
  BY DEF Fits
<1>3. \A n \in DOMAIN s :
        /\ t[n].key = s[n].key /\ t[n].legacy = s[n].legacy /\ t[n].id = s[n].id
        /\ s[n].mirror = "user" => t[n].mirror = "user"
  BY <1>1, <1>2 DEF Rec
<1>4. \A n \in DOMAIN s : t[n] \in Rec
  <2> SUFFICES ASSUME NEW n \in DOMAIN s PROVE t[n] \in Rec
    OBVIOUS
  <2>1. s[n] \in Rec /\ FALSE \in BOOLEAN
    BY <1>2
  <2>2. [s[n] EXCEPT !.online = FALSE] \in Rec
    BY <2>1 DEF Rec
  <2> QED BY <1>1, <2>1, <2>2
<1>5. DOMAIN t = DOMAIN s
  BY <1>1
<1>6. t \in Seq(Rec)
  <2>1. t = [n \in DOMAIN s |-> t[n]]
    BY <1>1
  <2> QED BY <1>4, <1>5, <2>1, Mapped DEF Fits
<1> HIDE DEF t
<1>7. Fits(t)
  BY <1>3, <1>5, <1>6 DEF Fits, KeysApart, OwnNames
<1>8. Keeps(s, t) /\ Reg!KeysOf(t) = Reg!KeysOf(s)
  BY <1>3, <1>5 DEF Keeps, Reg!KeysOf
<1>9. Plain(s) => Plain(t)
  BY <1>3, <1>5 DEF Plain
<1> QED BY <1>7, <1>8, <1>9 DEF t

LEMMA PlainDistinct ==
  ASSUME NEW s, Fits(s), Plain(s)
  PROVE  IdsApart(s) /\ Reg!Distinct(Reg!Legacies(s))
BY DEF Fits, Plain, KeysApart, IdsApart, Reg!Distinct, Reg!Legacies

LEMMA SyncStep ==
  ASSUME RegistryInv, Reg!DiscoverAndSync
  PROVE  /\ RegistryInv' /\ deleting' = deleting /\ MirrorsStay(slots, slots')
         /\ moved \/ \A n \in DOMAIN Reg!Discovered : Reg!Discovered[n].key \in Reg!KeysOf(slots')
<1> DEFINE found  == {Reg!Discovered[n].key : n \in DOMAIN Reg!Discovered}
           filled == Filled(slots)
           placed == Reg!AllPlaced(filled, Reg!Discovered)
           marked == Marked(placed, found)
<1>1. /\ IF marked = slots THEN UNCHANGED <<slots, disk>> ELSE Reg!SetSlots(marked)
      /\ again' = again \cup ((Reg!KeysOf(slots') \ Reg!KeysOf(slots)) \cap warmed) /\ synced' = TRUE
      /\ UNCHANGED <<warmed, warming, live, deleting, offered, holder, moved, chosen>>
  BY DEF Reg!DiscoverAndSync, Filled, Marked, Reg!Back
<1>2. Booked(slots) /\ disk = slots /\ (~moved => Plain(slots))
  BY DEF RegistryInv, SlotsBooked, RegistryTypes
<1>3. Fits(filled) /\ Keeps(slots, filled) /\ (~moved => Plain(filled))
  BY <1>2, FilledFits DEF Booked
<1>4. \A n \in 1..Len(Reg!Discovered) : Found(Reg!Discovered[n])
  BY DiscoveredFound
<1>5. Len(Reg!Discovered) \in Nat /\ DOMAIN Reg!Discovered = 1..Len(Reg!Discovered)
  BY DiscoveredFound
<1> HIDE DEF filled
<1>6. /\ Fits(placed) /\ Keeps(filled, placed) /\ (~moved => Plain(placed))
      /\ Reg!KeysOf(placed) = Reg!KeysOf(filled) \cup {Reg!Discovered[n].key : n \in 1..Len(Reg!Discovered)}
  BY <1>3, <1>4, <1>5, AllPlacedFits
<1> HIDE DEF placed, found
<1>7. Fits(marked) /\ Keeps(placed, marked) /\ Reg!KeysOf(marked) = Reg!KeysOf(placed)
      /\ (~moved => Plain(marked))
  BY <1>6, MarkedFits
<1> HIDE DEF marked
<1>8. Keeps(slots, marked)
  BY <1>3, <1>6, <1>7, KeepsOn
<1>9. /\ disk' = slots' /\ Booked(slots')
      /\ slots' = marked \/ (slots' = slots /\ ~(IdsApart(marked) /\ Reg!Distinct(Reg!Legacies(marked))))
  <2>1. CASE marked = slots
    BY <1>1, <1>2, <2>1
  <2>2. CASE marked # slots
    <3>1. Reg!SetSlots(marked)
      BY <1>1, <2>2
    <3> QED BY <1>2, <1>7, <3>1, SetFits
  <2> QED BY <2>1, <2>2
<1>10. Keeps(slots, slots') /\ (~moved => Plain(slots'))
  BY <1>2, <1>7, <1>8, <1>9, KeepsItself
<1>11. WarmKeys'
  BY <1>1 DEF RegistryInv, WarmKeys
<1>12. RegistryInv'
  <2>1. /\ warming' \cup live' \subseteq Reg!Claudes /\ warmed' \cup again' \cup chosen' \subseteq Reg!Keys
        /\ deleting' \subseteq Reg!Ids /\ warming' \subseteq warmed'
    BY <1>1 DEF RegistryInv, RegistryTypes
  <2> QED BY <1>1, <1>9, <1>10, <1>11, <2>1, RegistryStays
<1>13. ~moved => slots' = marked
  BY <1>7, <1>9, PlainDistinct
<1>14. moved \/ \A n \in DOMAIN Reg!Discovered : Reg!Discovered[n].key \in Reg!KeysOf(slots')
  BY <1>5, <1>6, <1>7, <1>13
<1> QED BY <1>1, <1>9, <1>10, <1>12, <1>14, MirrorsKept DEF Booked

-----------------------------------------------------------------------------
(* The other requests. *)
LEMMA PutStep ==
  ASSUME RegistryInv, Reg!Put
  PROVE  RegistryInv' /\ deleting' = deleting /\ MirrorsStay(slots, slots')
<1>1. PICK i \in DOMAIN slots : Reg!SetSlots(Reg!RemoveAt(slots, i))
  BY DEF Reg!Put
<1>2. UNCHANGED <<warmed, warming, live, deleting, offered, holder, moved, again, synced, chosen>>
  BY DEF Reg!Put, Reg!hist
<1>3. Booked(slots) /\ disk = slots
  BY DEF RegistryInv, SlotsBooked, RegistryTypes
<1> DEFINE t == Reg!RemoveAt(slots, i)
<1>4. t \in Seq(Rec) /\ KeysApart(t) /\ IdsApart(t) /\ From(t, slots)
  BY <1>3, RemovedFits DEF Booked
<1> HIDE DEF t
<1>5. /\ Fits(t) /\ Reg!KeysOf(t) \subseteq Reg!KeysOf(slots) /\ (Plain(slots) => Plain(t))
      /\ MirrorsStay(slots, t)
  BY <1>3, <1>4, FromFits DEF Booked, MirrorsStay
<1>6. disk' = slots' /\ Booked(slots') /\ (slots' = t \/ slots' = slots)
  BY <1>1, <1>3, <1>5, SetFits DEF t
<1>7. MirrorsStay(slots, slots')
  BY <1>3, <1>5, <1>6, KeepsItself, MirrorsKept DEF Booked
<1>8. Reg!KeysOf(slots') \subseteq Reg!KeysOf(slots) /\ (Plain(slots) => Plain(slots'))
  BY <1>5, <1>6
<1>9. WarmKeys'
  BY <1>2, <1>8 DEF RegistryInv, WarmKeys
<1>10. RegistryInv'
  BY <1>2, <1>6, <1>8, <1>9, RegistryStays DEF RegistryInv, RegistryTypes, SlotsBooked
<1> QED BY <1>2, <1>7, <1>10

LEMMA PatchStep ==
  ASSUME RegistryInv, Reg!Patch
  PROVE  RegistryInv' /\ deleting' = deleting /\ MirrorsStay(slots, slots')
<1>1. PICK i \in DOMAIN slots : Reg!Saves([slots EXCEPT ![i].mirror = "user"])
  BY DEF Reg!Patch
<1>2. UNCHANGED <<warmed, warming, live, deleting, offered, holder, moved, again, synced, chosen>>
  BY DEF Reg!Patch, Reg!hist
<1>3. Fits(slots) /\ IdsApart(slots) /\ \A n \in DOMAIN slots : slots[n] \in Rec
  BY DEF RegistryInv, SlotsBooked, Booked, Fits
<1> DEFINE t == [slots EXCEPT ![i].mirror = "user"]
<1>4. slots' = t /\ disk' = slots'
  BY <1>1 DEF Reg!Saves
<1>5. DOMAIN t = DOMAIN slots
  OBVIOUS
<1>6. \A n \in DOMAIN slots :
        /\ t[n].key = slots[n].key /\ t[n].legacy = slots[n].legacy /\ t[n].id = slots[n].id
        /\ slots[n].mirror = "user" => t[n].mirror = "user"
        /\ t[n] \in Rec
  BY <1>3 DEF Rec
<1>7. t = [n \in DOMAIN slots |-> t[n]]
  OBVIOUS
<1> HIDE DEF t
<1>8. t \in Seq(Rec)
  BY <1>3, <1>5, <1>6, <1>7, Mapped DEF Fits
<1>9. Fits(t) /\ IdsApart(t) /\ (Plain(slots) => Plain(t)) /\ Reg!KeysOf(t) = Reg!KeysOf(slots)
  BY <1>3, <1>5, <1>6, <1>8 DEF Fits, KeysApart, IdsApart, OwnNames, Plain, Reg!KeysOf
<1>10. Keeps(slots, t)
  BY <1>5, <1>6 DEF Keeps
<1>11. MirrorsStay(slots, slots')
  BY <1>4, <1>9, <1>10, MirrorsKept
<1>12. WarmKeys'
  BY <1>2, <1>4, <1>9 DEF RegistryInv, WarmKeys
<1>13. Booked(slots')
  BY <1>4, <1>9 DEF Booked
<1>14. RegistryInv'
  BY <1>2, <1>4, <1>9, <1>12, <1>13, RegistryStays DEF RegistryInv, RegistryTypes, SlotsBooked
<1> QED BY <1>2, <1>11, <1>14

LEMMA ResetStep ==
  ASSUME RegistryInv, Reg!Reset
  PROVE  RegistryInv' /\ deleting' = deleting /\ slots' = Reg!Default
<1>1. /\ slots' = Reg!Default /\ disk' = Reg!Default
      /\ again' = again \cup (({Main} \ Reg!KeysOf(slots)) \cap warmed)
      /\ UNCHANGED <<warmed, warming, live, deleting, offered, holder, moved, synced, chosen>>
  BY DEF Reg!Reset, Reg!Saves, Reg!Back
<1>2. Booked(slots') /\ Plain(slots') /\ Reg!KeysOf(slots') = {Main}
  BY <1>1, DefaultFits DEF Booked
<1>3. WarmKeys'
  BY <1>2, NamesApart DEF WarmKeys
<1>4. RegistryInv'
  BY <1>1, <1>2, <1>3, NamesApart, RegistryStays DEF RegistryInv, RegistryTypes
<1> QED BY <1>1, <1>4

LEMMA DeleteStep ==
  ASSUME RegistryInv, NEW i \in Reg!Ids, Reg!Delete(i)
  PROVE  RegistryInv' /\ deleting \subseteq deleting' /\ slots' = slots
<1> DEFINE key == {slots[n].key : n \in {m \in DOMAIN slots : slots[m].id \in Reg!Resolve(slots, i)}}
<1>1. /\ live' = live \ key /\ deleting' = deleting \cup {i}
      /\ UNCHANGED <<slots, disk, warmed, warming, offered, holder, moved, again, synced, chosen>>
  BY DEF Reg!Delete, Reg!hist
<1>2. key \cap Reg!Claudes \subseteq {i}
  <2> SUFFICES ASSUME NEW n \in DOMAIN slots, slots[n].id \in Reg!Resolve(slots, i),
                      slots[n].key \in Reg!Claudes
               PROVE  slots[n].key = i
    OBVIOUS
  <2>1. slots[n].id = slots[n].key /\ slots[n].legacy = slots[n].key
    BY DEF RegistryInv, SlotsBooked, Booked, Fits, OwnNames
  <2>2. CASE i \in Reg!IdsOf(slots)
    BY <2>1, <2>2 DEF Reg!Resolve
  <2>3. CASE i \notin Reg!IdsOf(slots)
    <3>1. PICK m \in DOMAIN slots : slots[m].legacy = i /\ slots[n].id = slots[m].id
      BY <2>3 DEF Reg!Resolve
    <3>2. m = n
      BY <3>1 DEF RegistryInv, SlotsBooked, Booked, IdsApart
    <3> QED BY <2>1, <3>1, <3>2
  <2> QED BY <2>2, <2>3
<1> HIDE DEF key
<1>3. WarmKeys'
  BY <1>1, <1>2 DEF RegistryInv, WarmKeys
<1>4. RegistryInv'
  BY <1>1, <1>3, RegistryStays DEF RegistryInv, RegistryTypes, SlotsBooked
<1> QED BY <1>1, <1>4

LEMMA RemoveStep ==
  ASSUME RegistryInv, NEW i \in Reg!Ids, Reg!RemoveSlot(i)
  PROVE  /\ RegistryInv' /\ MirrorsStay(slots, slots')
         /\ deleting \ deleting' \subseteq {i} /\ (Reg!Resolve(slots', i) = {} \/ moved)
<1> DEFINE t == Reg!Without(slots, i)
<1>1. /\ slots' = t /\ disk' = slots' /\ deleting' = deleting \ {i}
      /\ UNCHANGED <<warmed, warming, live, offered, holder, moved, again, synced, chosen>>
  BY DEF Reg!RemoveSlot, Reg!Saves, Reg!hist, RegistryInv, RegistryTypes
<1>2. Booked(slots)
  BY DEF RegistryInv, SlotsBooked
<1>3. t \in Seq(Rec) /\ KeysApart(t) /\ IdsApart(t) /\ From(t, slots) /\ i \notin Reg!IdsOf(t)
  BY <1>2, WithoutFits DEF Booked
<1> HIDE DEF t
<1>4. /\ Fits(t) /\ Reg!KeysOf(t) \subseteq Reg!KeysOf(slots) /\ (Plain(slots) => Plain(t))
      /\ MirrorsStay(slots, t)
  BY <1>2, <1>3, FromFits DEF Booked, MirrorsStay
<1>5. i \in Reg!Claudes => i \notin Reg!KeysOf(t)
  BY <1>3, <1>4 DEF Fits, OwnNames, Reg!KeysOf, Reg!IdsOf
<1>6. WarmKeys'
  BY <1>1, <1>4, <1>5 DEF RegistryInv, WarmKeys
<1>7. Booked(slots')
  BY <1>1, <1>3, <1>4 DEF Booked
<1>8. RegistryInv'
  BY <1>1, <1>4, <1>6, <1>7, RegistryStays DEF RegistryInv, RegistryTypes, SlotsBooked
<1>9. ~moved => Reg!Resolve(t, i) = {}
  <2> SUFFICES ASSUME ~moved PROVE Reg!Resolve(t, i) = {}
    OBVIOUS
  <2>1. Plain(t)
    BY <1>4 DEF RegistryInv, SlotsBooked
  <2>2. \A n \in DOMAIN t : t[n].legacy # i
    BY <1>3, <2>1 DEF Plain, Reg!IdsOf
  <2> QED BY <1>3, <2>2 DEF Reg!Resolve
<1> QED BY <1>1, <1>4, <1>8, <1>9

LEMMA RestartStep ==
  ASSUME RegistryInv, Reg!Restart
  PROVE  RegistryInv' /\ (slots' = Reg!Enriched(Reg!Default) \/ MirrorsStay(slots, slots'))
<1>1. PICK d : slots' = Reg!Enriched(Reg!Load(d)) /\ disk' = (IF slots' = Reg!Load(d) THEN d ELSE slots')
               /\ (d = disk \/ d = Torn)
  BY DEF Reg!Restart
<1>2. /\ warmed' = {} /\ warming' = {} /\ live' = {} /\ deleting' = {} /\ offered' = {}
      /\ again' = {} /\ UNCHANGED <<holder, moved, synced, chosen>>
  BY DEF Reg!Restart
<1>3. Reg!Load(d) = Reg!Default \/ (Reg!Load(d) = d /\ d = slots)
  BY <1>1 DEF Reg!Load, RegistryInv, RegistryTypes
<1>4. Booked(Reg!Load(d)) /\ (~moved => Plain(Reg!Load(d))) /\ Reg!KeysOf(Reg!Load(d)) \subseteq Reg!KeysOf(slots) \cup {Main}
  BY <1>3, DefaultFits DEF RegistryInv, SlotsBooked, Booked
<1>5. /\ Booked(slots') /\ (~moved => Plain(slots')) /\ Keeps(Reg!Load(d), slots')
      /\ Reg!KeysOf(slots') = Reg!KeysOf(Reg!Load(d))
  BY <1>1, <1>4, EnrichedFits DEF Booked
<1>6. Reg!Enriched(Reg!Default) # Reg!Default
  <2>3. Reg!Slot(Main, Main).legacy = Main /\ Reg!Slot(Main, Main).mirror = "none"
    BY DEF Reg!Slot
  <2>4. Reg!Slot(Main, Main) \in Rec
    BY NamesApart DEF Reg!Slot, Rec
  <2>1. Reg!Default[1].legacy = Main /\ Reg!Default[1].mirror = "none" /\ 1 \in DOMAIN Reg!Default
        /\ Reg!Default[1] \in Rec
    BY <2>3, <2>4, DefaultFits
  <2>2. Reg!Enriched(Reg!Default)[1] = [Reg!Default[1] EXCEPT !.mirror = "filled"]
    BY <2>1, NamesApart DEF Reg!Enriched
  <2>5. Reg!Enriched(Reg!Default)[1].mirror = "filled"
    BY <2>1, <2>2 DEF Rec
  <2> QED BY <2>1, <2>5
<1>7. disk' = slots'
  BY <1>1, <1>3, <1>6
<1>8. RegistryTypes'
  BY <1>2, <1>7 DEF RegistryInv, RegistryTypes
<1>9. OffersApart'
  BY <1>2, FS_EmptySet DEF OffersApart
<1>10. SlotsBooked'
  BY <1>2, <1>4, <1>5, NamesApart DEF RegistryInv, SlotsBooked
<1>11. WarmKeys'
  BY <1>2 DEF WarmKeys
<1>12. slots' = Reg!Enriched(Reg!Default) \/ MirrorsStay(slots, slots')
  BY <1>1, <1>3, <1>5, MirrorsKept DEF Booked
<1> QED BY <1>8, <1>9, <1>10, <1>11, <1>12 DEF RegistryInv

-----------------------------------------------------------------------------
(* Every step. *)
RegistrySteps ==
  /\ \A i \in deleting \ deleting' : Reg!Resolve(slots', i) = {} \/ moved \/ Reg!Restart
  /\ Reg!DiscoverAndSync => moved \/ \A n \in DOMAIN Reg!Discovered : Reg!Discovered[n].key \in Reg!KeysOf(slots')
  /\ \/ \E p \in SUBSET offered : Reg!SelectBots("replace", p)
     \/ slots' \in {Reg!Default, Reg!Enriched(Reg!Default)}
     \/ MirrorsStay(slots, slots')

LEMMA RegistryStep ==
  ASSUME RegistryInv, Reg!Next
  PROVE  RegistryInv' /\ RegistrySteps
<1>0. MirrorsStay(slots, slots)
  BY KeepsItself, MirrorsKept DEF RegistryInv, SlotsBooked, Booked
<1>00. Reg!DiscoverAndSync => moved \/ \A n \in DOMAIN Reg!Discovered : Reg!Discovered[n].key \in Reg!KeysOf(slots')
  BY SyncStep
<1>1. CASE Reg!SessionMoves
  BY <1>0, <1>00, <1>1, MovesStep DEF RegistrySteps
<1>2. CASE Reg!DiscoverOnly
  BY <1>0, <1>00, <1>2, DiscoverOnlyStep DEF RegistrySteps
<1>3. CASE Reg!DiscoverAndSync
  BY <1>00, <1>3, SyncStep DEF RegistrySteps
<1>4. CASE Reg!GetSlots
  BY <1>0, <1>00, <1>4, GetSlotsStep DEF RegistrySteps
<1>5. CASE Reg!Put
  BY <1>00, <1>5, PutStep DEF RegistrySteps
<1>6. CASE Reg!Patch
  BY <1>00, <1>6, PatchStep DEF RegistrySteps
<1>7. CASE Reg!Reset
  BY <1>00, <1>7, ResetStep DEF RegistrySteps
<1>8. CASE Reg!Restart
  BY <1>00, <1>8, RestartStep DEF RegistrySteps
<1>9. ASSUME NEW way \in {"append", "replace"}, NEW p \in SUBSET offered, Reg!SelectBots(way, p)
      PROVE  RegistryInv' /\ RegistrySteps
  <2>1. RegistryInv' /\ deleting' = deleting /\ (way # "replace" => MirrorsStay(slots, slots'))
    BY <1>9, SelectStep
  <2> QED BY <1>00, <1>9, <2>1 DEF RegistrySteps
<1>10. ASSUME NEW t \in Temps, Reg!CreateBot(t) PROVE RegistryInv' /\ RegistrySteps
  BY <1>00, <1>10, CreateStep DEF RegistrySteps
<1>11. ASSUME NEW k \in Reg!Claudes, Reg!PreWarmed(k) PROVE RegistryInv' /\ RegistrySteps
  BY <1>0, <1>00, <1>11, PreWarmedStep DEF RegistrySteps
<1>12. ASSUME NEW i \in Reg!Ids, Reg!Delete(i) PROVE RegistryInv' /\ RegistrySteps
  BY <1>0, <1>00, <1>12, DeleteStep DEF RegistrySteps
<1>13. ASSUME NEW i \in Reg!Ids, Reg!RemoveSlot(i) PROVE RegistryInv' /\ RegistrySteps
  BY <1>00, <1>13, RemoveStep DEF RegistrySteps
<1> QED BY <1>1, <1>2, <1>3, <1>4, <1>5, <1>6, <1>7, <1>8, <1>9, <1>10, <1>11, <1>12, <1>13 DEF Reg!Next

LEMMA RegistryStutter ==
  ASSUME RegistryInv, UNCHANGED Reg!vars
  PROVE  RegistryInv'
<1> USE DEF Reg!vars, Reg!hist
<1>1. RegistryTypes'
  BY DEF RegistryInv, RegistryTypes
<1>2. OffersApart'
  BY DEF RegistryInv, OffersApart, Found
<1>3. SlotsBooked' /\ WarmKeys'
  BY DEF RegistryInv, SlotsBooked, WarmKeys
<1> QED BY <1>1, <1>2, <1>3 DEF RegistryInv

-----------------------------------------------------------------------------
(* What the filter of the history shows. *)
Spoken(m) == Fil!RoleOf(m) = "user"

\* The texts of the replies that are shown before a place.
Shown(h, K, n) == {h[k].text : k \in {j \in K : j < n /\ ~Spoken(h[j])}}

DroppedAt(h, K, n) == h[n].kind = "system" \/ Fil!Echo(h[n], Shown(h, K, n))
LastUser(h, n, k)  ==
  k \in DOMAIN h /\ k < n /\ Spoken(h[k]) /\ \A j \in DOMAIN h : j < n /\ Spoken(h[j]) => j <= k
OrphanAt(h, K, n)  == \E k \in DOMAIN h : LastUser(h, n, k) /\ DroppedAt(h, K, k)
PromisedAt(h, K, n) ==
  /\ h[n].text # Silent
  /\ IF Spoken(h[n]) THEN ~DroppedAt(h, K, n)
     ELSE ~OrphanAt(h, K, n) /\ (h[n].by = "mirror" => h[n].text \notin Shown(h, K, n))

Filters == [kept : SUBSET Nat, drop : BOOLEAN, recent : SUBSET Texts, forgot : BOOLEAN]

\* A filter knows the replies that it showed, as long as none was forgotten.
FilterOf(f, h) ==
  /\ f \in Filters /\ f.kept \subseteq DOMAIN h
  /\ IsFiniteSet(f.recent) /\ Cardinality(f.recent) <= RecentMax
  /\ ~f.forgot => f.recent = Shown(h, f.kept, Len(h) + 1)

\* Its flag says that the last message of the user was dropped, and what it shows is
\* what it promises.
Reads(f, h) ==
  ~f.forgot => /\ f.drop <=> OrphanAt(h, f.kept, Len(h) + 1)
               /\ \A n \in DOMAIN h : n \in f.kept <=> PromisedAt(h, f.kept, n)

Spoke(h, from, n) == \E k \in DOMAIN h : from <= k /\ k < n /\ Spoken(h[k])

\* Two filters agree from a place on, or differ first at an edge.
Apart(f, g, from) == {n \in (f.kept \ g.kept) \cup (g.kept \ f.kept) : n >= from}
AtEdge(f, g, h, from) ==
  ~f.forgot /\ ~g.forgot =>
    /\ \A n \in Apart(f, g, from) :
         \/ \E d \in Apart(f, g, from) : d < n
         \/ n \in g.kept /\ (~Spoke(h, from, n) \/ Fil!Echo(h[n], Shown(h, f.kept, from)))
    /\ Apart(f, g, from) = {} =>
         IF Spoke(h, from, Len(h) + 1) THEN g.drop <=> f.drop ELSE ~g.drop

FilterInv ==
  /\ raw \in Seq(Fil!Message) /\ Len(raw) <= MaxLen /\ first \in 0..(Len(raw) + 1)
  /\ FilterOf(whole, raw) /\ FilterOf(part, raw) /\ Reads(whole, raw)
  /\ \A n \in part.kept : n >= first
  /\ first = 0 => part = Fil!Fresh
  /\ first # 0 => AtEdge(whole, part, raw, first)

LEMMA MessageFacts ==
  ASSUME NEW m \in Fil!Message
  PROVE  /\ m.text \in Texts \cup {Silent}
         /\ Fil!RoleOf(m) \in {"user", "assistant"}
         /\ m.kind = "tool" => m.text = Silent /\ ~Spoken(m)
         /\ m.kind = "system" => m.text = Silent /\ Spoken(m)
BY DEF Fil!Message, Fil!RoleOf, Spoken

LEMMA EchoFacts ==
  ASSUME NEW m, NEW A, NEW B
  PROVE  /\ Fil!Echo(m, A \cup B) <=> Fil!Echo(m, A) \/ Fil!Echo(m, B)
         /\ m.text \in A => Fil!Echo(m, A)
BY DEF Fil!Echo

LEMMA SilentIsNoEcho ==
  ASSUME NEW m, m.text = Silent, NEW A, A \subseteq Texts
  PROVE  ~Fil!Echo(m, A)
BY ReadingAssumption DEF Fil!Echo

\* One message more.
Longer(h, m, t) ==
  /\ h \in Seq(Fil!Message) /\ t \in Seq(Fil!Message) /\ m \in Fil!Message
  /\ Len(h) \in Nat /\ Len(t) = Len(h) + 1
  /\ DOMAIN h = 1..Len(h) /\ DOMAIN t = 1..(Len(h) + 1)
  /\ \A k \in 1..Len(h) : t[k] = h[k]
  /\ t[Len(h) + 1] = m

LEMMA LongerByOne ==
  ASSUME NEW h \in Seq(Fil!Message), NEW m \in Fil!Message
  PROVE  Longer(h, m, Append(h, m))
BY DEF Longer

LEMMA Places ==
  ASSUME NEW h, NEW m, NEW t, Longer(h, m, t)
  PROVE  /\ \A k \in DOMAIN t : k \in DOMAIN h \/ k = Len(h) + 1
         /\ \A k \in DOMAIN h : k \in DOMAIN t /\ t[k] = h[k] /\ k < Len(h) + 1 /\ k < Len(h) + 2
         /\ Len(h) + 1 \in DOMAIN t /\ t[Len(h) + 1] = m /\ Len(h) + 1 \notin DOMAIN h
         /\ Len(t) + 1 = Len(h) + 2 /\ Len(h) + 1 < Len(h) + 2
BY DEF Longer

\* One message more is read, and perhaps shown.
Read(h, m, t, K, L) ==
  Longer(h, m, t) /\ K \subseteq DOMAIN h /\ L \in {K, K \cup {Len(h) + 1}}

LEMMA ShownGrows ==
  ASSUME NEW h, NEW m, NEW t, NEW K, NEW L, Read(h, m, t, K, L)
  PROVE  /\ \A n \in 0..(Len(h) + 1) : Shown(t, L, n) = Shown(h, K, n)
         /\ Shown(t, L, Len(t) + 1) =
              Shown(h, K, Len(h) + 1) \cup
                (IF Len(h) + 1 \in L /\ ~Spoken(m) THEN {m.text} ELSE {})
<1>7. Longer(h, m, t) /\ K \subseteq DOMAIN h /\ L \in {K, K \cup {Len(h) + 1}}
  BY DEF Read
<1>1. ASSUME NEW n \in 0..(Len(h) + 1) PROVE Shown(t, L, n) = Shown(h, K, n)
  <2>1. {j \in L : j < n /\ ~Spoken(t[j])} = {j \in K : j < n /\ ~Spoken(h[j])}
    BY <1>7 DEF Longer
  <2>2. \A j \in K : t[j] = h[j]
    BY <1>7 DEF Longer
  <2> QED BY <2>1, <2>2 DEF Shown
<1>2. CASE Len(h) + 1 \in L /\ ~Spoken(m)
  <2>1. L = K \cup {Len(h) + 1}
    BY <1>2, <1>7, Places
  <2>2. {j \in L : j < Len(t) + 1 /\ ~Spoken(t[j])}
          = {j \in K : j < Len(h) + 1 /\ ~Spoken(h[j])} \cup {Len(h) + 1}
    BY <1>2, <1>7, <2>1, Places
  <2>3. \A j \in K : t[j] = h[j]
    BY <1>7, Places
  <2> QED BY <1>1, <1>2, <2>2, <2>3, <1>7, Places DEF Shown
<1>3. CASE ~(Len(h) + 1 \in L /\ ~Spoken(m))
  <2>2. {j \in L : j < Len(t) + 1 /\ ~Spoken(t[j])} = {j \in K : j < Len(h) + 1 /\ ~Spoken(h[j])}
    BY <1>3, <1>7, Places
  <2>3. \A j \in K : t[j] = h[j]
    BY <1>7, Places
  <2> QED BY <1>1, <1>3, <2>2, <2>3 DEF Shown
<1> QED BY <1>1, <1>2, <1>3

LEMMA OrphanGrows ==
  ASSUME NEW h, NEW m, NEW t, NEW K, NEW L, Read(h, m, t, K, L)
  PROVE  /\ \A n \in DOMAIN h : DroppedAt(t, L, n) <=> DroppedAt(h, K, n)
         /\ DroppedAt(t, L, Len(h) + 1) <=> m.kind = "system" \/ Fil!Echo(m, Shown(h, K, Len(h) + 1))
         /\ \A n \in 1..(Len(h) + 1) : OrphanAt(t, L, n) <=> OrphanAt(h, K, n)
         /\ OrphanAt(t, L, Len(t) + 1) <=>
              IF Spoken(m) THEN DroppedAt(t, L, Len(h) + 1) ELSE OrphanAt(h, K, Len(h) + 1)
<1>0. Longer(h, m, t) /\ Len(h) \in Nat /\ DOMAIN h = 1..Len(h)
  BY DEF Longer, Read
<1>1. ASSUME NEW n \in DOMAIN h PROVE DroppedAt(t, L, n) <=> DroppedAt(h, K, n)
  <2>1. Shown(t, L, n) = Shown(h, K, n) /\ t[n] = h[n]
    BY <1>0, ShownGrows, Places
  <2> QED BY <2>1 DEF DroppedAt
<1>2. DroppedAt(t, L, Len(h) + 1) <=> m.kind = "system" \/ Fil!Echo(m, Shown(h, K, Len(h) + 1))
  <2>1. Shown(t, L, Len(h) + 1) = Shown(h, K, Len(h) + 1) /\ t[Len(h) + 1] = m
    BY <1>0, ShownGrows, Places
  <2> QED BY <2>1 DEF DroppedAt
<1>3. ASSUME NEW n \in 1..(Len(h) + 1) PROVE OrphanAt(t, L, n) <=> OrphanAt(h, K, n)
  <2>1. \A k : LastUser(t, n, k) <=> LastUser(h, n, k)
    BY <1>0, Places DEF LastUser
  <2>2. \A k : LastUser(h, n, k) => k \in DOMAIN h /\ k \in DOMAIN t
    BY <1>0, Places DEF LastUser
  <2> QED BY <1>1, <2>1, <2>2 DEF OrphanAt
<1>4. CASE Spoken(m)
  <2>1. \A k : LastUser(t, Len(t) + 1, k) <=> k = Len(h) + 1
    BY <1>0, <1>4, Places DEF LastUser
  <2> QED BY <1>0, <1>1, <1>2, <1>3, <1>4, <2>1, Places DEF OrphanAt
<1>5. CASE ~Spoken(m)
  <2>1. \A k : LastUser(t, Len(t) + 1, k) <=> LastUser(h, Len(h) + 1, k)
    BY <1>0, <1>5, Places DEF LastUser
  <2>2. \A k : LastUser(h, Len(h) + 1, k) => k \in DOMAIN h /\ k \in DOMAIN t
    BY <1>0, Places DEF LastUser
  <2>3. OrphanAt(t, L, Len(t) + 1) <=> OrphanAt(h, K, Len(h) + 1)
    BY <1>1, <2>1, <2>2 DEF OrphanAt
  <2> QED BY <1>1, <1>2, <1>3, <1>5, <2>3
<1> QED BY <1>4, <1>5

LEMMA PromisedGrows ==
  ASSUME NEW h, NEW m, NEW t, NEW K, NEW L, Read(h, m, t, K, L)
  PROVE  /\ \A n \in DOMAIN h : PromisedAt(t, L, n) <=> PromisedAt(h, K, n)
         /\ PromisedAt(t, L, Len(h) + 1) <=>
              /\ m.text # Silent
              /\ IF Spoken(m) THEN ~DroppedAt(t, L, Len(h) + 1)
                 ELSE /\ ~OrphanAt(h, K, Len(h) + 1)
                      /\ m.by = "mirror" => m.text \notin Shown(h, K, Len(h) + 1)
<1>0. Longer(h, m, t) /\ Len(h) \in Nat /\ DOMAIN h = 1..Len(h)
  BY DEF Longer, Read
<1>1. ASSUME NEW n \in DOMAIN h PROVE PromisedAt(t, L, n) <=> PromisedAt(h, K, n)
  <2>1. Shown(t, L, n) = Shown(h, K, n) /\ t[n] = h[n] /\ n \in 1..(Len(h) + 1)
    BY <1>0, ShownGrows, Places
  <2>2. (OrphanAt(t, L, n) <=> OrphanAt(h, K, n)) /\ (DroppedAt(t, L, n) <=> DroppedAt(h, K, n))
    BY <2>1, OrphanGrows
  <2> QED BY <2>1, <2>2 DEF PromisedAt
<1>2. /\ Shown(t, L, Len(h) + 1) = Shown(h, K, Len(h) + 1) /\ t[Len(h) + 1] = m
      /\ Len(h) + 1 \in 1..(Len(h) + 1)
  BY <1>0, ShownGrows, Places
<1>3. OrphanAt(t, L, Len(h) + 1) <=> OrphanAt(h, K, Len(h) + 1)
  BY <1>2, OrphanGrows
<1> QED BY <1>1, <1>2, <1>3 DEF PromisedAt

\* What a filter does with a message, as long as it forgets nothing.
Step1(f, g, h, m) ==
  LET n == Len(h) + 1 IN
  /\ g.kept \in {f.kept, f.kept \cup {n}}
  /\ f.forgot => g.forgot
  /\ Spoken(m) => /\ g.drop <=> m.kind = "system" \/ Fil!Echo(m, f.recent)
                  /\ n \in g.kept <=> ~g.drop /\ m.text # Silent
                  /\ g.recent = f.recent
  /\ ~Spoken(m) =>
       /\ g.drop = f.drop
       /\ n \in g.kept <=> /\ ~f.drop /\ m.text # Silent
                           /\ m.by = "mirror" => m.text \notin Shown(h, f.kept, n)
       /\ ~g.forgot => g.recent = f.recent \cup (IF n \in g.kept THEN {m.text} ELSE {})

LEMMA SameCardinality == \A E : Fil!Cardinality(E) = Cardinality(E)
BY DEF Fil!Cardinality, Cardinality

LEMMA RememberedFacts ==
  ASSUME NEW f \in Filters, IsFiniteSet(f.recent), Cardinality(f.recent) <= RecentMax,
         NEW x \in Texts, NEW g \in Fil!Remembered(f, x)
  PROVE  /\ g \in Filters /\ IsFiniteSet(g.recent) /\ Cardinality(g.recent) <= RecentMax
         /\ g.kept = f.kept /\ g.drop = f.drop /\ (f.forgot => g.forgot)
         /\ ~g.forgot => g.recent = f.recent \cup {x}
<1> DEFINE r == f.recent \cup {x}
<1>1. f.recent \subseteq Texts /\ r \subseteq Texts /\ IsFiniteSet(r) /\ Cardinality(r) \in Nat
  BY FS_AddElement, FS_CardinalityType DEF Filters
<1>2. CASE Cardinality(r) <= RecentMax
  <2>1. g = [f EXCEPT !.recent = r]
    BY <1>2, SameCardinality DEF Fil!Remembered
  <2>2. g.recent = r /\ g.kept = f.kept /\ g.drop = f.drop /\ g.forgot = f.forgot /\ g \in Filters
    BY <1>1, <2>1 DEF Filters
  <2> QED BY <1>1, <1>2, <2>2
<1>3. CASE ~(Cardinality(r) <= RecentMax)
  <2>1. PICK y \in r : g = [f EXCEPT !.recent = r \ {y}, !.forgot = TRUE]
    BY <1>3, SameCardinality DEF Fil!Remembered
  <2>0. TRUE \in BOOLEAN /\ r \ {y} \in SUBSET Texts
    BY <1>1
  <2>2. /\ g.recent = r \ {y} /\ g.kept = f.kept /\ g.drop = f.drop /\ g.forgot = TRUE
        /\ g \in Filters
    BY <2>0, <2>1 DEF Filters
  <2>3. x \notin f.recent
    <3> SUFFICES ASSUME x \in f.recent PROVE FALSE
      OBVIOUS
    <3>1. r = f.recent
      OBVIOUS
    <3> QED BY <1>3, <3>1
  <2>4. Cardinality(f.recent) \in Nat /\ Cardinality(r) = Cardinality(f.recent) + 1
    BY <2>3, FS_AddElement, FS_CardinalityType
  <2>5. IsFiniteSet(r \ {y}) /\ Cardinality(r \ {y}) = Cardinality(r) - 1
    BY <1>1, FS_RemoveElement
  <2>6. Cardinality(r \ {y}) <= RecentMax
    BY <2>4, <2>5
  <2> QED BY <2>2, <2>5, <2>6
<1> QED BY <1>2, <1>3

LEMMA KeepFacts ==
  ASSUME NEW f \in Filters, NEW n \in Nat
  PROVE  /\ Fil!Keep(f, n) \in Filters /\ Fil!Keep(f, n).kept = f.kept \cup {n}
         /\ Fil!Keep(f, n).drop = f.drop /\ Fil!Keep(f, n).recent = f.recent
         /\ Fil!Keep(f, n).forgot = f.forgot
BY DEF Fil!Keep, Filters

LEMMA NothingNew ==
  ASSUME NEW h, NEW m, NEW t, NEW f, FilterOf(f, h), NEW g \in Filters,
         Read(h, m, t, f.kept, g.kept), Len(h) + 1 \in g.kept => Spoken(m),
         g.recent = f.recent, g.forgot = f.forgot
  PROVE  FilterOf(g, t)
<1>1. Longer(h, m, t)
  BY DEF Read
<1>2. g.kept \subseteq DOMAIN t
  BY <1>1, Places DEF Read
<1>3. Shown(t, g.kept, Len(t) + 1) = Shown(h, f.kept, Len(h) + 1)
  <2>1. Shown(t, g.kept, Len(t) + 1) = Shown(h, f.kept, Len(h) + 1) \cup
          (IF Len(h) + 1 \in g.kept /\ ~Spoken(m) THEN {m.text} ELSE {})
    BY ShownGrows
  <2> QED BY <2>1
<1> QED BY <1>2, <1>3 DEF FilterOf

LEMMA AfterSteps ==
  ASSUME NEW h, NEW m, NEW t, Longer(h, m, t), NEW f, FilterOf(f, h),
         NEW g \in Fil!After(f, Len(t), t)
  PROVE  FilterOf(g, t) /\ Step1(f, g, h, m)
<1> DEFINE n == Len(h) + 1
<1>0. Len(t) = n /\ t[n] = m /\ n \in Nat /\ m \in Fil!Message /\ f \in Filters
      /\ f.kept \subseteq DOMAIN h /\ n \notin f.kept /\ Read(h, m, t, f.kept, f.kept)
      /\ Read(h, m, t, f.kept, f.kept \cup {n})
  BY Places DEF Longer, FilterOf, Read
<1>1. ASSUME NEW b \in BOOLEAN
      PROVE  /\ [f EXCEPT !.drop = b] \in Filters /\ [f EXCEPT !.drop = b].drop = b
             /\ [f EXCEPT !.drop = b].kept = f.kept /\ [f EXCEPT !.drop = b].recent = f.recent
             /\ [f EXCEPT !.drop = b].forgot = f.forgot
  BY <1>0 DEF Filters
<1>2. \A k \in f.kept : t[k] = h[k] /\ k < n /\ h[k] \in Fil!Message
  BY <1>0, Places DEF Longer
<1> DEFINE Repeats == \E k \in f.kept : Fil!RoleOf(t[k]) = "assistant" /\ t[k].text = m.text
<1>3. Repeats <=> m.text \in Shown(h, f.kept, n)
  <2>1. \A k \in f.kept : Fil!RoleOf(t[k]) = "assistant" <=> ~Spoken(h[k])
    BY <1>2, MessageFacts DEF Spoken
  <2> QED BY <1>2, <2>1 DEF Shown
<1> HIDE DEF Repeats
<1>4. CASE Spoken(m)
  <2>1. g \in Fil!OfUser(f, m, n)
    BY <1>0, <1>4 DEF Fil!After, Spoken
  <2>2. CASE m.kind = "system" \/ Fil!Echo(m, f.recent)
    <3>1. g = [f EXCEPT !.drop = TRUE]
      BY <2>1, <2>2 DEF Fil!OfUser
    <3>2. /\ g \in Filters /\ g.drop = TRUE /\ g.kept = f.kept /\ g.recent = f.recent
          /\ g.forgot = f.forgot
      BY <1>1, <3>1
    <3>3. Step1(f, g, h, m)
      BY <1>0, <1>4, <2>2, <3>2 DEF Step1
    <3> QED BY <1>0, <1>4, <3>2, <3>3, NothingNew
  <2>3. CASE ~(m.kind = "system" \/ Fil!Echo(m, f.recent))
    <3> DEFINE e == [f EXCEPT !.drop = FALSE]
    <3>1. g = IF m.text = Silent THEN e ELSE Fil!Keep(e, n)
      BY <2>1, <2>3 DEF Fil!OfUser
    <3>2. /\ e \in Filters /\ e.drop = FALSE /\ e.kept = f.kept /\ e.recent = f.recent
          /\ e.forgot = f.forgot
      BY <1>1
    <3> HIDE DEF e
    <3>3. /\ g \in Filters /\ g.drop = FALSE /\ g.recent = f.recent /\ g.forgot = f.forgot
          /\ g.kept = IF m.text = Silent THEN f.kept ELSE f.kept \cup {n}
      BY <1>0, <3>1, <3>2, KeepFacts
    <3>4. Step1(f, g, h, m)
      BY <1>0, <1>4, <2>3, <3>3 DEF Step1
    <3>5. Read(h, m, t, f.kept, g.kept)
      BY <1>0, <3>3
    <3> QED BY <1>4, <3>3, <3>4, <3>5, NothingNew
  <2> QED BY <2>2, <2>3
<1>5. CASE ~Spoken(m)
  <2>1. g \in Fil!OfAssistant(f, m, n, t)
    BY <1>0, <1>5 DEF Fil!After, Spoken
  <2>2. m.kind = "tool" => m.text = Silent
    BY <1>0, MessageFacts
  <2>3. CASE (m.by = "mirror" /\ Repeats) \/ m.kind = "tool" \/ f.drop \/ m.text = Silent
    <3>1. g = f
      BY <2>1, <2>3 DEF Fil!OfAssistant, Repeats
    <3>2. Step1(f, g, h, m)
      BY <1>0, <1>3, <1>5, <2>2, <2>3, <3>1 DEF Step1
    <3> QED BY <1>0, <3>1, <3>2, NothingNew
  <2>4. CASE ~((m.by = "mirror" /\ Repeats) \/ m.kind = "tool" \/ f.drop \/ m.text = Silent)
    <3> DEFINE e == Fil!Keep(f, n)
    <3>1. g \in Fil!Remembered(e, m.text)
      BY <2>1, <2>4 DEF Fil!OfAssistant, Repeats
    <3>2. /\ e \in Filters /\ e.drop = f.drop /\ e.kept = f.kept \cup {n} /\ e.recent = f.recent
          /\ e.forgot = f.forgot
      BY <1>0, KeepFacts
    <3> HIDE DEF e
    <3>3. m.text \in Texts
      BY <1>0, <2>4, MessageFacts
    <3>4. IsFiniteSet(e.recent) /\ Cardinality(e.recent) <= RecentMax
      BY <3>2 DEF FilterOf
    <3>5. /\ g \in Filters /\ IsFiniteSet(g.recent) /\ Cardinality(g.recent) <= RecentMax
          /\ g.kept = e.kept /\ g.drop = e.drop /\ (e.forgot => g.forgot)
          /\ ~g.forgot => g.recent = e.recent \cup {m.text}
      BY <3>1, <3>2, <3>3, <3>4, RememberedFacts
    <3>6. Step1(f, g, h, m)
      BY <1>0, <1>3, <1>5, <2>4, <3>2, <3>5 DEF Step1
    <3>7. g.kept \subseteq DOMAIN t
      BY <1>0, <3>2, <3>5, Places
    <3>8. ~g.forgot => g.recent = Shown(t, g.kept, Len(t) + 1)
      <4> SUFFICES ASSUME ~g.forgot PROVE g.recent = Shown(t, g.kept, Len(t) + 1)
        OBVIOUS
      <4>1. f.recent = Shown(h, f.kept, n)
        BY <3>2, <3>5 DEF FilterOf
      <4>2. g.kept = f.kept \cup {n}
        BY <3>2, <3>5
      <4>3. Shown(t, g.kept, Len(t) + 1) = Shown(h, f.kept, n) \cup {m.text}
        BY <1>0, <1>5, <4>2, ShownGrows
      <4> QED BY <3>2, <3>5, <4>1, <4>3
    <3> QED BY <3>5, <3>6, <3>7, <3>8 DEF FilterOf
  <2> QED BY <2>3, <2>4
<1> QED BY <1>4, <1>5

LEMMA ReadsOn ==
  ASSUME NEW h, NEW m, NEW t, Longer(h, m, t), NEW f, FilterOf(f, h), Reads(f, h),
         NEW g, FilterOf(g, t), Step1(f, g, h, m)
  PROVE  Reads(g, t)
<1> DEFINE n == Len(h) + 1
           K == f.kept
           L == g.kept
<1> SUFFICES ASSUME ~g.forgot
             PROVE  /\ g.drop <=> OrphanAt(t, L, Len(t) + 1)
                    /\ \A k \in DOMAIN t : k \in L <=> PromisedAt(t, L, k)
  BY DEF Reads
<1>1. /\ ~f.forgot /\ f.recent = Shown(h, K, n) /\ (f.drop <=> OrphanAt(h, K, n))
      /\ \A k \in DOMAIN h : k \in K <=> PromisedAt(h, K, k)
  BY DEF Step1, FilterOf, Reads
<1>2. Read(h, m, t, K, L)
  BY DEF Step1, FilterOf, Read
<1>3. /\ DroppedAt(t, L, n) <=> m.kind = "system" \/ Fil!Echo(m, f.recent)
      /\ OrphanAt(t, L, Len(t) + 1) <=> IF Spoken(m) THEN DroppedAt(t, L, n) ELSE f.drop
  BY <1>1, <1>2, OrphanGrows
<1>4. g.drop <=> OrphanAt(t, L, Len(t) + 1)
  BY <1>3 DEF Step1
<1>5. ASSUME NEW k \in DOMAIN h PROVE k \in L <=> PromisedAt(t, L, k)
  <2>1. k \in L <=> k \in K
    BY Places DEF Step1
  <2> QED BY <1>1, <1>2, <2>1, PromisedGrows
<1>6. n \in L <=> PromisedAt(t, L, n)
  <2>1. PromisedAt(t, L, n) <=>
          /\ m.text # Silent
          /\ IF Spoken(m) THEN ~DroppedAt(t, L, n)
             ELSE ~f.drop /\ (m.by = "mirror" => m.text \notin Shown(h, K, n))
    BY <1>1, <1>2, PromisedGrows
  <2> QED BY <1>3, <2>1 DEF Step1
<1> QED BY <1>4, <1>5, <1>6, Places

LEMMA SpokeGrows ==
  ASSUME NEW h, NEW m, NEW t, Longer(h, m, t), NEW from
  PROVE  /\ \A n \in 1..(Len(h) + 1) : Spoke(t, from, n) <=> Spoke(h, from, n)
         /\ Spoke(t, from, Len(t) + 1) <=>
              Spoke(h, from, Len(h) + 1) \/ (from <= Len(h) + 1 /\ Spoken(m))
<1>1. \A n \in 1..(Len(h) + 1) : Spoke(t, from, n) <=> Spoke(h, from, n)
  BY DEF Spoke, Longer
<1>2. Spoke(t, from, Len(t) + 1) <=>
        Spoke(h, from, Len(h) + 1) \/ (from <= Len(h) + 1 /\ Spoken(m))
  BY Places DEF Spoke
<1> QED BY <1>1, <1>2

\* What two filters show of a history, when they differ nowhere from a place on.
AlikeFrom(K, L, from, n) ==
  /\ K \subseteq Nat /\ L \subseteq Nat /\ from \in Nat /\ n \in Nat /\ from <= n
  /\ \A k \in L : k >= from
  /\ \A k \in Nat : k >= from => (k \in K <=> k \in L)

LEMMA ShownSplits ==
  ASSUME NEW h, NEW K, NEW L, NEW from, NEW n, AlikeFrom(K, L, from, n)
  PROVE  Shown(h, K, n) = Shown(h, K, from) \cup Shown(h, L, n)
<1>1. \A k \in Nat : (k \in K /\ k < n) <=> (k \in K /\ k < from) \/ (k \in L /\ k < n)
  BY DEF AlikeFrom
<1>2. {j \in K : j < n /\ ~Spoken(h[j])}
        = {j \in K : j < from /\ ~Spoken(h[j])} \cup {j \in L : j < n /\ ~Spoken(h[j])}
  BY <1>1 DEF AlikeFrom
<1> QED BY <1>2 DEF Shown

LEMMA EdgeOn ==
  ASSUME NEW h, NEW m, NEW t, Longer(h, m, t), NEW from \in 1..(Len(h) + 1),
         NEW f, FilterOf(f, h), NEW f2, FilterOf(f2, t), Step1(f, f2, h, m),
         NEW g, FilterOf(g, h), NEW g2, FilterOf(g2, t), Step1(g, g2, h, m),
         \A k \in g.kept : k >= from, AtEdge(f, g, h, from)
  PROVE  AtEdge(f2, g2, t, from)
<1> DEFINE n  == Len(h) + 1
           D  == Apart(f, g, from)
           D2 == Apart(f2, g2, from)
           A  == Shown(h, f.kept, from)
<1> SUFFICES ASSUME ~f2.forgot, ~g2.forgot
             PROVE  /\ \A k \in D2 :
                         \/ \E d \in D2 : d < k
                         \/ k \in g2.kept /\ (~Spoke(t, from, k) \/ Fil!Echo(t[k], Shown(t, f2.kept, from)))
                    /\ D2 = {} => IF Spoke(t, from, Len(t) + 1) THEN g2.drop <=> f2.drop ELSE ~g2.drop
  BY DEF AtEdge
<1>0. /\ f.kept \subseteq 1..Len(h) /\ g.kept \subseteq 1..Len(h) /\ Len(h) \in Nat
      /\ n \in Nat /\ n >= from /\ from \in Nat /\ n \notin f.kept /\ n \notin g.kept
      /\ f.drop \in BOOLEAN /\ g.drop \in BOOLEAN /\ f2.drop \in BOOLEAN /\ g2.drop \in BOOLEAN
  BY DEF FilterOf, Longer, Filters
<1>1. /\ ~f.forgot /\ ~g.forgot /\ f.recent = Shown(h, f.kept, n) /\ g.recent = Shown(h, g.kept, n)
      /\ f.recent \subseteq Texts /\ g.recent \subseteq Texts
  BY DEF Step1, FilterOf, Filters
<1>2. /\ \A k \in D : \/ \E d \in D : d < k
                      \/ k \in g.kept /\ (~Spoke(h, from, k) \/ Fil!Echo(h[k], A))
      /\ D = {} => IF Spoke(h, from, n) THEN g.drop <=> f.drop ELSE ~g.drop
  BY <1>1 DEF AtEdge
<1>3. f2.kept \in {f.kept, f.kept \cup {n}} /\ g2.kept \in {g.kept, g.kept \cup {n}}
  BY DEF Step1
<1>4. /\ D \subseteq D2 /\ D2 \subseteq D \cup {n} /\ D \subseteq 1..Len(h)
      /\ n \in D2 <=> ~(n \in f2.kept <=> n \in g2.kept)
  BY <1>0, <1>3 DEF Apart
<1>5. \A k \in D : t[k] = h[k] /\ (Spoke(t, from, k) <=> Spoke(h, from, k))
  <2> SUFFICES ASSUME NEW k \in D
               PROVE  t[k] = h[k] /\ (Spoke(t, from, k) <=> Spoke(h, from, k))
    OBVIOUS
  <2>1. k \in 1..Len(h) /\ k \in 1..(Len(h) + 1)
    BY <1>0, <1>4
  <2>2. t[k] = h[k]
    BY <2>1 DEF Longer
  <2> HIDE DEF D
  <2> QED BY <2>1, <2>2, SpokeGrows
<1>6. Shown(t, f2.kept, from) = A /\ t[n] = m /\ (Spoke(t, from, n) <=> Spoke(h, from, n))
      /\ (Spoke(t, from, Len(t) + 1) <=> Spoke(h, from, n) \/ Spoken(m))
  <2>1. Read(h, m, t, f.kept, f2.kept)
    BY <1>3 DEF Read, FilterOf
  <2>2. Shown(t, f2.kept, from) = A
    BY <1>0, <2>1, ShownGrows
  <2> QED BY <1>0, <2>2, Places, SpokeGrows
\* While nothing differs, the whole knows what was shown before the place besides.
<1>7. D = {} => f.recent = A \cup g.recent
  <2> SUFFICES ASSUME D = {} PROVE f.recent = A \cup g.recent
    OBVIOUS
  <2>1. \A k \in Nat : k >= from => (k \in f.kept <=> k \in g.kept)
    BY DEF Apart
  <2>2. f.kept \in SUBSET Nat /\ g.kept \in SUBSET Nat
    BY <1>0
  <2>3. AlikeFrom(f.kept, g.kept, from, n)
    BY <1>0, <2>1, <2>2 DEF AlikeFrom
  <2>4. Shown(h, f.kept, n) = A \cup Shown(h, g.kept, n)
    BY <2>3, ShownSplits
  <2> QED BY <1>1, <2>4
<1> HIDE DEF D, D2, A
<1>8. D = {} /\ n \in D2 => n \in g2.kept /\ (~Spoke(h, from, n) \/ Fil!Echo(m, A))
  <2> SUFFICES ASSUME D = {}, n \in D2
               PROVE  n \in g2.kept /\ (~Spoke(h, from, n) \/ Fil!Echo(m, A))
    OBVIOUS
  <2>1. f.recent = A \cup g.recent /\ ~(n \in f2.kept <=> n \in g2.kept)
    BY <1>4, <1>7
  <2>2. IF Spoke(h, from, n) THEN g.drop <=> f.drop ELSE ~g.drop
    BY <1>2
  <2>3. (Fil!Echo(m, f.recent) <=> Fil!Echo(m, A) \/ Fil!Echo(m, g.recent)) /\ (m.text \in A => Fil!Echo(m, A))
    BY <2>1, EchoFacts
  <2>4. CASE Spoken(m)
    BY <2>1, <2>3, <2>4 DEF Step1
  <2>5. CASE ~Spoken(m)
    <3>1. /\ f2.drop = f.drop /\ g2.drop = g.drop
          /\ n \in f2.kept <=> ~f.drop /\ m.text # Silent /\ (m.by = "mirror" => m.text \notin f.recent)
          /\ n \in g2.kept <=> ~g.drop /\ m.text # Silent /\ (m.by = "mirror" => m.text \notin g.recent)
      BY <1>1, <2>5 DEF Step1
    <3> QED BY <2>1, <2>2, <2>3, <3>1
  <2> QED BY <2>4, <2>5
<1>9. ASSUME NEW k \in D2
      PROVE  \/ \E d \in D2 : d < k
             \/ k \in g2.kept /\ (~Spoke(t, from, k) \/ Fil!Echo(t[k], Shown(t, f2.kept, from)))
  <2>1. CASE k \in D
    <3>1. CASE \E d \in D : d < k
      BY <1>4, <3>1
    <3>2. CASE k \in g.kept /\ (~Spoke(h, from, k) \/ Fil!Echo(h[k], A))
      BY <1>3, <1>5, <1>6, <2>1, <3>2
    <3> QED BY <1>2, <2>1, <3>1, <3>2
  <2>2. CASE k = n /\ D = {}
    BY <1>6, <1>8, <2>2
  <2>3. CASE k = n /\ D # {}
    <3>1. PICK d \in D : TRUE
      BY <2>3
    <3>2. d < n /\ d \in D2
      BY <1>0, <1>4
    <3> QED BY <2>3, <3>2
  <2> QED BY <1>4, <2>1, <2>2, <2>3
<1>10. ASSUME D2 = {}
       PROVE  IF Spoke(t, from, Len(t) + 1) THEN g2.drop <=> f2.drop ELSE ~g2.drop
  <2>1. /\ D = {} /\ (n \in f2.kept <=> n \in g2.kept)
        /\ IF Spoke(h, from, n) THEN g.drop <=> f.drop ELSE ~g.drop
    BY <1>2, <1>4, <1>10
  <2>2. CASE Spoken(m)
    <3>1. /\ f2.drop <=> m.kind = "system" \/ Fil!Echo(m, f.recent)
          /\ g2.drop <=> m.kind = "system" \/ Fil!Echo(m, g.recent)
          /\ n \in f2.kept <=> ~f2.drop /\ m.text # Silent
          /\ n \in g2.kept <=> ~g2.drop /\ m.text # Silent
      BY <2>2 DEF Step1
    <3>2. m.text = Silent => ~Fil!Echo(m, f.recent) /\ ~Fil!Echo(m, g.recent)
      BY <1>1, SilentIsNoEcho
    <3> QED BY <1>6, <2>1, <2>2, <3>1, <3>2
  <2>3. CASE ~Spoken(m)
    <3>1. f2.drop = f.drop /\ g2.drop = g.drop
      BY <2>3 DEF Step1
    <3> QED BY <1>6, <2>1, <2>3, <3>1
  <2> QED BY <2>2, <2>3
<1> QED BY <1>9, <1>10 DEF D, D2

-----------------------------------------------------------------------------
(* The filter's steps. *)
LEMMA EmptyFilter ==
  ASSUME NEW h
  PROVE  FilterOf(Fil!Fresh, h)
<1>1. Fil!Fresh \in Filters /\ Fil!Fresh.kept = {} /\ Fil!Fresh.recent = {} /\ Fil!Fresh.drop = FALSE
  BY DEF Fil!Fresh, Filters
<1>2. Shown(h, {}, Len(h) + 1) = {}
  BY DEF Shown
<1>3. IsFiniteSet({}) /\ Cardinality({}) = 0
  BY FS_EmptySet
<1> QED BY <1>1, <1>2, <1>3, ReadingAssumption DEF FilterOf

LEMMA FilterStart ==
  ASSUME Fil!Init
  PROVE  FilterInv
<1> USE DEF Fil!Init
<1>1. raw \in Seq(Fil!Message) /\ Len(raw) = 0 /\ DOMAIN raw = {}
  OBVIOUS
<1>2. Reads(whole, raw)
  BY <1>1 DEF Reads, OrphanAt, Fil!Fresh
<1> QED BY <1>1, <1>2, EmptyFilter, ReadingAssumption DEF FilterInv, Fil!Fresh

LEMMA GrowsStep ==
  ASSUME FilterInv, Fil!Grows
  PROVE  FilterInv'
<1>1. PICK m \in Fil!Message :
        /\ raw' = Append(raw, m) /\ whole' \in Fil!After(whole, Len(raw'), raw')
        /\ part' \in IF first = 0 THEN {part} ELSE Fil!After(part, Len(raw'), raw')
  BY DEF Fil!Grows
<1>2. Longer(raw, m, raw')
  BY <1>1, LongerByOne DEF FilterInv
<1>3. raw' \in Seq(Fil!Message) /\ Len(raw') <= MaxLen /\ first' = first /\ first \in 0..(Len(raw') + 1)
  BY <1>2, ReadingAssumption DEF Longer, Fil!Grows, FilterInv
<1>4. FilterOf(whole', raw') /\ Step1(whole, whole', raw, m)
  BY <1>1, <1>2, AfterSteps DEF FilterInv
<1>5. Reads(whole', raw')
  BY <1>2, <1>4, ReadsOn DEF FilterInv
<1>6. CASE first = 0
  <2>1. part' = part /\ part = Fil!Fresh
    BY <1>1, <1>6 DEF FilterInv
  <2>2. FilterOf(part', raw')
    BY <2>1, EmptyFilter
  <2> QED BY <1>3, <1>4, <1>5, <1>6, <2>1, <2>2 DEF FilterInv
<1>7. CASE first # 0
  <2>1. part' \in Fil!After(part, Len(raw'), raw')
    BY <1>1, <1>7
  <2>2. FilterOf(part', raw') /\ Step1(part, part', raw, m)
    BY <1>2, <2>1, AfterSteps DEF FilterInv
  <2>3. first \in 1..(Len(raw) + 1) /\ AtEdge(whole, part, raw, first)
    BY <1>7 DEF FilterInv
  <2>4. AtEdge(whole', part', raw', first)
    BY <1>2, <1>4, <2>2, <2>3, EdgeOn DEF FilterInv
  <2>5. \A k \in part'.kept : k >= first
    BY <1>2, <2>2, <2>3 DEF Step1, FilterInv, Longer
  <2> QED BY <1>3, <1>4, <1>5, <1>7, <2>2, <2>4, <2>5 DEF FilterInv
<1> QED BY <1>6, <1>7

LEMMA CutStep ==
  ASSUME FilterInv, Fil!Cut
  PROVE  FilterInv'
<1>1. first' = Len(raw) + 1 /\ part' = Fil!Fresh /\ raw' = raw /\ whole' = whole
  BY DEF Fil!Cut
<1>2. Len(raw) \in Nat /\ whole.kept \subseteq 1..Len(raw)
  BY DEF FilterInv, FilterOf
<1>3. Fil!Fresh.kept = {} /\ Fil!Fresh.drop = FALSE
  BY DEF Fil!Fresh
<1>4. Apart(whole, Fil!Fresh, Len(raw) + 1) = {}
  BY <1>2, <1>3 DEF Apart
<1>5. ~Spoke(raw, Len(raw) + 1, Len(raw) + 1)
  BY <1>2 DEF Spoke
<1>6. AtEdge(whole, Fil!Fresh, raw, Len(raw) + 1)
  BY <1>3, <1>4, <1>5 DEF AtEdge
<1> QED BY <1>1, <1>2, <1>3, <1>6, EmptyFilter DEF FilterInv

LEMMA FilterStep ==
  ASSUME FilterInv, Fil!Next \/ UNCHANGED Fil!vars
  PROVE  FilterInv'
BY GrowsStep, CutStep DEF Fil!Next, Fil!vars, FilterInv

-----------------------------------------------------------------------------
(* What the filter promises. *)
LEMMA LastOf ==
  ASSUME NEW N \in Nat, NEW U \in SUBSET (1..N), NEW k \in U, \A j \in U : j <= k
  PROVE  (CHOOSE x \in U : \A j \in U : j <= x) = k
<1>1. \A x, y \in U : (\A j \in U : j <= x) /\ (\A j \in U : j <= y) => x = y
  OBVIOUS
<1> QED BY <1>1

LEMMA PromisedSame ==
  ASSUME FilterInv, NEW n \in DOMAIN raw
  PROVE  Fil!Promised(whole, n) <=> PromisedAt(raw, whole.kept, n)
<1>0. raw \in Seq(Fil!Message) /\ DOMAIN raw = 1..Len(raw) /\ Len(raw) \in Nat /\ whole.kept \subseteq DOMAIN raw
  BY DEF FilterInv, FilterOf
<1>1. \A k \in DOMAIN raw : k \in Fil!Users <=> Spoken(raw[k])
  BY DEF Fil!Users, Spoken
<1>2. \A k : Fil!TextsOf(Fil!Before(whole.kept \cap Fil!Replies, k)) = Shown(raw, whole.kept, k)
  <2> SUFFICES ASSUME NEW k PROVE Fil!TextsOf(Fil!Before(whole.kept \cap Fil!Replies, k)) = Shown(raw, whole.kept, k)
    OBVIOUS
  <2>1. Fil!Before(whole.kept \cap Fil!Replies, k) = {j \in whole.kept : j < k /\ ~Spoken(raw[j])}
    BY <1>0, <1>1 DEF Fil!Before, Fil!Replies
  <2> QED BY <2>1 DEF Fil!TextsOf, Shown
<1>3. \A k : Fil!Dropped(whole, k) <=> DroppedAt(raw, whole.kept, k)
  BY <1>2 DEF Fil!Dropped, DroppedAt
<1> DEFINE us == Fil!Before({k \in Fil!Users : k >= first \/ whole = whole}, n)
<1>4. us = {k \in DOMAIN raw : k < n /\ Spoken(raw[k])}
  BY <1>1 DEF Fil!Before, Fil!Users
<1>5. Fil!Orphan(whole, n) <=> us # {} /\ Fil!Dropped(whole, CHOOSE k \in us : \A j \in us : j <= k)
  BY DEF Fil!Orphan
<1> HIDE DEF us
<1>6. \A k : LastUser(raw, n, k) <=> k \in us /\ \A j \in us : j <= k
  BY <1>4 DEF LastUser
<1>7. Fil!Orphan(whole, n) <=> OrphanAt(raw, whole.kept, n)
  <2>1. CASE us = {}
    BY <1>5, <1>6, <2>1 DEF OrphanAt
  <2>2. CASE us # {}
    <3>1. us \in SUBSET (1..Len(raw))
      BY <1>0, <1>4
    <3>2. PICK k \in us : \A j \in us : j <= k
      BY <1>0, <2>2, <3>1, MaxFacts
    <3>3. (CHOOSE x \in us : \A j \in us : j <= x) = k
      BY <1>0, <3>1, <3>2, LastOf
    <3>4. Fil!Orphan(whole, n) <=> Fil!Dropped(whole, k)
      BY <1>5, <2>2, <3>3
    <3>5. \A j \in us : (\A i \in us : i <= j) => j = k
      BY <1>0, <3>1, <3>2
    <3>6. \A j : LastUser(raw, n, j) <=> j = k
      BY <1>6, <3>2, <3>5
    <3>7. OrphanAt(raw, whole.kept, n) <=> DroppedAt(raw, whole.kept, k)
      BY <1>4, <3>6 DEF OrphanAt
    <3> QED BY <1>3, <3>4, <3>7
  <2> QED BY <2>1, <2>2
<1> QED BY <1>1, <1>2, <1>3, <1>7 DEF Fil!Promised, PromisedAt

LEMMA FilterGivesKept ==
  FilterInv => Fil!TypeOK /\ Fil!KeepsPromise /\ Fil!DiffersAtEdge
<1> SUFFICES ASSUME FilterInv PROVE Fil!TypeOK /\ Fil!KeepsPromise /\ Fil!DiffersAtEdge
  OBVIOUS
<1>0. raw \in Seq(Fil!Message) /\ DOMAIN raw = 1..Len(raw) /\ Len(raw) \in Nat /\ whole.kept \subseteq DOMAIN raw
  BY DEF FilterInv, FilterOf
<1>1. Fil!TypeOK
  <2>1. first \in 0..(MaxLen + 1)
    BY <1>0, ReadingAssumption DEF FilterInv
  <2> QED BY <1>0, <2>1, SameCardinality DEF FilterInv, FilterOf, Filters, Fil!TypeOK
<1>2. Fil!KeepsPromise
  BY PromisedSame DEF FilterInv, Reads, Fil!KeepsPromise
<1>3. Fil!DiffersAtEdge
  <2> SUFFICES ASSUME first # 0, ~whole.forgot, ~part.forgot,
                      NEW n \in {k \in (whole.kept \ part.kept) \cup (part.kept \ whole.kept) : k >= first}
               PROVE  \/ Fil!Before({k \in (whole.kept \ part.kept) \cup (part.kept \ whole.kept) : k >= first}, n) # {}
                      \/ n \in part.kept /\ (\/ Fil!Before(Fil!Users, n) \cap first..n = {}
                                            \/ Fil!Echo(raw[n], Fil!TextsOf(Fil!Before(whole.kept \cap Fil!Replies, first))))
    BY DEF Fil!DiffersAtEdge
  <2> DEFINE D == Apart(whole, part, first)
  <2>1. n \in D /\ D = {k \in (whole.kept \ part.kept) \cup (part.kept \ whole.kept) : k >= first}
    BY DEF Apart
  <2>2. \/ \E d \in D : d < n
        \/ n \in part.kept /\ (~Spoke(raw, first, n) \/ Fil!Echo(raw[n], Shown(raw, whole.kept, first)))
    BY <2>1 DEF FilterInv, AtEdge
  <2> HIDE DEF D
  <2>3. (\E d \in D : d < n) => Fil!Before(D, n) # {}
    BY DEF Fil!Before
  <2>4. Fil!TextsOf(Fil!Before(whole.kept \cap Fil!Replies, first)) = Shown(raw, whole.kept, first)
    <3>1. Fil!Before(whole.kept \cap Fil!Replies, first) = {j \in whole.kept : j < first /\ ~Spoken(raw[j])}
      BY <1>0 DEF Fil!Before, Fil!Replies, Fil!Users, Spoken
    <3> QED BY <3>1 DEF Fil!TextsOf, Shown
  <2>5. ~Spoke(raw, first, n) => Fil!Before(Fil!Users, n) \cap first..n = {}
    <3>1. n \in Nat /\ first \in Nat
      BY <1>0, <2>1 DEF FilterInv, FilterOf, Apart
    <3> QED BY <1>0, <3>1 DEF Spoke, Fil!Before, Fil!Users, Spoken
  <2> QED BY <2>1, <2>2, <2>3, <2>4, <2>5
<1> QED BY <1>1, <1>2, <1>3

-----------------------------------------------------------------------------
(* What a browser shows. *)
LEMMA EndsOf ==
  ASSUME NEW N \in Nat, NEW R \in SUBSET (1..N)
  PROVE  /\ R = {} => Pag!Lowest(R) = 0 /\ Pag!Highest(R) = 0
         /\ R # {} => /\ Pag!Lowest(R) \in R /\ \A j \in R : Pag!Lowest(R) <= j
                      /\ Pag!Highest(R) \in R /\ \A j \in R : j <= Pag!Highest(R)
         /\ Pag!Lowest(R) \in 0..N /\ Pag!Highest(R) \in 0..N
<1>1. CASE R = {}
  BY <1>1 DEF Pag!Lowest, Pag!Highest
<1>2. CASE R # {}
  <2>1. R \in SUBSET Nat
    OBVIOUS
  <2>2. PICK k \in R : \A j \in R : ~ (<<j, k>> \in OpToRel(<, Nat))
    BY <1>2, <2>1, NatLessThanWellFounded, WFMin
  <2>3. k \in R /\ \A j \in R : k <= j
    <3>1. ASSUME NEW j \in R, j < k PROVE FALSE
      BY <2>1, <2>2, <3>1 DEF OpToRel
    <3> QED BY <2>1, <3>1
  <2>4. Pag!Min(R) \in R /\ \A j \in R : Pag!Min(R) <= j
    BY <2>3 DEF Pag!Min
  <2>5. Pag!Max(R) \in R /\ \A j \in R : j <= Pag!Max(R)
    <3>1. Pag!Max(R) = Max(R)
      BY DEF Pag!Max, Max
    <3> QED BY <1>2, <3>1, MaxFacts
  <2>6. Pag!Lowest(R) = Pag!Min(R) /\ Pag!Highest(R) = Pag!Max(R)
    BY <1>2 DEF Pag!Lowest, Pag!Highest
  <2>7. Pag!Lowest(R) \in 1..N /\ Pag!Highest(R) \in 1..N
    BY <2>4, <2>5, <2>6
  <2> QED BY <1>2, <2>4, <2>5, <2>6, <2>7
<1> QED BY <1>1, <1>2

Stored         == 1..top
Answers(kinds) == [kind : kinds, rows : SUBSET Stored]

ViewTypes ==
  /\ top \in 0..MaxTop /\ sent \in 0..top /\ shown \subseteq Stored /\ cursor \in 0..top
  /\ view \in [mode : {"latest", "history"}, oldest : 0..top, more : BOOLEAN,
               rows : SUBSET Stored, top : 0..top]
  /\ cached \in [rows : SUBSET Stored, top : 0..top]
  /\ asked \in [sync : Answers({"none", "increment", "latest"}), older : Answers({"none", "older"}),
                around : Answers({"none", "around"})]
  /\ jumped \in BOOLEAN /\ gapped \in BOOLEAN

\* The latest rows: shown, or behind a page that is.
Latest    == IF Pag!History THEN view.rows ELSE shown
LatestTop == IF Pag!History THEN view.top ELSE cursor

Convex(R)   == \A x, y \in R, n \in Pag!Rows : x <= n /\ n <= y => n \in R
Meets(R, Q) == R # {} /\ Q # {} => \E x \in Q, y \in R : x <= y + 1

\* The first row is shown, or there was none to show.
Begun == IF shown = {} THEN sent = 0 ELSE 1 \in shown

\* From the lowest of the latest rows on, what was pushed is shown or in the answer to a
\* sync; that answer has no gap and leaves none.
Unbroken ==
  LET R == asked.sync.rows IN
  /\ \A x \in Latest, n \in Pag!Rows : x <= n /\ n <= sent => n \in Latest \cup R
  /\ Convex(R) /\ Meets(R, Latest)
  /\ Latest = {} => LatestTop = 0 /\ (R # {} => \E y \in R : sent <= y)

\* Before a search has set the viewport, older pages leave no gap either.
Scrolled ==
  /\ ~Pag!History
  /\ Convex(asked.older.rows) /\ Meets(asked.older.rows, shown)
  /\ asked.older.rows # {} => shown # {}
  /\ view.oldest > 0 => \E x \in shown : x <= view.oldest
  /\ ~view.more => Begun
  /\ asked.sync.kind = "latest" /\ asked.sync.rows = {} => Begun
  /\ asked.sync.kind = "increment" => shown # {}

ViewInv == ViewTypes /\ (~gapped => Unbroken /\ (~jumped => Scrolled))

LEMMA ViewGivesKept ==
  ViewInv => Pag!TypeOK /\ Pag!NoGap /\ Pag!EndReached /\ Pag!LatestWaits
<1> SUFFICES ASSUME ViewInv PROVE Pag!TypeOK /\ Pag!NoGap /\ Pag!EndReached /\ Pag!LatestWaits
  OBVIOUS
<1>0. ViewTypes
  BY DEF ViewInv
<1>1. Pag!TypeOK
  BY <1>0, ReadingAssumption DEF ViewTypes, Pag!TypeOK, Stored, Pag!Rows
\* Nothing is missing between the lowest of the latest rows and the cursor.
<1>2. ASSUME ~gapped, NEW low \in Int, low \in Latest \/ Latest = {},
             NEW n \in Pag!Between(low, LatestTop)
      PROVE  n \in Latest \cup Pag!Arriving
  <2>1. n \in Pag!Rows /\ low <= n /\ n <= LatestTop /\ n \in Nat /\ n >= 1 /\ n <= top /\ sent \in Nat
    BY <1>0 DEF Pag!Between, Pag!Rows, LatestTop, ViewTypes
  <2>2. Unbroken
    BY <1>2 DEF ViewInv
  <2>3. Latest # {}
    BY <2>1, <2>2 DEF Unbroken
  <2>4. CASE n <= sent
    BY <1>2, <2>1, <2>2, <2>3, <2>4 DEF Unbroken, Pag!Arriving
  <2>5. CASE ~(n <= sent)
    BY <1>0, <2>1, <2>5 DEF Pag!Arriving, ViewTypes
  <2> QED BY <2>4, <2>5
<1>3. ASSUME NEW R, R \in SUBSET Stored
      PROVE  Pag!Lowest(R) \in Int /\ (R # {} => Pag!Lowest(R) \in R)
  BY <1>0, <1>3, EndsOf DEF Stored, ViewTypes
<1>4. Pag!NoGap
  BY <1>0, <1>2, <1>3 DEF Pag!NoGap, Latest, LatestTop, ViewTypes
<1>5. Pag!LatestWaits
  BY <1>0, <1>2, <1>3 DEF Pag!LatestWaits, Latest, LatestTop, ViewTypes
<1>6. Pag!EndReached
  <2> SUFFICES ASSUME ~Pag!History, ~gapped, ~jumped, ~view.more
               PROVE  Pag!Between(1, cursor) \subseteq shown \cup Pag!Arriving
    BY DEF Pag!EndReached
  <2>1. 1 \in Latest \/ Latest = {}
    BY DEF ViewInv, Scrolled, Begun, Latest
  <2> QED BY <1>2, <2>1 DEF Latest, LatestTop
<1> QED BY <1>1, <1>4, <1>5, <1>6

\* The answers to GET /history.
PageBefore(seq, R) ==
  R \subseteq Stored /\ Convex(R) /\ (R # {} => seq - 1 \in R) /\ (R = {} => seq <= 1)

LEMMA HistoryBefore ==
  ASSUME top \in 0..MaxTop, NEW seq \in 0..(top + 1)
  PROVE  PageBefore(seq, Pag!ListHistoryBefore(seq))
<1>0. top \in Nat /\ Limit \in Nat /\ Limit >= 2 /\ seq \in Nat /\ MaxTop \in Nat
  BY ReadingAssumption
<1> DEFINE R == Pag!ListHistoryBefore(seq)
<1>1. \A n : n \in R <=> n \in 1..top /\ n < seq /\ n + Limit >= seq
  BY DEF Pag!ListHistoryBefore
<1> HIDE DEF R
<1>2. R \subseteq Stored
  BY <1>1 DEF Stored
<1>3. Convex(R)
  BY <1>0, <1>1 DEF Convex, Pag!Rows
<1>4. seq > 1 => seq - 1 \in R
  BY <1>0, <1>1
<1>5. R # {} => seq > 1
  BY <1>0, <1>1
<1> QED BY <1>0, <1>2, <1>3, <1>4, <1>5 DEF R, PageBefore

LEMMA HistoryAfter ==
  ASSUME top \in 0..MaxTop, NEW seq \in 0..top
  PROVE  LET a == Pag!ListHistoryAfter(seq) IN
         /\ a \in Answers({"none", "increment", "latest"}) /\ a.kind # "none"
         /\ Convex(a.rows) /\ (a.rows # {} => top \in a.rows)
         /\ a.kind = "increment" => seq > 0
         /\ seq > 0 => (seq + 1)..top \subseteq a.rows
         /\ a.kind = "latest" /\ a.rows = {} => top = 0
<1>0. top \in Nat /\ top <= MaxTop /\ MaxTop \in Nat /\ seq \in Nat
  BY ReadingAssumption
<1>1. CASE seq > 0
  <2> DEFINE R == (seq + 1)..top
  <2>1. Pag!ListHistoryAfter(seq) = Pag!Answer("increment", R)
    BY <1>1 DEF Pag!ListHistoryAfter
  <2>2. R \subseteq Stored /\ Convex(R) /\ (R # {} => top \in R) /\ (seq + 1)..top \subseteq R
    BY <1>0 DEF Stored, Convex, Pag!Rows
  <2> HIDE DEF R
  <2> QED BY <1>1, <2>1, <2>2 DEF Pag!Answer, Answers
<1>2. CASE ~(seq > 0)
  <2> DEFINE R == Pag!ListHistoryBefore(top + 1)
  <2>1. Pag!ListHistoryAfter(seq) = Pag!Answer("latest", R)
    BY <1>2 DEF Pag!ListHistoryAfter
  <2>2. top + 1 \in 0..(top + 1) /\ top + 1 - 1 = top
    BY <1>0
  <2>3. PageBefore(top + 1, R)
    BY <2>2, HistoryBefore
  <2> HIDE DEF R
  <2>4. R \subseteq Stored /\ Convex(R) /\ (R # {} => top \in R) /\ (R = {} => top = 0)
    BY <1>0, <2>2, <2>3 DEF PageBefore
  <2> QED BY <1>2, <2>1, <2>4 DEF Pag!Answer, Answers
<1> QED BY <1>1, <1>2


-----------------------------------------------------------------------------
(* Every step. *)
LEMMA ViewStart ==
  ASSUME Pag!Init
  PROVE  ViewInv
<1>1. top \in 0..MaxTop /\ sent = top /\ shown = {} /\ cursor = 0 /\ ~Pag!History
      /\ ~jumped /\ ~gapped /\ top \in Nat /\ 0 \in 0..top
  BY ReadingAssumption DEF Pag!Init, Pag!History
<1> DEFINE a == Pag!ListHistoryAfter(0)
<1>2. /\ a \in Answers({"none", "increment", "latest"}) /\ a.kind # "none"
      /\ Convex(a.rows) /\ (a.rows # {} => top \in a.rows)
      /\ a.kind = "increment" => 0 > 0
      /\ a.kind = "latest" /\ a.rows = {} => top = 0
  BY <1>1, HistoryAfter
<1> HIDE DEF a
<1>3. asked = [sync |-> a, older |-> Pag!NoAnswer, around |-> Pag!NoAnswer]
  BY DEF Pag!Init, a
<1>4. Pag!NoAnswer \in Answers({"none", "older"}) /\ Pag!NoAnswer \in Answers({"none", "around"})
      /\ Pag!NoAnswer.rows = {} /\ Pag!NoAnswer.kind = "none"
  BY DEF Pag!NoAnswer, Answers
<1>5. ViewTypes
  <2>1. TRUE \in BOOLEAN /\ FALSE \in BOOLEAN /\ {} \in SUBSET Stored
    OBVIOUS
  <2>2. view \in [mode : {"latest", "history"}, oldest : 0..top, more : BOOLEAN,
                  rows : SUBSET Stored, top : 0..top]
    BY <1>1, <2>1 DEF Pag!Init
  <2>3. cached \in [rows : SUBSET Stored, top : 0..top]
    BY <1>1, <2>1 DEF Pag!Init
  <2>4. jumped \in BOOLEAN /\ gapped \in BOOLEAN
    BY DEF Pag!Init
  <2>5. asked \in [sync : Answers({"none", "increment", "latest"}), older : Answers({"none", "older"}),
                   around : Answers({"none", "around"})]
    BY <1>2, <1>3, <1>4
  <2> QED BY <1>1, <2>2, <2>3, <2>4, <2>5 DEF ViewTypes
<1>6. asked.sync = a /\ asked.older.rows = {} /\ view.oldest = 0 /\ view.more
  BY <1>3, <1>4 DEF Pag!Init
<1>7. Unbroken
  BY <1>1, <1>2, <1>6 DEF Unbroken, Latest, LatestTop, Meets
<1>8. Scrolled
  BY <1>1, <1>2, <1>6 DEF Scrolled, Begun, Convex, Meets
<1> QED BY <1>5, <1>7, <1>8 DEF ViewInv

LEMMA WriteStep ==
  ASSUME ViewInv, Pag!Write
  PROVE  ViewInv'
<1> USE DEF Pag!Write
<1>1. ViewTypes'
  <2>1. top \in Nat /\ top' = top + 1 /\ top' \in 0..MaxTop /\ 0..top \subseteq 0..top'
        /\ Stored \subseteq Stored'
    BY ReadingAssumption DEF ViewInv, ViewTypes, Stored
  <2>2. \A K : Answers(K) \subseteq Answers(K)'
    BY <2>1 DEF Answers
  <2> QED BY <2>1, <2>2 DEF ViewInv, ViewTypes
<1>2. Unbroken => Unbroken'
  BY DEF Unbroken, Latest, LatestTop, Pag!History
<1>3. Scrolled => Scrolled'
  BY DEF Scrolled, Begun, Pag!History
<1> QED BY <1>1, <1>2, <1>3 DEF ViewInv

LEMMA UpsertStep ==
  ASSUME ViewInv, Pag!UpsertMessage
  PROVE  ViewInv'
<1> USE DEF Pag!UpsertMessage, Pag!Save
<1>0. top \in Nat /\ top <= MaxTop /\ MaxTop \in Nat /\ sent \in Nat /\ cursor \in Nat /\ cursor <= top
      /\ sent + 1 \in 1..top /\ shown \subseteq Nat
  BY ReadingAssumption DEF ViewInv, ViewTypes, Stored
<1>1. ViewTypes'
  <2>1. Pag!Max({cursor, sent + 1}) \in 0..top
    <3>1. cursor <= sent + 1 \/ sent + 1 <= cursor
      BY <1>0
    <3>2. Pag!Max({cursor, sent + 1}) \in {cursor, sent + 1}
      BY <1>0, <3>1 DEF Pag!Max
    <3> QED BY <1>0, <3>2
  <2>2. shown' \in SUBSET Stored' /\ Stored' = Stored /\ sent' \in 0..top
    BY <1>0 DEF ViewInv, ViewTypes, Stored
  <2>3. \A K : Answers(K)' = Answers(K)
    BY <2>2 DEF Answers
  <2>4. gapped' \in BOOLEAN
    BY DEF ViewInv, ViewTypes, Pag!History
  <2> QED BY <2>1, <2>2, <2>3, <2>4 DEF ViewInv, ViewTypes
<1> SUFFICES ASSUME ~gapped' PROVE Unbroken' /\ (~jumped' => Scrolled')
  BY <1>1 DEF ViewInv
<1>2. ~gapped /\ ~Pag!History /\ ~Pag!History' /\ Latest = shown /\ Latest' = shown \cup {sent + 1} /\ Latest' # {}
  BY DEF Latest, Pag!History
<1>3. Unbroken'
  <2> DEFINE R == asked.sync.rows
  <2>0. R' = R /\ R \subseteq Nat
    BY <1>0 DEF ViewInv, ViewTypes, Answers, Stored
  <2>1. ASSUME NEW x \in Latest', NEW n \in Pag!Rows, x <= n, n <= sent + 1
        PROVE  n \in Latest' \cup R
    <3>1. n \in Nat /\ x \in Nat
      BY <1>0, <1>2 DEF Pag!Rows
    <3>2. CASE n = sent + 1
      BY <1>2, <3>2
    <3>3. CASE n <= sent
      BY <1>0, <1>2, <2>1, <3>1, <3>3 DEF ViewInv, Unbroken
    <3> QED BY <1>0, <2>1, <3>1, <3>2, <3>3
  <2>2. Convex(R)
    BY <1>2 DEF ViewInv, Unbroken
  <2>3. Meets(R, Latest')
    <3> SUFFICES ASSUME R # {} PROVE \E x \in Latest', y \in R : x <= y + 1
      BY DEF Meets
    <3>1. CASE Latest = {}
      <4>1. PICK y \in R : sent <= y
        BY <1>2, <3>1 DEF ViewInv, Unbroken
      <4> QED BY <1>0, <1>2, <2>0, <4>1
    <3>2. CASE Latest # {}
      BY <1>2, <3>2 DEF ViewInv, Unbroken, Meets
    <3> QED BY <3>1, <3>2
  <2> HIDE DEF R
  <2>4. Convex(R)' /\ Meets(R, Latest)'
    BY <2>0, <2>2, <2>3 DEF Convex, Meets
  <2> QED BY <1>2, <2>0, <2>1, <2>4 DEF Unbroken, R
<1>4. ASSUME ~jumped' PROVE Scrolled'
  <2>1. Scrolled
    BY <1>2, <1>4 DEF ViewInv
  <2>2. Begun => Begun'
    BY <1>0, <1>2 DEF Begun
  <2> QED BY <1>0, <1>2, <2>1, <2>2 DEF Scrolled, Convex, Meets
<1> QED BY <1>3, <1>4

LEMMA ViewSyncStep ==
  ASSUME ViewInv, Pag!Sync
  PROVE  ViewInv'
<1>0. top \in 0..MaxTop /\ top \in Nat /\ MaxTop \in Nat /\ sent \in Nat /\ sent <= top
      /\ cursor \in 0..top /\ 0 \in 0..top /\ shown \subseteq Stored
      /\ view.rows \subseteq Stored
  BY ReadingAssumption DEF ViewInv, ViewTypes
<1>1. PICK seq \in {cursor, 0} : asked' = [asked EXCEPT !.sync = Pag!ListHistoryAfter(seq)]
  BY DEF Pag!Sync
<1> DEFINE a == Pag!ListHistoryAfter(seq)
<1>2. /\ a \in Answers({"none", "increment", "latest"}) /\ a.kind # "none"
      /\ Convex(a.rows) /\ (a.rows # {} => top \in a.rows)
      /\ a.kind = "increment" => seq > 0
      /\ a.kind = "latest" /\ a.rows = {} => top = 0
  BY <1>0, HistoryAfter
<1> HIDE DEF a
<1>3. /\ asked'.sync = a /\ asked'.older = asked.older /\ asked'.around = asked.around
      /\ asked' \in [sync : Answers({"none", "increment", "latest"}), older : Answers({"none", "older"}),
                     around : Answers({"none", "around"})]
  BY <1>1, <1>2 DEF a, ViewInv, ViewTypes
<1>4. asked.sync.rows = {}
  BY DEF Pag!Sync, Pag!NoAnswer
<1>5. ViewTypes'
  BY <1>3 DEF Pag!Sync, ViewInv, ViewTypes, Answers, Stored
<1> SUFFICES ASSUME ~gapped PROVE Unbroken' /\ (~jumped => Scrolled')
  BY <1>5 DEF ViewInv, Pag!Sync
<1>6. Latest' = Latest /\ LatestTop' = LatestTop /\ sent' = sent /\ Latest \subseteq Stored /\ Pag!History' = Pag!History
  BY <1>0 DEF Pag!Sync, Latest, LatestTop, Pag!History
<1>7. Unbroken /\ (~jumped => Scrolled)
  BY DEF ViewInv
<1>8. Unbroken'
  <2>1. Meets(a.rows, Latest)
    <3> SUFFICES ASSUME a.rows # {}, Latest # {} PROVE \E x \in Latest, y \in a.rows : x <= y + 1
      BY DEF Meets
    <3>1. PICK x \in Latest : TRUE
      OBVIOUS
    <3>2. x <= top /\ x \in Nat /\ x <= top + 1
      BY <1>0, <1>6 DEF Stored
    <3> QED BY <1>2, <3>2
  <2>2. Convex(asked.sync.rows)' /\ Meets(asked.sync.rows, Latest)'
    BY <1>2, <1>3, <1>6, <2>1 DEF Convex, Meets
  <2> QED BY <1>0, <1>2, <1>3, <1>4, <1>6, <1>7, <2>2 DEF Unbroken
<1>9. ASSUME ~jumped PROVE Scrolled'
  <2>1. ~Pag!History /\ Scrolled
    BY <1>7, <1>9 DEF Scrolled
  <2>2. top = 0 => Begun /\ Begun'
    BY <1>0 DEF Begun, Stored, Pag!Sync
  <2>3. seq > 0 => shown # {}
    BY <1>0, <1>7, <2>1 DEF Unbroken, Latest, LatestTop
  <2>4. Begun' = Begun
    BY DEF Begun, Pag!Sync
  <2> QED BY <1>2, <1>3, <2>1, <2>2, <2>3, <2>4 DEF Scrolled, Pag!Sync, Pag!History, Convex, Meets
<1> QED BY <1>8, <1>9

\* Rows of an answer that touches the latest ones are added to them: no gap.
LEMMA AddRows ==
  ASSUME ViewTypes, ~gapped, Unbroken,
         NEW R \in SUBSET Stored, Convex(R), Meets(R, Latest),
         NEW A, Latest \cup asked.sync.rows \subseteq Latest \cup R \cup A,
         Latest = {} => \A x \in R : \E y \in R : sent <= y,
         NEW x \in Latest \cup R, NEW n \in Pag!Rows, x <= n, n <= sent
  PROVE  n \in Latest \cup R \cup A
<1>1. Latest \subseteq Nat /\ R \subseteq Nat /\ n \in Nat /\ sent \in Nat
  <2>1. top \in Nat /\ sent \in Nat /\ Stored \subseteq Nat /\ n \in Nat
    BY ReadingAssumption DEF ViewTypes, Stored, Pag!Rows
  <2>2. Latest \subseteq Stored
    BY DEF ViewTypes, Latest
  <2> QED BY <2>1, <2>2
<1>2. \A z \in Latest : z <= n => n \in Latest \cup R \cup A
  BY DEF Unbroken
<1>3. CASE x \in R /\ Latest = {}
  <2>1. PICK y \in R : sent <= y
    BY <1>3
  <2>2. n <= y
    BY <1>1, <2>1
  <2> QED BY <1>3, <2>2 DEF Convex
<1>4. CASE x \in R /\ Latest # {}
  <2>1. PICK z \in Latest, y \in R : z <= y + 1
    BY <1>4 DEF Meets
  <2>2. CASE z <= n
    BY <1>2, <2>2
  <2>3. CASE ~(z <= n)
    <3>1. n <= y
      BY <1>1, <2>1, <2>3
    <3> QED BY <1>4, <3>1 DEF Convex
  <2> QED BY <2>2, <2>3
<1> QED BY <1>2, <1>3, <1>4

LEMMA EndOfPage ==
  ASSUME top \in Nat, NEW R \in SUBSET Stored
  PROVE  /\ Pag!Lowest(R) \in 0..top /\ Pag!Highest(R) \in 0..top
         /\ (R # {} => Pag!Lowest(R) \in R) /\ (R = {} => Pag!Highest(R) = 0)
         /\ (R # {} => (Pag!Lowest(R) <= 1 => 1 \in R))
<1>1. R \in SUBSET (1..top)
  BY DEF Stored
<1> QED BY <1>1, EndsOf

LEMMA LargerOf ==
  ASSUME top \in Nat, NEW m \in 0..top, NEW n \in 0..top
  PROVE  Pag!Max({m, n}) \in 0..top /\ (m = 0 /\ n = 0 => Pag!Max({m, n}) = 0)
<1>1. m <= n \/ n <= m
  OBVIOUS
<1>2. Pag!Max({m, n}) \in {m, n}
  BY <1>1 DEF Pag!Max
<1> QED BY <1>2

LEMMA MergeStep ==
  ASSUME ViewInv, Pag!MergeFromServer
  PROVE  ViewInv'
<1> DEFINE R == asked.sync.rows
           Seen(v) == IF asked.sync.kind = "latest"
                      THEN [v EXCEPT !.oldest = Pag!Lowest(R), !.more = Pag!HasMore(R)]
                      ELSE v
<1>0. ViewTypes /\ top \in Nat /\ R \in SUBSET Stored /\ sent \in Nat /\ UNCHANGED <<top, sent, jumped, gapped>>
  BY ReadingAssumption DEF ViewInv, ViewTypes, Answers, Pag!MergeFromServer
<1>1. /\ Pag!Lowest(R) \in 0..top /\ Pag!Highest(R) \in 0..top
      /\ (R # {} => Pag!Lowest(R) \in R) /\ (R = {} => Pag!Highest(R) = 0)
      /\ (R # {} => (Pag!Lowest(R) <= 1 => 1 \in R))
  BY <1>0, EndOfPage
<1>2. /\ asked' \in [sync : Answers({"none", "increment", "latest"}), older : Answers({"none", "older"}),
                     around : Answers({"none", "around"})]
      /\ asked'.sync = Pag!NoAnswer /\ asked'.sync.rows = {} /\ asked'.sync.kind = "none"
      /\ asked'.older = asked.older
  <2>1. Pag!NoAnswer \in Answers({"none", "increment", "latest"}) /\ Pag!NoAnswer.rows = {} /\ Pag!NoAnswer.kind = "none"
    BY DEF Pag!NoAnswer, Answers
  <2> QED BY <1>0, <2>1 DEF ViewTypes, Pag!MergeFromServer
<1>3. \A v \in [mode : {"latest", "history"}, oldest : 0..top, more : BOOLEAN,
                rows : SUBSET Stored, top : 0..top] :
         /\ Seen(v) \in [mode : {"latest", "history"}, oldest : 0..top, more : BOOLEAN,
                         rows : SUBSET Stored, top : 0..top]
         /\ Seen(v).rows = v.rows /\ Seen(v).top = v.top /\ Seen(v).mode = v.mode
         /\ asked.sync.kind = "latest" => Seen(v).oldest = Pag!Lowest(R) /\ Seen(v).more = Pag!HasMore(R)
         /\ asked.sync.kind # "latest" => Seen(v) = v
  <2>1. Pag!HasMore(R) \in BOOLEAN
    BY DEF Pag!HasMore
  <2> QED BY <1>1, <2>1
<1>4. CASE Pag!History
  <2> DEFINE w == [view EXCEPT !.rows = @ \cup R, !.top = Pag!Max({@, Pag!Highest(R)})]
  <2>1. view' = Seen(w) /\ UNCHANGED <<shown, cursor, cached>>
    BY <1>4 DEF Pag!MergeFromServer
  <2>2. Pag!Max({view.top, Pag!Highest(R)}) \in 0..top /\ (view.top = 0 /\ Pag!Highest(R) = 0 => Pag!Max({view.top, Pag!Highest(R)}) = 0)
    <3>1. view.top \in 0..top
      BY <1>0 DEF ViewTypes
    <3> QED BY <1>0, <1>1, <3>1, LargerOf
  <2>3. w \in [mode : {"latest", "history"}, oldest : 0..top, more : BOOLEAN,
               rows : SUBSET Stored, top : 0..top]
        /\ w.rows = view.rows \cup R /\ w.mode = "history" /\ w.top = Pag!Max({view.top, Pag!Highest(R)})
    BY <1>0, <1>4, <2>2 DEF ViewTypes, Pag!History
  <2> HIDE DEF w, Seen
  <2>4. view' \in [mode : {"latest", "history"}, oldest : 0..top, more : BOOLEAN,
                   rows : SUBSET Stored, top : 0..top]
        /\ view'.rows = view.rows \cup R /\ view'.mode = "history" /\ view'.top = Pag!Max({view.top, Pag!Highest(R)})
    BY <1>3, <2>1, <2>3
  <2>5. ViewTypes'
    BY <1>0, <1>2, <2>1, <2>4 DEF ViewTypes, Answers, Stored
  <2>6. Latest' = Latest \cup R /\ (Latest = {} => LatestTop' = Pag!Max({LatestTop, Pag!Highest(R)})) /\ Pag!History'
    BY <1>4, <2>4 DEF Latest, LatestTop, Pag!History
  <2>7. ASSUME ~gapped PROVE Unbroken'
    <3>1. Unbroken
      BY <2>7 DEF ViewInv
    <3>2. ASSUME NEW x \in Latest', NEW n \in Pag!Rows, x <= n, n <= sent PROVE n \in Latest'
      <4>1. n \in Latest \cup R \cup {}
        BY <1>0, <2>6, <2>7, <3>1, <3>2, AddRows DEF Unbroken
      <4> QED BY <2>6, <4>1
    <3>3. Latest' = {} => LatestTop' = 0
      BY <1>1, <1>4, <2>2, <2>6, <3>1 DEF Unbroken, LatestTop
    <3>4. Convex(asked.sync.rows)' /\ Meets(asked.sync.rows, Latest)'
      BY <1>2 DEF Convex, Meets
    <3> QED BY <1>0, <1>2, <3>2, <3>3, <3>4 DEF Unbroken
  <2>8. ~gapped => jumped
    BY <1>4 DEF ViewInv, Scrolled
  <2> QED BY <1>0, <2>5, <2>7, <2>8 DEF ViewInv
<1>5. CASE ~Pag!History
  <2>1. view' = Seen(view) /\ shown' = shown \cup R /\ cursor' = Pag!Max({cursor, Pag!Highest(R)})
        /\ (cached' = cached \/ cached' = [rows |-> shown', top |-> cursor'])
    BY <1>5 DEF Pag!MergeFromServer, Pag!Save
  <2>2. Pag!Max({cursor, Pag!Highest(R)}) \in 0..top /\ (cursor = 0 /\ Pag!Highest(R) = 0 => Pag!Max({cursor, Pag!Highest(R)}) = 0)
    BY <1>0, <1>1, LargerOf DEF ViewTypes
  <2> HIDE DEF Seen
  <2>3. /\ view' \in [mode : {"latest", "history"}, oldest : 0..top, more : BOOLEAN,
                      rows : SUBSET Stored, top : 0..top]
        /\ view'.mode = view.mode
        /\ asked.sync.kind = "latest" => view'.oldest = Pag!Lowest(R) /\ view'.more = Pag!HasMore(R)
        /\ asked.sync.kind # "latest" => view' = view
    BY <1>0, <1>3, <2>1 DEF ViewTypes
  <2>4. cached' \in [rows : SUBSET Stored, top : 0..top] /\ shown' \in SUBSET Stored
    BY <1>0, <2>1, <2>2 DEF ViewTypes
  <2>5. ViewTypes'
    BY <1>0, <1>2, <2>1, <2>2, <2>3, <2>4 DEF ViewTypes, Answers, Stored
  <2>6. Latest = shown /\ Latest' = Latest \cup R /\ LatestTop' = Pag!Max({LatestTop, Pag!Highest(R)}) /\ ~Pag!History'
    BY <1>5, <2>1, <2>3 DEF Latest, LatestTop, Pag!History
  <2>7. ASSUME ~gapped PROVE Unbroken'
    <3>1. Unbroken
      BY <2>7 DEF ViewInv
    <3>2. ASSUME NEW x \in Latest', NEW n \in Pag!Rows, x <= n, n <= sent PROVE n \in Latest'
      <4>1. n \in Latest \cup R \cup {}
        BY <1>0, <2>6, <2>7, <3>1, <3>2, AddRows DEF Unbroken
      <4> QED BY <2>6, <4>1
    <3>3. Latest' = {} => LatestTop' = 0
      BY <1>1, <1>5, <2>2, <2>6, <3>1 DEF Unbroken, LatestTop
    <3>4. Convex(asked.sync.rows)' /\ Meets(asked.sync.rows, Latest)'
      BY <1>2 DEF Convex, Meets
    <3> QED BY <1>0, <1>2, <3>2, <3>3, <3>4 DEF Unbroken
  <2>8. ASSUME ~gapped, ~jumped PROVE Scrolled'
    <3>1. Scrolled
      BY <2>8 DEF ViewInv
    <3>2. Begun => Begun' \/ (shown = {} /\ R # {})
      BY <1>0, <2>1 DEF Begun
    <3>3. view'.oldest > 0 => \E x \in shown' : x <= view'.oldest
      <4>1. CASE asked.sync.kind = "latest" /\ R # {}
        BY <1>0, <1>1, <2>1, <2>3, <4>1
      <4>2. CASE asked.sync.kind = "latest" /\ R = {}
        BY <2>3, <4>2 DEF Pag!Lowest
      <4>3. CASE asked.sync.kind # "latest"
        BY <2>1, <2>3, <3>1, <4>3 DEF Scrolled
      <4> QED BY <4>1, <4>2, <4>3
    <3>4. ~view'.more => Begun'
      <4>1. CASE asked.sync.kind = "latest" /\ R # {}
        BY <1>0, <1>1, <2>1, <2>3, <4>1 DEF Pag!HasMore, Begun
      <4>2. CASE asked.sync.kind = "latest" /\ R = {}
        BY <3>1, <3>2, <4>2 DEF Scrolled
      <4>3. CASE asked.sync.kind # "latest"
        <5>1. asked.sync.kind = "increment"
          BY <1>0, <4>3 DEF ViewTypes, Answers, Pag!MergeFromServer
        <5> QED BY <2>3, <3>1, <3>2, <4>3, <5>1 DEF Scrolled
      <4> QED BY <4>1, <4>2, <4>3
    <3>5. Convex(asked.older.rows)' /\ Meets(asked.older.rows, shown)' /\ (asked'.older.rows # {} => shown' # {})
      BY <1>2, <2>1, <3>1 DEF Scrolled, Convex, Meets
    <3> QED BY <1>2, <2>6, <3>3, <3>4, <3>5 DEF Scrolled
  <2> QED BY <1>0, <2>5, <2>7, <2>8 DEF ViewInv
<1> QED BY <1>4, <1>5

LEMMA LoadOlderStep ==
  ASSUME ViewInv, Pag!LoadOlderMessages
  PROVE  ViewInv'
<1> DEFINE R == Pag!ListHistoryBefore(view.oldest)
<1>0. ViewTypes /\ top \in 0..MaxTop /\ top \in Nat /\ view.oldest \in 0..(top + 1)
      /\ view.oldest > 0 /\ view.oldest \in Nat /\ UNCHANGED <<top, sent, shown, cursor, view, cached, jumped, gapped>>
  BY ReadingAssumption DEF ViewInv, ViewTypes, Pag!LoadOlderMessages
<1>1. R \in SUBSET Stored /\ Convex(R) /\ (R # {} => view.oldest - 1 \in R)
  BY <1>0, HistoryBefore DEF PageBefore
<1> HIDE DEF R
<1>2. asked' = [asked EXCEPT !.older = [kind |-> "older", rows |-> R]]
  BY DEF Pag!LoadOlderMessages, Pag!Answer, R
<1>3. /\ asked' \in [sync : Answers({"none", "increment", "latest"}), older : Answers({"none", "older"}),
                     around : Answers({"none", "around"})]
      /\ asked'.sync = asked.sync /\ asked'.older.rows = R
  BY <1>0, <1>1, <1>2 DEF ViewTypes, Answers
<1>4. ViewTypes'
  BY <1>0, <1>3 DEF ViewTypes, Answers, Stored
<1>5. Unbroken => Unbroken'
  BY <1>0, <1>3 DEF Unbroken, Latest, LatestTop, Pag!History, Convex, Meets
<1>6. ASSUME Scrolled PROVE Scrolled'
  <2>1. PICK x \in shown : x <= view.oldest
    BY <1>0, <1>6 DEF Scrolled
  <2>2. x \in Nat
    BY <1>0, <2>1 DEF ViewTypes, Stored
  <2>3. R # {} => \E y \in R : x <= y + 1
    BY <1>0, <1>1, <2>1, <2>2
  <2>4. Convex(asked.older.rows)' /\ Meets(asked.older.rows, shown)'
    BY <1>0, <1>1, <1>3, <2>1, <2>3 DEF Convex, Meets
  <2> QED BY <1>0, <1>3, <1>6, <2>1, <2>4 DEF Scrolled, Begun, Pag!History
<1> QED BY <1>0, <1>4, <1>5, <1>6 DEF ViewInv

LEMMA PrependStep ==
  ASSUME ViewInv, Pag!PrependMessages
  PROVE  ViewInv'
<1> DEFINE R == asked.older.rows
<1>0. ViewTypes /\ top \in Nat /\ R \in SUBSET Stored /\ sent \in Nat /\ UNCHANGED <<top, sent, cursor, jumped>>
  BY ReadingAssumption DEF ViewInv, ViewTypes, Answers, Pag!PrependMessages
<1>1. /\ asked' \in [sync : Answers({"none", "increment", "latest"}), older : Answers({"none", "older"}),
                     around : Answers({"none", "around"})]
      /\ asked'.sync = asked.sync /\ asked'.older.rows = {}
  <2>1. Pag!NoAnswer \in Answers({"none", "older"}) /\ Pag!NoAnswer.rows = {}
    BY DEF Pag!NoAnswer, Answers
  <2> QED BY <1>0, <2>1 DEF ViewTypes, Pag!PrependMessages
<1>2. CASE R = {}
  <2>1. UNCHANGED <<shown, view, cached, gapped>>
    BY <1>2 DEF Pag!PrependMessages
  <2>2. ViewTypes'
    BY <1>0, <1>1, <2>1 DEF ViewTypes, Answers, Stored
  <2>3. Unbroken => Unbroken'
    BY <1>0, <1>1, <2>1 DEF Unbroken, Latest, LatestTop, Pag!History, Convex, Meets
  <2>4. Scrolled => Scrolled'
    BY <1>0, <1>1, <2>1 DEF Scrolled, Begun, Pag!History, Convex, Meets
  <2> QED BY <1>0, <2>1, <2>2, <2>3, <2>4 DEF ViewInv
<1>3. CASE R # {}
  <2>1. /\ shown' = shown \cup R /\ view' = [view EXCEPT !.oldest = Pag!Lowest(R), !.more = Pag!HasMore(R)]
        /\ cached' = [rows |-> shown', top |-> cursor] /\ gapped' = (gapped \/ (jumped /\ ~Pag!History))
    BY <1>3 DEF Pag!PrependMessages
  <2>2. Pag!Lowest(R) \in 0..top /\ Pag!Lowest(R) \in R /\ (Pag!Lowest(R) <= 1 => 1 \in R)
    BY <1>0, <1>3, EndOfPage
  <2>3. /\ view' \in [mode : {"latest", "history"}, oldest : 0..top, more : BOOLEAN,
                      rows : SUBSET Stored, top : 0..top]
        /\ view'.mode = view.mode /\ view'.oldest = Pag!Lowest(R) /\ view'.more = Pag!HasMore(R)
        /\ view'.rows = view.rows /\ view'.top = view.top
    <3>1. Pag!HasMore(R) \in BOOLEAN
      BY DEF Pag!HasMore
    <3> QED BY <1>0, <2>1, <2>2, <3>1 DEF ViewTypes
  <2>4. cached' \in [rows : SUBSET Stored, top : 0..top] /\ shown' \in SUBSET Stored /\ gapped' \in BOOLEAN
    BY <1>0, <2>1 DEF ViewTypes, Pag!History
  <2>5. ViewTypes'
    BY <1>0, <1>1, <2>3, <2>4 DEF ViewTypes, Answers, Stored
  <2>6. CASE Pag!History
    <3>1. Latest' = Latest /\ LatestTop' = LatestTop /\ Pag!History'
      BY <2>3, <2>6 DEF Latest, LatestTop, Pag!History
    <3>2. Unbroken => Unbroken'
      BY <1>0, <1>1, <3>1 DEF Unbroken, Convex, Meets
    <3>3. ~gapped => jumped
      BY <2>6 DEF ViewInv, Scrolled
    <3> QED BY <1>0, <2>1, <2>5, <3>2, <3>3 DEF ViewInv
  <2>7. CASE ~Pag!History
    <3> SUFFICES ASSUME ~gapped' PROVE Unbroken' /\ Scrolled'
      BY <2>5 DEF ViewInv
    <3>1. ~gapped /\ Scrolled /\ Unbroken
      BY <2>1, <2>7, <1>0 DEF ViewInv
    <3>2. Latest = shown /\ Latest' = Latest \cup R /\ ~Pag!History' /\ Latest # {}
      BY <2>1, <2>3, <2>7, <3>1, <1>3 DEF Latest, Pag!History, Scrolled
    <3>3. Convex(R) /\ Meets(R, Latest)
      BY <3>1, <3>2 DEF Scrolled
    <3>4. ASSUME NEW x \in Latest', NEW n \in Pag!Rows, x <= n, n <= sent
          PROVE  n \in Latest' \cup asked'.sync.rows
      <4>1. n \in Latest \cup R \cup asked.sync.rows
        BY <1>0, <3>1, <3>2, <3>3, <3>4, AddRows
      <4> QED BY <1>1, <3>2, <4>1
    <3>5. Convex(asked.sync.rows)' /\ Meets(asked.sync.rows, Latest)'
      BY <1>1, <3>1, <3>2 DEF Convex, Meets, Unbroken
    <3>6. Unbroken'
      BY <1>0, <3>2, <3>4, <3>5 DEF Unbroken
    <3>7. Begun => Begun'
      BY <1>0, <2>1, <3>2 DEF Begun
    <3>8. ~view'.more => Begun'
      <4>1. ~Pag!HasMore(R) => Pag!Lowest(R) <= 1
        BY <1>0, <2>2 DEF Pag!HasMore
      <4>2. 1 \in R => Begun'
        BY <2>1 DEF Begun
      <4> QED BY <2>2, <2>3, <4>1, <4>2
    <3>9. \E x \in shown' : x <= view'.oldest
      BY <1>0, <2>1, <2>2, <2>3
    <3>10. Convex(asked.older.rows)' /\ Meets(asked.older.rows, shown)' /\ shown' # {}
      BY <1>1, <3>2, <2>1 DEF Convex, Meets
    <3> QED BY <1>1, <3>1, <3>2, <3>6, <3>7, <3>8, <3>9, <3>10 DEF Scrolled
  <2> QED BY <2>6, <2>7
<1> QED BY <1>2, <1>3

LEMMA LoadAroundStep ==
  ASSUME ViewInv, Pag!LoadAroundMessage
  PROVE  ViewInv'
<1>0. ViewTypes /\ UNCHANGED <<top, sent, shown, cursor, view, cached, jumped, gapped>>
  BY DEF ViewInv, Pag!LoadAroundMessage
<1>1. PICK n \in (1..top) \ shown : asked' = [asked EXCEPT !.around = Pag!Answer("around", Pag!ListHistoryAround(n))]
  BY DEF Pag!LoadAroundMessage
<1>2. Pag!Answer("around", Pag!ListHistoryAround(n)) \in Answers({"none", "around"})
  BY DEF Pag!Answer, Answers, Pag!ListHistoryAround, Stored
<1>3. /\ asked' \in [sync : Answers({"none", "increment", "latest"}), older : Answers({"none", "older"}),
                     around : Answers({"none", "around"})]
      /\ asked'.sync = asked.sync /\ asked'.older = asked.older
  BY <1>0, <1>1, <1>2 DEF ViewTypes
<1>4. ViewTypes'
  BY <1>0, <1>3 DEF ViewTypes, Answers, Stored
<1>5. Unbroken => Unbroken'
  BY <1>0, <1>3 DEF Unbroken, Latest, LatestTop, Pag!History, Convex, Meets
<1>6. Scrolled => Scrolled'
  BY <1>0, <1>3 DEF Scrolled, Begun, Pag!History, Convex, Meets
<1> QED BY <1>0, <1>4, <1>5, <1>6 DEF ViewInv

LEMMA SwitchStep ==
  ASSUME ViewInv, Pag!SwitchToHistoryView
  PROVE  ViewInv'
<1> DEFINE R == asked.around.rows
<1>0. ViewTypes /\ top \in Nat /\ R \in SUBSET Stored /\ UNCHANGED <<top, sent, cursor, cached>>
  BY ReadingAssumption DEF ViewInv, ViewTypes, Answers, Pag!SwitchToHistoryView
<1>1. /\ asked' \in [sync : Answers({"none", "increment", "latest"}), older : Answers({"none", "older"}),
                     around : Answers({"none", "around"})]
      /\ asked'.sync = asked.sync
  <2>1. Pag!NoAnswer \in Answers({"none", "around"})
    BY DEF Pag!NoAnswer, Answers
  <2> QED BY <1>0, <2>1 DEF ViewTypes, Pag!SwitchToHistoryView
<1>2. view' = [mode |-> "history", oldest |-> Pag!Lowest(R), more |-> Pag!HasMore(R), rows |-> shown, top |-> cursor]
      /\ shown' = R /\ jumped' = TRUE /\ gapped' = (gapped \/ Pag!History)
  BY DEF Pag!SwitchToHistoryView
<1>3. Pag!Lowest(R) \in 0..top /\ Pag!HasMore(R) \in BOOLEAN /\ TRUE \in BOOLEAN /\ gapped' \in BOOLEAN
  BY <1>0, <1>2, EndOfPage DEF Pag!HasMore, ViewTypes, Pag!History
<1>4. view' \in [mode : {"latest", "history"}, oldest : 0..top, more : BOOLEAN,
                 rows : SUBSET Stored, top : 0..top]
      /\ view'.mode = "history" /\ view'.rows = shown /\ view'.top = cursor
  BY <1>0, <1>2, <1>3 DEF ViewTypes
<1>5. ViewTypes'
  BY <1>0, <1>1, <1>2, <1>3, <1>4 DEF ViewTypes, Answers, Stored
<1>6. ASSUME ~gapped' PROVE Unbroken'
  <2>1. Unbroken /\ ~Pag!History
    BY <1>2, <1>6 DEF ViewInv
  <2>2. Latest' = Latest /\ LatestTop' = LatestTop
    BY <1>0, <1>4, <2>1 DEF Latest, LatestTop, Pag!History
  <2> QED BY <1>0, <1>1, <2>1, <2>2 DEF Unbroken, Convex, Meets
<1> QED BY <1>2, <1>5, <1>6 DEF ViewInv

LEMMA ReturnStep ==
  ASSUME ViewInv, Pag!ReturnToLatest
  PROVE  ViewInv'
<1>0. ViewTypes /\ UNCHANGED <<top, sent, asked, jumped, gapped>> /\ Pag!History
      /\ shown' = view.rows /\ cursor' = view.top
      /\ view' = [view EXCEPT !.mode = "latest", !.rows = {}]
      /\ cached' = [rows |-> shown', top |-> cursor']
  BY DEF ViewInv, Pag!ReturnToLatest
<1>1. ViewTypes'
  BY <1>0 DEF ViewTypes, Answers, Stored
<1>2. ~Pag!History' /\ Latest' = Latest /\ LatestTop' = LatestTop
  BY <1>0 DEF ViewTypes, Latest, LatestTop, Pag!History
<1>3. Unbroken => Unbroken'
  BY <1>0, <1>2 DEF Unbroken, Convex, Meets
<1>4. ~gapped => jumped
  BY <1>0 DEF ViewInv, Scrolled
<1> QED BY <1>0, <1>1, <1>3, <1>4 DEF ViewInv

LEMMA FailStep ==
  ASSUME ViewInv, Pag!Fail
  PROVE  ViewInv'
<1>0. ViewTypes /\ UNCHANGED <<top, sent, shown, cursor, view, cached, jumped, gapped>>
  BY DEF ViewInv, Pag!Fail
<1>1. /\ asked' \in [sync : Answers({"none", "increment", "latest"}), older : Answers({"none", "older"}),
                     around : Answers({"none", "around"})]
      /\ asked'.sync = asked.sync /\ (asked'.older = asked.older \/ asked'.older.rows = {})
  <2>1. Pag!NoAnswer \in Answers({"none", "older"}) /\ Pag!NoAnswer \in Answers({"none", "around"}) /\ Pag!NoAnswer.rows = {}
    BY DEF Pag!NoAnswer, Answers
  <2>2. asked' = [asked EXCEPT !.older = Pag!NoAnswer] \/ asked' = [asked EXCEPT !.around = Pag!NoAnswer]
    BY DEF Pag!Fail
  <2> QED BY <1>0, <2>1, <2>2 DEF ViewTypes
<1>2. ViewTypes'
  BY <1>0, <1>1 DEF ViewTypes, Answers, Stored
<1>3. Unbroken => Unbroken'
  BY <1>0, <1>1 DEF Unbroken, Latest, LatestTop, Pag!History, Convex, Meets
<1>4. Scrolled => Scrolled'
  BY <1>0, <1>1 DEF Scrolled, Begun, Pag!History, Convex, Meets
<1> QED BY <1>0, <1>2, <1>3, <1>4 DEF ViewInv

LEMMA ReloadStep ==
  ASSUME ViewInv, Pag!Reload
  PROVE  ViewInv'
<1> DEFINE a == Pag!ListHistoryAfter(cached.top)
<1>0. /\ ViewTypes /\ top \in 0..MaxTop /\ top \in Nat /\ MaxTop \in Nat /\ cached.top \in 0..top
      /\ cached.top \in Nat /\ cached.rows \in SUBSET Stored /\ UNCHANGED <<top, cached>> /\ sent' = top
      /\ shown' = cached.rows /\ cursor' = cached.top /\ ~jumped'
      /\ view' = [mode |-> "latest", oldest |-> 0, more |-> TRUE, rows |-> {}, top |-> 0]
      /\ gapped' = (gapped \/ cached.rows # Pag!Between(Pag!Lowest(cached.rows), cached.top))
  BY ReadingAssumption DEF ViewInv, ViewTypes, Pag!Reload
<1>1. /\ a \in Answers({"none", "increment", "latest"}) /\ a.kind # "none"
      /\ Convex(a.rows) /\ (a.rows # {} => top \in a.rows)
      /\ a.kind = "increment" => cached.top > 0
      /\ cached.top > 0 => (cached.top + 1)..top \subseteq a.rows
      /\ a.kind = "latest" /\ a.rows = {} => top = 0
  BY <1>0, HistoryAfter
<1> HIDE DEF a
<1>2. /\ asked' \in [sync : Answers({"none", "increment", "latest"}), older : Answers({"none", "older"}),
                     around : Answers({"none", "around"})]
      /\ asked'.sync = a /\ asked'.older.rows = {}
  <2>1. Pag!NoAnswer \in Answers({"none", "older"}) /\ Pag!NoAnswer \in Answers({"none", "around"}) /\ Pag!NoAnswer.rows = {}
    BY DEF Pag!NoAnswer, Answers
  <2>2. asked' = [sync |-> a, older |-> Pag!NoAnswer, around |-> Pag!NoAnswer]
    BY DEF Pag!Reload, a
  <2> QED BY <1>1, <2>1, <2>2
<1>3. ViewTypes'
  <2>1. TRUE \in BOOLEAN /\ FALSE \in BOOLEAN /\ {} \in SUBSET Stored /\ 0 \in 0..top
    BY <1>0
  <2>2. gapped' \in BOOLEAN /\ jumped' \in BOOLEAN
    BY <1>0 DEF ViewTypes, Pag!Reload
  <2>3. view' \in [mode : {"latest", "history"}, oldest : 0..top, more : BOOLEAN,
                   rows : SUBSET Stored, top : 0..top]
    BY <1>0, <2>1
  <2>4. Stored' = Stored /\ sent' \in 0..top
    BY <1>0 DEF Stored
  <2> QED BY <1>0, <1>2, <2>2, <2>3, <2>4 DEF ViewTypes, Answers
<1> SUFFICES ASSUME ~gapped' PROVE Unbroken' /\ Scrolled'
  BY <1>3 DEF ViewInv
<1>4. /\ ~Pag!History' /\ Latest' = cached.rows /\ LatestTop' = cached.top
  BY <1>0 DEF Latest, LatestTop, Pag!History
<1>5. cached.rows = Pag!Between(Pag!Lowest(cached.rows), cached.top)
  BY <1>0
<1>6. cached.rows = {} => cached.top = 0
  <2>1. cached.rows = {} => Pag!Lowest(cached.rows) = 0
    BY DEF Pag!Lowest
  <2> QED BY <1>0, <1>5, <2>1 DEF Pag!Between, Pag!Rows
<1>7. cached.top = 0 => cached.rows = {}
  BY <1>0, <1>5 DEF Pag!Between, Pag!Rows
<1>8. Unbroken'
  <2>1. ASSUME NEW x \in cached.rows, NEW n \in Pag!Rows, x <= n, n <= top PROVE n \in cached.rows \cup a.rows
    <3>1. Pag!Lowest(cached.rows) \in cached.rows /\ Pag!Lowest(cached.rows) <= x /\ n \in Nat /\ x \in Nat
          /\ Pag!Lowest(cached.rows) \in Nat
      BY <1>0, <2>1, EndsOf DEF Stored, Pag!Rows
    <3>2. CASE n <= cached.top
      BY <1>5, <2>1, <3>1, <3>2 DEF Pag!Between
    <3>3. CASE ~(n <= cached.top)
      BY <1>0, <1>1, <1>7, <2>1, <3>1, <3>3
    <3> QED BY <3>2, <3>3
  <2>2. Meets(a.rows, cached.rows)
    <3> SUFFICES ASSUME a.rows # {}, NEW x \in cached.rows PROVE x <= top + 1
      BY <1>1 DEF Meets
    <3> QED BY <1>0 DEF Stored
  <2>3. Convex(asked.sync.rows)' /\ Meets(asked.sync.rows, Latest)'
    BY <1>1, <1>2, <1>4, <2>2 DEF Convex, Meets
  <2> QED BY <1>0, <1>1, <1>2, <1>4, <1>6, <2>1, <2>3 DEF Unbroken
<1>9. Scrolled'
  <2>1. view'.oldest = 0 /\ view'.more
    BY <1>0
  <2>2. top = 0 => Begun'
    BY <1>0 DEF Begun, Stored
  <2>3. Convex(asked.older.rows)' /\ Meets(asked.older.rows, shown)'
    BY <1>2 DEF Convex, Meets
  <2> QED BY <1>0, <1>1, <1>2, <1>4, <1>6, <2>1, <2>2, <2>3 DEF Scrolled
<1> QED BY <1>8, <1>9

LEMMA ViewStep ==
  ASSUME ViewInv, Pag!Next \/ UNCHANGED Pag!vars
  PROVE  ViewInv'
<1>1. CASE UNCHANGED Pag!vars
  <2>1. ViewTypes'
    BY <1>1 DEF Pag!vars, ViewInv, ViewTypes, Answers, Stored
  <2>2. Unbroken => Unbroken'
    BY <1>1 DEF Pag!vars, Unbroken, Latest, LatestTop, Pag!History, Convex, Meets
  <2>3. Scrolled => Scrolled'
    BY <1>1 DEF Pag!vars, Scrolled, Begun, Pag!History, Convex, Meets
  <2> QED BY <1>1, <2>1, <2>2, <2>3 DEF Pag!vars, ViewInv
<1> QED BY <1>1, WriteStep, UpsertStep, ViewSyncStep, MergeStep, LoadOlderStep, PrependStep,
           LoadAroundStep, SwitchStep, ReturnStep, FailStep, ReloadStep DEF Pag!Next

-----------------------------------------------------------------------------
LEMMA RecordsRegistryInv == RecordsSpec => []RegistryInv
<1>1. RecordsInit => RegistryInv
  BY RegistryStart DEF RecordsInit
<1>2. RegistryInv /\ [RecordsNext]_<<running, vars, slotVars, filterVars, viewVars>> => RegistryInv'
  <2> SUFFICES ASSUME RegistryInv, [RecordsNext]_<<running, vars, slotVars, filterVars, viewVars>>
               PROVE  RegistryInv'
    OBVIOUS
  <2>1. CASE Reg!Next
    BY <2>1, RegistryStep
  <2>2. CASE UNCHANGED slotVars
    <3>1. UNCHANGED Reg!vars
      BY <2>2 DEF slotVars, Reg!vars, Reg!hist
    <3> QED BY <3>1, RegistryStutter
  <2> QED BY <2>1, <2>2 DEF RecordsNext
<1> QED BY <1>1, <1>2, PTL DEF RecordsSpec

LEMMA RecordsSetup == RecordsSpec => Spec
<1>1. RecordsInit => Init
  BY DEF RecordsInit
<1>2. [RecordsNext]_<<running, vars, slotVars, filterVars, viewVars>> => [Next]_vars
  BY DEF RecordsNext
<1> QED BY <1>1, <1>2, PTL DEF RecordsSpec, Spec

LEMMA RecordsFilterInv == RecordsSpec => []FilterInv
<1>1. RecordsInit => FilterInv
  BY FilterStart DEF RecordsInit
<1>2. FilterInv /\ [RecordsNext]_<<running, vars, slotVars, filterVars, viewVars>> => FilterInv'
  <2> SUFFICES ASSUME FilterInv, [RecordsNext]_<<running, vars, slotVars, filterVars, viewVars>>
               PROVE  FilterInv'
    OBVIOUS
  <2>1. Fil!Next \/ UNCHANGED Fil!vars
    BY DEF RecordsNext, filterVars, Fil!vars
  <2> QED BY <2>1, FilterStep
<1> QED BY <1>1, <1>2, PTL DEF RecordsSpec

LEMMA RecordsViewInv == RecordsSpec => []ViewInv
<1>1. RecordsInit => ViewInv
  BY ViewStart DEF RecordsInit
<1>2. ViewInv /\ [RecordsNext]_<<running, vars, slotVars, filterVars, viewVars>> => ViewInv'
  <2> SUFFICES ASSUME ViewInv, [RecordsNext]_<<running, vars, slotVars, filterVars, viewVars>>
               PROVE  ViewInv'
    OBVIOUS
  <2>1. Pag!Next \/ UNCHANGED Pag!vars
    BY DEF RecordsNext, viewVars, Pag!vars
  <2> QED BY <2>1, ViewStep
<1> QED BY <1>1, <1>2, PTL DEF RecordsSpec

(* For any accounts, created bots and terminals of the user's own, and any     *)
(* number of requests: no two slots share an id or a session, a restart finds  *)
(* the registry as it was unless its file was being written or a session had   *)
(* moved, a listed terminal slot has its terminal or is getting it, and only a *)
(* synchronised discovery gives a conversation two slots (slot_registry.py:111, *)
(* 310, misc.py:456, 695).                                                     *)
THEOREM RegistryIsKept == RecordsSpec => []RegistryKept
<1>1. RegistryInv => RegistryKept
  BY RegistryGivesKept DEF RegistryKept
<1> QED BY <1>1, RecordsRegistryInv, PTL

(* In the same setting: no step of the server changes a saved row of the       *)
(* configuration; when a delete request is answered its id names no slot; a    *)
(* discovery leaves a slot for every bot found; and what the user set up for   *)
(* the mirror of a session stays (config_store.py:74, misc.py:730,             *)
(* slot_registry.py:310, 353).                                                 *)
THEOREM StepsAreKept == RecordsSpec => StepsKeep
<1> DEFINE Gone == \A i \in deleting \ deleting' : Reg!Resolve(slots', i) = {} \/ moved \/ Reg!Restart
           Complete == Reg!DiscoverAndSync =>
              moved \/ \A n \in DOMAIN Reg!Discovered : Reg!Discovered[n].key \in Reg!KeysOf(slots')
           Stay == \/ \E p \in SUBSET offered : Reg!SelectBots("replace", p)
                   \/ slots' \in {Reg!Default, Reg!Enriched(Reg!Default)}
                   \/ \A m \in DOMAIN slots, n \in DOMAIN slots' :
                        slots[m].key = slots'[n].key /\ slots[m].mirror = "user"
                          => slots'[n].mirror = "user"
<1>1. RegistryInv /\ [RecordsNext]_<<running, vars, slotVars, filterVars, viewVars>>
        => [Gone /\ Complete /\ Stay]_Reg!vars
  <2> SUFFICES ASSUME RegistryInv, [RecordsNext]_<<running, vars, slotVars, filterVars, viewVars>>
               PROVE  [Gone /\ Complete /\ Stay]_Reg!vars
    OBVIOUS
  <2>1. CASE Reg!Next
    BY <2>1, RegistryStep DEF RegistrySteps, MirrorsStay
  <2>2. CASE UNCHANGED slotVars
    BY <2>2 DEF slotVars, Reg!vars, Reg!hist
  <2> QED BY <2>1, <2>2 DEF RecordsNext
<1>2. RecordsSpec => [][Gone /\ Complete /\ Stay]_Reg!vars
  BY <1>1, RecordsRegistryInv, PTL DEF RecordsSpec
<1>3. RecordsSpec => Reg!DeletedIsGone
  BY <1>2, PTL DEF Reg!DeletedIsGone
<1>4. RecordsSpec => Reg!SyncComplete
  BY <1>2, PTL DEF Reg!SyncComplete
<1>5. RecordsSpec => Reg!UserMirrorKept
  BY <1>2, PTL DEF Reg!UserMirrorKept
<1> QED BY <1>3, <1>4, <1>5, RecordsSetup, RowsAreKept DEF StepsKeep

(* For any texts, any ways to cut them, any number of replies remembered and   *)
(* histories of any length: while no reply had to be forgotten the filter      *)
(* keeps what it promises, and a window of the history first differs from the  *)
(* whole at its edge (canonicalize.py:331, 456, 494).                          *)
THEOREM FilterIsKept == RecordsSpec => []FilterKeeps
<1>1. FilterInv => FilterKeeps
  BY FilterGivesKept DEF FilterKeeps
<1> QED BY <1>1, RecordsFilterInv, PTL

(* For any number of rows and pages of any size from two on: pushes, syncs,    *)
(* older pages and reloads leave no gap in what a browser shows, the end of    *)
(* the history is told truly, and a page found by a search keeps the latest    *)
(* rows behind it, but for the steps that NoGap names (chat-store.ts:315, 426, *)
(* 592, 624).                                                                  *)
THEOREM ViewIsKept == RecordsSpec => []ViewKeeps
<1>1. ViewInv => ViewKeeps
  BY ViewGivesKept DEF ViewKeeps
<1> QED BY <1>1, RecordsViewInv, PTL
=============================================================================
