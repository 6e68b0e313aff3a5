--------------------------------- MODULE Setup ---------------------------------
(***************************************************************************)
(* Where the configuration lives.  A setup request saves a row of the      *)
(* configuration store, makes it the active one, applies it to the running *)
(* adapter, and writes the choice of the adapter into the .env file; keys  *)
(* of voice services go to the .env file alone, the session mode to the    *)
(* shared settings, and the adapter chosen in the settings panel nowhere.  *)
(* The wizard of the command line, another process, reads the .env file,   *)
(* asks, and writes all of it.  A start puts everything together again.    *)
(***************************************************************************)
EXTENDS Integers, Sequences, FiniteSets, FiniteSetsExt

CONSTANTS
  Gateway, Claude,  \* the built-in adapters; Claude is the default
  Urls,             \* addresses a gateway may have
  DefaultUrl,
  VoiceKeys,        \* keys of the voice service
  None,
  MaxOps            \* bound: requests, crashes and edits

ASSUME SetupAssumption ==
  /\ Gateway # Claude /\ None \notin {Gateway, Claude} \cup Urls \cup VoiceKeys
  /\ MaxOps \in Nat

Adapters == {Gateway, Claude}
Modes    == {"observer", "controller"}
Row      == [type : Adapters, url : Urls \cup {None}, active : BOOLEAN]
Request  == [type : Adapters, url : Urls \cup {None}, at : {"saved", "active"}]
Free     == [type |-> None, url |-> None, at |-> "none"]

(* What the .env file may say: the fallback adapter, the voice key, the      *)
(* speech provider, the gateway's address as the server reads it, and as the *)
(* wizard of the command line writes it (the field's name).                  *)
Env    == [active : Adapters \cup {None}, groq : VoiceKeys \cup {None},
           stt : {"groq", "whisper", None}, url : Urls \cup {None}, field : Urls \cup {None}]
NoEnv  == [active |-> None, groq |-> None, stt |-> None, url |-> None, field |-> None]

VARIABLES
  rows,      \* adapter_configs, in the order of creation
  env,       \* the .env file
  shared,    \* sessionMode in the shared settings
  up,        \* the server runs
  environ,   \* os.environ
  fallback,  \* the router's fallback adapter
  url,       \* gateway.GATEWAY_URL
  stt,       \* the speech provider
  mode,      \* the session mode of the Claude adapter
  busy,      \* the setup request being handled, or Free
  cli,       \* the wizard of the command line: the file as it was read, or None
  ops,
  edited,    \* history: the file was written by another hand since the start
  apart,     \* history: where the adapter was set by another hand than a setup
  lost,      \* history: the file was cut by a crash, or overwritten by the wizard
  saved      \* history: the voice key the user saved last

file   == <<rows, env, shared>>
memory == <<environ, fallback, url, stt, mode>>
hist   == <<edited, apart, lost, saved>>
vars   == <<file, up, memory, busy, cli, ops, hist>>

-----------------------------------------------------------------------------
Or(x, y) == IF x = None THEN y ELSE x

(* load_dotenv(override): what the file names replaces what was there.       *)
Loaded(e, f) == [k \in DOMAIN e |-> Or(f[k], e[k])]

(* _resolve_active: the provider that is named, else the one that can work.  *)
SttOf(e) == Or(e.stt, IF e.groq # None THEN "groq" ELSE "whisper")

(* Faulty variant of Applied: the address is taken even when there is none. *)
AppliedEmpty(u, row) == IF row.type = Gateway THEN row.url ELSE u

(* apply_config: a row without an address leaves the one there is.           *)
Applied(u, row) == IF row.type = Gateway THEN Or(row.url, u) ELSE u

(* The rows that give the gateway an address. *)
Addressed(rs) == {n \in DOMAIN rs : rs[n].type = Gateway /\ rs[n].url # None}

(* Faulty variant of StartUrl: only the active row is applied. *)
StartUrlActive(rs, e) ==
  LET active == {n \in Addressed(rs) : rs[n].active}
  IN  IF active = {} THEN Or(e.url, DefaultUrl) ELSE rs[Max(active)].url

(* At the start every row is applied to its adapter, the oldest first: the   *)
(* newest row with an address leaves its own.                                *)
StartUrl(rs, e) ==
  IF Addressed(rs) = {} THEN Or(e.url, DefaultUrl) ELSE rs[Max(Addressed(rs))].url

(* Faulty variant of Migrated: the store may hold rows already. *)
MigratedAlways(rs, e) ==
  IF e.active = None THEN rs
  ELSE Append(rs, [type |-> e.active, url |-> IF e.active = Gateway THEN e.url ELSE None,
                   active |-> TRUE])

(* migrate_env_to_store: only an empty store takes over what .env says.      *)
Migrated(rs, e) == IF rs = <<>> THEN MigratedAlways(rs, e) ELSE rs

(* What the settings' file says of the session mode; a file that cannot be   *)
(* read says nothing.                                                        *)
ModeOf(s) == IF s \in Modes THEN s ELSE "observer"

Idle == up /\ busy = Free

Init ==
  /\ rows = <<>> /\ env = NoEnv /\ shared = "absent"
  /\ up = FALSE
  /\ environ = NoEnv /\ fallback = Claude /\ url = DefaultUrl /\ stt = "whisper"
  /\ mode = "observer"
  /\ busy = Free /\ cli = None /\ ops = 0
  /\ edited = FALSE /\ apart = {} /\ lost = FALSE /\ saved = None

Op == ops < MaxOps /\ ops' = ops + 1

-----------------------------------------------------------------------------
(* Faulty variant of Start: the session mode is not restored. *)
StartUnset ==
  /\ ~up /\ up' = TRUE
  /\ environ' = env
  /\ fallback' = Or(env.active, Claude)
  /\ stt' = SttOf(env)
  /\ rows' = Migrated(rows, env)
  /\ url' = StartUrl(rows', env)
  /\ mode' = "observer"
  /\ edited' = FALSE
  /\ apart' = IF rows = <<>> THEN {} ELSE apart \ {"memory"}
  /\ UNCHANGED <<env, shared, busy, cli, ops, lost, saved>>

(* A new process: the imports read .env, lifespan migrates, applies every    *)
(* row and restores the session mode.                                        *)
Start ==
  /\ ~up /\ up' = TRUE
  /\ environ' = env
  /\ fallback' = Or(env.active, Claude)
  /\ stt' = SttOf(env)
  /\ rows' = Migrated(rows, env)
  /\ url' = StartUrl(rows', env)
  /\ mode' = ModeOf(shared)
  /\ edited' = FALSE
  /\ apart' = IF rows = <<>> THEN {} ELSE apart \ {"memory"}
  /\ UNCHANGED <<env, shared, busy, cli, ops, lost, saved>>

-----------------------------------------------------------------------------
(* POST /setup: the row, then the mark of the active one, each committed.    *)
SetupSave ==
  /\ Idle /\ Op
  /\ \E a \in Adapters, u \in Urls \cup {None} :
       /\ a = Claude => u = None
       /\ rows' = Append(rows, [type |-> a, url |-> u, active |-> FALSE])
       /\ busy' = [type |-> a, url |-> u, at |-> "saved"]
  /\ UNCHANGED <<env, shared, up, memory, cli, hist>>

(* Faulty variant of SetupActivate: the other rows stay active. *)
SetupActivateToo ==
  /\ up /\ busy.at = "saved"
  /\ rows' = [rows EXCEPT ![Len(rows)].active = TRUE]
  /\ busy' = [busy EXCEPT !.at = "active"]
  /\ apart' = apart \cup {"file"}
  /\ UNCHANGED <<env, shared, up, memory, cli, ops, edited, lost, saved>>

SetupActivate ==
  /\ up /\ busy.at = "saved"
  /\ rows' = [n \in DOMAIN rows |-> [rows[n] EXCEPT !.active = n = Len(rows)]]
  /\ busy' = [busy EXCEPT !.at = "active"]
  /\ apart' = apart \cup {"file"}
  /\ UNCHANGED <<env, shared, up, memory, cli, ops, edited, lost, saved>>

(* The file is read, changed and written, and the environment loaded from it.*)
WriteEnv(e) == env' = e /\ environ' = Loaded(environ, e)

(* The rest of the request: the running adapter, the router, the file.       *)
SetupFinish ==
  /\ up /\ busy.at = "active"
  /\ url' = Applied(url, busy)
  /\ fallback' = busy.type
  /\ WriteEnv([env EXCEPT !.active = busy.type])
  /\ busy' = Free
  /\ apart' = {}
  /\ UNCHANGED <<rows, shared, up, stt, mode, cli, ops, edited, lost, saved>>

(* PUT /adapter/active changes the router and nothing that is kept.          *)
PutActive ==
  /\ Idle /\ Op
  /\ \E a \in Adapters : fallback' = a
  /\ apart' = apart \cup {"memory"}
  /\ UNCHANGED <<file, up, environ, url, stt, mode, busy, cli, edited, lost, saved>>

(* Faulty variant of GroqKey: the provider of speech is not chosen again. *)
GroqKeyKept == \E k \in VoiceKeys :
  /\ Idle /\ Op /\ WriteEnv([env EXCEPT !.groq = k])
  /\ saved' = k
  /\ UNCHANGED <<rows, shared, up, fallback, url, stt, mode, busy, cli, edited, apart, lost>>

(* Faulty variant of GroqKey: a key that is there already stays. *)
GroqKeyOnce == \E k \in VoiceKeys :
  /\ Idle /\ Op /\ WriteEnv([env EXCEPT !.groq = Or(env.groq, k)])
  /\ stt' = SttOf(environ') /\ saved' = k
  /\ UNCHANGED <<rows, shared, up, fallback, url, mode, busy, cli, edited, apart, lost>>

(* POST /setup/groq-key.                                                     *)
GroqKey == \E k \in VoiceKeys :
  /\ Idle /\ Op /\ WriteEnv([env EXCEPT !.groq = k])
  /\ stt' = SttOf(environ') /\ saved' = k
  /\ UNCHANGED <<rows, shared, up, fallback, url, mode, busy, cli, edited, apart, lost>>

(* PUT /api/settings with a session mode, saved and applied at once.         *)
PutSettings ==
  /\ Idle /\ Op
  /\ \E m \in Modes : shared' = m /\ mode' = m
  /\ UNCHANGED <<rows, env, up, environ, fallback, url, stt, busy, cli, hist>>

-----------------------------------------------------------------------------
(* The process ends, with the request it was handling.                       *)
Down == up /\ up' = FALSE /\ busy' = Free /\ UNCHANGED <<rows, memory, cli, edited, saved>>

Crash == Op /\ Down /\ UNCHANGED <<env, shared, apart, lost>>

(* A file is emptied before it is written again.                             *)
CrashWritingEnv ==
  /\ Op /\ (Idle \/ busy.at = "active") /\ Down
  /\ env' = NoEnv
  /\ apart' = apart \cup {"file"} /\ lost' = TRUE
  /\ UNCHANGED shared

CrashWritingSettings ==
  /\ Op /\ Idle /\ Down
  /\ shared' = "torn"
  /\ UNCHANGED <<env, apart, lost>>

-----------------------------------------------------------------------------
(* The wizard of the command line reads the file, asks, and writes what it   *)
(* read with the answers.                                                    *)
CliReads ==
  /\ cli = None /\ Op /\ cli' = env
  /\ UNCHANGED <<file, up, memory, busy, hist>>

CliWrites ==
  /\ cli # None /\ cli' = None
  /\ \/ env' = [cli EXCEPT !.active = Claude]
     \/ \E u \in Urls : env' = [cli EXCEPT !.active = Gateway, !.field = u]
     \/ \E p \in {"groq", "whisper"} : env' = [cli EXCEPT !.stt = p]
  /\ edited' = TRUE /\ apart' = apart \cup {"file"}
  /\ lost' = (lost \/ cli.groq # env.groq)
  /\ UNCHANGED <<rows, shared, up, memory, busy, ops, saved>>

(* The user's editor: the variables the server reads.                        *)
HandEdits ==
  /\ Op
  /\ \E u \in Urls, a \in Adapters : env' = [env EXCEPT !.url = u, !.active = a]
  /\ edited' = TRUE /\ apart' = apart \cup {"file"}
  /\ UNCHANGED <<rows, shared, up, memory, busy, cli, lost, saved>>

Next ==
  \/ Start \/ SetupSave \/ SetupActivate \/ SetupFinish \/ PutActive \/ GroqKey \/ PutSettings
  \/ Crash \/ CrashWritingEnv \/ CrashWritingSettings \/ CliReads \/ CliWrites \/ HandEdits

Spec == Init /\ [][Next]_vars

-----------------------------------------------------------------------------
TypeOK ==
  /\ rows \in Seq(Row)
  /\ {env, environ} \subseteq Env /\ cli \in Env \cup {None}
  /\ shared \in Modes \cup {"absent", "torn"}
  /\ fallback \in Adapters /\ url \in Urls \cup {DefaultUrl}
  /\ stt \in {"groq", "whisper"} /\ mode \in Modes
  /\ up \in BOOLEAN /\ ops \in 0 .. MaxOps
  /\ busy \in Request \cup {Free} /\ (busy # Free => up)
  /\ edited \in BOOLEAN /\ lost \in BOOLEAN
  /\ apart \subseteq {"memory", "file"} /\ saved \in VoiceKeys \cup {None}

(* While nobody else has written .env, the gateway the server talks to is    *)
(* the one a restart would find: every request that changes the address      *)
(* changes what is kept (app.py:154, misc.py:153).                           *)
GatewayKept == Idle /\ ~edited => url = StartUrl(rows, env)

(* The same of the provider of speech (misc.py:872).                         *)
ProviderKept == Idle /\ ~edited => stt = SttOf(env)

(* The same of the session mode, whoever wrote .env, and after a settings    *)
(* file was cut (settings.py:82, app.py:164).                                *)
ModeKept == up => mode = ModeOf(shared)

(* The adapter that answers unnamed sessions is the active row's, unless the *)
(* settings panel chose another in memory only, or .env was last written by  *)
(* somebody other than a setup that marks its row (misc.py:146-200).         *)
ActiveIsFallback ==
  Idle /\ apart = {} => \A n \in DOMAIN rows : rows[n].active => rows[n].type = fallback

(* The voice key in the file is the one the user saved last, unless a crash  *)
(* cut the file or the wizard wrote an older copy back (misc.py:848).        *)
KeyKept == ~lost => env.groq = saved

(* A configuration that was saved is never changed or dropped, and a start   *)
(* adds one only to an empty store (config_migration.py:38).                 *)
RowsKept ==
  [][/\ Len(rows) <= Len(rows')
     /\ \A n \in DOMAIN rows : rows'[n].type = rows[n].type /\ rows'[n].url = rows[n].url
     /\ ~up /\ rows # <<>> => rows' = rows]_vars

(* What the server runs with is what a restart would find, unless somebody   *)
(* else wrote the file since or a crash cut it (misc.py:128-200, 592, 848,   *)
(* app.py:154-179).                                                          *)
ConfigKept ==
  TypeOK /\ GatewayKept /\ ProviderKept /\ ModeKept /\ ActiveIsFallback /\ KeyKept

(* config_migration.py:37: an empty store takes over the configuration of    *)
(* the adapter from .env.  It does not hold for the gateway's address, which *)
(* the wizard writes under the name of the field and not of the variable.    *)
WizardTaken ==
  Idle /\ ~edited /\ Len(rows) = 1 /\ fallback = Gateway /\ env.field # None /\ env.url = None
    => url = env.field

(* cli.py:471: the wizard preserves keys the user did not change.  It does   *)
(* not hold for a key the server saves while the wizard asks.                *)
WizardKeeps == [][CliWrites => env'.groq = env.groq]_vars

=============================================================================
