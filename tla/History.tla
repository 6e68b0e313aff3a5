------------------------------- MODULE History -------------------------------
(***************************************************************************)
(* How one browser follows the history of one bot.  The server keeps the   *)
(* messages of the agent, numbered by server_seq, in canonical_store.py;   *)
(* it learns them from the adapter's file watcher, which pushes each new   *)
(* row to the clients, and from sync_bot_history, which anybody's request  *)
(* runs and which pushes nothing.  The browser keeps a cursor, the highest *)
(* server_seq it has seen, and asks for what lies above it (sync.ts).      *)
(*                                                                         *)
(* The store is a lock-protected SQLite database: each of its methods is   *)
(* one step.  Messages are named by their place in time, so key order is   *)
(* source_ts order.  What other browsers do shows here as syncs and        *)
(* boundaries that this one is not told of.  Histories are shorter than    *)
(* the page limits (100 and 1000 rows) of the requests.                    *)
(***************************************************************************)
EXTENDS Naturals, FiniteSets, FiniteSetsExt, Sequences, SequencesExt

CONSTANTS
    MaxKey,       \* bound: how many messages are ever written
    HasWatcher,   \* the adapter has a file watcher (claude_code)
    OtherSyncs,   \* somebody but this browser's history requests runs a sync
    QueueMax,     \* size of the push queue of a connection
    DriftSlack,   \* revisions a client may lag behind with nothing to fetch
    MaxFrames,    \* bound: frames on the wire when a revision is announced
    MaxEdits,     \* bounds of the environment: rewritten rows,
    MaxDrops,     \* lost connections,
    MaxFails,     \* failed requests,
    MaxRestarts   \* server restarts

ASSUME HistoryAssumption ==
    /\ {MaxKey, QueueMax, DriftSlack, MaxFrames} \subseteq Nat \ {0}
    /\ {HasWatcher, OtherSyncs} \subseteq BOOLEAN
    /\ {MaxEdits, MaxDrops, MaxFails, MaxRestarts} \subseteq Nat

Keys == 1..MaxKey

VARIABLES
    created,     \* how many messages exist
    log,         \* those in the agent's own log; the others are boundaries
    watched,     \* those the watcher has read since it started
    seq,         \* server_seq of each stored row, 0 for no row
    revision,    \* history_revision
    connected,   \* the websocket is open
    registered,  \* its push queue is in the connection registry
    frames,      \* what the server has sent or queued on it
    held,        \* chatStore: the messages of the bot,
    cursor,      \* _maxServerSeq,
    rev,         \* and _revision
    req,         \* the history request in flight
    due,         \* the sync timer is running
    target,      \* _targets
    env          \* what the environment has spent of its bounds

agentVars  == <<created, log>>
storeVars  == <<seq, revision>>
wireVars   == <<connected, registered, frames>>
chatVars   == <<held, cursor, rev>>
syncVars   == <<req, due, target>>
vars == <<agentVars, watched, storeVars, wireVars, chatVars, syncVars, env>>

NoReq == [stage |-> "none", after |-> 0, rows |-> {}, top |-> 0, rev |-> 0]
Request == [stage : {"none", "asked", "answered"}, after : Nat,
            rows : SUBSET Keys, top : Nat, rev : Nat]
Ask(after) == [NoReq EXCEPT !.stage = "asked", !.after = after]
Frame == [type : {"message_sync"}, key : Keys, seq : Nat \ {0}, direct : BOOLEAN]
         \cup [type : {"history_revision"}, rev : Nat, direct : BOOLEAN]

Stored == {k \in Keys : seq[k] > 0}
Top == Max({seq[k] : k \in Keys})

\* A page without a cache has asked for the history and connected.
Init ==
    /\ created = 0 /\ log = {} /\ watched = {}
    /\ seq = [k \in Keys |-> 0] /\ revision = 0
    /\ connected = TRUE /\ registered = TRUE /\ frames = <<>>
    /\ held = {} /\ cursor = 0 /\ rev = 0
    /\ req = Ask(0) /\ due = FALSE /\ target = 0
    /\ env = [edits |-> 0, drops |-> 0, fails |-> 0, restarts |-> 0]

-----------------------------------------------------------------------------
(* The websocket: ws_send writes to it at once, a broadcast goes through the *)
(* push queue of the connection and its forwarder.                           *)

Pushed(k, n)  == [type |-> "message_sync", key |-> k, seq |-> n, direct |-> FALSE]
Direct(k, n)  == [type |-> "message_sync", key |-> k, seq |-> n, direct |-> TRUE]
Revision(r, d) == [type |-> "history_revision", rev |-> r, direct |-> d]

\* The places of the frames that are in the push queue, or were.
Queued == {i \in DOMAIN frames : ~frames[i].direct}

Broadcast(f) ==
    \/ /\ registered
       /\ frames' = Append(frames, f)
       /\ UNCHANGED registered
    \/ /\ registered /\ Cardinality(Queued) >= QueueMax    \* unless some were forwarded
       /\ registered' = FALSE
       /\ UNCHANGED frames
    \/ /\ ~registered
       /\ UNCHANGED <<registered, frames>>

\* A direct frame overtakes the queued frames that are not forwarded yet, a
\* suffix of those behind the last direct one.
SendDirect(f) ==
    \/ /\ connected
       /\ \E i \in 0..Len(frames) :
             /\ (i + 1)..Len(frames) \subseteq Queued
             /\ frames' = InsertAt(frames, i + 1, f)
    \/ /\ ~connected
       /\ UNCHANGED frames

Open ==
    /\ ~connected
    /\ connected' = TRUE /\ registered' = TRUE
    /\ due' = TRUE    \* onWsOpen: scheduleAll
    /\ UNCHANGED <<agentVars, watched, storeVars, frames, chatVars, req, target, env>>

Drop ==
    /\ connected
    /\ env.drops < MaxDrops
    /\ env' = [env EXCEPT !.drops = @ + 1]
    /\ connected' = FALSE /\ registered' = FALSE /\ frames' = <<>>
    /\ UNCHANGED <<agentVars, watched, storeVars, chatVars, syncVars>>

-----------------------------------------------------------------------------
(* The store *)

\* Faulty variants: new rows all get the next number; every row is numbered anew
\* in the order of time.
NumberedAlike(new) == [k \in Keys |-> IF k \in new THEN Top + 1 ELSE seq[k]]
NumberedByTime(new) ==
    [k \in Keys |-> IF k \in Stored \cup new
                    THEN Cardinality({j \in Stored \cup new : j <= k}) ELSE 0]

\* Rows without a number get the next ones, in the order of their source_ts.
Numbered(new) ==
    [k \in Keys |-> IF k \in new THEN Top + Cardinality({j \in new : j <= k})
                                 ELSE seq[k]]

\* replace_bot_snapshot with all of the agent's log: rows are added, never
\* removed, and the revision grows when one is new or reads differently.
ReplaceBotSnapshot ==
    LET new == log \ Stored IN
    /\ seq' = Numbered(new)
    /\ \/ /\ new # {}
          /\ revision' = revision + 1
          /\ UNCHANGED env
       \/ /\ new = {}
          /\ UNCHANGED <<revision, env>>
       \/ /\ new = {} /\ log # {}
          /\ env.edits < MaxEdits
          /\ env' = [env EXCEPT !.edits = @ + 1]
          /\ revision' = revision + 1

\* upsert_event and insert_boundary give one row the next number.
Insert(k) == seq' = [seq EXCEPT ![k] = Top + 1]

AgentWrites ==
    /\ created < MaxKey
    /\ created' = created + 1
    /\ log' = log \cup {created + 1}
    /\ UNCHANGED <<watched, storeVars, wireVars, chatVars, syncVars, env>>

\* Faulty variant: the push carries the number the row had before.
WatcherReadsOldSeq ==
    /\ HasWatcher
    /\ log # watched
    /\ LET k == Min(log \ watched) IN
       /\ watched' = watched \cup {k}
       /\ IF k \in Stored
          THEN UNCHANGED <<seq, registered, frames>>
          ELSE Insert(k) /\ Broadcast(Pushed(k, seq[k]))
    /\ UNCHANGED <<agentVars, revision, connected, chatVars, syncVars, env>>

\* Faulty variant: what the log already holds is marked as read and left alone.
WatcherSkips ==
    /\ HasWatcher
    /\ log # watched
    /\ watched' = log
    /\ UNCHANGED <<agentVars, storeVars, wireVars, chatVars, syncVars, env>>

\* _on_watcher_message: a row that somebody's sync has stored already is not
\* pushed.
WatcherReads ==
    /\ HasWatcher
    /\ log # watched
    /\ LET k == Min(log \ watched) IN
       /\ watched' = watched \cup {k}
       /\ IF k \in Stored
          THEN UNCHANGED <<seq, registered, frames>>
          ELSE Insert(k) /\ Broadcast(Pushed(k, Top + 1))
    /\ UNCHANGED <<agentVars, revision, connected, chatVars, syncVars, env>>

\* A reset, compaction or cancellation asked for by this browser, which is told,
\* or by another.
InsertBoundary ==
    /\ created < MaxKey
    /\ created' = created + 1
    /\ Insert(created + 1)
    /\ \/ SendDirect(Direct(created + 1, Top + 1))
       \/ OtherSyncs /\ UNCHANGED frames
    /\ UNCHANGED <<log, watched, revision, connected, registered, chatVars, syncVars,
                   env>>

\* The sync at the end of a turn (adapters without a watcher) or of a reset, whose
\* revision is sent to the browser; another browser's is broadcast if it changed.
SyncAndAnnounce ==
    /\ OtherSyncs \/ ~HasWatcher
    /\ log # {}
    /\ Len(frames) < MaxFrames
    /\ ReplaceBotSnapshot
    /\ \/ SendDirect(Revision(revision', TRUE)) /\ UNCHANGED registered
       \/ /\ OtherSyncs /\ revision' > revision
          /\ Broadcast(Revision(revision', FALSE))
    /\ UNCHANGED <<agentVars, watched, connected, chatVars, syncVars>>

\* A search, an export or another browser's request.
SyncSilently ==
    /\ OtherSyncs
    /\ ReplaceBotSnapshot
    /\ UNCHANGED <<agentVars, watched, wireVars, chatVars, syncVars>>

\* Faulty variant: renumbering starts at 0.
FixServerSeqOrderFromZero ==
    seq' = IF \E j, k \in Stored : j < k /\ seq[j] >= seq[k]
           THEN [k \in Keys |-> IF k \in Stored
                                THEN Cardinality({j \in Stored : j < k}) ELSE 0]
           ELSE seq

\* _fix_server_seq_order, run by _init_schema: a table whose numbers do not
\* follow time is renumbered from 1.
FixServerSeqOrder ==
    seq' = IF \E j, k \in Stored : j < k /\ seq[j] >= seq[k]
           THEN [k \in Keys |-> IF k \in Stored
                                THEN Cardinality({j \in Stored : j <= k}) ELSE 0]
           ELSE seq

-----------------------------------------------------------------------------
(* The sync manager *)

\* _doSync: a sync that finds another in flight is given up.
SyncTimer ==
    /\ due
    /\ due' = FALSE
    /\ req' = IF req.stage = "none" THEN Ask(cursor) ELSE req
    /\ UNCHANGED <<agentVars, watched, storeVars, wireVars, chatVars, target, env>>

\* Faulty variant: the first row above the cursor is left out.
RowsAfterNext(n) == {k \in Keys : seq'[k] > n + 1}

\* list_history_incremental; with no cursor, list_history_before.
RowsAfter(n) == {k \in Keys : seq'[k] > n}

\* GET /history: sync_bot_history, which may fail, then the rows.
ServerAnswers ==
    /\ req.stage = "asked"
    /\ ReplaceBotSnapshot \/ UNCHANGED <<storeVars, env>>
    /\ req' = [req EXCEPT !.stage = "answered",
                          !.rows = RowsAfter(req.after),
                          !.top = Max({seq'[k] : k \in Keys}),
                          !.rev = revision']
    /\ UNCHANGED <<agentVars, watched, wireVars, chatVars, due, target>>

\* mergeFromServer.  The rows that lie above the cursor end with the table's.
Merge ==
    /\ held' = held \cup req.rows
    /\ cursor' = IF req.rows = {} THEN cursor ELSE Max({cursor, req.top})
    /\ rev' = Max({rev, req.rev})

\* A full page from the latest row, or an increment.
ApplyRows ==
    /\ req.stage = "answered"
    /\ req.after = 0 \/ req.rows # {}
    /\ Merge
    /\ req' = NoReq
    /\ target' = 0
    /\ UNCHANGED <<agentVars, watched, storeVars, wireVars, due, env>>

\* The cursor is above the table, or the revision has drifted away: clearCache
\* and an initial load.
Outdated ==
    \/ req.top > 0 /\ req.after > req.top
    \/ req.rev > rev + DriftSlack

ApplyReset ==
    /\ req.stage = "answered" /\ req.after > 0 /\ req.rows = {}
    /\ Outdated
    /\ held' = {} /\ cursor' = 0 /\ rev' = 0
    /\ req' = Ask(0)
    /\ UNCHANGED <<agentVars, watched, storeVars, wireVars, due, target, env>>

ApplyNothing ==
    /\ req.stage = "answered" /\ req.after > 0 /\ req.rows = {}
    /\ ~Outdated
    /\ rev' = req.rev    \* setRevision
    /\ req' = NoReq
    /\ target' = 0
    /\ UNCHANGED <<agentVars, watched, storeVars, wireVars, held, cursor, due, env>>

\* A request that fails is repeated when a revision is still wanted; a failed
\* initial load forgets what is wanted.
RequestFailed ==
    /\ req' = NoReq
    /\ target' = IF req.after = 0 THEN 0 ELSE target
    /\ due' = (due \/ (req.after > 0 /\ target > rev))

Fail ==
    /\ req.stage # "none"
    /\ env.fails < MaxFails
    /\ env' = [env EXCEPT !.fails = @ + 1]
    /\ RequestFailed
    /\ UNCHANGED <<agentVars, watched, storeVars, wireVars, chatVars>>

\* The page is shown again.
Foreground ==
    /\ ~due
    /\ due' = TRUE
    /\ UNCHANGED <<agentVars, watched, storeVars, wireVars, chatVars, req, target, env>>

\* upsertMessage
ReceiveMessage ==
    /\ frames # <<>> /\ Head(frames).type = "message_sync"
    /\ frames' = Tail(frames)
    /\ held' = held \cup {Head(frames).key}
    /\ cursor' = Max({cursor, Head(frames).seq})
    /\ UNCHANGED <<agentVars, watched, storeVars, connected, registered, rev, syncVars,
                   env>>

\* history_revision; a busy bot only makes the timer longer.
ReceiveRevision ==
    /\ frames # <<>> /\ Head(frames).type = "history_revision"
    /\ frames' = Tail(frames)
    /\ \/ /\ Head(frames).rev > rev
          /\ target' = Max({target, Head(frames).rev})
          /\ due' = TRUE
       \/ /\ Head(frames).rev <= rev
          /\ UNCHANGED <<target, due>>
    /\ UNCHANGED <<agentVars, watched, storeVars, connected, registered, chatVars, req,
                   env>>

\* The backend comes back with the same database; its watcher reads the log anew.
Restart ==
    /\ env.restarts < MaxRestarts
    /\ env' = [env EXCEPT !.restarts = @ + 1]
    /\ FixServerSeqOrder
    /\ watched' = {}
    /\ connected' = FALSE /\ registered' = FALSE /\ frames' = <<>>
    /\ IF req.stage = "none" THEN UNCHANGED syncVars ELSE RequestFailed
    /\ UNCHANGED <<agentVars, revision, chatVars>>

-----------------------------------------------------------------------------
ServerStep ==
    \/ WatcherReads \/ InsertBoundary \/ SyncAndAnnounce \/ SyncSilently
    \/ ServerAnswers \/ Restart
ClientStep ==
    \/ SyncTimer \/ ApplyRows \/ ApplyReset \/ ApplyNothing \/ Fail \/ Foreground
    \/ ReceiveMessage \/ ReceiveRevision

Next == AgentWrites \/ ServerStep \/ ClientStep \/ Open \/ Drop

Spec == Init /\ [][Next]_vars

\* The watcher polls, timers fire, frames and answers arrive.
Fairness ==
    /\ WF_vars(WatcherReads) /\ WF_vars(ServerAnswers)
    /\ WF_vars(Open) /\ WF_vars(SyncTimer)
    /\ WF_vars(ReceiveMessage) /\ WF_vars(ReceiveRevision)
    /\ WF_vars(ApplyRows) /\ WF_vars(ApplyReset) /\ WF_vars(ApplyNothing)

FairSpec == Spec /\ Fairness

-----------------------------------------------------------------------------
(* Properties *)

\* Every variable has its type; a frame always carries a real number.
TypeOK ==
    /\ created \in 0..MaxKey
    /\ log \subseteq 1..created /\ watched \subseteq log
    /\ seq \in [Keys -> Nat] /\ revision \in Nat
    /\ {connected, registered, due} \subseteq BOOLEAN
    /\ frames \in Seq(Frame)
    /\ held \subseteq Keys /\ cursor \in Nat /\ rev \in Nat
    /\ req \in Request /\ target \in Nat
    /\ env \in [edits : Nat, drops : Nat, fails : Nat, restarts : Nat]

\* canonical_store.py:636-667: whoever stores rows, in whatever order, and however
\* often the table is renumbered, the numbers are 1, 2, 3, ... without a gap or a
\* repetition: a cursor can be compared with them.
SeqDense == {seq[k] : k \in Stored} = 1..Cardinality(Stored)

\* canonical_store.py:658: a running server never reassigns a server_seq.
AppendOnly == [][Restart \/ \A k \in Stored : seq'[k] = seq[k]]_vars

\* A browser never holds a message that is not stored, and its cursor never runs
\* ahead of the table, so that the rows above it are those it does not have.
CursorBounded == held \subseteq Stored /\ cursor <= Top

Holes == {k \in Stored : seq[k] <= cursor /\ k \notin held}

\* Only a pushed message, or the renumbering of a restart, can leave a message
\* behind the cursor: no answer, failure, reload of the cache, or loss does.
HolesOnlyByPush == [][Holes' \subseteq Holes \/ ReceiveMessage \/ Restart]_vars

OnItsWay(k) ==
    \/ \E i \in DOMAIN frames : frames[i].type = "message_sync" /\ frames[i].key = k
    \/ req.stage = "asked" /\ req.after < seq[k]
    \/ req.stage = "answered" /\ k \in req.rows

\* As long as rows are stored by the watcher and this browser's own requests only,
\* and nothing is lost, a message behind the cursor is held or on its way, however
\* pushes, boundaries that overtake them, and answers interleave.
NoHole == \A k \in Holes : OnItsWay(k)

\* In the same setting everything the agent writes is shown in the end, and stays.
Converges == <>[](log \subseteq held)

\* main.ts:295: a sync on returning to the foreground fetches any messages received
\* in the meantime: when its answer is applied, the browser holds every row the
\* server had.
SyncFetchesAll ==
    [][ApplyRows => \A k \in Stored : seq[k] <= req.top => k \in held']_vars
=============================================================================
