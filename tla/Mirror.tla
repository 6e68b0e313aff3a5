------------------------------- MODULE Mirror -------------------------------
(* Mirroring of messages to other platforms: MirrorManager in               *)
(* backend/mirror/manager.py, the mirror_outbox table of canonical_store.py  *)
(* and the channels of backend/mirror/channels.  Rows are persisted; one     *)
(* drain loop sends them; the process may stop at any point of it.           *)
EXTENDS Integers, Sequences, FiniteSets, SequencesExt

CONSTANTS
    Events,         \* event keys of the messages of turns
    Registered,     \* the registered channels, in order
    Cached,         \* channels that cache an access token: lark, feishu
    OldChannel,     \* a channel of rows an earlier version left in the table
    Targets, NoTarget,
    Defaults,       \* what the environment may configure: [Channels -> channel defaults]
    Settings,       \* what the user may set for a bot's channel
    BatchSize,      \* BATCH_SIZE
    MaxRetries,     \* MAX_RETRIES
    MaxRows,        \* bound: rows of the table
    MaxConfigs,     \* bound: changes of the slot's mirror settings
    MaxRevoked,     \* bound: tokens the platform revokes
    MaxStops        \* bound: stops of the process and failures of the database

RowIds == 1 .. MaxRows
Channels == ToSet(Registered)
EnvDefault == [enabled : BOOLEAN, target : Targets \cup {NoTarget}]
Setting == [enabled : {"yes", "no", "unset"}, target : Targets \cup {NoTarget}]

ASSUME MirrorAssumption ==
    /\ BatchSize \in Nat \ {0} /\ MaxRetries \in Nat \ {0}
    /\ MaxRows \in Nat \ {0} /\ {MaxConfigs, MaxRevoked, MaxStops} \subseteq Nat
    /\ Registered \in Seq(Channels)
    /\ \A i, j \in DOMAIN Registered : Registered[i] = Registered[j] => i = j
    /\ Cached \subseteq Channels
    /\ NoTarget \notin Targets
    /\ Defaults \subseteq [Channels -> EnvDefault] /\ Settings \subseteq Setting

VARIABLES
    defaults,       \* env_defaults of each channel
    slot,           \* slot.mirror.<channel> of the bot
    rows,           \* mirror_outbox in order of outbox_id
    drain,          \* the drain loop: where it is, the rows of its batch, the answer it got
    token,          \* cached access token of each channel that has one
    up,             \* the process runs
    arrived,        \* how often the platform got each row
    tried,          \* ghost: rows that were sent at least once
    excuses,        \* ghost: answers, marks and loops lost after a send of the row
    configs, revoked, stops

bounds == <<configs, revoked, stops>>
vars == <<defaults, slot, rows, drain, token, up, arrived, tried, excuses, bounds>>

Row == [event : Events, channel : Channels \cup {OldChannel}, target : Targets,
        status : {"pending", "retry", "sent", "failed"}, retries : 0 .. MaxRetries,
        due : BOOLEAN]

Idle == [at |-> "idle", batch |-> {}, ok |-> FALSE]
NewRow(event, channel, target) ==
    [event |-> event, channel |-> channel, target |-> target,
     status |-> "pending", retries |-> 0, due |-> TRUE]

TypeOK ==
    /\ defaults \in [Channels -> EnvDefault]
    /\ slot \in [Channels -> Setting]
    /\ rows \in Seq(Row) /\ Len(rows) <= MaxRows
    /\ drain \in [at : {"idle", "row", "answer"}, batch : SUBSET DOMAIN rows, ok : BOOLEAN]
    /\ Cardinality(drain.batch) <= BatchSize
    /\ drain.at # "idle" <=> drain.batch # {}
    /\ token \in [Cached -> {"none", "valid", "revoked"}]
    /\ up \in BOOLEAN
    /\ tried \subseteq DOMAIN rows
    /\ arrived \in [RowIds -> Nat] /\ excuses \in [RowIds -> Nat]
    /\ configs \in 0 .. MaxConfigs /\ revoked \in 0 .. MaxRevoked /\ stops \in 0 .. MaxStops

Init ==
    /\ defaults \in Defaults
    /\ slot = [c \in Channels |-> [enabled |-> "unset", target |-> NoTarget]]
    /\ rows \in {<<>>} \cup {<<NewRow(e, OldChannel, x)>> : e \in Events, x \in Targets}
    /\ drain = Idle
    /\ token = [c \in Cached |-> "none"]
    /\ up = TRUE
    /\ arrived = [r \in RowIds |-> 0]
    /\ tried = {}
    /\ excuses = [r \in RowIds |-> 0]
    /\ configs = 0 /\ revoked = 0 /\ stops = 0

----------------------------------------------------------------------------
(* Enqueueing.                                                              *)

\* The bot's own switch, then the channel's; the bot's own target, then the channel's.
ResolveTarget(c) ==
    IF slot[c].target # NoTarget THEN slot[c].target ELSE defaults[c].target
Resolved(c) ==
    /\ slot[c].enabled # "no"
    /\ slot[c].enabled = "yes" \/ defaults[c].enabled
    /\ ResolveTarget(c) # NoTarget
ResolveBotChannels == {c \in Channels : Resolved(c)}

\* ON CONFLICT(event_key, channel, target) DO NOTHING
NotYetEnqueued(event) ==
    {c \in ResolveBotChannels :
        ~ \E r \in DOMAIN rows : /\ rows[r].event = event
                                 /\ rows[r].channel = c
                                 /\ rows[r].target = ResolveTarget(c)}

\* A set of channels in the order of their registration.
InOrder(S) ==
    {order \in [1 .. Cardinality(S) -> S] :
        \A i, j \in DOMAIN Registered, k, l \in DOMAIN order :
            Registered[i] = order[k] /\ Registered[j] = order[l] /\ k < l => i < j}

\* Called by the turn for its user message and its reply, and by every retry of the turn.
Enqueue(event) ==
    /\ up
    /\ \E order \in InOrder(NotYetEnqueued(event)) :
         rows' = rows \o [i \in DOMAIN order |->
                            NewRow(event, order[i], ResolveTarget(order[i]))]
    /\ Len(rows') <= MaxRows
    /\ UNCHANGED <<defaults, slot, drain, token, up, arrived, tried, excuses, bounds>>

\* The user edits the bot's settings; rows already written keep their target.
Configure ==
    /\ up /\ configs < MaxConfigs
    /\ \E c \in Channels, s \in Settings : slot' = [slot EXCEPT ![c] = s]
    /\ configs' = configs + 1
    /\ UNCHANGED <<defaults, rows, drain, token, up, arrived, tried, excuses, revoked, stops>>

----------------------------------------------------------------------------
(* The drain loop.                                                          *)

\* Faulty: rows waiting for a retry are not listed.
DueIfNew(r) == rows[r].status = "pending" /\ rows[r].due

Due(r) == rows[r].status \in {"pending", "retry"} /\ rows[r].due

\* The first BatchSize due rows, by outbox_id.
ListPending ==
    {r \in DOMAIN rows :
        Due(r) /\ Cardinality({q \in DOMAIN rows : Due(q) /\ q < r}) < BatchSize}

DrainOnce ==
    /\ up /\ drain.at = "idle"
    /\ ListPending # {}
    /\ drain' = [at |-> "row", batch |-> ListPending, ok |-> FALSE]
    /\ UNCHANGED <<defaults, slot, rows, token, up, arrived, tried, excuses, bounds>>

\* Faulty: the newest row of the batch first.
CurrentNewest == Max(drain.batch)

\* The rows of a batch are taken by outbox_id.
Current == Min(drain.batch)

\* Faulty: the last row of a batch does not end it.
NextRowOnly == drain' = [at |-> "row", batch |-> drain.batch \ {Current}, ok |-> FALSE]

NextRow ==
    drain' = IF drain.batch = {Current} THEN Idle
             ELSE [at |-> "row", batch |-> drain.batch \ {Current}, ok |-> FALSE]

MarkFailed(r) == rows' = [rows EXCEPT ![r].status = "failed"]

UnknownChannel ==
    /\ up /\ drain.at = "row"
    /\ rows[Current].channel \notin Channels
    /\ MarkFailed(Current)
    /\ NextRow
    /\ UNCHANGED <<defaults, slot, token, up, arrived, tried, excuses, bounds>>

\* A message that the platform got, whose answer may be lost on the way back.
Posted(r, got, answered) ==
    /\ arrived' = IF got THEN [arrived EXCEPT ![r] = @ + 1] ELSE arrived
    /\ excuses' = IF got /\ ~answered THEN [excuses EXCEPT ![r] = @ + 1] ELSE excuses
    /\ drain' = [drain EXCEPT !.at = "answer", !.ok = got /\ answered]
    /\ tried' = tried \cup {r}

SendTelegram(r) ==
    /\ rows[r].channel \notin Cached
    /\ \E got, answered \in BOOLEAN : Posted(r, got, answered)
    /\ UNCHANGED token

\* The token comes from the cache until it expires; a revoked one is refused.
SendWithToken(r) ==
    LET c == rows[r].channel
    IN  /\ c \in Cached
        /\ \/ /\ token[c] = "none"
              /\ Posted(r, FALSE, TRUE)
              /\ UNCHANGED token
           \/ /\ token' = [token EXCEPT ![c] = IF @ = "none" THEN "valid" ELSE @]
              /\ \E got, answered \in BOOLEAN :
                   /\ got => token[c] # "revoked"
                   /\ Posted(r, got, answered)

Send ==
    /\ up /\ drain.at = "row"
    /\ LET r == Current
       IN  /\ rows[r].channel \in Channels
           /\ SendTelegram(r) \/ SendWithToken(r)
    /\ UNCHANGED <<defaults, slot, rows, up, bounds>>

\* Faulty: the row is not marked.
MarkNothing(r) == UNCHANGED rows

MarkSent(r) == rows' = [rows EXCEPT ![r].status = "sent"]

\* Faulty: one attempt more.
MarkRetryOnceMore(r) ==
    LET retries == rows[r].retries + 1
    IN  rows' = [rows EXCEPT ![r].retries = retries,
                             ![r].status = IF retries > MaxRetries THEN "failed" ELSE "retry",
                             ![r].due = retries > MaxRetries]

MarkRetry(r) ==
    LET retries == rows[r].retries + 1
    IN  rows' = [rows EXCEPT ![r].retries = retries,
                             ![r].status = IF retries >= MaxRetries THEN "failed" ELSE "retry",
                             ![r].due = retries >= MaxRetries]

\* Faulty: the answer of the channel is not looked at.
MarkAlways ==
    /\ up /\ drain.at = "answer"
    /\ MarkSent(Current)
    /\ NextRow
    /\ UNCHANGED <<defaults, slot, token, up, arrived, tried, excuses, bounds>>

Mark ==
    /\ up /\ drain.at = "answer"
    /\ LET r == Current
       IN  IF drain.ok THEN MarkSent(r) ELSE MarkRetry(r)
    /\ NextRow
    /\ UNCHANGED <<defaults, slot, token, up, arrived, tried, excuses, bounds>>

\* RETRY_SECONDS later.
RetryDue(r) ==
    /\ r \in DOMAIN rows /\ ~rows[r].due
    /\ rows' = [rows EXCEPT ![r].due = TRUE]
    /\ UNCHANGED <<defaults, slot, drain, token, up, arrived, tried, excuses, bounds>>

TokenExpires(c) ==
    /\ token[c] # "none"
    /\ token' = [token EXCEPT ![c] = "none"]
    /\ UNCHANGED <<defaults, slot, rows, drain, up, arrived, tried, excuses, bounds>>

TokenRevoked(c) ==
    /\ revoked < MaxRevoked
    /\ token[c] = "valid"
    /\ token' = [token EXCEPT ![c] = "revoked"]
    /\ revoked' = revoked + 1
    /\ UNCHANGED <<defaults, slot, rows, drain, up, arrived, tried, excuses, configs, stops>>

Excused == IF drain.at = "answer" /\ drain.ok
           THEN [excuses EXCEPT ![Current] = @ + 1] ELSE excuses

\* A mark that raises ends the round: the loop logs it and polls again.
DrainError ==
    /\ up /\ drain.at = "answer"
    /\ stops < MaxStops
    /\ drain' = Idle
    /\ excuses' = Excused
    /\ stops' = stops + 1
    /\ UNCHANGED <<defaults, slot, rows, token, up, arrived, tried, configs, revoked>>

\* stop() cancels the drain task wherever it waits; a crash ends it the same way.
Stop ==
    /\ up /\ stops < MaxStops
    /\ up' = FALSE
    /\ drain' = Idle
    /\ excuses' = Excused
    /\ token' = [c \in Cached |-> "none"]
    /\ stops' = stops + 1
    /\ UNCHANGED <<defaults, slot, rows, arrived, tried, configs, revoked>>

ResetFailed(row) ==
    IF row.status = "failed"
    THEN [row EXCEPT !.status = "pending", !.retries = 0, !.due = TRUE] ELSE row

\* mirror.init resets what had failed, then start() begins to drain.
Start ==
    /\ ~up
    /\ up' = TRUE
    /\ rows' = [r \in DOMAIN rows |-> ResetFailed(rows[r])]
    /\ UNCHANGED <<defaults, slot, drain, token, arrived, tried, excuses, bounds>>

\* The steps of the loop, of which at most one is possible at a time.
DrainLoop == DrainOnce \/ UnknownChannel \/ Send \/ Mark

Next ==
    \/ \E e \in Events : Enqueue(e)
    \/ Configure
    \/ DrainLoop \/ DrainError
    \/ \E r \in RowIds : RetryDue(r)
    \/ \E c \in Cached : TokenExpires(c) \/ TokenRevoked(c)
    \/ Stop \/ Start

\* The loop polls for ever, a channel's send returns, and time passes.
Fairness ==
    /\ WF_vars(DrainLoop)
    /\ \A r \in RowIds : WF_vars(RetryDue(r))
    /\ WF_vars(Start)

Spec == Init /\ [][Next]_vars /\ Fairness

----------------------------------------------------------------------------
(* Properties.                                                              *)

(* A row reaches its platform twice only if an answer, a mark or the loop    *)
(* was lost after it had arrived.                                            *)
RepeatedOnlyAfterLoss == \A r \in RowIds : arrived[r] <= 1 + excuses[r]

(* Messages for one target of one channel arrive in the order they were      *)
(* enqueued, except that one whose sending failed is overtaken.              *)
OvertakenOnlyAfterAttempt ==
    \A r, q \in DOMAIN rows :
        /\ r < q
        /\ rows[r].channel = rows[q].channel /\ rows[r].target = rows[q].target
        /\ arrived[q] > 0
        => r \in tried

(* A row of a registered channel is given up after exactly MAX_RETRIES       *)
(* attempts since it was enqueued or reset, and tried no more.               *)
GivenUpAfterRetries ==
    \A r \in DOMAIN rows : rows[r].channel \in Channels =>
        (rows[r].status = "failed" <=> rows[r].retries = MaxRetries /\ rows[r].status # "sent")

(* A row reaches its platform twice only if something was lost after it       *)
(* arrived, is overtaken only if its sending failed, and is given up after     *)
(* MAX_RETRIES attempts (mirror/manager.py:155, canonical_store.py:1743).      *)
MirrorSafe ==
    TypeOK /\ RepeatedOnlyAfterLoss /\ OvertakenOnlyAfterAttempt /\ GivenUpAfterRetries

(* The mirror implements Forwarding: rows of the table that no row yet has   *)
(* the number of are not accepted, and a retry is still pending.             *)
Outcome == [r \in RowIds |->
    IF r \notin DOMAIN rows THEN "none"
    ELSE IF rows[r].status = "retry" THEN "pending" ELSE rows[r].status]
F == INSTANCE Forwarding WITH Rows <- RowIds, outcome <- Outcome, arrived <- arrived
ForwardingSpec == F!Spec

(* Every accepted row is one day sent or given up, whatever is stopped,      *)
(* revoked or refused.                                                       *)
ForwardingSettles == F!Settles
=============================================================================
