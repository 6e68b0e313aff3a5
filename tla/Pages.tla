-------------------------------- MODULE Pages --------------------------------
(***************************************************************************)
(* What one browser shows of the history of one bot (chat-store.ts): the   *)
(* latest rows, older pages loaded by scrolling up, or a page around a     *)
(* message found by a search, from which the user returns to the latest.   *)
(*                                                                         *)
(* Rows are named by their server_seq.  How rows come to be stored, lost   *)
(* connections, failed syncs and revisions are History's: here every row   *)
(* is pushed in order, and no sync fails.  An answer is what the table     *)
(* holds when its request is sent: rows stored after it are pushed.  No    *)
(* row is dropped by the filter (Canonical).                               *)
(***************************************************************************)
EXTENDS Naturals, FiniteSetsExt

CONSTANTS
    MaxTop,   \* bound: the number of rows
    Limit     \* rows of a page, SCROLL_LOAD_LIMIT and INITIAL_LOAD_LIMIT; at least 2

VARIABLES
    top,       \* rows 1..top are stored
    sent,      \* rows sent+1..top are pushed and not received yet
    shown,     \* _msgMap,
    cursor,    \* and _maxServerSeq
    view,      \* the viewport: mode, oldestLoadedSeq (0 for null), hasMore, and
               \* latestMessages with latestMaxServerSeq
    saved,     \* what is in IndexedDB: rows and cursor
    asked,     \* the answers under way: to a sync, to scrolling, to a search
    jumped,    \* a search has set the viewport since the page was loaded
    gapped       \* one of the steps that NoGap names has happened

vars == <<top, sent, shown, cursor, view, saved, asked, jumped, gapped>>

Rows == 1..MaxTop

\* The answers of GET /history: rows, the lowest of them, whether there are lower ones.
NoAnswer == [kind |-> "none", rows |-> {}]
Answer(kind, rows) == [kind |-> kind, rows |-> rows]

Lowest(rows)  == IF rows = {} THEN 0 ELSE Min(rows)
Highest(rows) == IF rows = {} THEN 0 ELSE Max(rows)

Between(low, high) == {n \in Rows : low <= n /\ n <= high}

\* Faulty variants: the row next to the cursor is left out; the last older row is
\* taken for none.
ListBeforeNext(seq) == {n \in 1..top : n < seq - 1 /\ n + Limit >= seq - 1}
HasMoreButOne(rows) == Lowest(rows) > 2

\* hasMore of an answer, EXISTS(server_seq < the lowest row returned).
HasMore(rows) == Lowest(rows) > 1

\* list_history_before and list_history_around.
ListHistoryBefore(seq) == {n \in 1..top : n < seq /\ n + Limit >= seq}
ListHistoryAround(seq) ==
    {n \in 1..top : n + (Limit \div 2) > seq /\ n <= seq + (Limit \div 2)}

\* list_history_incremental, or the latest page for a browser that holds nothing.
ListHistoryAfter(seq) ==
    IF seq > 0 THEN Answer("increment", (seq + 1)..top)
               ELSE Answer("latest", ListHistoryBefore(top + 1))

\* A page without a cache has asked for the latest rows.
Init ==
    /\ top \in 0..MaxTop /\ sent = top
    /\ shown = {} /\ cursor = 0
    /\ view = [mode |-> "latest", oldest |-> 0, more |-> TRUE, rows |-> {}, top |-> 0]
    /\ saved = [rows |-> {}, top |-> 0]
    /\ asked = [sync |-> ListHistoryAfter(0), older |-> NoAnswer, around |-> NoAnswer]
    /\ jumped = FALSE /\ gapped = FALSE

\* Rows that a push or the answer of a sync will bring.
Arriving == ((sent + 1)..top) \cup asked.sync.rows

History == view.mode = "history"

\* save() writes what is shown, whatever the mode.
Save == saved' = [rows |-> shown', top |-> cursor']

Write ==
    /\ top < MaxTop
    /\ top' = top + 1
    /\ UNCHANGED <<sent, shown, cursor, view, saved, asked, jumped, gapped>>

\* message_sync: what is pushed while a history page is shown goes into that page.
UpsertMessage ==
    /\ sent < top
    /\ sent' = sent + 1
    /\ shown' = shown \cup {sent + 1}
    /\ cursor' = Max({cursor, sent + 1})
    /\ gapped' = (gapped \/ History)
    /\ Save
    /\ UNCHANGED <<top, view, asked, jumped>>

\* _doSync, and "full sync" in the settings; one at a time.
Sync ==
    /\ asked.sync = NoAnswer
    /\ \E answer \in {ListHistoryAfter(cursor), ListHistoryAfter(0)} :
          asked' = [asked EXCEPT !.sync = answer]
    /\ UNCHANGED <<top, sent, shown, cursor, view, saved, jumped, gapped>>

\* mergeFromServer: while a history page is shown the rows are added to the latest
\* ones that wait behind it.  A latest page then sets the viewport, whatever it shows.
MergeFromServer ==
    LET answer == asked.sync
        rows == answer.rows
        Seen(v) == IF answer.kind = "latest"
                   THEN [v EXCEPT !.oldest = Lowest(rows), !.more = HasMore(rows)]
                   ELSE v IN
    /\ answer.kind # "none"
    /\ asked' = [asked EXCEPT !.sync = NoAnswer]
    /\ \/ /\ History
          /\ view' = Seen([view EXCEPT !.rows = @ \cup rows,
                                       !.top = Max({@, Highest(rows)})])
          /\ UNCHANGED <<shown, cursor, saved>>
       \/ /\ ~History
          /\ view' = Seen(view)
          /\ shown' = shown \cup rows
          /\ cursor' = Max({cursor, Highest(rows)})
          /\ IF answer.kind = "latest" \/ rows # {} THEN Save ELSE UNCHANGED saved
    /\ UNCHANGED <<top, sent, jumped, gapped>>

\* loadOlderMessages, one at a time (_isLoadingOlder).
LoadOlderMessages ==
    /\ asked.older = NoAnswer
    /\ view.more /\ view.oldest > 0
    /\ asked' = [asked EXCEPT !.older = Answer("older", ListHistoryBefore(view.oldest))]
    /\ UNCHANGED <<top, sent, shown, cursor, view, saved, jumped, gapped>>

\* prependMessages and setViewportCursor: the answer goes to whatever is shown now.
PrependMessages ==
    LET rows == asked.older.rows IN
    /\ asked.older # NoAnswer
    /\ asked' = [asked EXCEPT !.older = NoAnswer]
    /\ IF rows = {}
       THEN UNCHANGED <<shown, view, saved, gapped>>
       ELSE /\ shown' = shown \cup rows
            /\ view' = [view EXCEPT !.oldest = Lowest(rows), !.more = HasMore(rows)]
            /\ saved' = [rows |-> shown', top |-> cursor]
            /\ gapped' = (gapped \/ (jumped /\ ~History))
    /\ UNCHANGED <<top, sent, cursor, jumped>>

\* A search finds a message that is not shown.
LoadAroundMessage ==
    /\ asked.around = NoAnswer
    /\ \E n \in (1..top) \ shown :
          asked' = [asked EXCEPT !.around = Answer("around", ListHistoryAround(n))]
    /\ UNCHANGED <<top, sent, shown, cursor, view, saved, jumped, gapped>>

\* What is shown is kept as "the latest", even when it is a history page already.
SwitchToHistoryView ==
    LET rows == asked.around.rows IN
    /\ asked.around # NoAnswer
    /\ asked' = [asked EXCEPT !.around = NoAnswer]
    /\ view' = [mode |-> "history", oldest |-> Lowest(rows), more |-> HasMore(rows),
                rows |-> shown, top |-> cursor]
    /\ shown' = rows
    /\ jumped' = TRUE
    /\ gapped' = (gapped \/ History)
    /\ UNCHANGED <<top, sent, cursor, saved>>

\* The rows come back, the viewport's cursor stays where the page left it.
ReturnToLatest ==
    /\ History
    /\ shown' = view.rows /\ cursor' = view.top
    /\ view' = [view EXCEPT !.mode = "latest", !.rows = {}]
    /\ saved' = [rows |-> shown', top |-> cursor']
    /\ UNCHANGED <<top, sent, asked, jumped, gapped>>

Fail ==
    /\ \E request \in {"older", "around"} :
          /\ asked[request] # NoAnswer
          /\ asked' = [asked EXCEPT ![request] = NoAnswer]
    /\ UNCHANGED <<top, sent, shown, cursor, view, saved, jumped, gapped>>

\* The page is loaded again: chatStore.load, and a sync at once.
Reload ==
    /\ shown' = saved.rows /\ cursor' = saved.top
    /\ view' = [mode |-> "latest", oldest |-> 0, more |-> TRUE, rows |-> {}, top |-> 0]
    /\ asked' = [sync |-> ListHistoryAfter(saved.top), older |-> NoAnswer,
                 around |-> NoAnswer]
    /\ sent' = top
    /\ gapped' = (gapped \/ saved.rows # Between(Lowest(saved.rows), saved.top))
    /\ jumped' = FALSE
    /\ UNCHANGED <<top, saved>>

Next ==
    \/ Write \/ UpsertMessage \/ Sync \/ MergeFromServer
    \/ LoadOlderMessages \/ PrependMessages
    \/ LoadAroundMessage \/ SwitchToHistoryView \/ ReturnToLatest
    \/ Fail \/ Reload

Spec == Init /\ [][Next]_vars

-----------------------------------------------------------------------------

\* Every variable has its type.
TypeOK ==
    /\ top \in 0..MaxTop /\ sent \in 0..top
    /\ shown \subseteq Rows /\ cursor \in 0..top
    /\ view \in [mode : {"latest", "history"}, oldest : 0..top, more : BOOLEAN,
                 rows : SUBSET Rows, top : 0..top]
    /\ saved \in [rows : SUBSET Rows, top : 0..top]
    /\ DOMAIN asked = {"sync", "older", "around"}
    /\ {jumped, gapped} \subseteq BOOLEAN

\* However pushes, syncs, pages and reloads interleave, the latest view has no gap, as
\* long as none of these steps has happened (chat-store.ts:426, 592, 624): a
\* message pushed while a history page was shown, a search from such a page, scrolling
\* up after a return from one, or a reload while what was saved had a gap.
NoGap ==
    ~History /\ ~gapped =>
        Between(Lowest(shown), cursor) \subseteq shown \cup Arriving

\* In the same setting, a view that says there is nothing older shows the first row,
\* unless a search has set its viewport (sync.ts:131, 180).
EndReached ==
    ~History /\ ~gapped /\ ~jumped /\ ~view.more =>
        Between(1, cursor) \subseteq shown \cup Arriving

\* A history page waits for its user with all of the latest rows behind it: returning
\* from it loses none that was shown or fetched before (chat-store.ts:315).
LatestWaits ==
    History /\ ~gapped =>
        Between(Lowest(view.rows), view.top) \subseteq view.rows \cup Arriving

\* chat-store.ts:315: "In history mode, accumulate new messages in the cached latest
\* segment": what arrives while a page is shown is there after the return.  Not so: a
\* pushed message goes into the page and is dropped with it.
NewMessagesKept ==
    [][ReturnToLatest => \A n \in 1..sent : n > Lowest(view.rows) => n \in shown']_vars
=============================================================================
