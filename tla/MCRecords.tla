------------------------------- MODULE MCRecords -------------------------------
(* Four parts without interaction, for TLC: the configuration, the slot         *)
(* registry, the filter of the history, and what a browser shows of it.  One    *)
(* runs, the others rest in an initial state.                                   *)
EXTENDS Setup

CONSTANTS Accounts, Shared, Main, Temps, Conv, Foreign, NoAccount, Torn,
          Texts, Silent, Begins, Long, RecentMax, MaxLen,
          MaxTop, Limit,
          oneText, otherText, oneConv

VARIABLES running,
          slots, disk, warmed, warming, live, deleting, offered, holder, requests,
          moved, again, synced, chosen,
          raw, whole, part, first,
          top, sent, shown, cursor, view, cached, asked, jumped, gapped

Reg == INSTANCE Slots WITH ops <- requests
Fil == INSTANCE Canonical
Pag == INSTANCE Pages WITH saved <- cached

\* Names are apart: of accounts, of sessions, and of conversations, of which each
\* created bot has its own.
ASSUME RegistryAssumption ==
  /\ IsFiniteSet(Accounts) /\ IsFiniteSet(Temps) /\ IsFiniteSet(Foreign)
  /\ Main \in Accounts /\ NoAccount \notin Accounts
  /\ Accounts \cap Reg!Claudes = {} /\ Temps \cap Reg!Convs = {} /\ Shared \notin Reg!Ids
  /\ \A t, u \in Temps : Conv[t] = Conv[u] => t = u
  /\ \A t \in Temps : Conv[t] \notin Foreign

\* A text that is cut is not the silent one; a page has two rows at least.
ASSUME ReadingAssumption ==
  /\ Silent \notin Texts /\ Begins \subseteq Texts \X Texts
  /\ RecentMax \in Nat /\ MaxLen \in Nat
  /\ MaxTop \in Nat /\ Limit \in Nat /\ Limit >= 2

\* Values for the cfg: the conversation of the created bot, and a text cut from another.
ConvOfOne == [t \in Temps |-> oneConv]
OneCut    == {<<oneText, otherText>>}

slotVars   == <<slots, disk, warmed, warming, live, deleting, offered, holder, requests,
                moved, again, synced, chosen>>
filterVars == <<raw, whole, part, first>>
viewVars   == <<top, sent, shown, cursor, view, cached, asked, jumped, gapped>>

\* The view's properties say nothing of a view with a gap: it is not followed further.
RecordsInit ==
  /\ running \in {"setup", "slots", "filter", "view"}
  /\ Init /\ Reg!Init /\ Fil!Init /\ Pag!Init
  /\ running # "view" => top = 0

RecordsNext ==
  /\ UNCHANGED running
  /\ \/ running = "setup" /\ Next /\ UNCHANGED <<slotVars, filterVars, viewVars>>
     \/ running = "slots" /\ Reg!Next /\ UNCHANGED <<vars, filterVars, viewVars>>
     \/ running = "filter" /\ Fil!Next /\ UNCHANGED <<vars, slotVars, viewVars>>
     \/ running = "view" /\ ~gapped /\ Pag!Next /\ UNCHANGED <<vars, slotVars, filterVars>>

RecordsSpec == RecordsInit /\ [][RecordsNext]_<<running, vars, slotVars, filterVars, viewVars>>

-----------------------------------------------------------------------------

\* No two slots share an id or a session, a restart finds the registry as it was, a
\* listed terminal slot has its terminal or is getting it, and only a discovery gives a
\* conversation two slots (slot_registry.py:111, 310, misc.py:456, 695).
RegistryKept ==
  /\ Reg!TypeOK /\ Reg!OneSlotPerSession /\ Reg!RestartKeeps
  /\ Reg!ListedIsWarm /\ Reg!PhantomOnlyBySync

\* The filter drops echoes and nothing else while no reply had to be forgotten, and a
\* window of the history differs from the whole first at its edge
\* (canonicalize.py:331, 456, 494).
FilterKeeps == Fil!TypeOK /\ Fil!KeepsPromise /\ Fil!DiffersAtEdge

\* Pushes, syncs, older pages and reloads leave no gap in what a browser shows, the
\* end of the history is told truly, and a page found by a search keeps the latest
\* rows behind it (chat-store.ts:315, 426, 592, 624).
ViewKeeps == Pag!TypeOK /\ Pag!NoGap /\ Pag!EndReached /\ Pag!LatestWaits

\* No step of the server changes a saved configuration; when a delete request is
\* answered its id names no slot; a discovery leaves a slot for every bot found; and
\* what the user set up for the mirror of a session stays (config_store.py:74,
\* misc.py:730, slot_registry.py:310, 353).
StepsKeep == RowsKept /\ Reg!DeletedIsGone /\ Reg!SyncComplete /\ Reg!UserMirrorKept
=============================================================================
