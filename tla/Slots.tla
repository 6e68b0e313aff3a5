--------------------------------- MODULE Slots ---------------------------------
(***************************************************************************)
(* The registry of slots, its file, and the requests that change it: the   *)
(* setup wizard selecting discovered bots, a bot created, a discovery      *)
(* synchronised, slots listed, edited, deleted and reset.  A bot is found  *)
(* under an id and talks in a session; the registry is keyed by the id,    *)
(* the adapters by the session.                                            *)
(*                                                                         *)
(* Two kinds of bots are found.  Accounts of the gateway (Accounts) talk   *)
(* in a session of their own until one session, Shared, that the user      *)
(* holds with one account at a time is found to be theirs.  Claude         *)
(* terminals talk in a conversation, which is also their id; one that is   *)
(* created gets a temporary name first (Temps), and its conversation       *)
(* (Conv) only when its terminal has been started.                         *)
(***************************************************************************)
EXTENDS Integers, Sequences, FiniteSets, SequencesExt

CONSTANTS
  Accounts,  \* accounts of the gateway: ids; also the names of their own sessions
  Shared,    \* the session the user holds with one account
  Main,      \* the account of the default slot
  Temps,     \* temporary ids of created bots
  Conv,      \* per temporary id: the conversation its terminal will have
  Foreign,   \* conversations in terminals of the user's own
  NoAccount,
  Torn,      \* a file that was being written when the process died
  MaxOps     \* bound: requests and events

Convs   == {Conv[t] : t \in Temps} \cup Foreign
Claudes == Temps \cup Convs
Ids     == Accounts \cup Claudes
Keys    == Ids \cup {Shared}

VARIABLES
  slots,    \* _SLOTS: a sequence of slots
  disk,     \* slots.json
  warmed,   \* _pre_warm_done: sessions
  warming,  \* pre_warm tasks under way
  live,     \* sessions with a terminal of ours
  deleting, \* DELETE requests that wait for on_slot_removed: ids
  offered,  \* bots the wizard shows for selection
  holder,   \* the account that holds the Shared session
  ops,
  moved,    \* history: the Shared session went from an account to another one
  again,    \* history: sessions that came back after a delete
  synced,   \* history: a discovery was synchronised
  chosen    \* history: sessions the user selected, or had at the start

hist == <<moved, again, synced, chosen>>
vars == <<slots, disk, warmed, warming, live, deleting, offered, holder, ops, hist>>

-----------------------------------------------------------------------------
Bot(i, k)  == [id |-> i, key |-> k]
Slot(i, k) == [id |-> i, legacy |-> i, key |-> k, online |-> TRUE, mirror |-> "none"]
KeysOf(s)  == {s[n].key : n \in DOMAIN s}
IdsOf(s)   == {s[n].id : n \in DOMAIN s}
Distinct(f) == \A m, n \in DOMAIN f : m # n => f[m] # f[n]
Legacies(s) == [n \in DOMAIN s |-> s[n].legacy]
SlotIds(s)  == [n \in DOMAIN s |-> s[n].id]

Default == <<Slot(Main, Main)>>

(* resolve_slot_id: the id itself first, then the legacy id.                 *)
Resolve(s, i) ==
  IF i \in IdsOf(s) THEN {i} ELSE {s[n].id : n \in {m \in DOMAIN s : s[m].legacy = i}}

(* _load_slots_from_disk: a file that cannot be read or repeats an id is     *)
(* taken for none, and the defaults are used.                                *)
Load(d) ==
  IF d = Torn THEN Default
  ELSE IF Distinct(Legacies(d)) /\ Distinct(SlotIds(d)) THEN d ELSE Default

Saves(s) == slots' = s /\ disk' = s

(* set_slots: refuses a list that repeats an id.                             *)
SetSlots(s) ==
  IF Distinct(SlotIds(s)) /\ Distinct(Legacies(s)) THEN Saves(s)
  ELSE UNCHANGED <<slots, disk>>

(* Faulty variant of Merged: nothing is compared. *)
MergedAll(s, new) == s \o new

(* merge_slots: adds, one after the other, what has a new id and a new       *)
(* session.                                                                  *)
MergeOne(s, x) ==
  IF x.id \in IdsOf(s) \/ x.key \in KeysOf(s) THEN s ELSE Append(s, x)
Merged(s, new) ==
  LET after[n \in 0..Len(new)] == IF n = 0 THEN s ELSE MergeOne(after[n - 1], new[n])
  IN after[Len(new)]

(* Faulty variant of Enriched: the values found overwrite. *)
EnrichedOver(s) ==
  [n \in DOMAIN s |-> IF s[n].legacy \in Accounts THEN [s[n] EXCEPT !.mirror = "filled"]
                      ELSE s[n]]

(* enrich_slots_from_gateway: fills in what an account's slot lacks.         *)
Enriched(s) ==
  [n \in DOMAIN s |->
     IF s[n].legacy \in Accounts /\ s[n].mirror = "none"
     THEN [s[n] EXCEPT !.mirror = "filled"] ELSE s[n]]

-----------------------------------------------------------------------------
(* What discover_bots finds.                                                 *)
AccountBots == {Bot(a, IF holder = a THEN Shared ELSE a) : a \in Accounts}
ConvOf(k)   == IF k \in Temps THEN Conv[k] ELSE k
Managed     == {ConvOf(k) : k \in live}
ClaudeBots  == {Bot(c, c) : c \in Managed \cup Foreign}
Discovered  == SetToSeq(AccountBots) \o SetToSeq(ClaudeBots)

Init ==
  /\ slots = Default /\ disk = Default
  /\ warmed = {} /\ warming = {} /\ live = {} /\ deleting = {} /\ offered = {}
  /\ holder = NoAccount /\ ops = 0
  /\ moved = FALSE /\ again = {} /\ synced = FALSE /\ chosen = {}

Op == ops < MaxOps /\ ops' = ops + 1

(* The user talks with an account, or with another one, in the one session.  *)
SessionMoves ==
  /\ Op /\ holder' \in Accounts \ {holder} /\ moved' = TRUE
  /\ UNCHANGED <<slots, disk, warmed, warming, live, deleting, offered, again, synced,
                 chosen>>

-----------------------------------------------------------------------------
(* Faulty variant of DiscoverOnly: terminals of ours are shown. *)
DiscoverOnlyAll ==
  /\ Op
  /\ offered' = {b \in AccountBots \cup ClaudeBots : b.key \notin KeysOf(slots)}
  /\ UNCHANGED <<slots, disk, warmed, warming, live, deleting, holder, hist>>

(* The wizard: run_discover_only hides what is in the registry or is ours.   *)
DiscoverOnly ==
  /\ Op
  /\ offered' = {b \in AccountBots \cup ClaudeBots :
                   b.key \notin KeysOf(slots) /\ b.key \notin Managed}
  /\ UNCHANGED <<slots, disk, warmed, warming, live, deleting, holder, hist>>

Warm(keys) == warming' = warming \cup (keys \cap Claudes)
Back(keys) == again' = again \cup (keys \cap warmed)

SelectBots(mode, picked) ==
  LET new == SetToSeq({Slot(b.id, b.key) : b \in picked})
      all == IF mode = "append" THEN Merged(slots, new) ELSE new IN
  /\ Op /\ picked # {}
  /\ IF mode = "replace" /\ ~Distinct(SlotIds(new))
     THEN UNCHANGED <<slots, disk, warmed, warming, again, chosen>>
     ELSE /\ Saves(Enriched(all))
          /\ warmed' = warmed \cup KeysOf(new) /\ Warm(KeysOf(new))
          /\ again' = again \ KeysOf(new) /\ chosen' = chosen \cup KeysOf(new)
  /\ UNCHANGED <<live, deleting, offered, holder, moved, synced>>

(* create_bot names a conversation that does not exist yet; the wizard adds  *)
(* the bot to those it shows.                                                *)
CreateBot(t) ==
  /\ Op /\ t \notin KeysOf(slots) \cup live \cup warmed
  /\ Saves(Merged(slots, <<Slot(t, t)>>)) /\ offered' = offered \cup {Bot(t, t)}
  /\ UNCHANGED <<warmed, warming, live, deleting, holder, hist>>

FoundSlot(b) == [Slot(b.id, b.key) EXCEPT !.mirror = IF b.id \in Accounts THEN "filled" ELSE "none"]

(* Faulty variant of Placed: every bot found is a new slot. *)
PlacedNew(s, b) == Append(s, FoundSlot(b))

(* run_discover_and_sync: a slot is found by its session and takes the id.   *)
Placed(s, b) ==
  IF b.key \in KeysOf(s)
  THEN [n \in DOMAIN s |->
          IF s[n].key = b.key THEN [s[n] EXCEPT !.id = b.id, !.online = TRUE] ELSE s[n]]
  ELSE Append(s, FoundSlot(b))
AllPlaced(s, bots) ==
  LET after[n \in 0..Len(bots)] == IF n = 0 THEN s ELSE Placed(after[n - 1], bots[n])
  IN after[Len(bots)]

DiscoverAndSync ==
  LET found  == {Discovered[n].key : n \in DOMAIN Discovered}
      filled == [n \in DOMAIN slots |->
                   IF slots[n].id \in Accounts /\ slots[n].mirror = "none"
                   THEN [slots[n] EXCEPT !.mirror = "filled"] ELSE slots[n]]
      placed == AllPlaced(filled, Discovered)
      marked == [n \in DOMAIN placed |->
                   IF placed[n].key \in Claudes \ found THEN [placed[n] EXCEPT !.online = FALSE]
                   ELSE placed[n]] IN
  /\ Op
  /\ IF marked = slots THEN UNCHANGED <<slots, disk>> ELSE SetSlots(marked)
  /\ Back(KeysOf(slots') \ KeysOf(slots)) /\ synced' = TRUE
  /\ UNCHANGED <<warmed, warming, live, deleting, offered, holder, moved, chosen>>

-----------------------------------------------------------------------------
(* Faulty variant of GetSlots: the sessions are marked, nothing is started. *)
GetSlotsMarks ==
  /\ ~(KeysOf(slots) \subseteq warmed)
  /\ warmed' = warmed \cup KeysOf(slots)
  /\ UNCHANGED <<slots, disk, warming, live, deleting, offered, holder, ops, hist>>

(* GET /slots starts the terminals of the slots it has not seen.             *)
GetSlots ==
  /\ ~(KeysOf(slots) \subseteq warmed)
  /\ warmed' = warmed \cup KeysOf(slots) /\ Warm(KeysOf(slots) \ warmed)
  /\ UNCHANGED <<slots, disk, live, deleting, offered, holder, ops, hist>>

PreWarmed(k) ==
  /\ k \in warming /\ warming' = warming \ {k} /\ live' = live \cup {k}
  /\ UNCHANGED <<slots, disk, warmed, deleting, offered, holder, ops, hist>>

(* PUT /slots: a client sends back the list without a slot.                  *)
Put ==
  /\ Op
  /\ \E n \in DOMAIN slots : SetSlots(RemoveAt(slots, n))
  /\ UNCHANGED <<warmed, warming, live, deleting, offered, holder, hist>>

(* PATCH /slots: the user sets up a mirror.                                  *)
Patch ==
  /\ Op
  /\ \E n \in DOMAIN slots :
       slots[n].mirror # "user" /\ Saves([slots EXCEPT ![n].mirror = "user"])
  /\ UNCHANGED <<warmed, warming, live, deleting, offered, holder, hist>>

Reset ==
  /\ Op /\ Saves(Default) /\ Back({Main} \ KeysOf(slots))
  /\ UNCHANGED <<warmed, warming, live, deleting, offered, holder, moved, synced, chosen>>

(* DELETE /slots: the session is taken down first, then the slot removed.    *)
Delete(i) ==
  /\ Op /\ Resolve(slots, i) # {} /\ i \notin deleting
  /\ LET key == {slots[n].key : n \in {m \in DOMAIN slots : slots[m].id \in Resolve(slots, i)}} IN
     live' = live \ key
  /\ deleting' = deleting \cup {i}
  /\ UNCHANGED <<slots, disk, warmed, warming, offered, holder, hist>>

(* Faulty variant of RemoveSlot: the file is not written. *)
RemoveSlotUnsaved(i) ==
  /\ i \in deleting /\ deleting' = deleting \ {i}
  /\ slots' = SelectSeq(slots, LAMBDA s : s.id # i)
  /\ UNCHANGED <<disk, warmed, warming, live, offered, holder, ops, hist>>

(* Faulty variant of RemoveSlot: only a slot that is online is removed. *)
RemoveSlotOnline(i) ==
  /\ i \in deleting /\ deleting' = deleting \ {i}
  /\ LET kept == SelectSeq(slots, LAMBDA s : s.id # i \/ ~s.online) IN
     IF kept = slots THEN UNCHANGED <<slots, disk>> ELSE Saves(kept)
  /\ UNCHANGED <<warmed, warming, live, offered, holder, ops, hist>>

Without(s, i) ==
  LET kept[n \in 0..Len(s)] ==
        IF n = 0 THEN <<>>
        ELSE IF s[n].id = i THEN kept[n - 1] ELSE Append(kept[n - 1], s[n])
  IN kept[Len(s)]

RemoveSlot(i) ==
  /\ i \in deleting /\ deleting' = deleting \ {i}
  /\ LET kept == Without(slots, i) IN
     IF kept = slots THEN UNCHANGED <<slots, disk>> ELSE Saves(kept)
  /\ UNCHANGED <<warmed, warming, live, offered, holder, ops, hist>>

(* The process ends, perhaps while it writes the file, and starts again: the *)
(* registry is what the file holds, and old terminals are killed.            *)
Restart ==
  /\ Op
  /\ \E d \in {disk} \cup (IF slots = <<>> THEN {} ELSE {Torn}) :
       /\ slots' = Enriched(Load(d))
       /\ disk' = IF slots' = Load(d) THEN d ELSE slots'
  /\ warmed' = {} /\ warming' = {} /\ live' = {} /\ deleting' = {} /\ offered' = {}
  /\ again' = {}
  /\ UNCHANGED <<holder, moved, synced, chosen>>

Next ==
  \/ SessionMoves \/ DiscoverOnly \/ DiscoverAndSync \/ GetSlots \/ Put \/ Patch
  \/ Reset \/ Restart
  \/ \E mode \in {"append", "replace"}, p \in SUBSET offered : SelectBots(mode, p)
  \/ \E t \in Temps : CreateBot(t)
  \/ \E k \in Claudes : PreWarmed(k)
  \/ \E i \in Ids : Delete(i) \/ RemoveSlot(i)

Spec == Init /\ [][Next]_vars

-----------------------------------------------------------------------------
TypeOK ==
  /\ \A n \in DOMAIN slots :
       slots[n] \in [id : Ids, legacy : Ids, key : Keys, online : BOOLEAN,
                     mirror : {"none", "filled", "user"}]
  /\ warming \cup live \subseteq Claudes /\ warmed \cup again \cup chosen \subseteq Keys
  /\ deleting \subseteq Ids /\ warming \subseteq warmed
  /\ holder \in Accounts \cup {NoAccount} /\ (holder # NoAccount => moved)

(* No two slots have one id or talk in one session, whatever the requests    *)
(* and wherever the gateway says a session belongs.                          *)
OneSlotPerSession ==
  \A m, n \in DOMAIN slots : m # n => slots[m].id # slots[n].id /\ slots[m].key # slots[n].key

(* A process that starts finds the registry as it was: unless the file was   *)
(* being written, or a session has moved between accounts, after which two   *)
(* slots may have one legacy id and the file is not accepted.                *)
RestartKeeps == disk # Torn /\ ~moved => Load(disk) = slots

(* A terminal slot that was listed has its terminal or is getting it, unless *)
(* it was deleted, or was and came back other than by the user's selection.  *)
ListedIsWarm ==
  \A n \in DOMAIN slots :
    slots[n].key \in (warmed \cap Claudes) \ again =>
      slots[n].key \in live \cup warming \/ slots[n].id \in deleting

(* Only a synchronised discovery gives one conversation two slots: what the  *)
(* wizard shows, however old, never does.                                    *)
PhantomOnlyBySync ==
  (\E m, n \in DOMAIN slots : m # n /\ ConvOf(slots[m].key) = ConvOf(slots[n].key)) => synced

(* When a delete request is answered its id names no slot, unless a slot had *)
(* taken the id of another account.                                          *)
DeletedIsGone ==
  [][\A i \in deleting \ deleting' : Resolve(slots', i) = {} \/ moved \/ Restart]_vars

(* After a discovery every bot found has its slot, unless a session moved:   *)
(* then the list may repeat an id, and nothing of it is taken over.          *)
SyncComplete ==
  [][DiscoverAndSync => moved \/ \A n \in DOMAIN Discovered : Discovered[n].key \in KeysOf(slots')]_vars

(* What the user set up for the mirror of a session stays, until the whole   *)
(* registry is replaced.                                                     *)
UserMirrorKept ==
  [][\/ \E p \in SUBSET offered : SelectBots("replace", p)
     \/ slots' \in {Default, Enriched(Default)}
     \/ \A m \in DOMAIN slots, n \in DOMAIN slots' :
          slots[m].key = slots'[n].key /\ slots[m].mirror = "user" => slots'[n].mirror = "user"
    ]_vars

(* The create request's comment: a window opens only when the user continues *)
(* in the wizard.  It does not hold: listing the slots warms every one.      *)
OnlySelectedWarm == (live \cup warming) \cap Temps \subseteq chosen

(* create_bot's docstring: the slot follows its conversation, so that no     *)
(* second slot appears for it.  It does not hold: nothing updates the slot.  *)
NoPhantom ==
  \A m, n \in DOMAIN slots : m # n => ConvOf(slots[m].key) # ConvOf(slots[n].key)

=============================================================================
