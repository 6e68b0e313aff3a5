------------------------------- MODULE Canonical -------------------------------
(***************************************************************************)
(* The filter that turns an agent's raw history into what is shown:        *)
(* _to_canonical_history, one message after the other.  Two readings of    *)
(* one history are compared: the whole of it, and a window that starts     *)
(* later, as a fetch with a limit returns it once the history has grown.   *)
(*                                                                         *)
(* A text is a value; Begins says which text begins like which reply, and  *)
(* Long which texts are long enough for that to count.                     *)
(***************************************************************************)
EXTENDS Integers, FiniteSets, Sequences, SequencesExt

CONSTANTS
  Texts, Silent,  \* texts; the replies that mean "no reply"
  Begins, Long,   \* cut texts: pairs of a text and a reply that begins with it
  RecentMax,      \* replies remembered for comparison: 50 in the code
  MaxLen          \* bound: messages of the history

(* A message of the history: by the user, by the agent, or by the mirror     *)
(* that wrote into the history what it delivered elsewhere.  It is plain, or *)
(* starts with the name of a bot; or it is of the system's making (a user's) *)
(* or a step of a tool call (an agent's).                                    *)
Message ==
  [by : {"user"}, kind : {"plain"}, text : Texts \cup {Silent}]
    \cup [by : {"user"}, kind : {"named"}, text : Texts]
    \cup [by : {"user"}, kind : {"system"}, text : {Silent}]
    \cup [by : {"assistant"}, kind : {"plain"}, text : Texts \cup {Silent}]
    \cup [by : {"assistant"}, kind : {"tool"}, text : {Silent}]
    \cup [by : {"mirror"}, kind : {"plain", "named"}, text : Texts]
    \cup [by : {"mirror"}, kind : {"system"}, text : {Silent}]

VARIABLES
  raw,   \* the history
  whole, \* the filter after reading all of it
  part,  \* the filter after reading the window
  first  \* the first message of the window; 0: no window yet

vars == <<raw, whole, part, first>>

(* What the filter has at a point: positions kept, the flag                  *)
(* drop_assistant_until_next_user, the replies remembered, and whether one   *)
(* was forgotten (history).                                                  *)
Fresh == [kept |-> {}, drop |-> FALSE, recent |-> {}, forgot |-> FALSE]

-----------------------------------------------------------------------------
(* Delivery mirrors: what starts with a bot's name was a reply, the rest was *)
(* said by the user.                                                         *)
RoleOf(m) ==
  IF m.by # "mirror" THEN m.by ELSE IF m.kind = "named" THEN "assistant" ELSE "user"

(* A user's message that repeats a reply, whole or cut.                      *)
Echo(m, recent) ==
  \/ m.text \in recent
  \/ \E t \in recent : <<m.text, t>> \in Begins /\ (m.kind = "named" \/ m.text \in Long)

(* A reply is remembered; when there are too many, any of them is forgotten. *)
Remembered(f, t) ==
  LET r == f.recent \cup {t} IN
  IF Cardinality(r) <= RecentMax THEN {[f EXCEPT !.recent = r]}
  ELSE {[f EXCEPT !.recent = r \ {x}, !.forgot = TRUE] : x \in r}

Keep(f, n) == [f EXCEPT !.kept = @ \cup {n}]

(* Faulty variant of OfUser: the flag stays up until a reply is due. *)
OfUserFlagged(f, m, n) ==
  IF m.kind = "system" \/ Echo(m, f.recent) THEN {[f EXCEPT !.drop = TRUE]}
  ELSE {IF m.text = Silent THEN f ELSE Keep(f, n)}

(* A user's message that is dropped takes the replies after it with it.      *)
OfUser(f, m, n) ==
  IF m.kind = "system" \/ Echo(m, f.recent) THEN {[f EXCEPT !.drop = TRUE]}
  ELSE LET g == [f EXCEPT !.drop = FALSE] IN {IF m.text = Silent THEN g ELSE Keep(g, n)}

(* A reply is kept unless it belongs to a dropped message; a mirrored one    *)
(* also unless the reply it mirrors was kept.                                *)
OfAssistant(f, m, n, h) ==
  IF \/ m.by = "mirror"
        /\ \E k \in f.kept : RoleOf(h[k]) = "assistant" /\ h[k].text = m.text
     \/ m.kind = "tool" \/ f.drop \/ m.text = Silent
  THEN {f} ELSE Remembered(Keep(f, n), m.text)

(* The filter after message n of the history h.                              *)
After(f, n, h) ==
  IF RoleOf(h[n]) = "user" THEN OfUser(f, h[n], n) ELSE OfAssistant(f, h[n], n, h)

Init == raw = <<>> /\ whole = Fresh /\ part = Fresh /\ first = 0

(* The history grows, and both readings with it.                             *)
Grows ==
  /\ Len(raw) < MaxLen
  /\ \E m \in Message :
       /\ raw' = Append(raw, m)
       /\ whole' \in After(whole, Len(raw'), raw')
       /\ part' \in IF first = 0 THEN {part} ELSE After(part, Len(raw'), raw')
  /\ UNCHANGED first

(* Faulty variant of Cut: replies are dropped until the user speaks. *)
CutDropping ==
  /\ first = 0 /\ first' = Len(raw) + 1 /\ part' = [Fresh EXCEPT !.drop = TRUE]
  /\ UNCHANGED <<raw, whole>>

(* The window of the second reading starts at the next message; its filter   *)
(* knows nothing of what was before.                                         *)
Cut ==
  /\ first = 0 /\ first' = Len(raw) + 1 /\ part' = Fresh
  /\ UNCHANGED <<raw, whole>>

Next == Grows \/ Cut

Spec == Init /\ [][Next]_vars

-----------------------------------------------------------------------------
TypeOK ==
  /\ raw \in Seq(Message) /\ Len(raw) <= MaxLen /\ first \in 0..MaxLen + 1
  /\ \A f \in {whole, part} :
       /\ f.kept \subseteq DOMAIN raw /\ f.drop \in BOOLEAN
       /\ f.recent \subseteq Texts /\ Cardinality(f.recent) <= RecentMax
  /\ \A n \in part.kept : n >= first

Users   == {n \in DOMAIN raw : RoleOf(raw[n]) = "user"}
Replies == DOMAIN raw \ Users
TextsOf(ns) == {raw[n].text : n \in ns}
Before(ns, n) == {k \in ns : k < n}

(* What the filter promises, without its flag: a user's message is dropped   *)
(* when it is the system's or an echo of a reply shown before it, a reply    *)
(* when the last user's message before it was dropped so.                    *)
Dropped(f, n)  == raw[n].kind = "system" \/ Echo(raw[n], TextsOf(Before(f.kept \cap Replies, n)))
Orphan(f, n)   == LET us == Before({k \in Users : k >= first \/ f = whole}, n) IN
                  us # {} /\ Dropped(f, CHOOSE k \in us : \A j \in us : j <= k)
Promised(f, n) ==
  /\ raw[n].text # Silent
  /\ IF n \in Users THEN ~Dropped(f, n)
     ELSE /\ ~Orphan(f, n)
          /\ raw[n].by = "mirror" =>
               raw[n].text \notin TextsOf(Before(f.kept \cap Replies, n))

(* While no reply had to be forgotten, the filter keeps what it promises.    *)
KeepsPromise ==
  ~whole.forgot => \A n \in DOMAIN raw : n \in whole.kept <=> Promised(whole, n)

(* The whole history and a window of it first differ at the window's edge:   *)
(* the window shows a message more, and what had it dropped is outside; a    *)
(* reply before the window's first message of the user, or the echo of a     *)
(* reply that was shown before the window.                                   *)
DiffersAtEdge ==
  LET differ == {n \in (whole.kept \ part.kept) \cup (part.kept \ whole.kept) : n >= first} IN
  first # 0 /\ ~whole.forgot /\ ~part.forgot =>
    \A n \in differ :
      \/ Before(differ, n) # {}
      \/ n \in part.kept /\ (\/ Before(Users, n) \cap first..n = {}
                            \/ Echo(raw[n], TextsOf(Before(whole.kept \cap Replies, first))))

=============================================================================
