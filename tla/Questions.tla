------------------------------ MODULE Questions ------------------------------
(***************************************************************************)
(* How Claude Code's questions reach the user and the answers come back.   *)
(*                                                                         *)
(* Observer mode: the CLI runs a hook script for every prompt.  The script *)
(* posts it to the backend and waits for the decision; the backend keeps a *)
(* future and a payload per request and shows a card in the web client.    *)
(* The script is external: it gives up a post after its own timeout or on  *)
(* a connection error, posts again, and after MaxRetries failures sends    *)
(* Escape to the terminal and exits.                                       *)
(*                                                                         *)
(* Controller mode: the CLI asks on its output; the adapter keeps one      *)
(* future per bot.                                                         *)
(***************************************************************************)
EXTENDS Integers, FiniteSets

CONSTANTS
  Prompts,      \* prompts for which the hook script is run
  MaxReqs,      \* bound: requests the backend registers
  MaxRetries,   \* failures after which the script gives up
  MaxAsks,      \* bound: questions asked in controller mode
  MaxFaults     \* bound: reloads of the web client and restarts of the backend

Reqs == 1..MaxReqs
Asks == 1..MaxAsks

VARIABLES
  mode,      \* the adapter's session mode: observer or controller
  script,    \* per prompt: state of the hook script
  tries,     \* per prompt: failed posts
  at,        \* per prompt: the request its post waits for, 0 for none
  req,       \* per request: none, open, replied, or over
  origin,    \* per request: the prompt it was registered for
  verdict,   \* per request: the user's reply
  known,     \* _tmux_name_to_bot knows the session
  up,        \* the backend accepts connections
  ask,       \* per question: none, open, replied, answered, denied, gone
  slot,      \* _sdk_pending_replies of the bot: a question or 0
  conn,      \* the client's connection: down, registered, ready
  cards,     \* requests and questions whose card the client shows
  faults,    \* reloads and restarts so far
  restarted, \* history: the backend has been restarted
  gave,      \* history: the question whose reply a question was answered with
  crowded,   \* history: questions that were unsettled together with another
  late,      \* history: questions that timed out
  abandoned  \* history: requests whose post was given up by the script

hookVars    == <<script, tries, at, req, origin, verdict, abandoned>>
askVars     == <<ask, slot, gave, crowded, late>>
backendVars == <<mode, known, up, restarted>>
clientVars  == <<conn, cards, faults>>
vars == <<hookVars, askVars, backendVars, clientVars>>

-----------------------------------------------------------------------------
HookCard(r) == <<"hook", r>>
SdkCard(k)  == <<"sdk", k>>
ScriptOver  == {"allowed", "denied", "escaped", "passed"}
Open        == {r \in Reqs : req[r] = "open"}
Unsettled   == {k \in Asks : ask[k] \in {"open", "replied"}}

Init ==
  /\ mode \in {"observer", "controller"} /\ known = TRUE /\ up = TRUE /\ restarted = FALSE
  /\ script = [p \in Prompts |-> "none"] /\ tries = [p \in Prompts |-> 0]
  /\ at = [p \in Prompts |-> 0]
  /\ req = [r \in Reqs |-> "none"] /\ origin = [r \in Reqs |-> {}]
  /\ verdict = [r \in Reqs |-> "none"] /\ abandoned = {}
  /\ ask = [k \in Asks |-> "none"] /\ slot = 0 /\ gave = [k \in Asks |-> 0]
  /\ crowded = {} /\ late = {}
  /\ conn = "ready" /\ cards = {} /\ faults = 0

(* A broadcast reaches the client from its registration on. *)
Show(c) == cards' = IF conn = "down" THEN cards ELSE cards \cup {c}

-----------------------------------------------------------------------------
(* External: the hook script. *)
Prompt(p) ==
  /\ mode = "observer" /\ script[p] = "none"
  /\ script' = [script EXCEPT ![p] = "posting"]
  /\ UNCHANGED <<tries, at, req, origin, verdict, abandoned, askVars,
                 backendVars, clientVars>>

(* The post fails, or curl's own timeout ends it: wait and post again, or   *)
(* give up with an Escape.  The request, if any, stays with the backend.    *)
PostFails(p) ==
  /\ \/ script[p] = "posting" /\ ~up
     \/ script[p] = "waiting"
  /\ tries' = [tries EXCEPT ![p] = @ + 1]
  /\ script' = [script EXCEPT ![p] = IF tries[p] + 1 >= MaxRetries
                                     THEN "escaped" ELSE "posting"]
  /\ abandoned' = abandoned \cup ({at[p]} \ {0})
  /\ at' = [at EXCEPT ![p] = 0]
  /\ UNCHANGED <<req, origin, verdict, askVars, backendVars, clientVars>>

-----------------------------------------------------------------------------
(* handle_hook_interactive: register a future and a payload, show the card. *)
(* An unknown session is answered at once, without asking anybody.          *)
Asked(p, r) ==
  /\ req[r] = "none" /\ \A q \in 1..(r - 1) : req[q] # "none"
  /\ req' = [req EXCEPT ![r] = "open"]
  /\ origin' = [origin EXCEPT ![r] = {p}]
  /\ at' = [at EXCEPT ![p] = r]
  /\ script' = [script EXCEPT ![p] = "waiting"]
  /\ Show(HookCard(r))

(* Faulty variant of HandleHook: the payload is kept although the post has    *)
(* ended.                                                                     *)
HandleHookDetached(p) ==
  /\ script[p] = "posting" /\ up /\ known
  /\ \E r \in Reqs :
       /\ req[r] = "none" /\ \A q \in 1..(r - 1) : req[q] # "none"
       /\ req' = [req EXCEPT ![r] = "open"]
       /\ origin' = [origin EXCEPT ![r] = {p}]
       /\ Show(HookCard(r))
  /\ UNCHANGED <<script, at, tries, verdict, abandoned, askVars, backendVars, conn, faults>>

HandleHook(p) ==
  /\ script[p] = "posting" /\ up
  /\ IF known
     THEN \E r \in Reqs : Asked(p, r)
     ELSE /\ script' = [script EXCEPT ![p] = "passed"]
          /\ UNCHANGED <<req, origin, at, cards>>
  /\ UNCHANGED <<tries, verdict, abandoned, askVars, backendVars, conn, faults>>

(* The decision goes back on the post that waits for it, if one still does. *)
Respond(r, decision) ==
  /\ req' = [req EXCEPT ![r] = "over"]
  /\ script' = [p \in Prompts |-> IF at[p] = r THEN decision ELSE script[p]]
  /\ at' = [p \in Prompts |-> IF at[p] = r THEN 0 ELSE at[p]]

HookAnswered(r) ==
  /\ req[r] = "replied"
  /\ Respond(r, IF verdict[r] = "deny" THEN "denied" ELSE "allowed")
  /\ UNCHANGED <<tries, origin, verdict, abandoned, askVars, backendVars, clientVars>>

(* Faulty variant of HookTimeout: silence allows. *)
HookTimeoutAllows(r) ==
  /\ req[r] = "open"
  /\ Respond(r, "allowed")
  /\ UNCHANGED <<tries, origin, verdict, abandoned, askVars, backendVars, clientVars>>

(* An hour without a reply denies. *)
HookTimeout(r) ==
  /\ req[r] = "open"
  /\ Respond(r, "denied")
  /\ UNCHANGED <<tries, origin, verdict, abandoned, askVars, backendVars, clientVars>>

(* The user answers a card: the request's future is resolved if pending. *)
UserDecides(r) ==
  /\ conn = "ready" /\ HookCard(r) \in cards
  /\ cards' = cards \ {HookCard(r)}
  /\ IF req[r] = "open"
     THEN /\ req' = [req EXCEPT ![r] = "replied"]
          /\ \E v \in {"allow", "deny"} : verdict' = [verdict EXCEPT ![r] = v]
     ELSE UNCHANGED <<req, verdict>>
  /\ UNCHANGED <<script, tries, at, origin, abandoned, askVars, backendVars, conn, faults>>

-----------------------------------------------------------------------------
(* Faulty variant of Register: only the first question gets the slot. *)
RegisterIfFree(k) == slot' = IF k > 1 THEN slot ELSE k

(* Controller mode: one slot per bot holds the future of the last question. *)
Register(k) == slot' = k

AskStart(k) ==
  /\ mode = "controller" /\ up
  /\ ask[k] = "none" /\ \A j \in 1..(k - 1) : ask[j] # "none"
  /\ ask' = [ask EXCEPT ![k] = "open"]
  /\ Register(k)
  /\ Show(SdkCard(k))
  /\ crowded' = IF Unsettled = {} THEN crowded ELSE crowded \cup Unsettled \cup {k}
  /\ UNCHANGED <<gave, late, hookVars, backendVars, conn, faults>>

(* Faulty variant of UserReplies: the newest open question is answered and    *)
(* the slot kept.                                                             *)
UserRepliesKeep(j) ==
  /\ conn = "ready" /\ SdkCard(j) \in cards
  /\ IF slot # 0 /\ ask[slot] = "open"
     THEN /\ ask' = [ask EXCEPT ![slot] = "replied"]
          /\ gave' = [gave EXCEPT ![slot] = j]
     ELSE UNCHANGED <<ask, gave>>
  /\ UNCHANGED <<slot, cards, crowded, late, hookVars, backendVars, conn, faults>>

(* The reply to the card of question j goes to whatever the slot holds. *)
UserReplies(j) ==
  /\ conn = "ready" /\ SdkCard(j) \in cards
  /\ cards' = cards \ {SdkCard(j)}
  /\ IF slot # 0 /\ ask[slot] = "open"
     THEN /\ ask' = [ask EXCEPT ![slot] = "replied"]
          /\ gave' = [gave EXCEPT ![slot] = j]
     ELSE UNCHANGED <<ask, gave>>
  /\ slot' = 0
  /\ UNCHANGED <<crowded, late, hookVars, backendVars, conn, faults>>

(* The waiting handler resumes or gives up; its finally empties the slot. *)
AskAnswered(k) ==
  /\ ask[k] = "replied"
  /\ ask' = [ask EXCEPT ![k] = "answered"]
  /\ slot' = 0
  /\ UNCHANGED <<gave, crowded, late, hookVars, backendVars, clientVars>>

(* Faulty variant of AskTimeout: only the question in the slot times out. *)
AskTimeoutInSlot(k) ==
  /\ ask[k] = "open" /\ slot = k
  /\ ask' = [ask EXCEPT ![k] = "denied"]
  /\ slot' = 0
  /\ late' = late \cup {k}
  /\ UNCHANGED <<gave, crowded, hookVars, backendVars, clientVars>>

AskTimeout(k) ==
  /\ ask[k] = "open"
  /\ ask' = [ask EXCEPT ![k] = "denied"]
  /\ slot' = 0
  /\ late' = late \cup {k}
  /\ UNCHANGED <<gave, crowded, hookVars, backendVars, clientVars>>

-----------------------------------------------------------------------------
(* The client reloads, or loses its connection: its cards are gone. *)
ClientReload ==
  /\ conn # "down" /\ faults < MaxFaults
  /\ faults' = faults + 1 /\ conn' = "down" /\ cards' = {}
  /\ UNCHANGED <<hookVars, askVars, backendVars>>

Connect ==
  /\ conn = "down" /\ up
  /\ conn' = "registered"
  /\ UNCHANGED <<cards, faults, hookVars, askVars, backendVars>>

(* Faulty variant of Resend: nothing is sent again. *)
ResendNothing ==
  /\ conn = "registered" /\ up
  /\ conn' = "ready"
  /\ UNCHANGED <<cards, faults, hookVars, askVars, backendVars>>

(* resend_pending_hook_requests, when the connection has been registered. *)
Resend ==
  /\ conn = "registered" /\ up
  /\ conn' = "ready"
  /\ cards' = cards \cup {HookCard(r) : r \in Open}
  /\ UNCHANGED <<faults, hookVars, askVars, backendVars>>

(* The backend stops: every future and connection is lost, and the hooks'   *)
(* table of sessions is empty until they are warmed again.  The page stays  *)
(* open and keeps its cards.                                                *)
BackendStops ==
  /\ up /\ faults < MaxFaults
  /\ faults' = faults + 1 /\ restarted' = TRUE /\ up' = FALSE /\ known' = FALSE
  /\ req' = [r \in Reqs |-> IF req[r] \in {"open", "replied"} THEN "over" ELSE req[r]]
  /\ ask' = [k \in Asks |-> IF k \in Unsettled THEN "gone" ELSE ask[k]]
  /\ slot' = 0 /\ conn' = "down"
  /\ UNCHANGED <<mode, script, tries, at, origin, verdict, abandoned, gave,
                 crowded, late, cards>>

BackendStarts ==
  /\ ~up /\ up' = TRUE
  /\ UNCHANGED <<mode, known, restarted, hookVars, askVars, clientVars>>

(* pre_warm registers the session's terminal name. *)
SessionKnown ==
  /\ up /\ ~known /\ known' = TRUE
  /\ UNCHANGED <<mode, up, restarted, hookVars, askVars, clientVars>>

-----------------------------------------------------------------------------
Next ==
  \/ \E p \in Prompts : Prompt(p) \/ PostFails(p) \/ HandleHook(p)
  \/ \E r \in Reqs : HookAnswered(r) \/ HookTimeout(r) \/ UserDecides(r)
  \/ \E k \in Asks : AskStart(k) \/ UserReplies(k) \/ AskAnswered(k) \/ AskTimeout(k)
  \/ ClientReload \/ Connect \/ Resend
  \/ BackendStops \/ BackendStarts \/ SessionKnown

Spec == Init /\ [][Next]_vars

(* The backend comes back, its timers fire, and the script's own timeout     *)
(* does; nothing is assumed of the user.                                     *)
Fairness ==
  /\ WF_vars(BackendStarts)
  /\ \A p \in Prompts : WF_vars(PostFails(p)) /\ WF_vars(HandleHook(p))
  /\ \A r \in Reqs : WF_vars(HookAnswered(r)) /\ WF_vars(HookTimeout(r))
  /\ \A k \in Asks : WF_vars(AskAnswered(k)) /\ WF_vars(AskTimeout(k))

FairSpec == Spec /\ Fairness

-----------------------------------------------------------------------------
(* Every variable has its type. *)
TypeOK ==
  /\ mode \in {"observer", "controller"} /\ {known, up} \subseteq BOOLEAN
  /\ script \in [Prompts -> {"none", "posting", "waiting"} \cup ScriptOver]
  /\ tries \in [Prompts -> 0..MaxRetries] /\ at \in [Prompts -> 0..MaxReqs]
  /\ req \in [Reqs -> {"none", "open", "replied", "over"}]
  /\ origin \in [Reqs -> SUBSET Prompts] /\ verdict \in [Reqs -> {"none", "allow", "deny"}]
  /\ ask \in [Asks -> {"none", "open", "replied", "answered", "denied", "gone"}]
  /\ slot \in 0..MaxAsks /\ gave \in [Asks -> 0..MaxAsks]
  /\ conn \in {"down", "registered", "ready"}
  /\ cards \subseteq ({"hook"} \X Reqs) \cup ({"sdk"} \X Asks)
  /\ {crowded, late} \subseteq SUBSET Asks /\ abandoned \subseteq Reqs
  /\ faults \in 0..MaxFaults /\ restarted \in BOOLEAN

(* A client that is connected shows the card of every request the backend    *)
(* still waits for, also after a reload of the page.                         *)
OpenIsShown == conn = "ready" => \A r \in Open : HookCard(r) \in cards

(* An open request whose script no longer waits for it was given up by the   *)
(* script's own timeout; only then is the user's answer to its card lost.    *)
StrandedOnlyAfterTimeout ==
  \A r \in Open : r \notin abandoned => \E p \in origin[r] : at[p] = r

(* A prompt goes the way the user decided: it is allowed only by a reply     *)
(* given to one of its own cards, and passes unasked only after a restart.   *)
DecisionIsUsers ==
  \A p \in Prompts :
    /\ script[p] = "allowed" => \E r \in Reqs : p \in origin[r] /\ verdict[r] = "allow"
    /\ script[p] = "passed" => restarted

(* A question that was never unsettled together with another can be answered *)
(* as long as it is open: the bot's single slot holds it.                    *)
OpenIsReachable == \A k \in Asks : ask[k] = "open" /\ k \notin crowded => slot = k

(* A reply resolves another question than its own only when its own had      *)
(* timed out, was lost with the backend, was open together with another, or  *)
(* had itself been resolved by the reply to another card; and the first      *)
(* reply that strays is never of the last kind.                              *)
Strays(k) == gave[k] \notin {0, k}
Excused   == late \cup crowded \cup {k \in Asks : ask[k] = "gone"}
MisdirectedOnlyLate ==
  /\ \A k \in Asks : Strays(k) => gave[k] \in Excused \/ Strays(gave[k])
  /\ Excused = {} => \A k \in Asks : ~Strays(k)

(* Every prompt and every question is over some time later, whatever the     *)
(* user does: in the end no script and no handler waits.                     *)
AllSettle == <>[](/\ \A p \in Prompts : script[p] \notin {"posting", "waiting"}
                  /\ Open = {} /\ Unsettled = {})

(* What the comment in handle_hook_interactive promises, "timeout matches    *)
(* hook script's curl timeout": a pending request always has its script.  It *)
(* does not hold: the script waits 600 s, the backend 3590 s.                *)
PendingHasScript == up => \A r \in Open : \E p \in origin[r] : at[p] = r
=============================================================================
