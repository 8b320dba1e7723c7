------------------------------ MODULE MiniApp -------------------------------
(***************************************************************************)
(* The Telegram account behind the other venues (internal/tgsession and    *)
(* app/session.go): the login marker, one connection brought up by Start,  *)
(* and the mini-app payloads callers fetch through it and cache.           *)
(***************************************************************************)
EXTENDS Naturals, FiniteSets

CONSTANTS
  Callers,    \* goroutines that need a payload of one venue
  TTL,        \* initDataTTL
  MaxTime,    \* bound on the clock
  MaxFaults   \* bound on failures, expired waits and invalidations

VARIABLES
  now,
  marker,    \* the ".authorized" file
  signedIn,  \* Telegram accepts the session
  start,     \* Start: "none", "dialing", "checking", "ok", "failed"
  running,
  api,       \* c.api is set
  ready,     \* times c.ready was closed
  line,      \* the connection is up
  cached,    \* time of the cached payload, 0 for none
  call,      \* where each caller stands
  fetches,   \* callers whose own request for the mini app is unanswered
  faults

vars == <<now, marker, signedIn, start, running, api, ready, line, cached, call, fetches, faults>>

Fault == faults < MaxFaults /\ faults' = faults + 1
Goto(c, where) == call' = [call EXCEPT ![c] = where]

TimePasses ==
  /\ now < MaxTime /\ now' = now + 1
  /\ UNCHANGED <<marker, signedIn, start, running, api, ready, line, cached, call, fetches, faults>>

\* The user ends the session from another device.
SignOut ==
  /\ Fault /\ signedIn /\ signedIn' = FALSE
  /\ UNCHANGED <<now, marker, start, running, api, ready, line, cached, call, fetches>>

-----------------------------------------------------------------------------
(* Login and Start *)

\* `floorline login`: the marker is written only where authorisation was seen.
Login(ok) ==
  /\ start = "none" /\ ~marker
  /\ signedIn' = (signedIn \/ ok) /\ marker' = ok
  /\ UNCHANGED <<now, start, running, api, ready, line, cached, call, fetches, faults>>

Start ==
  /\ start = "none" /\ marker
  /\ start' = "dialing" /\ running' = TRUE
  /\ UNCHANGED <<now, marker, signedIn, api, ready, line, cached, call, fetches, faults>>

\* tg.Run: the connection is made, and the callback asks who we are.
Connect ==
  /\ start = "dialing" /\ running
  /\ line' = TRUE /\ start' = "checking"
  /\ UNCHANGED <<now, marker, signedIn, running, api, ready, cached, call, fetches, faults>>

\* Slip: the API is handed out before Telegram has said who we are.
Slip_Check ==
  /\ start = "checking"
  /\ api' = TRUE /\ ready' = ready + 1
  /\ start' = "ok" /\ line' = line /\ running' = running
  /\ UNCHANGED <<now, marker, signedIn, cached, call, fetches, faults>>

Check ==
  /\ start = "checking"
  /\ IF signedIn
     THEN api' = TRUE /\ ready' = ready + 1 /\ start' = "ok" /\ UNCHANGED <<line, running>>
     ELSE start' = "failed" /\ line' = FALSE /\ running' = FALSE /\ UNCHANGED <<api, ready>>
  /\ UNCHANGED <<now, marker, signedIn, cached, call, fetches, faults>>

\* The status request fails, or 45 seconds pass: Start gives up and cancels the run.
StartFails ==
  /\ start \in {"dialing", "checking"} /\ Fault
  /\ start' = "failed" /\ line' = FALSE /\ running' = FALSE
  /\ UNCHANGED <<now, marker, signedIn, api, ready, cached, call, fetches>>

\* tg.Run returns for good; c.api stays where it was.
LineDrops ==
  /\ start = "ok" /\ line /\ Fault
  /\ line' = FALSE /\ running' = FALSE
  /\ UNCHANGED <<now, marker, signedIn, start, api, ready, cached, call, fetches>>

-----------------------------------------------------------------------------
(* InitData *)

Fresh == cached > 0 /\ now < cached + TTL

Ask(c) ==
  /\ call[c] = "idle" /\ marker
  /\ IF Fresh
     THEN UNCHANGED <<call, fetches>>
     ELSE Goto(c, IF api THEN "open" ELSE "wait") /\ fetches' = fetches \cup {c}
  /\ UNCHANGED <<now, marker, signedIn, start, running, api, ready, line, cached, faults>>

\* openMiniApp before the connection is up.
Ready(c) ==
  /\ call[c] = "wait" /\ ready > 0
  /\ Goto(c, "open")
  /\ UNCHANGED <<now, marker, signedIn, start, running, api, ready, line, cached, fetches, faults>>

\* Thirty seconds, or the caller's own deadline.
WaitExpires(c) ==
  /\ call[c] = "wait"
  /\ Goto(c, "idle") /\ fetches' = fetches \ {c}
  /\ UNCHANGED <<now, marker, signedIn, start, running, api, ready, line, cached, faults>>

OpenFails(c) ==
  /\ call[c] = "open" /\ (~line \/ ~signedIn)
  /\ Goto(c, "idle") /\ fetches' = fetches \ {c}
  /\ UNCHANGED <<now, marker, signedIn, start, running, api, ready, line, cached, faults>>

Opened(c) ==
  /\ call[c] = "open" /\ line /\ signedIn
  /\ Goto(c, "store") /\ fetches' = fetches \ {c}
  /\ UNCHANGED <<now, marker, signedIn, start, running, api, ready, line, cached, faults>>

\* Stored under the time of the store.
Store(c) ==
  /\ call[c] = "store"
  /\ cached' = now
  /\ Goto(c, "idle")
  /\ UNCHANGED <<now, marker, signedIn, start, running, api, ready, line, fetches, faults>>

\* The venue rejected the token minted from this payload.
Invalidate ==
  /\ Fault /\ cached > 0 /\ cached' = 0
  /\ UNCHANGED <<now, marker, signedIn, start, running, api, ready, line, call, fetches>>

-----------------------------------------------------------------------------

Init ==
  /\ now = 1 /\ marker \in BOOLEAN /\ signedIn \in BOOLEAN
  /\ start = "none" /\ running = FALSE /\ api = FALSE /\ ready = 0 /\ line = FALSE
  /\ cached = 0 /\ call = [c \in Callers |-> "idle"]
  /\ fetches = {} /\ faults = 0

Connection == Connect \/ Check \/ StartFails
Caller(c) == Ready(c) \/ WaitExpires(c) \/ OpenFails(c) \/ Opened(c) \/ Store(c)

Next ==
  \/ TimePasses \/ SignOut \/ Start \/ Connection \/ LineDrops \/ Invalidate
  \/ \E ok \in BOOLEAN : Login(ok)
  \/ \E c \in Callers : Ask(c) \/ Caller(c)

Spec == Init /\ [][Next]_vars

-----------------------------------------------------------------------------
(* Properties *)

TypeOK ==
  /\ start \in {"none", "dialing", "checking", "ok", "failed"} /\ ready \in {0, 1}
  /\ cached \in 0..MaxTime /\ fetches \subseteq Callers

\* The API callers share belongs to a connection whose account Telegram has
\* confirmed, and no caller opens a mini app before that.
OpensConfirmed ==
  /\ ~api /\ api' => signedIn
  /\ \A c \in Callers : call'[c] = "open" => api'
OpensOnlyWhenConfirmed == [][OpensConfirmed]_vars

\* "payload refreshes for the same venue are collapsed rather than racing".
RefreshesCollapse == Cardinality(fetches) <= 1
=============================================================================
