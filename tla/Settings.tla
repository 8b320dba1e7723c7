------------------------------ MODULE Settings ------------------------------
(***************************************************************************)
(* What the operator's chat changes and a restart has to bring back,       *)
(* beside the switches of RiskManager: the trading session (app/trade.go), *)
(* cached in memory in front of its kv row, and the marketplace credential *)
(* (App.setAuthText), put to use before it is known to work.  One command  *)
(* of each kind is in hand at a time; evaluators load the session whenever *)
(* they meet a listing.                                                    *)
(***************************************************************************)
EXTENDS Naturals, FiniteSets

CONSTANTS
  Pairs,      \* models a session may consist of
  Creds,      \* credentials the operator may paste
  FromEnv,    \* the credential of the environment
  MaxFaults   \* bound on failed kv operations, failed requests and restarts

VARIABLES
  kvSession,  \* kv "trade.session": a set of pairs, {} for none
  session,    \* sessionState
  loaded,
  saving,     \* what the running /trade still has to write
  spoiled,    \* a kv operation on the session failed in this process
  kvAuth,     \* kv "tonnel.auth"
  auth,       \* the client's credential
  swap,       \* /auth: the new credential, the one before, and where it stands
  good,       \* credentials the marketplace accepts
  accepted,   \* credentials that answered a balance request of this desk
  faults

vars == <<kvSession, session, loaded, saving, spoiled, kvAuth, auth, swap, good, accepted, faults>>
trade == <<kvSession, session, loaded, saving, spoiled>>
credential == <<kvAuth, auth, swap, good, accepted>>

None == "none"
NoSwap == [at |-> "idle", new |-> None, prev |-> None]
NotSaving == [at |-> "idle", pairs |-> {}]

Fault == faults < MaxFaults /\ faults' = faults + 1

-----------------------------------------------------------------------------
(* The trading session *)

\* loadSession: once per process, whatever comes of it.
LoadSession ==
  /\ ~loaded /\ loaded' = TRUE
  /\ session' = kvSession
  /\ UNCHANGED <<kvSession, saving, spoiled, credential, faults>>

LoadFails ==
  /\ ~loaded /\ loaded' = TRUE /\ Fault
  /\ spoiled' = TRUE
  /\ UNCHANGED <<kvSession, session, saving, credential>>

\* saveSession, in memory: openTradeSession with the liquid pairs of the moment,
\* closeTradeSession with none.
SaveInMemory(pairs) ==
  /\ saving.at = "idle"
  /\ session' = pairs /\ loaded' = TRUE
  /\ saving' = [at |-> "kv", pairs |-> pairs]
  /\ UNCHANGED <<kvSession, spoiled, credential, faults>>

OpenTradeSession == \E pairs \in SUBSET Pairs : pairs # {} /\ SaveInMemory(pairs)
CloseTradeSession == loaded /\ session # {} /\ SaveInMemory({})

SaveKV ==
  /\ saving.at = "kv"
  /\ kvSession' = saving.pairs /\ saving' = NotSaving
  /\ UNCHANGED <<session, loaded, spoiled, credential, faults>>

SaveKVFails ==
  /\ saving.at = "kv" /\ Fault
  /\ saving' = NotSaving /\ spoiled' = TRUE
  /\ UNCHANGED <<kvSession, session, loaded, credential>>

-----------------------------------------------------------------------------
(* The credential *)

\* setAuthText: the client uses the new one at once.
SetAuth(a) ==
  /\ swap.at = "idle"
  /\ swap' = [at |-> "check", new |-> a, prev |-> auth]
  /\ auth' = a
  /\ UNCHANGED <<trade, kvAuth, good, accepted, faults>>

\* The balance is read with it.
AuthAccepted ==
  /\ swap.at = "check" /\ auth \in good
  /\ swap' = [swap EXCEPT !.at = "save"]
  /\ accepted' = accepted \cup {auth}
  /\ UNCHANGED <<trade, kvAuth, auth, good, faults>>

\* Slip: the new credential stays in use.
Slip_AuthRefused ==
  /\ swap.at = "check" /\ \/ auth \notin good /\ UNCHANGED faults
                          \/ auth \in good /\ Fault
  /\ swap' = NoSwap /\ auth' = auth
  /\ UNCHANGED <<trade, kvAuth, good, accepted>>

\* Refused, or no answer at all: the one before comes back.
AuthRefused ==
  /\ swap.at = "check" /\ \/ auth \notin good /\ UNCHANGED faults
                          \/ auth \in good /\ Fault
  /\ swap' = NoSwap /\ auth' = swap.prev
  /\ UNCHANGED <<trade, kvAuth, good, accepted>>

SaveAuth ==
  /\ swap.at = "save"
  /\ \/ kvAuth' = swap.new /\ UNCHANGED faults
     \/ kvAuth' = kvAuth /\ Fault
  /\ swap' = NoSwap
  /\ UNCHANGED <<trade, auth, good, accepted>>

\* The marketplace lets a session lapse.
Expire(a) ==
  /\ a \in good /\ good' = good \ {a}
  /\ UNCHANGED <<trade, kvAuth, auth, swap, accepted, faults>>

-----------------------------------------------------------------------------

\* New: a stored credential is newer than the environment's by definition.
Restart ==
  /\ Fault
  /\ session' = {} /\ loaded' = FALSE /\ saving' = NotSaving /\ spoiled' = FALSE
  /\ auth' = IF kvAuth = None THEN FromEnv ELSE kvAuth
  /\ swap' = NoSwap
  /\ UNCHANGED <<kvSession, kvAuth, good, accepted>>

Init ==
  /\ kvSession = {} /\ session = {} /\ loaded = FALSE /\ saving = NotSaving /\ spoiled = FALSE
  /\ kvAuth = None /\ auth = FromEnv /\ swap = NoSwap
  /\ good \in SUBSET (Creds \cup {FromEnv}) /\ accepted = {} /\ faults = 0

Next ==
  \/ LoadSession \/ LoadFails \/ OpenTradeSession \/ CloseTradeSession \/ SaveKV \/ SaveKVFails
  \/ AuthAccepted \/ AuthRefused \/ SaveAuth \/ Restart
  \/ \E a \in Creds : SetAuth(a) \/ Expire(a)

Spec == Init /\ [][Next]_vars

-----------------------------------------------------------------------------
(* Properties *)

TypeOK ==
  /\ kvSession \subseteq Pairs /\ session \subseteq Pairs
  /\ kvAuth \in Creds \cup {None} /\ auth \in Creds \cup {FromEnv}

\* The session the desk narrows its cards to is the one a restart would restore,
\* unless the database itself failed in this process; and a restart heals that.
SessionAsStored == (loaded /\ saving.at = "idle" /\ ~spoiled) => session = kvSession

\* "a bad paste is reported now rather than as silent poller failures later":
\* outside /auth itself, and after any restart, the desk works with the
\* environment's credential or with one the marketplace has answered.
CredentialWasAccepted ==
  /\ swap.at = "idle" => auth \in accepted \cup {FromEnv}
  /\ kvAuth \in accepted \cup {None}

\* What the desk works with is what is stored and what was answered: both.
SettingsHold == SessionAsStored /\ CredentialWasAccepted

\* "persisted so a restart does not silently drop the operator back into the firehose".
RestartKeepsSession == (loaded /\ saving.at = "idle" /\ kvSession # {}) => session # {}
=============================================================================
