----------------------------- MODULE VenueCache -----------------------------
(***************************************************************************)
(* Reading the other marketplaces: the cache that remembers answers and    *)
(* failures (internal/market/market.go) in front of MRKT, whose bearer     *)
(* token every lookup shares (internal/market/mrkt.go).  Each lookup holds *)
(* its key's entry while it loads; lookups of other keys run beside it.    *)
(***************************************************************************)
EXTENDS Naturals

CONSTANTS
  Calls,      \* goroutines pricing cards
  Keys,       \* collection, model and attributes asked about
  Session,    \* a signed-in Telegram account can mint initData
  Pasted,     \* initData was pasted into the environment
  TTL,
  MaxTokens,  \* bound on tokens issued
  MaxTime,    \* bound on the clock
  MaxFaults   \* bound on revocations, failures and deadlines

VenueCacheAssumption ==
  /\ Session \in BOOLEAN /\ Pasted \in BOOLEAN /\ (Session \/ Pasted)
  /\ TTL \in Nat \ {0} /\ MaxTokens \in Nat /\ MaxTime \in Nat /\ MaxFaults \in Nat

VARIABLES
  now,
  token,      \* MRKT.token, 0 when empty
  issued,     \* tokens MRKT has handed out
  revoked,    \* the newest of them it accepts no more
  refused,    \* tokens it has answered 401 to
  entries,    \* the cache: key -> what is remembered
  call,
  faults

vars == <<now, token, issued, revoked, refused, entries, call, faults>>

Idle  == [at |-> "idle", key |-> "none", token |-> 0, again |-> FALSE, got |-> "nothing"]
Blank == [holds |-> "nothing", at |-> 0, holder |-> "none"]

Fault == faults < MaxFaults /\ faults' = faults + 1

\* The load ends, and the entry with it.
Remember(c, what) ==
  /\ entries' = [entries EXCEPT ![call[c].key] = [holds |-> what, at |-> now, holder |-> "none"]]
  /\ call' = [call EXCEPT ![c].at = "done", ![c].got = what]

-----------------------------------------------------------------------------

TimePasses ==
  /\ now < MaxTime /\ now' = now + 1
  /\ UNCHANGED <<token, issued, revoked, refused, entries, call, faults>>

\* MRKT accepts none of the tokens it has issued any more.
Revoke ==
  /\ revoked < issued /\ Fault
  /\ revoked' = issued
  /\ UNCHANGED <<now, token, issued, refused, entries, call>>

\* ModelAsks or ModelFloor, from the ladder of QuotesForGift.
Ask(c) ==
  /\ call[c].at = "idle"
  /\ \E k \in Keys : call' = [call EXCEPT ![c] = [Idle EXCEPT !.at = "get", !.key = k]]
  /\ UNCHANGED <<now, token, issued, revoked, refused, entries, faults>>

\* cache.get behind the entry's mutex: what is fresh is the answer, failures too.
Lock(c) ==
  LET e == entries[call[c].key] IN
  /\ call[c].at = "get" /\ e.holder = "none"
  /\ IF e.at > 0 /\ now < e.at + TTL
       THEN call' = [call EXCEPT ![c].at = "done", ![c].got = e.holds] /\ UNCHANGED entries
       ELSE /\ entries' = [entries EXCEPT ![call[c].key].holder = c]
            /\ call' = [call EXCEPT ![c].at = "token"]
  /\ UNCHANGED <<now, token, issued, revoked, refused, faults>>

\* ensureToken: the one at hand, or an exchange.
EnsureToken(c) ==
  /\ call[c].at = "token"
  /\ call' = [call EXCEPT ![c].at = IF token > 0 THEN "send" ELSE "auth", ![c].token = token]
  /\ UNCHANGED <<now, token, issued, revoked, refused, entries, faults>>

\* freshInitData prefers the session; two goroutines may both exchange one.
Exchange(c) ==
  /\ call[c].at = "auth" /\ issued < MaxTokens
  /\ issued' = issued + 1
  /\ call' = [call EXCEPT ![c].at = "keep", ![c].token = issued + 1]
  /\ UNCHANGED <<now, token, revoked, refused, entries, faults>>

KeepToken(c) ==
  /\ call[c].at = "keep"
  /\ token' = call[c].token
  /\ call' = [call EXCEPT ![c].at = "send"]
  /\ UNCHANGED <<now, issued, revoked, refused, entries, faults>>

Answered(c) ==
  /\ call[c].at = "send" /\ call[c].token > revoked
  /\ Remember(c, "asks")
  /\ UNCHANGED <<now, token, issued, revoked, refused, faults>>

\* Slip: whatever token there is goes.
Slip_Drop(c) == 0

\* invalidate: only the token that was rejected.
Drop(c) == IF token = call[c].token THEN 0 ELSE token

\* A 401: refreshed once, and not at all without a pasted initData.
Rejected(c) ==
  /\ call[c].at = "send" /\ call[c].token <= revoked
  /\ refused' = refused \cup {call[c].token}
  /\ IF call[c].again \/ ~Pasted
       THEN Remember(c, "rejected") /\ UNCHANGED token
       ELSE /\ token' = Drop(c)
            /\ call' = [call EXCEPT ![c].at = "token", ![c].again = TRUE]
            /\ UNCHANGED entries
  /\ UNCHANGED <<now, issued, revoked, faults>>

\* The venue fails, at the exchange or at the read.
VenueFails(c) ==
  /\ call[c].at \in {"auth", "send"} /\ Fault
  /\ Remember(c, "failure")
  /\ UNCHANGED <<now, token, issued, revoked, refused>>

\* Our own deadline, in the limiter or in the request: nothing is stored.
Deadline(c) ==
  /\ call[c].at \in {"auth", "send"} /\ Fault
  /\ entries' = [entries EXCEPT ![call[c].key].holder = "none"]
  /\ call' = [call EXCEPT ![c].at = "late", ![c].got = "deadline"]
  /\ UNCHANGED <<now, token, issued, revoked, refused>>

Return(c) ==
  /\ call[c].at \in {"done", "late"}
  /\ call' = [call EXCEPT ![c] = Idle]
  /\ UNCHANGED <<now, token, issued, revoked, refused, entries, faults>>

Init ==
  /\ now = 1 /\ token = 0 /\ issued = 0 /\ revoked = 0 /\ refused = {}
  /\ entries = [k \in Keys |-> Blank] /\ call = [c \in Calls |-> Idle] /\ faults = 0

Load(c) ==
  \/ EnsureToken(c) \/ Exchange(c) \/ KeepToken(c) \/ Answered(c) \/ Rejected(c)
  \/ VenueFails(c) \/ Deadline(c)

Next ==
  \/ TimePasses \/ Revoke
  \/ \E c \in Calls : Ask(c) \/ Lock(c) \/ Load(c) \/ Return(c)

Spec == Init /\ [][Next]_vars

-----------------------------------------------------------------------------
(* Properties *)

TypeOK ==
  /\ now \in 1..MaxTime /\ token \in 0..issued /\ revoked \in 0..issued /\ refused \subseteq 1..revoked
  /\ \A k \in Keys : entries[k].at <= now

\* Only a token MRKT has rejected is dropped: a late 401 for the old one leaves
\* the one another goroutine has just fetched.
DropsTheRefused == token' = 0 => token = 0 \/ token \in refused'
FreshTokenKept == [][DropsTheRefused]_vars

\* A failure told to a caller with time left was the venue's: another caller's
\* deadline is never what a card or the auto-buy gate is answered with.
DeadlineStaysPrivate == \A c \in Calls : call[c].at = "done" => call[c].got # "deadline"
CacheHolds == DeadlineStaysPrivate

\* "A session can always mint a new payload, so the token is never final", and
\* post is "refreshing the token once on 401" (mrkt.go): no lookup that was
\* rejected gives up on the first token.
RefreshedOnce ==
  \A c \in Calls : call[c].at = "done" /\ call[c].got = "rejected" /\ call[c].token > 0 => call[c].again
=============================================================================
