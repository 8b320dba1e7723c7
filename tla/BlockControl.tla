---------------------------- MODULE BlockControl ----------------------------
(***************************************************************************)
(* How the desk reacts to an anti-bot block.  The routes of internal/tonnel*)
(* egress.go (rest ladder, round robin, sticky writes), the attempt loop of*)
(* Client.call, and the block state of internal/app: onBlocked, mayPoll,   *)
(* noteRecovered and the poller loop.  Several callers are on the wire at  *)
(* once.  Time is a tick; every deadline is the number of ticks left to it.*)
(* Routes are numbered in pool order: proxies first, the direct one last.  *)
(***************************************************************************)
EXTENDS Naturals, Integers, Sequences, FiniteSets

CONSTANTS
  N,            \* routes in the pool
  Gated,        \* pollers that spend requests on the private endpoints
  Writers,      \* callers whose requests are writes
  Probe,        \* the poller allowed through while cooling
  Retries,      \* retries a call asks for
  RestAfter,    \* refusals in a row that rest a route
  Rests,        \* egressCooldown, in ticks
  Pauses,       \* blockBackoff, in ticks
  ProbeEvery, Hold, NoticeEvery, FrugalEvery

RoutesAssumption == N \in Nat \ {0} /\ RestAfter \in Nat \ {0} /\ Retries \in Nat
CallersAssumption == Probe \in Gated /\ Gated \cap Writers = {}
TimesAssumption ==
  /\ Rests \in Seq(Nat) \ {<<>>} /\ Pauses \in Seq(Nat) \ {<<>>}
  /\ ProbeEvery \in Nat /\ Hold \in Nat /\ NoticeEvery \in Nat /\ FrugalEvery \in Nat

VARIABLES
  \* egress.go: per route
  consecutive,  \* refusals since the last success or rest
  rests,        \* times rested since the last success
  rest,         \* ticks of rest left
  recent,       \* rank of the last success, 0 for none
  idx,          \* the pool's round-robin cursor
  \* Client: refusals in a row over all routes, capped at 3
  streak,
  \* App
  blocked, blockEpisodes,
  answered,     \* the client's last success is not before blockedAt
  hold,         \* ticks until the refusals count as stopped
  cool,         \* ticks to coolUntil
  probe,        \* ticks until the next probe
  notice,       \* ticks until a block may be announced again
  announced,
  floor,        \* ticks until a poller may run again while reads are paid for
  pause,        \* risk.Manager: ticks to disabledUntil
  \* callers
  at, on, tried, left,
  \* the marketplace, per route
  mood,
  \* history, read by properties only
  refused,      \* refusals on a route since it last answered, capped
  knocks,       \* gated polls started since the last probe slot while cooling, capped
  owed,         \* announcements of a block minus all-clears
  rearmed       \* the operator armed since the last report

routes  == <<consecutive, rests, rest, recent, idx>>
app     == <<blocked, blockEpisodes, answered, hold, cool, probe, notice, announced, floor, pause>>
callers == <<at, on, tried, left>>
ghosts  == <<refused, knocks, owed, rearmed>>
vars    == <<routes, streak, app, callers, mood, ghosts>>

Routes  == 1..N
Direct  == N
Callers == Gated \cup Writers \cup {"gram"}

Larger(a, b) == IF a >= b THEN a ELSE b
Clamp(n, s)  == IF n > Len(s) THEN Len(s) ELSE n
Less(n)      == IF n = 0 THEN 0 ELSE n - 1

-----------------------------------------------------------------------------
(* egressPool *)

Up == {r \in Routes : rest[r] = 0}

\* Routes up that this call has not tried; once it has tried them all, any.
Untried(skip) == IF Up \subseteq skip THEN Up ELSE Up \ skip

\* Slip: routes are taken in any tier, so paid ones carry reads all day.
Slip_Candidates(skip) == Untried(skip)

\* The free one first.
Candidates(skip) == IF Direct \in Untried(skip) THEN {Direct} ELSE Untried(skip)

\* The route whose rest ends first, the earliest in the pool among equals.
Soonest ==
  CHOOSE r \in Routes : \A o \in Routes : rest[r] < rest[o] \/ (rest[r] = rest[o] /\ r <= o)

\* Round robin: the next candidate from the cursor on.
Turn(r) == (r - 1 - idx) % N

Pick(skip) ==
  LET s == Candidates(skip)
  IN  IF s = {} THEN Soonest ELSE CHOOSE r \in s : \A o \in s : Turn(r) <= Turn(o)

Cursor(skip) == IF Candidates(skip) = {} THEN idx ELSE Pick(skip) % N

\* A write stays on the candidate that answered last.
Sticky(skip) ==
  LET s == Candidates(skip)
  IN  IF s = {} THEN Soonest
      ELSE CHOOSE r \in s : \A o \in s : recent[r] > recent[o] \/ (recent[r] = recent[o] /\ r <= o)

\* Slip: two refusals rest a route.
Slip_Refuse(r) ==
  IF consecutive[r] + 2 < RestAfter
    THEN /\ consecutive' = [consecutive EXCEPT ![r] = @ + 1]
         /\ UNCHANGED <<rests, rest>>
    ELSE /\ consecutive' = [consecutive EXCEPT ![r] = 0]
         /\ rests' = [rests EXCEPT ![r] = Clamp(@ + 1, Rests)]
         /\ rest' = [rest EXCEPT ![r] = Larger(@, Rests[Clamp(rests[r] + 1, Rests)])]

\* refuse: the route rests once its refusals stop looking like one bad exit.
Refuse(r) ==
  IF consecutive[r] + 1 < RestAfter
    THEN /\ consecutive' = [consecutive EXCEPT ![r] = @ + 1]
         /\ UNCHANGED <<rests, rest>>
    ELSE /\ consecutive' = [consecutive EXCEPT ![r] = 0]
         /\ rests' = [rests EXCEPT ![r] = Clamp(@ + 1, Rests)]
         /\ rest' = [rest EXCEPT ![r] = Larger(@, Rests[Clamp(rests[r] + 1, Rests)])]

\* reward: one answer clears the record.
Reward(r) ==
  /\ consecutive' = [consecutive EXCEPT ![r] = 0]
  /\ rests' = [rests EXCEPT ![r] = 0]
  /\ rest' = [rest EXCEPT ![r] = 0]
  /\ recent' = [o \in Routes |-> IF o = r THEN N
                                 ELSE IF recent[o] > recent[r] THEN recent[o] - 1 ELSE recent[o]]

\* Every request is being paid for: the direct route rests and a paid one is up.
Frugal == Direct \notin Up /\ Up # {}

-----------------------------------------------------------------------------
(* The poller loop *)

\* mayPoll: while cooling only the probe, and only now and then.
MayPoll(p) ==
  IF cool > 0
    THEN p = Probe /\ probe = 0 /\ probe' = ProbeEvery
    ELSE /\ Frugal => floor[p] = 0
         /\ UNCHANGED probe

Attempts == Larger(Retries + 1, N)

Begin(c) ==
  /\ at[c] = "idle"
  /\ at' = [at EXCEPT ![c] = "choose"]
  /\ tried' = [tried EXCEPT ![c] = {}]
  /\ left' = [left EXCEPT ![c] = Attempts]

\* The ticker of a gated poller fires.
Poll(p) ==
  /\ p \in Gated
  /\ MayPoll(p)
  /\ Begin(p)
  /\ knocks' = IF cool > 0 /\ knocks < 2 THEN knocks + 1 ELSE knocks
  /\ UNCHANGED <<routes, streak, blocked, blockEpisodes, answered, hold, cool, notice,
                 announced, floor, pause, on, mood, refused, owed, rearmed>>

\* The GRAM quote: an outside exchange, never gated.
PollGram ==
  /\ at["gram"] = "idle"
  /\ at' = [at EXCEPT !["gram"] = "done"]
  /\ UNCHANGED <<routes, streak, app, on, tried, left, mood, ghosts>>

\* A purchase or a listing.
Write(c) ==
  /\ c \in Writers
  /\ Begin(c)
  /\ UNCHANGED <<routes, streak, app, on, mood, ghosts>>

-----------------------------------------------------------------------------
(* Client.call *)

\* The next attempt takes a route.  pick moves the cursor even for a write.
Choose(c) ==
  LET r == IF c \in Writers THEN Sticky(tried[c]) ELSE Pick(tried[c]) IN
  /\ at[c] = "choose"
  /\ at' = [at EXCEPT ![c] = "wire"]
  /\ on' = [on EXCEPT ![c] = r]
  /\ tried' = [tried EXCEPT ![c] = @ \cup {r}]
  /\ left' = [left EXCEPT ![c] = @ - 1]
  /\ idx' = Cursor(tried[c])
  /\ UNCHANGED <<consecutive, rests, rest, recent, streak, app, mood, ghosts>>

\* A call that ends hands its poller to the loop, which notes the run.
Ends(c, ok) ==
  /\ at' = [at EXCEPT ![c] = IF ok /\ c \in Gated THEN "done" ELSE "idle"]
  /\ floor' = IF c \in Gated THEN [floor EXCEPT ![c] = FrugalEvery] ELSE floor
  /\ on' = [on EXCEPT ![c] = Direct]
  /\ tried' = [tried EXCEPT ![c] = {}]
  /\ left' = [left EXCEPT ![c] = 0]

Again(c) ==
  IF left[c] > 0
    THEN /\ at' = [at EXCEPT ![c] = "choose"]
         /\ UNCHANGED <<on, tried, left, floor>>
    ELSE Ends(c, FALSE)

\* Slip: the time of the last answer is not recorded.
Slip_Answered(c) ==
  /\ at[c] = "wire" /\ mood[on[c]] = "open"
  /\ Reward(on[c])
  /\ streak' = 0
  /\ refused' = [refused EXCEPT ![on[c]] = 0]
  /\ Ends(c, TRUE)
  /\ UNCHANGED <<idx, blocked, blockEpisodes, answered, hold, cool, probe, notice, announced,
                 pause, mood, knocks, owed, rearmed>>

Answered(c) ==
  /\ at[c] = "wire" /\ mood[on[c]] = "open"
  /\ Reward(on[c])
  /\ streak' = 0 /\ answered' = TRUE
  /\ refused' = [refused EXCEPT ![on[c]] = 0]
  /\ Ends(c, TRUE)
  /\ UNCHANGED <<idx, blocked, blockEpisodes, hold, cool, probe, notice, announced,
                 pause, mood, knocks, owed, rearmed>>

\* 403, 429, 503.  The desk hears of it only when every route is resting.
Refused(c) ==
  LET r == on[c] IN
  /\ at[c] = "wire" /\ mood[r] = "refusing"
  /\ Refuse(r)
  /\ streak' = IF streak = 3 THEN 3 ELSE streak + 1
  /\ refused' = [refused EXCEPT ![r] = IF @ = RestAfter THEN @ ELSE @ + 1]
  /\ IF (\A o \in Routes : rest'[o] > 0) /\ streak' = 3
       THEN /\ at' = [at EXCEPT ![c] = "report"]
            /\ UNCHANGED <<on, tried, left, floor>>
       ELSE Again(c)
  /\ UNCHANGED <<recent, idx, blocked, blockEpisodes, answered, hold, cool, probe, notice,
                 announced, pause, mood, knocks, owed, rearmed>>

\* A transport error or 5xx is tried again; a business answer or a cancelled
\* context ends the call.
Failed(c) ==
  /\ at[c] = "wire" /\ mood[on[c]] = "down"
  /\ Again(c) \/ Ends(c, FALSE)
  /\ UNCHANGED <<routes, streak, blocked, blockEpisodes, answered, hold, cool, probe, notice,
                 announced, pause, mood, ghosts>>

-----------------------------------------------------------------------------
(* App *)

\* Slip: the pollers cool, but buying is not paused with them.
Slip_PauseBuying(d) == UNCHANGED pause

\* risk.Manager.Pause only ever extends.
PauseBuying(d) == pause' = Larger(pause, d)

\* onBlocked, under the lock and then Pause.  Only the first report of an
\* episode counts it and goes on to announce it.
OnBlocked(c) ==
  LET episodes == IF blocked THEN blockEpisodes ELSE blockEpisodes + 1
      d == Pauses[Clamp(episodes, Pauses)] IN
  /\ at[c] = "report"
  /\ blocked' = TRUE
  /\ blockEpisodes' = Clamp(episodes, Pauses)
  /\ answered' = IF blocked THEN answered ELSE FALSE
  /\ hold' = Hold
  /\ cool' = Larger(cool, d)
  /\ PauseBuying(d)
  /\ rearmed' = FALSE
  /\ knocks' = IF cool = 0 THEN 0 ELSE knocks
  /\ IF ~blocked
       THEN /\ at' = [at EXCEPT ![c] = "announce"]
            /\ UNCHANGED <<on, tried, left, floor>>
       ELSE Again(c)
  /\ UNCHANGED <<routes, streak, probe, notice, announced, mood, refused, owed>>

\* The message, at most one per NoticeEvery.
Announce(c) ==
  /\ at[c] = "announce"
  /\ IF notice = 0
       THEN notice' = NoticeEvery /\ announced' = TRUE /\ owed' = owed + 1
       ELSE UNCHANGED <<notice, announced, owed>>
  /\ Again(c)
  /\ UNCHANGED <<routes, streak, blocked, blockEpisodes, answered, hold, cool, probe, pause,
                 mood, refused, knocks, rearmed>>

\* Slip: the all-clear is sent whether or not the block was announced.
Slip_AlwaysClears ==
  /\ blocked' = FALSE /\ announced' = FALSE /\ blockEpisodes' = 0
  /\ cool' = 0 /\ knocks' = 0
  /\ owed' = owed - 1

Recovers ==
  /\ blocked' = FALSE /\ announced' = FALSE /\ blockEpisodes' = 0
  /\ cool' = 0 /\ knocks' = 0
  /\ owed' = IF announced THEN owed - 1 ELSE owed

\* A poller has finished well: noteRecovered.  Tonnel must have answered since
\* the episode began, and the refusals must have stopped for a while.
NoteRecovered(c) ==
  /\ at[c] = "done"
  /\ at' = [at EXCEPT ![c] = "idle"]
  /\ IF blocked /\ answered /\ hold = 0
       THEN Recovers
       ELSE UNCHANGED <<blocked, announced, blockEpisodes, cool, knocks, owed>>
  /\ UNCHANGED <<routes, streak, answered, hold, probe, notice, floor, pause, on, tried, left,
                 mood, refused, rearmed>>

\* The operator arms: Arm clears the pause, the pollers go on cooling.
Arm ==
  /\ pause' = 0 /\ rearmed' = TRUE
  /\ UNCHANGED <<routes, streak, blocked, blockEpisodes, answered, hold, cool, probe, notice,
                 announced, floor, callers, mood, refused, knocks, owed>>

-----------------------------------------------------------------------------
(* The world *)

Mood(r, m) ==
  /\ mood[r] # m
  /\ mood' = [mood EXCEPT ![r] = m]
  /\ UNCHANGED <<routes, streak, app, callers, ghosts>>

\* A tick passes.  Code between two requests takes no time to speak of.
Tick ==
  /\ \A c \in Callers : at[c] \in {"idle", "choose", "wire"}
  /\ rest' = [r \in Routes |-> Less(rest[r])]
  /\ hold' = Less(hold) /\ cool' = Less(cool) /\ probe' = Less(probe)
  /\ notice' = Less(notice) /\ pause' = Less(pause)
  /\ floor' = [p \in Gated |-> Less(floor[p])]
  /\ knocks' = IF Less(probe) = 0 THEN 0 ELSE knocks
  /\ UNCHANGED <<consecutive, rests, recent, idx, streak, blocked, blockEpisodes, answered,
                 announced, callers, mood, refused, owed, rearmed>>

Init ==
  /\ consecutive = [r \in Routes |-> 0] /\ rests = [r \in Routes |-> 0]
  /\ rest = [r \in Routes |-> 0] /\ recent = [r \in Routes |-> 0] /\ idx = 0
  /\ streak = 0
  /\ blocked = FALSE /\ blockEpisodes = 0 /\ answered = FALSE
  /\ hold = 0 /\ cool = 0 /\ probe = 0 /\ notice = 0 /\ announced = FALSE
  /\ floor = [p \in Gated |-> 0] /\ pause = 0
  /\ at = [c \in Callers |-> "idle"] /\ on = [c \in Callers |-> Direct]
  /\ tried = [c \in Callers |-> {}] /\ left = [c \in Callers |-> 0]
  /\ mood = [r \in Routes |-> "open"]
  /\ refused = [r \in Routes |-> 0] /\ knocks = 0 /\ owed = 0 /\ rearmed = FALSE

Call(c) ==
  \/ Choose(c) \/ Answered(c) \/ Refused(c) \/ Failed(c)
  \/ OnBlocked(c) \/ Announce(c) \/ NoteRecovered(c)

Next ==
  \/ \E c \in Callers : Call(c)
  \/ \E p \in Gated : Poll(p)
  \/ \E c \in Writers : Write(c)
  \/ PollGram
  \/ Arm
  \/ \E r \in Routes, m \in {"open", "refusing", "down"} : Mood(r, m)
  \/ Tick

Spec == Init /\ [][Next]_vars

\* Requests time out, goroutines run, the probe's ticker fires.  Strong fairness
\* of Tick says only that no finite time holds infinitely many runs of a poller.
FairSpec ==
  /\ Spec
  /\ \A c \in Callers : WF_vars(Call(c))
  /\ WF_vars(Poll(Probe))
  /\ SF_vars(Tick)

-----------------------------------------------------------------------------
(* Properties *)

\* Every variable keeps its range; the count of refusals stays below the number
\* that rests a route.
TypeOK ==
  /\ consecutive \in [Routes -> 0..(RestAfter - 1)] /\ rests \in [Routes -> 0..Len(Rests)]
  /\ rest \in [Routes -> Nat] /\ recent \in [Routes -> 0..N] /\ idx \in 0..(N - 1)
  /\ streak \in 0..3 /\ blockEpisodes \in 0..Len(Pauses)
  /\ blocked \in BOOLEAN /\ answered \in BOOLEAN /\ announced \in BOOLEAN /\ rearmed \in BOOLEAN
  /\ hold \in Nat /\ cool \in Nat /\ probe \in Nat /\ notice \in Nat /\ pause \in Nat
  /\ floor \in [Gated -> Nat]
  /\ at \in [Callers -> {"idle", "choose", "wire", "report", "announce", "done"}]
  /\ on \in [Callers -> Routes] /\ tried \in [Callers -> SUBSET Routes]
  /\ left \in [Callers -> 0..Attempts]
  /\ mood \in [Routes -> {"open", "refusing", "down"}]
  /\ refused \in [Routes -> 0..RestAfter] /\ knocks \in 0..2 /\ owed \in Int

\* The desk does not go on cooling once the block is over.
CoolingOnlyWhileBlocked == cool > 0 => blocked

\* A route rests only if it has been refused RestAfter times since it last
\* answered, however the answers of concurrent calls are interleaved.
RestIsEarned == \A r \in Routes : rest[r] > 0 => refused[r] = RestAfter

\* "A block nobody was told about must not produce an all-clear out of
\* nowhere" (cooling_test.go:143), and a block is not announced twice.
AllClearAnswersNotice == owed \in {0, 1}

\* Buying is paused at least as long as the pollers cool, unless the operator
\* armed in between.
BuyingPausedWhileCooling == cool <= pause \/ rearmed

\* While cooling the private endpoints see one poll per probe slot.
OneKnock == knocks <= 1

\* The desk cools only for a block, buying pauses with it, and while it lasts the
\* private endpoints see one poll per probe slot.
CoolingHolds == CoolingOnlyWhileBlocked /\ BuyingPausedWhileCooling /\ OneKnock

GoesOut(c) == at[c] = "choose" /\ at'[c] = "wire"

\* A call goes out on a paid route only when the direct one, the last of the
\* pool, rests or has just failed this very call.
PaysLast ==
  LET direct == Len(rest) IN
  \A c \in DOMAIN at : GoesOut(c) /\ on'[c] # direct => direct \in tried[c] \/ rest[direct] > 0

\* A retry does not go back to a route this call was refused on "while a
\* perfectly good paid route sat unused behind it" (egress.go:287).
TakesNewRoute ==
  \A c \in DOMAIN at :
    GoesOut(c) /\ on'[c] \in tried[c] => \A r \in DOMAIN rest : rest[r] = 0 => r \in tried[c]

\* Paid traffic is the last resort, and a retry tries a new route first.
RoutesInOrder == [][PaysLast /\ TakesNewRoute]_vars

\* When Tonnel answers for good, the desk notices and returns to full rate.
DeskRecovers ==
  <>[](\A r \in Routes : mood[r] = "open") => <>[](~blocked /\ cool = 0)

\* "blockEpisodes counts consecutive blocks so the pause can escalate"
\* (app.go:99-100): a block reported after a whole pause ran out without recovery
\* is answered with a longer pause than the first.
PauseEscalates ==
  [][\A c \in Callers : at[c] = "report" /\ at'[c] # "report" /\ blocked /\ cool = 0
       => cool' > Pauses[1]]_vars
=============================================================================
