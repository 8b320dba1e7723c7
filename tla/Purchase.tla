------------------------------ MODULE Purchase ------------------------------
(***************************************************************************)
(* The money path: internal/exec Executor.Buy, run by several goroutines   *)
(* (handleDecision for unattended buys, buySignal for confirmed taps), the *)
(* purchase permit and limits of internal/risk, the buy_attempts,          *)
(* risk_state, positions and kv rows of internal/store, and the retry loop *)
(* of internal/tonnel Client.call that carries the write.  The marketplace *)
(* is external.  A process crash keeps the database and loses the rest.    *)
(*                                                                         *)
(* Amounts are small naturals; Fee is the referral charge TonnelFee adds   *)
(* to a quote.  Limits stay fixed here (SetLimit belongs to RiskManager).  *)
(***************************************************************************)
EXTENDS Naturals, FiniteSets

CONSTANTS
  Gifts,        \* gift ids
  Workers,      \* goroutines that can be inside a purchase
  Nobody,       \* not a worker: the permit is free
  NoGift,       \* not a gift: the goroutine has no purchase at hand
  Asks,         \* prices a listing may carry
  Fee,          \* referral charge on top of the quote
  Routes,       \* egress routes in the pool
  MaxTicket, DailyBudget, MaxOpenPositions,
  MaxDay,       \* bound on the calendar
  Faults,       \* which of "crash", "cancel", "inventory" can happen
  Hiding        \* non-ok replies that may hide an executed purchase

ASSUME NobodyAssumption == Nobody \notin Workers /\ NoGift \notin Gifts
ASSUME MoneyAssumption ==
  /\ Asks \subseteq Nat \ {0} /\ Fee \in Nat
  /\ MaxTicket \in Nat /\ DailyBudget \in Nat /\ MaxOpenPositions \in Nat
ASSUME RouteAssumption == Routes \in Nat \ {0}
ASSUME DayAssumption == MaxDay \in Nat \ {0}
ASSUME FaultAssumption == Faults \subseteq {"crash", "cancel", "inventory"}
ASSUME HidingAssumption == Hiding \subseteq {"ambiguous", "lost", "busy"}

VARIABLES
  \* the database
  claim,        \* buy_attempts.status, "none" without a row
  spent,        \* risk_state.spent by day
  position,     \* positions.status of the row Buy writes
  paid,         \* positions.buy_price of that row, 0 without a row
  armedKV,      \* the persisted armed flag
  \* risk.Manager in memory
  armed, paused, failStreak, permit,
  \* one purchase per goroutine: stage, caller, gift, quote, last reply,
  \* requests sent by this call, cancelled context, cost, day it is booked on
  stage, kind, gift, quote, reply, tries, dead, cost, bookDay,
  \* the marketplace and the calendar
  owner, ask, day,
  \* history, read by properties only
  requests,     \* buyGift requests that left the process, per gift
  landed,       \* purchases the marketplace executed for us, per gift
  autoBooked,   \* unattended spend booked per day, overcharges aside
  lateAuto      \* unattended purchases sent while disarmed, since last armed

db     == <<claim, spent, position, paid>>
risk   == <<armedKV, armed, paused, failStreak>>
call   == <<kind, gift, quote, reply, tries, cost, bookDay>>
market == <<owner, ask>>
sent   == <<requests, landed, lateAuto>>
vars   == <<db, risk, permit, stage, call, dead, market, day, sent, autoBooked>>

Days    == 1..MaxDay
Replies == {"none", "ok", "refused", "auth", "blocked", "busy", "ambiguous", "lost"}
Stages  == {"idle", "waiting", "reread", "recheck", "claim", "funds", "final",
            "send", "answered", "inventory", "drop", "bought", "price",
            "commit", "record", "list", "leave"}

Expected(w) == quote[w] + Fee
Open        == {g \in Gifts : position[g] = "open"}

Goto(w, s) == stage' = [stage EXCEPT ![w] = s]

\* The call returns: its locals are gone and the goroutine is free.
Return(w) ==
  /\ Goto(w, "idle")
  /\ kind' = [kind EXCEPT ![w] = "manual"]
  /\ gift' = [gift EXCEPT ![w] = NoGift]
  /\ quote' = [quote EXCEPT ![w] = 0]
  /\ reply' = [reply EXCEPT ![w] = "none"]
  /\ tries' = [tries EXCEPT ![w] = 0]
  /\ cost' = [cost EXCEPT ![w] = 0]
  /\ bookDay' = [bookDay EXCEPT ![w] = 1]
  /\ dead' = [dead EXCEPT ![w] = FALSE]

-----------------------------------------------------------------------------
(* risk.Manager *)

\* Slip: the armed switch is not consulted.
Slip_AllowedDisarmed(w) ==
  /\ ~paused
  /\ Expected(w) <= MaxTicket
  /\ spent[day] + Expected(w) <= DailyBudget
  /\ Cardinality(Open) < MaxOpenPositions

\* Slip: the budget is compared before the purchase is added to it.
Slip_AllowedBefore(w) ==
  /\ armed
  /\ ~paused
  /\ Expected(w) <= MaxTicket
  /\ spent[day] < DailyBudget
  /\ Cardinality(Open) < MaxOpenPositions

\* Allow's vetoes.  The gates left out (hourly count, cooldown, exposure,
\* balance) can only refuse, and a refusal is always possible below.
Allowed(w) ==
  /\ armed
  /\ ~paused
  /\ Expected(w) <= MaxTicket
  /\ spent[day] + Expected(w) <= DailyBudget
  /\ Cardinality(Open) < MaxOpenPositions

\* Disarm(ctx): memory always, the kv row only if the context is alive.
DisarmWith(alive) ==
  /\ armed' = FALSE
  /\ armedKV' = (armedKV /\ ~alive)

\* RecordFailure disarms on the third failure in a row.
RecordFailure(w) ==
  /\ failStreak' = failStreak + 1
  /\ IF failStreak + 1 >= 3
       THEN DisarmWith(~dead[w])
       ELSE UNCHANGED <<armed, armedKV>>

Arm ==
  /\ MaxTicket > 0 /\ DailyBudget > 0
  /\ armed' = TRUE /\ armedKV' = TRUE
  /\ paused' = FALSE /\ failStreak' = 0
  /\ lateAuto' = 0
  /\ UNCHANGED <<db, permit, stage, call, dead, market, day, requests, landed, autoBooked>>

Disarm ==
  /\ DisarmWith(TRUE)
  /\ UNCHANGED <<db, paused, failStreak, permit, stage, call, dead, market, day, sent, autoBooked>>

Pause ==
  /\ paused' = TRUE
  /\ UNCHANGED <<db, armedKV, armed, failStreak, permit, stage, call, dead, market, day, sent, autoBooked>>

PauseEnds ==
  /\ paused' = FALSE
  /\ UNCHANGED <<db, armedKV, armed, failStreak, permit, stage, call, dead, market, day, sent, autoBooked>>

-----------------------------------------------------------------------------
(* The callers *)

\* A feed decision marked Auto, or a confirmed tap on a card that showed p.
Start(w, g, k, p) ==
  /\ stage[w] = "idle"
  /\ Goto(w, "waiting")
  /\ kind' = [kind EXCEPT ![w] = k]
  /\ gift' = [gift EXCEPT ![w] = g]
  /\ quote' = [quote EXCEPT ![w] = p]
  /\ UNCHANGED <<reply, tries, cost, bookDay, db, risk, permit, dead, market, day, sent, autoBooked>>

\* LockPurchase, or ReservePurchase = lock and Allow.
Reserve(w) ==
  /\ stage[w] = "waiting" /\ permit = Nobody
  /\ kind[w] = "auto" => Allowed(w) /\ ~dead[w]
  /\ permit' = w
  /\ Goto(w, "reread")
  /\ UNCHANGED <<db, risk, call, dead, market, day, sent, autoBooked>>

ReserveRefused(w) ==
  /\ stage[w] = "waiting" /\ permit = Nobody /\ kind[w] = "auto"
  /\ Return(w)
  /\ UNCHANGED <<db, risk, permit, market, day, sent, autoBooked>>

\* revalidateAuto / buySignal read the lot again; its live ask becomes the quote.
Reread(w) ==
  /\ stage[w] = "reread" /\ ~dead[w]
  /\ owner[gift[w]] = "theirs"
  /\ kind[w] = "manual" => ask[gift[w]] <= quote[w]
  /\ quote' = [quote EXCEPT ![w] = ask[gift[w]]]
  /\ bookDay' = [bookDay EXCEPT ![w] = day]
  /\ Goto(w, IF kind[w] = "auto" THEN "recheck" ELSE "claim")
  /\ UNCHANGED <<kind, gift, reply, tries, cost, db, risk, permit, dead, market, day, sent, autoBooked>>

\* Slip: the re-read quote is not checked against the limits again.
Slip_AllowOnce(w) ==
  /\ stage[w] = "recheck" /\ ~dead[w]
  /\ Goto(w, "claim")
  /\ UNCHANGED <<db, risk, permit, call, dead, market, day, sent, autoBooked>>

\* The second Allow, on the re-read cost.
AllowAgain(w) ==
  /\ stage[w] = "recheck" /\ ~dead[w]
  /\ Allowed(w)
  /\ Goto(w, "claim")
  /\ UNCHANGED <<db, risk, permit, call, dead, market, day, sent, autoBooked>>

\* Slip: an early return forgets permit.Release.
Slip_GiveUpHolding(w) ==
  /\ stage[w] \in {"reread", "recheck"}
  /\ Return(w)
  /\ UNCHANGED <<db, risk, permit, market, day, sent, autoBooked>>

\* Any early return before the claim: lot gone, dearer, gate closed, read error.
GiveUp(w) ==
  /\ stage[w] \in {"reread", "recheck"}
  /\ Goto(w, "leave")
  /\ UNCHANGED <<db, risk, permit, call, dead, market, day, sent, autoBooked>>

Leave(w) ==
  /\ stage[w] = "leave"
  /\ permit' = Nobody
  /\ Return(w)
  /\ UNCHANGED <<db, risk, market, day, sent, autoBooked>>

-----------------------------------------------------------------------------
(* Executor.Buy, up to the write *)

\* Slip: INSERT OR REPLACE, which hands the claim to every attempt.
Slip_ClaimReplaces(w) ==
  /\ stage[w] = "claim" /\ ~dead[w]
  /\ claim' = [claim EXCEPT ![gift[w]] = "pending"]
  /\ bookDay' = [bookDay EXCEPT ![w] = IF kind[w] = "auto" THEN day ELSE @]
  /\ Goto(w, "funds")
  /\ UNCHANGED <<spent, position, paid, kind, gift, quote, reply, tries, cost,
                 risk, permit, dead, market, day, sent, autoBooked>>

\* INSERT OR IGNORE INTO buy_attempts: only the first attempt gets the row.
ClaimBuy(w) ==
  /\ stage[w] = "claim" /\ ~dead[w]
  /\ claim[gift[w]] = "none"
  /\ claim' = [claim EXCEPT ![gift[w]] = "pending"]
  /\ bookDay' = [bookDay EXCEPT ![w] = IF kind[w] = "auto" THEN day ELSE @]
  /\ Goto(w, "funds")
  /\ UNCHANGED <<spent, position, paid, kind, gift, quote, reply, tries, cost,
                 risk, permit, dead, market, day, sent, autoBooked>>

ErrAlreadyAttempted(w) ==
  /\ stage[w] = "claim"
  /\ claim[gift[w]] # "none" \/ dead[w]
  /\ Goto(w, "leave")
  /\ UNCHANGED <<db, risk, permit, call, dead, market, day, sent, autoBooked>>

\* Balance covers the expected cost.
ReadFunds(w) ==
  /\ stage[w] = "funds" /\ ~dead[w]
  /\ Goto(w, "final")
  /\ UNCHANGED <<db, risk, permit, call, dead, market, day, sent, autoBooked>>

\* GiftData and validateFreshListing: still theirs, still at the quote.
FinalQuote(w) ==
  /\ stage[w] = "final" /\ ~dead[w]
  /\ owner[gift[w]] = "theirs" /\ ask[gift[w]] = quote[w]
  /\ Goto(w, "send")
  /\ UNCHANGED <<db, risk, permit, call, dead, market, day, sent, autoBooked>>

\* Either check fails: Buy returns, and the deferred ReleaseBuy drops the claim.
Abort(w) ==
  /\ stage[w] \in {"funds", "final"}
  /\ Goto(w, "drop")
  /\ UNCHANGED <<db, risk, permit, call, dead, market, day, sent, autoBooked>>

ReleaseBuy(w) ==
  /\ stage[w] = "drop"
  /\ claim' = [claim EXCEPT ![gift[w]] = "none"]
  /\ Goto(w, "leave")
  /\ UNCHANGED <<spent, position, paid, risk, permit, call, dead, market, day, sent, autoBooked>>

-----------------------------------------------------------------------------
(* BuyGift through Client.call *)

\* The marketplace executes at the exact quoted price or not at all.
MarketAnswers(w, r, lands) ==
  IF lands
    THEN /\ owner[gift[w]] = "theirs" /\ ask[gift[w]] = quote[w]
         /\ r \in {"ok"} \cup Hiding
         /\ owner' = [owner EXCEPT ![gift[w]] = "ours"]
         /\ landed' = [landed EXCEPT ![gift[w]] = @ + 1]
    ELSE /\ r \in Replies \ {"none", "ok"}
         /\ UNCHANGED <<owner, landed>>

\* One attempt.  A 401 reaches onAuthExpired, which disarms.
Send(w) ==
  /\ stage[w] = "send" /\ ~dead[w]
  /\ \E r \in Replies, lands \in BOOLEAN :
       /\ MarketAnswers(w, r, lands)
       /\ reply' = [reply EXCEPT ![w] = r]
       /\ IF r = "auth" THEN DisarmWith(TRUE) ELSE UNCHANGED <<armed, armedKV>>
  /\ tries' = [tries EXCEPT ![w] = @ + 1]
  /\ requests' = [requests EXCEPT ![gift[w]] = @ + 1]
  /\ lateAuto' = IF kind[w] = "auto" /\ ~armed /\ tries[w] = 0
                   THEN lateAuto + 1 ELSE lateAuto
  /\ Goto(w, "answered")
  /\ UNCHANGED <<kind, gift, quote, cost, bookDay, db, paused, failStreak,
                 permit, dead, ask, day, autoBooked>>

\* A context cancelled before the attempt, or in the backoff of a retry: nothing
\* leaves, and the error is ctx.Err, a transport error whatever came before it.
SendCancelled(w) ==
  /\ stage[w] = "send" /\ dead[w]
  /\ reply' = [reply EXCEPT ![w] = "lost"]
  /\ Goto(w, "inventory")
  /\ UNCHANGED <<kind, gift, quote, tries, cost, bookDay, db, risk, permit,
                 dead, market, day, sent, autoBooked>>

\* attempts = max(retries + 1, pool.size()), and BuyGift passes retries = 0.
MayRetry(w) == reply[w] \in {"lost", "busy", "blocked"} /\ tries[w] < Routes

RetryOnNextRoute(w) ==
  /\ stage[w] = "answered" /\ MayRetry(w)
  /\ Goto(w, "send")
  /\ UNCHANGED <<db, risk, permit, call, dead, market, day, sent, autoBooked>>

-----------------------------------------------------------------------------
(* Executor.Buy, after the write *)

Settles(w, replies) == stage[w] = "answered" /\ reply[w] \in replies /\ ~MayRetry(w)

\* FinishBuy ignores its error: on a dead context the row stays as it was.
FinishBuy(w, status) ==
  claim' = IF dead[w] THEN claim ELSE [claim EXCEPT ![gift[w]] = status]

SettleOK(w) ==
  /\ Settles(w, {"ok"})
  /\ Goto(w, "bought")
  /\ UNCHANGED <<db, risk, permit, call, dead, market, day, sent, autoBooked>>

\* Slip: release is not cleared, so the refused claim is dropped on return.
Slip_RefusedReleases(w) ==
  /\ Settles(w, {"refused", "auth", "busy"})
  /\ RecordFailure(w)
  /\ Goto(w, "drop")
  /\ UNCHANGED <<db, paused, permit, call, dead, market, day, sent, autoBooked>>

\* Slip: the outcome of a refusal is not written back.
Slip_RefusedSilently(w) ==
  /\ Settles(w, {"refused", "auth", "busy"})
  /\ RecordFailure(w)
  /\ Goto(w, "leave")
  /\ UNCHANGED <<db, paused, permit, call, dead, market, day, sent, autoBooked>>

SettleRefused(w) ==
  /\ Settles(w, {"refused", "auth", "busy"})
  /\ FinishBuy(w, "failed")
  /\ RecordFailure(w)
  /\ Goto(w, "leave")
  /\ UNCHANGED <<spent, position, paid, paused, permit, call, dead, market, day, sent, autoBooked>>

\* Slip: a status the other readers of buy_attempts do not know.
Slip_BlockedReason(w) ==
  /\ Settles(w, {"blocked"})
  /\ FinishBuy(w, "blocked")
  /\ paused' = TRUE
  /\ DisarmWith(~dead[w])
  /\ Goto(w, "leave")
  /\ UNCHANGED <<spent, position, paid, failStreak, permit, call, dead, market, day, sent, autoBooked>>

SettleBlocked(w) ==
  /\ Settles(w, {"blocked"})
  /\ FinishBuy(w, "failed")
  /\ paused' = TRUE
  /\ DisarmWith(~dead[w])
  /\ Goto(w, "leave")
  /\ UNCHANGED <<spent, position, paid, failStreak, permit, call, dead, market, day, sent, autoBooked>>

\* Slip: a transport failure is taken for a refusal.
Slip_LostIsFailed(w) ==
  /\ Settles(w, {"ambiguous", "lost"})
  /\ FinishBuy(w, "failed")
  /\ RecordFailure(w)
  /\ Goto(w, "leave")
  /\ UNCHANGED <<spent, position, paid, paused, permit, call, dead, market, day, sent, autoBooked>>

SettleAmbiguous(w) ==
  /\ Settles(w, {"ambiguous", "lost"})
  /\ Goto(w, "inventory")
  /\ UNCHANGED <<db, risk, permit, call, dead, market, day, sent, autoBooked>>

\* owns(): the inventory read fails and the outcome stays unknown.
OwnershipUnknown(w) ==
  /\ stage[w] = "inventory"
  /\ dead[w] \/ "inventory" \in Faults
  /\ FinishBuy(w, "pending")
  /\ Goto(w, "leave")
  /\ UNCHANGED <<spent, position, paid, risk, permit, call, dead, market, day, sent, autoBooked>>

Owned(w) ==
  /\ stage[w] = "inventory" /\ ~dead[w]
  /\ owner[gift[w]] = "ours"
  /\ Goto(w, "bought")
  /\ UNCHANGED <<db, risk, permit, call, dead, market, day, sent, autoBooked>>

NotOwned(w) ==
  /\ stage[w] = "inventory" /\ ~dead[w]
  /\ owner[gift[w]] # "ours"
  /\ FinishBuy(w, "failed")
  /\ RecordFailure(w)
  /\ Goto(w, "leave")
  /\ UNCHANGED <<spent, position, paid, paused, permit, call, dead, market, day, sent, autoBooked>>

\* FinishBuy bought, RecordSuccess.
FinishBought(w) ==
  /\ stage[w] = "bought"
  /\ FinishBuy(w, "bought")
  /\ failStreak' = 0
  /\ Goto(w, "price")
  /\ UNCHANGED <<spent, position, paid, armedKV, armed, paused, permit, call, dead, market, day, sent, autoBooked>>

\* The debit between the two balance reads, 0 standing for an unreadable one.
\* Proceeds or other spending in between move it either way; below the quote
\* it is distrusted and the expected cost is used.  Above it disarms.
Debits(w) == 0..(Expected(w) + 1)

PriceIt(w) ==
  /\ stage[w] = "price"
  /\ \E debit \in Debits(w) :
       /\ dead[w] => debit = 0
       /\ cost' = [cost EXCEPT ![w] = IF debit >= quote[w] THEN debit ELSE Expected(w)]
       /\ IF debit > Expected(w) THEN DisarmWith(TRUE) ELSE UNCHANGED <<armed, armedKV>>
  /\ Goto(w, "commit")
  /\ UNCHANGED <<db, paused, failStreak, permit, kind, gift, quote, reply, tries,
                 bookDay, dead, market, day, sent, autoBooked>>

Lesser(a, b) == IF a <= b THEN a ELSE b

\* Slip: the quote is booked instead of the debit.
Slip_CommitQuote(w) ==
  /\ stage[w] = "commit"
  /\ IF dead[w]
       THEN /\ DisarmWith(TRUE)
            /\ UNCHANGED <<spent, autoBooked>>
       ELSE /\ spent' = [spent EXCEPT ![bookDay[w]] = @ + quote[w]]
            /\ autoBooked' = IF kind[w] = "auto"
                               THEN [autoBooked EXCEPT ![bookDay[w]] = @ + Lesser(cost[w], Expected(w))]
                               ELSE autoBooked
            /\ UNCHANGED <<armed, armedKV>>
  /\ Goto(w, "record")
  /\ UNCHANGED <<claim, position, paid, paused, failStreak, permit, call, dead, market, day, sent>>

\* rm.Commit: AddSpend on the day Buy was called with; failing, disarm.
Commit(w) ==
  /\ stage[w] = "commit"
  /\ IF dead[w]
       THEN /\ DisarmWith(TRUE)
            /\ UNCHANGED <<spent, autoBooked>>
       ELSE /\ spent' = [spent EXCEPT ![bookDay[w]] = @ + cost[w]]
            /\ autoBooked' = IF kind[w] = "auto"
                               THEN [autoBooked EXCEPT ![bookDay[w]] = @ + Lesser(cost[w], Expected(w))]
                               ELSE autoBooked
            /\ UNCHANGED <<armed, armedKV>>
  /\ Goto(w, "record")
  /\ UNCHANGED <<claim, position, paid, paused, failStreak, permit, call, dead, market, day, sent>>

\* Slip: the position keeps the expected cost instead of the booked one.
Slip_RecordExpected(w) ==
  /\ stage[w] = "record"
  /\ IF dead[w]
       THEN /\ DisarmWith(TRUE)
            /\ UNCHANGED <<position, paid>>
       ELSE /\ position' = [position EXCEPT ![gift[w]] = "open"]
            /\ paid' = [paid EXCEPT ![gift[w]] = Expected(w)]
            /\ UNCHANGED <<armed, armedKV>>
  /\ Goto(w, "list")
  /\ UNCHANGED <<claim, spent, paused, failStreak, permit, call, dead, market, day, sent, autoBooked>>

\* UpsertPosition; failing, disarm.
RecordPosition(w) ==
  /\ stage[w] = "record"
  /\ IF dead[w]
       THEN /\ DisarmWith(TRUE)
            /\ UNCHANGED <<position, paid>>
       ELSE /\ position' = [position EXCEPT ![gift[w]] = "open"]
            /\ paid' = [paid EXCEPT ![gift[w]] = cost[w]]
            /\ UNCHANGED <<armed, armedKV>>
  /\ Goto(w, "list")
  /\ UNCHANGED <<claim, spent, paused, failStreak, permit, call, dead, market, day, sent, autoBooked>>

\* suggestListing or relist, still under the permit; the ask it places is the
\* business of another module.
ListOrSuggest(w) ==
  /\ stage[w] = "list"
  /\ Goto(w, "leave")
  /\ UNCHANGED <<db, risk, permit, call, dead, market, day, sent, autoBooked>>

-----------------------------------------------------------------------------
(* The environment *)

\* The caller's context ends: shutdown or the five-minute poll timeout.
Cancel(w) ==
  /\ "cancel" \in Faults
  /\ stage[w] # "idle" /\ ~dead[w]
  /\ dead' = [dead EXCEPT ![w] = TRUE]
  /\ UNCHANGED <<db, risk, permit, stage, call, market, day, sent, autoBooked>>

\* The process dies and is started again on the same database (risk.New).
Crash ==
  /\ "crash" \in Faults
  /\ stage' = [w \in Workers |-> "idle"]
  /\ kind' = [w \in Workers |-> "manual"]
  /\ gift' = [w \in Workers |-> NoGift]
  /\ quote' = [w \in Workers |-> 0]
  /\ reply' = [w \in Workers |-> "none"]
  /\ tries' = [w \in Workers |-> 0]
  /\ cost' = [w \in Workers |-> 0]
  /\ bookDay' = [w \in Workers |-> 1]
  /\ dead' = [w \in Workers |-> FALSE]
  /\ permit' = Nobody
  /\ armed' = armedKV /\ paused' = FALSE /\ failStreak' = 0
  /\ lateAuto' = IF armedKV THEN 0 ELSE lateAuto
  /\ UNCHANGED <<db, armedKV, market, day, requests, landed, autoBooked>>

\* A seller moves the ask, or somebody else takes the lot.
Reprice(g, p) ==
  /\ owner[g] = "theirs"
  /\ ask' = [ask EXCEPT ![g] = p]
  /\ UNCHANGED <<db, risk, permit, stage, call, dead, owner, day, sent, autoBooked>>

Taken(g) ==
  /\ owner[g] = "theirs"
  /\ owner' = [owner EXCEPT ![g] = "away"]
  /\ UNCHANGED <<db, risk, permit, stage, call, dead, ask, day, sent, autoBooked>>

\* A gift of ours with an open position is sold and the position closed.
Sold(g) ==
  /\ owner[g] = "ours" /\ position[g] = "open"
  /\ owner' = [owner EXCEPT ![g] = "away"]
  /\ position' = [position EXCEPT ![g] = "sold"]
  /\ UNCHANGED <<claim, spent, paid, risk, permit, stage, call, dead, ask, day, sent, autoBooked>>

\* Whoever holds it offers it again.
Offered(g) ==
  /\ owner[g] = "away"
  /\ owner' = [owner EXCEPT ![g] = "theirs"]
  /\ UNCHANGED <<db, risk, permit, stage, call, dead, ask, day, sent, autoBooked>>

NextDay ==
  /\ day < MaxDay
  /\ day' = day + 1
  /\ UNCHANGED <<db, risk, permit, stage, call, dead, market, sent, autoBooked>>

-----------------------------------------------------------------------------
Init ==
  /\ claim = [g \in Gifts |-> "none"]
  /\ spent = [d \in Days |-> 0]
  /\ position = [g \in Gifts |-> "none"]
  /\ paid = [g \in Gifts |-> 0]
  /\ armedKV = FALSE /\ armed = FALSE /\ paused = FALSE /\ failStreak = 0
  /\ permit = Nobody
  /\ stage = [w \in Workers |-> "idle"]
  /\ kind = [w \in Workers |-> "manual"]
  /\ gift = [w \in Workers |-> NoGift]
  /\ quote = [w \in Workers |-> 0]
  /\ reply = [w \in Workers |-> "none"]
  /\ tries = [w \in Workers |-> 0]
  /\ cost = [w \in Workers |-> 0]
  /\ bookDay = [w \in Workers |-> 1]
  /\ dead = [w \in Workers |-> FALSE]
  /\ owner = [g \in Gifts |-> "theirs"]
  /\ ask \in [Gifts -> Asks]
  /\ day = 1
  /\ requests = [g \in Gifts |-> 0]
  /\ landed = [g \in Gifts |-> 0]
  /\ autoBooked = [d \in Days |-> 0]
  /\ lateAuto = 0

Prepare(w) ==
  \/ Reserve(w) \/ ReserveRefused(w) \/ Reread(w) \/ AllowAgain(w) \/ GiveUp(w)
  \/ ClaimBuy(w) \/ ErrAlreadyAttempted(w) \/ ReadFunds(w) \/ FinalQuote(w)
  \/ Abort(w) \/ ReleaseBuy(w)

Execute(w) ==
  \/ Send(w) \/ SendCancelled(w) \/ RetryOnNextRoute(w)
  \/ SettleOK(w) \/ SettleRefused(w) \/ SettleBlocked(w) \/ SettleAmbiguous(w)
  \/ OwnershipUnknown(w) \/ Owned(w) \/ NotOwned(w)

Book(w) ==
  \/ FinishBought(w) \/ PriceIt(w) \/ Commit(w) \/ RecordPosition(w)
  \/ ListOrSuggest(w) \/ Leave(w)

Step(w) == Prepare(w) \/ Execute(w) \/ Book(w)

Operator == Arm \/ Disarm \/ Pause \/ PauseEnds

World ==
  \/ \E w \in Workers : Cancel(w)
  \/ Crash
  \/ \E g \in Gifts : Taken(g) \/ Sold(g) \/ Offered(g) \/ \E p \in Asks : Reprice(g, p)
  \/ NextDay

Next ==
  \/ \E w \in Workers, g \in Gifts, k \in {"auto", "manual"}, p \in Asks : Start(w, g, k, p)
  \/ \E w \in Workers : Step(w)
  \/ Operator
  \/ World

Spec == Init /\ [][Next]_vars

\* A goroutine keeps running once it holds the permit, and sync.Mutex serves
\* a waiter in the end (starvation mode), hence SF for the acquisition.
FairSpec ==
  /\ Spec
  /\ \A w \in Workers :
       /\ WF_vars(stage[w] # "waiting" /\ Step(w))
       /\ SF_vars(Reserve(w) \/ ReserveRefused(w))

-----------------------------------------------------------------------------
(* Properties *)

SwitchesOK ==
  /\ armedKV \in BOOLEAN /\ armed \in BOOLEAN /\ paused \in BOOLEAN
  /\ dead \in [Workers -> BOOLEAN]

RowsOK ==
  /\ claim \in [Gifts -> {"none", "pending", "failed", "bought"}]
  /\ position \in [Gifts -> {"none", "open", "sold"}]
  /\ paid \in [Gifts -> Nat]

LedgerOK ==
  /\ spent \in [Days -> Nat] /\ autoBooked \in [Days -> Nat]
  /\ day \in Days /\ failStreak \in Nat /\ lateAuto \in Nat

MarketOK ==
  /\ owner \in [Gifts -> {"theirs", "ours", "away"}]
  /\ ask \in [Gifts -> Asks]
  /\ requests \in [Gifts -> Nat] /\ landed \in [Gifts -> Nat]

CallsOK ==
  /\ permit \in Workers \cup {Nobody}
  /\ stage \in [Workers -> Stages]
  /\ kind \in [Workers -> {"auto", "manual"}]
  /\ gift \in [Workers -> Gifts \cup {NoGift}]
  /\ quote \in [Workers -> Nat] /\ cost \in [Workers -> Nat] /\ tries \in [Workers -> Nat]
  /\ reply \in [Workers -> Replies]
  /\ bookDay \in [Workers -> Days]

\* Every variable holds a value of its kind: the claim statuses are those the
\* readers of buy_attempts know.
TypeOK == SwitchesOK /\ RowsOK /\ LedgerOK /\ MarketOK /\ CallsOK

AtRest == \A w \in Workers : stage[w] = "idle"

\* However often a button is tapped, a poll repeats or the process restarts,
\* a gift is asked for at most once per route: once, with a single route.
RequestsBounded == \A g \in Gifts : requests[g] <= Routes

\* No interleaving of callers, crashes and resales buys the same gift twice.
OnePurchasePerGift == \A g \in Gifts : landed[g] <= 1

\* An attempt written off as failed spent nothing.
FailedMeansNotBought == \A g \in Gifts : claim[g] = "failed" => landed[g] = 0

\* What unattended purchases book on one day, overcharges aside, stays within
\* the daily budget, whatever manual purchases and midnight do in between.
AutoWithinBudget == \A d \in Days : autoBooked[d] <= DailyBudget

\* No unattended request goes out above max_ticket, even when the seller moves
\* the ask between the alert and the write.
UnattendedWithinTicket ==
  \A w \in Workers :
    kind[w] = "auto" /\ stage[w] \in {"send", "answered", "inventory", "bought"}
      => Expected(w) <= MaxTicket

\* A position row exists only behind a claim that says "bought".
RowsFollowClaims == \A g \in Gifts : position[g] # "none" => claim[g] = "bought"

\* After a disarm at most the one purchase already past its last check goes out.
AtMostOneAfterDisarm == lateAuto <= 1

\* A claim is never dropped once a request for the gift has left the process.
ClaimOutlivesWrite ==
  [][\A g \in Gifts : requests[g] > 0 => claim'[g] # "none"]_vars

\* Every caller gets its answer: the permit is always handed on.
EveryCallReturns == \A w \in Workers : stage[w] = "waiting" ~> stage[w] = "idle"

\* A claim does not stay pending while the process lives.
EveryClaimSettles == \A g \in Gifts : claim[g] = "pending" ~> claim[g] # "pending"

=============================================================================
