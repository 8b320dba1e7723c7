--------------------------- MODULE PurchaseProofs ---------------------------
(***************************************************************************)
(* Proofs about Purchase for any number of gifts, goroutines, routes, days *)
(* and any limits, with crashes, cancellations and failed inventory reads. *)
(* The inductive invariant is a conjunction of named parts; each part is   *)
(* proved on its own, action by action. The books of Ledger follow, for    *)
(* any finite set of gifts and any calendar.                               *)
(***************************************************************************)
EXTENDS Ledger, FiniteSetTheorems, WellFoundedInduction, TLAPS

\* Stages of Buy up to the write, and from the write to the booked outcome.
Asking   == {"funds", "final", "drop"}
Writing  == {"send", "answered", "inventory", "bought"}
Booking  == {"price", "commit", "record"}

\* A purchase at hand names a gift; a free goroutine holds nothing.
AtHand == \A w \in Workers : stage[w] # "idle" => gift[w] \in Gifts

\* Whoever is past the lock holds the permit, so there is one of them.
Held == \A w \in Workers : stage[w] \notin {"idle", "waiting"} => permit = w

\* The claim follows the call that owns it, and an unclaimed gift was never
\* asked for.  A call whose context died may leave the claim pending, and then
\* it writes no position either.
ClaimFollows ==
  /\ \A w \in Workers :
       /\ stage[w] \in Asking => claim[gift[w]] = "pending" /\ requests[gift[w]] = 0
       /\ stage[w] \in Writing => claim[gift[w]] = "pending"
       /\ stage[w] \in Booking /\ ~dead[w] => claim[gift[w]] = "bought"
  /\ \A g \in Gifts : claim[g] = "none" => requests[g] = 0

\* The requests sent for a gift are those of the one call that claimed it.
RequestsCounted ==
  /\ \A w \in Workers :
       /\ stage[w] \notin Writing \cup Booking \cup {"list", "leave"} => tries[w] = 0
       /\ stage[w] = "send" => requests[gift[w]] = tries[w] /\ tries[w] < Routes
       /\ stage[w] = "answered" => requests[gift[w]] = tries[w] /\ tries[w] \in 1..Routes
  /\ RequestsBounded

\* While the call that landed a purchase may still retry, the gift is ours and
\* unrecorded, so nobody can sell it and no retry can land again.
LandedOnce ==
  /\ \A w \in Workers : stage[w] \in {"send", "answered"} /\ landed[gift[w]] > 0
                          => owner[gift[w]] = "ours"
  /\ \A g \in Gifts : requests[g] = 0 => landed[g] = 0
  /\ OnePurchasePerGift

\* Room for an unattended purchase is checked on today's ledger and then kept
\* on the ledger day the purchase is booked on.
RoomReserved ==
  /\ \A w \in Workers :
       /\ bookDay[w] <= day
       /\ kind[w] = "auto" /\ stage[w] = "claim" => spent[day] + Expected(w) <= DailyBudget
       /\ kind[w] = "auto" /\ stage[w] \in Asking \cup Writing \cup {"price", "commit"}
            => spent[bookDay[w]] + Expected(w) <= DailyBudget
  /\ \A d \in Days : (d > day => spent[d] = 0) /\ autoBooked[d] <= spent[d]
  /\ AutoWithinBudget

\* The checked cost is the cost sent.
TicketKept ==
  \A w \in Workers :
    kind[w] = "auto" /\ stage[w] \in {"claim"} \cup Asking \cup Writing => Expected(w) <= MaxTicket

\* An unattended purchase past its last check was allowed while armed, and it
\* is the only one.
LateCounted ==
  /\ armed => lateAuto = 0
  /\ \A w \in Workers :
       kind[w] = "auto" /\ stage[w] \in {"claim", "send"} \cup Asking /\ tries[w] = 0
         => lateAuto = 0
  /\ AtMostOneAfterDisarm

IInv ==
  /\ TypeOK /\ AtHand /\ Held /\ ClaimFollows /\ RowsFollowClaims
  /\ RequestsCounted /\ LandedOnce /\ RoomReserved /\ TicketKept /\ LateCounted

USE DEF db, risk, call, market, sent, Goto, Days, Replies, Stages

-----------------------------------------------------------------------------
\* A fresh database and process satisfy every part.
LEMMA InitIInv == Init => IInv
<1> SUFFICES ASSUME Init PROVE IInv
  OBVIOUS
<1>1. SwitchesOK
  BY DEF Init, SwitchesOK
<1>2. RowsOK /\ MarketOK
  BY DEF Init, RowsOK, MarketOK
<1>3. LedgerOK /\ CallsOK
  BY DayAssumption DEF Init, LedgerOK, CallsOK
<1>4. AtHand /\ Held
  BY DEF Init, AtHand, Held
<1>5. ClaimFollows /\ RowsFollowClaims
  BY DEF Init, ClaimFollows, RowsFollowClaims, Asking, Writing, Booking
<1>6. RequestsCounted /\ LandedOnce
  BY RouteAssumption DEF Init, RequestsCounted, RequestsBounded, LandedOnce,
    OnePurchasePerGift, Writing, Booking
<1>7. RoomReserved
  BY MoneyAssumption DEF Init, RoomReserved, AutoWithinBudget, Asking, Writing
<1>8. TicketKept
  BY DEF Init, TicketKept, Asking, Writing
<1>9. LateCounted
  BY DEF Init, LateCounted, AtMostOneAfterDisarm, Asking
<1>10. QED
  BY <1>1, <1>2, <1>3, <1>4, <1>5, <1>6, <1>7, <1>8, <1>9 DEF IInv, TypeOK

-----------------------------------------------------------------------------
\* The daily ledger keeps its type.
LEMMA LedgerStep ==
  ASSUME LedgerOK, CallsOK
  PROVE  [Next]_vars => LedgerOK'
<1> USE DEF LedgerOK, CallsOK
<1>1. ASSUME NEW w \in Workers, NEW g \in Gifts, NEW k \in {"auto", "manual"},
             NEW p \in Asks, Start(w, g, k, p)
      PROVE  LedgerOK'
  BY <1>1 DEF Start
<1>2. ASSUME NEW w \in Workers, Prepare(w)
      PROVE  LedgerOK'
  <2>1. CASE Reserve(w)
    BY <2>1 DEF Reserve
  <2>2. CASE ReserveRefused(w)
    BY <2>2 DEF ReserveRefused
  <2>3. CASE Reread(w)
    BY <2>3 DEF Reread
  <2>4. CASE AllowAgain(w)
    BY <2>4 DEF AllowAgain
  <2>5. CASE GiveUp(w) \/ ErrAlreadyAttempted(w) \/ ReadFunds(w) \/ Abort(w)
    BY <2>5 DEF GiveUp, ErrAlreadyAttempted, ReadFunds, Abort
  <2>6. CASE ClaimBuy(w)
    BY <2>6 DEF ClaimBuy
  <2>7. CASE FinalQuote(w)
    BY <2>7 DEF FinalQuote
  <2>8. CASE ReleaseBuy(w)
    BY <2>8 DEF ReleaseBuy
  <2>9. QED  BY <1>2, <2>1, <2>2, <2>3, <2>4, <2>5, <2>6, <2>7, <2>8 DEF Prepare
<1>3. ASSUME NEW w \in Workers, Execute(w)
      PROVE  LedgerOK'
  <2>1. CASE Send(w)
    BY <2>1 DEF Send
  <2>2. CASE SendCancelled(w) \/ RetryOnNextRoute(w)
    BY <2>2 DEF SendCancelled, RetryOnNextRoute
  <2>3. CASE SettleOK(w) \/ SettleAmbiguous(w) \/ Owned(w)
    BY <2>3 DEF SettleOK, SettleAmbiguous, Owned
  <2>4. CASE SettleRefused(w)
    BY <2>4 DEF SettleRefused, RecordFailure
  <2>5. CASE SettleBlocked(w)
    BY <2>5 DEF SettleBlocked
  <2>6. CASE OwnershipUnknown(w)
    BY <2>6 DEF OwnershipUnknown
  <2>7. CASE NotOwned(w)
    BY <2>7 DEF NotOwned, RecordFailure
  <2>8. QED  BY <1>3, <2>1, <2>2, <2>3, <2>4, <2>5, <2>6, <2>7 DEF Execute
<1>4. ASSUME NEW w \in Workers, Book(w)
      PROVE  LedgerOK'
  <2>1. CASE FinishBought(w)
    BY <2>1 DEF FinishBought
  <2>2. CASE PriceIt(w)
    BY <2>2 DEF PriceIt
  <2>3. CASE Commit(w)
    <3>1. Expected(w) \in Nat
      BY MoneyAssumption DEF CallsOK, Expected
    <3>2. Lesser(cost[w], Expected(w)) \in Nat
      BY <3>1 DEF CallsOK, Lesser
    <3>3. CASE dead[w]
      BY <2>3, <3>3 DEF LedgerOK, Commit
    <3>4. CASE ~dead[w]
      <4>1. spent' \in [Days -> Nat]
        BY <2>3, <3>4, SMTT(60) DEF LedgerOK, CallsOK, Commit
      <4>2. autoBooked' \in [Days -> Nat]
        <5> DEFINE least == Lesser(cost[w], Expected(w))
        <5>1. autoBooked' = autoBooked
                \/ autoBooked' = [autoBooked EXCEPT ![bookDay[w]] = autoBooked[bookDay[w]] + least]
          BY <2>3, <3>4 DEF Commit
        <5> HIDE DEF least
        <5>2. QED  BY <3>2, <5>1, SMTT(60) DEF LedgerOK, CallsOK, least
      <4>3. QED  BY <2>3, <4>1, <4>2 DEF LedgerOK, Commit
    <3>5. QED  BY <3>3, <3>4
  <2>4. CASE RecordPosition(w)
    BY <2>4 DEF RecordPosition
  <2>5. CASE ListOrSuggest(w)
    BY <2>5 DEF ListOrSuggest
  <2>6. CASE Leave(w)
    BY <2>6 DEF Leave
  <2>7. QED  BY <1>4, <2>1, <2>2, <2>3, <2>4, <2>5, <2>6 DEF Book
<1>5. CASE Operator
  <2>1. CASE Arm
    BY <2>1 DEF Arm
  <2>2. CASE Disarm
    BY <2>2 DEF Disarm
  <2>3. CASE Pause \/ PauseEnds
    BY <2>3 DEF Pause, PauseEnds
  <2>4. QED  BY <1>5, <2>1, <2>2, <2>3 DEF Operator
<1>6. CASE World
  <2>1. ASSUME NEW w \in Workers, Cancel(w)  PROVE LedgerOK'
    BY <2>1 DEF Cancel
  <2>2. CASE Crash
    BY <2>2 DEF Crash
  <2>3. ASSUME NEW g \in Gifts, Taken(g) \/ Sold(g) \/ Offered(g)  PROVE LedgerOK'
    BY <2>3 DEF Taken, Sold, Offered
  <2>4. ASSUME NEW g \in Gifts, NEW p \in Asks, Reprice(g, p)  PROVE LedgerOK'
    BY <2>4 DEF Reprice
  <2>5. CASE NextDay
    BY DayAssumption, <2>5 DEF NextDay
  <2>6. QED  BY <1>6, <2>1, <2>2, <2>3, <2>4, <2>5 DEF World
<1>7. CASE UNCHANGED vars
  BY <1>7 DEF vars
<1>8. QED  BY <1>1, <1>2, <1>3, <1>4, <1>5, <1>6, <1>7 DEF Next, Step

-----------------------------------------------------------------------------
\* So do the claim and position rows.
LEMMA RowsStep ==
  ASSUME RowsOK, CallsOK
  PROVE  [Next]_vars => RowsOK'
<1> USE DEF RowsOK, CallsOK
<1>1. ASSUME NEW w \in Workers, NEW g \in Gifts, NEW k \in {"auto", "manual"},
             NEW p \in Asks, Start(w, g, k, p)
      PROVE  RowsOK'
  BY <1>1 DEF Start
<1>2. ASSUME NEW w \in Workers, Prepare(w)
      PROVE  RowsOK'
  <2>1. CASE Reserve(w)
    BY <2>1 DEF Reserve
  <2>2. CASE ReserveRefused(w)
    BY <2>2 DEF ReserveRefused
  <2>3. CASE Reread(w)
    BY <2>3 DEF Reread
  <2>4. CASE AllowAgain(w)
    BY <2>4 DEF AllowAgain
  <2>5. CASE GiveUp(w) \/ ErrAlreadyAttempted(w) \/ ReadFunds(w) \/ Abort(w)
    BY <2>5 DEF GiveUp, ErrAlreadyAttempted, ReadFunds, Abort
  <2>6. CASE ClaimBuy(w)
    BY <2>6 DEF ClaimBuy
  <2>7. CASE FinalQuote(w)
    BY <2>7 DEF FinalQuote
  <2>8. CASE ReleaseBuy(w)
    BY <2>8 DEF ReleaseBuy
  <2>9. QED  BY <1>2, <2>1, <2>2, <2>3, <2>4, <2>5, <2>6, <2>7, <2>8 DEF Prepare
<1>3. ASSUME NEW w \in Workers, Execute(w)
      PROVE  RowsOK'
  <2>1. CASE Send(w)
    BY <2>1 DEF Send
  <2>2. CASE SendCancelled(w) \/ RetryOnNextRoute(w)
    BY <2>2 DEF SendCancelled, RetryOnNextRoute
  <2>3. CASE SettleOK(w) \/ SettleAmbiguous(w) \/ Owned(w)
    BY <2>3 DEF SettleOK, SettleAmbiguous, Owned
  <2>4. CASE SettleRefused(w)
    BY <2>4 DEF SettleRefused, FinishBuy
  <2>5. CASE SettleBlocked(w)
    BY <2>5 DEF SettleBlocked, FinishBuy
  <2>6. CASE OwnershipUnknown(w)
    BY <2>6 DEF OwnershipUnknown, FinishBuy
  <2>7. CASE NotOwned(w)
    BY <2>7 DEF NotOwned, FinishBuy
  <2>8. QED  BY <1>3, <2>1, <2>2, <2>3, <2>4, <2>5, <2>6, <2>7 DEF Execute
<1>4. ASSUME NEW w \in Workers, Book(w)
      PROVE  RowsOK'
  <2>1. CASE FinishBought(w)
    BY <2>1 DEF FinishBought, FinishBuy
  <2>2. CASE PriceIt(w)
    BY <2>2 DEF PriceIt
  <2>3. CASE Commit(w)
    BY <2>3 DEF Commit
  <2>4. CASE RecordPosition(w)
    BY <2>4, ZenonT(60) DEF RecordPosition
  <2>5. CASE ListOrSuggest(w)
    BY <2>5 DEF ListOrSuggest
  <2>6. CASE Leave(w)
    BY <2>6 DEF Leave
  <2>7. QED  BY <1>4, <2>1, <2>2, <2>3, <2>4, <2>5, <2>6 DEF Book
<1>5. CASE Operator
  BY <1>5 DEF Operator, Arm, Disarm, Pause, PauseEnds
<1>6. CASE World
  <2>1. ASSUME NEW w \in Workers, Cancel(w)  PROVE RowsOK'
    BY <2>1 DEF Cancel
  <2>2. CASE Crash
    BY <2>2 DEF Crash
  <2>3. ASSUME NEW g \in Gifts, Taken(g) \/ Sold(g) \/ Offered(g)  PROVE RowsOK'
    BY <2>3 DEF Taken, Sold, Offered
  <2>4. ASSUME NEW g \in Gifts, NEW p \in Asks, Reprice(g, p)  PROVE RowsOK'
    BY <2>4 DEF Reprice
  <2>5. CASE NextDay
    BY <2>5 DEF NextDay
  <2>6. QED  BY <1>6, <2>1, <2>2, <2>3, <2>4, <2>5 DEF World
<1>7. CASE UNCHANGED vars
  BY <1>7 DEF vars
<1>8. QED  BY <1>1, <1>2, <1>3, <1>4, <1>5, <1>6, <1>7 DEF Next, Step

-----------------------------------------------------------------------------
\* So does the marketplace.
LEMMA MarketStep ==
  ASSUME MarketOK, AtHand
  PROVE  [Next]_vars => MarketOK'
<1> USE DEF MarketOK
<1>1. ASSUME NEW w \in Workers, NEW g \in Gifts, NEW k \in {"auto", "manual"},
             NEW p \in Asks, Start(w, g, k, p)
      PROVE  MarketOK'
  BY <1>1 DEF Start
<1>2. ASSUME NEW w \in Workers, Prepare(w)
      PROVE  MarketOK'
  <2>1. CASE Reserve(w)
    BY <2>1 DEF Reserve
  <2>2. CASE ReserveRefused(w)
    BY <2>2 DEF ReserveRefused
  <2>3. CASE Reread(w)
    BY <2>3 DEF Reread
  <2>4. CASE AllowAgain(w)
    BY <2>4 DEF AllowAgain
  <2>5. CASE GiveUp(w) \/ ErrAlreadyAttempted(w) \/ ReadFunds(w) \/ Abort(w)
    BY <2>5 DEF GiveUp, ErrAlreadyAttempted, ReadFunds, Abort
  <2>6. CASE ClaimBuy(w)
    BY <2>6 DEF ClaimBuy
  <2>7. CASE FinalQuote(w)
    BY <2>7 DEF FinalQuote
  <2>8. CASE ReleaseBuy(w)
    BY <2>8 DEF ReleaseBuy
  <2>9. QED  BY <1>2, <2>1, <2>2, <2>3, <2>4, <2>5, <2>6, <2>7, <2>8 DEF Prepare
<1>3. ASSUME NEW w \in Workers, Execute(w)
      PROVE  MarketOK'
  <2>1. CASE Send(w)
    <3>1. PICK r \in Replies, lands \in BOOLEAN : MarketAnswers(w, r, lands)
      BY <2>1 DEF Send
    <3>2. owner' \in [Gifts -> {"theirs", "ours", "away"}]
      BY <3>1 DEF MarketOK, MarketAnswers
    <3>3. landed' \in [Gifts -> Nat]
      BY <3>1 DEF MarketOK, MarketAnswers
    <3>4. requests' \in [Gifts -> Nat]
      <4>1. requests' = [requests EXCEPT ![gift[w]] = requests[gift[w]] + 1]
        BY <2>1 DEF Send
      <4>2. gift[w] \in Gifts
        BY <2>1 DEF AtHand, Send
      <4>3. requests[gift[w]] + 1 \in Nat
        BY <4>2 DEF MarketOK
      <4>4. QED  BY <4>1, <4>3 DEF MarketOK
    <3>5. QED  BY <2>1, <3>2, <3>3, <3>4 DEF MarketOK, Send
  <2>2. CASE SendCancelled(w) \/ RetryOnNextRoute(w)
    BY <2>2 DEF SendCancelled, RetryOnNextRoute
  <2>3. CASE SettleOK(w) \/ SettleAmbiguous(w) \/ Owned(w)
    BY <2>3 DEF SettleOK, SettleAmbiguous, Owned
  <2>4. CASE SettleRefused(w)
    BY <2>4 DEF SettleRefused
  <2>5. CASE SettleBlocked(w)
    BY <2>5 DEF SettleBlocked
  <2>6. CASE OwnershipUnknown(w)
    BY <2>6 DEF OwnershipUnknown
  <2>7. CASE NotOwned(w)
    BY <2>7 DEF NotOwned
  <2>8. QED  BY <1>3, <2>1, <2>2, <2>3, <2>4, <2>5, <2>6, <2>7 DEF Execute
<1>4. ASSUME NEW w \in Workers, Book(w)
      PROVE  MarketOK'
  <2>1. CASE FinishBought(w)
    BY <2>1 DEF FinishBought
  <2>2. CASE PriceIt(w)
    BY <2>2 DEF PriceIt
  <2>3. CASE Commit(w)
    BY <2>3 DEF Commit
  <2>4. CASE RecordPosition(w)
    BY <2>4 DEF RecordPosition
  <2>5. CASE ListOrSuggest(w)
    BY <2>5 DEF ListOrSuggest
  <2>6. CASE Leave(w)
    BY <2>6 DEF Leave
  <2>7. QED  BY <1>4, <2>1, <2>2, <2>3, <2>4, <2>5, <2>6 DEF Book
<1>5. CASE Operator
  BY <1>5 DEF Operator, Arm, Disarm, Pause, PauseEnds
<1>6. CASE World
  <2>1. ASSUME NEW w \in Workers, Cancel(w)  PROVE MarketOK'
    BY <2>1 DEF Cancel
  <2>2. CASE Crash
    BY <2>2 DEF Crash
  <2>3. ASSUME NEW g \in Gifts, Taken(g) \/ Sold(g) \/ Offered(g)  PROVE MarketOK'
    BY <2>3 DEF Taken, Sold, Offered
  <2>4. ASSUME NEW g \in Gifts, NEW p \in Asks, Reprice(g, p)  PROVE MarketOK'
    BY <2>4 DEF Reprice
  <2>5. CASE NextDay
    BY <2>5 DEF NextDay
  <2>6. QED  BY <1>6, <2>1, <2>2, <2>3, <2>4, <2>5 DEF World
<1>7. CASE UNCHANGED vars
  BY <1>7 DEF vars
<1>8. QED  BY <1>1, <1>2, <1>3, <1>4, <1>5, <1>6, <1>7 DEF Next, Step

-----------------------------------------------------------------------------
\* So do the calls, and a running call keeps its gift.
LEMMA CallsStep ==
  ASSUME LedgerOK, MarketOK, CallsOK, AtHand
  PROVE  [Next]_vars => CallsOK' /\ AtHand'
<1> USE DEF LedgerOK, MarketOK, CallsOK, AtHand
<1>1. ASSUME NEW w \in Workers, NEW g \in Gifts, NEW k \in {"auto", "manual"},
             NEW p \in Asks, Start(w, g, k, p)
      PROVE  CallsOK' /\ AtHand'
  BY MoneyAssumption, <1>1 DEF Start
<1>2. ASSUME NEW w \in Workers, Prepare(w)
      PROVE  CallsOK' /\ AtHand'
  <2>1. CASE Reserve(w)
    BY <2>1 DEF Reserve
  <2>2. CASE ReserveRefused(w)
    BY DayAssumption, <2>2, SMTT(60) DEF ReserveRefused, Return
  <2>3. CASE Reread(w)
    BY MoneyAssumption, <2>3 DEF Reread
  <2>4. CASE AllowAgain(w)
    BY <2>4 DEF AllowAgain
  <2>5. CASE GiveUp(w) \/ ErrAlreadyAttempted(w) \/ ReadFunds(w) \/ Abort(w)
    BY <2>5 DEF GiveUp, ErrAlreadyAttempted, ReadFunds, Abort
  <2>6. CASE ClaimBuy(w)
    BY <2>6 DEF ClaimBuy
  <2>7. CASE FinalQuote(w)
    BY <2>7 DEF FinalQuote
  <2>8. CASE ReleaseBuy(w)
    BY <2>8 DEF ReleaseBuy
  <2>9. QED  BY <1>2, <2>1, <2>2, <2>3, <2>4, <2>5, <2>6, <2>7, <2>8 DEF Prepare
<1>3. ASSUME NEW w \in Workers, Execute(w)
      PROVE  CallsOK' /\ AtHand'
  <2>1. CASE Send(w)
    BY <2>1 DEF Send
  <2>2. CASE SendCancelled(w) \/ RetryOnNextRoute(w)
    BY <2>2 DEF SendCancelled, RetryOnNextRoute
  <2>3. CASE SettleOK(w) \/ SettleAmbiguous(w) \/ Owned(w)
    BY <2>3 DEF SettleOK, Settles, SettleAmbiguous, Owned
  <2>4. CASE SettleRefused(w)
    BY <2>4 DEF SettleRefused, Settles
  <2>5. CASE SettleBlocked(w)
    BY <2>5 DEF SettleBlocked, Settles
  <2>6. CASE OwnershipUnknown(w)
    BY <2>6 DEF OwnershipUnknown
  <2>7. CASE NotOwned(w)
    BY <2>7 DEF NotOwned
  <2>8. QED  BY <1>3, <2>1, <2>2, <2>3, <2>4, <2>5, <2>6, <2>7 DEF Execute
<1>4. ASSUME NEW w \in Workers, Book(w)
      PROVE  CallsOK' /\ AtHand'
  <2>1. CASE FinishBought(w)
    BY <2>1 DEF FinishBought
  <2>2. CASE PriceIt(w)
    <3>1. cost' \in [Workers -> Nat]
      <4>1. Expected(w) \in Nat
        BY MoneyAssumption DEF CallsOK, Expected
      <4>2. QED  BY <2>2, <4>1 DEF CallsOK, PriceIt, Debits
    <3>2. QED  BY <2>2, <3>1 DEF CallsOK, AtHand, PriceIt
  <2>3. CASE Commit(w)
    BY <2>3 DEF Commit
  <2>4. CASE RecordPosition(w)
    BY <2>4 DEF RecordPosition
  <2>5. CASE ListOrSuggest(w)
    BY <2>5 DEF ListOrSuggest
  <2>6. CASE Leave(w)
    <3>1. bookDay' \in [Workers -> Days]
      BY <2>6, DayAssumption DEF CallsOK, Leave, Return
    <3>2. AtHand' /\ permit' \in Workers \cup {Nobody}
      BY <2>6 DEF CallsOK, AtHand, Leave, Return
    <3>3. QED  BY <2>6, <3>1, <3>2 DEF CallsOK, Leave, Return
  <2>7. QED  BY <1>4, <2>1, <2>2, <2>3, <2>4, <2>5, <2>6 DEF Book
<1>5. CASE Operator
  BY <1>5 DEF Operator, Arm, Disarm, Pause, PauseEnds
<1>6. CASE World
  <2>1. ASSUME NEW w \in Workers, Cancel(w)  PROVE CallsOK' /\ AtHand'
    BY <2>1 DEF Cancel
  <2>2. CASE Crash
    BY DayAssumption, <2>2 DEF Crash
  <2>3. ASSUME NEW g \in Gifts, Taken(g) \/ Sold(g) \/ Offered(g)  PROVE CallsOK' /\ AtHand'
    BY <2>3 DEF Taken, Sold, Offered
  <2>4. ASSUME NEW g \in Gifts, NEW p \in Asks, Reprice(g, p)  PROVE CallsOK' /\ AtHand'
    BY <2>4 DEF Reprice
  <2>5. CASE NextDay
    BY <2>5 DEF NextDay
  <2>6. QED  BY <1>6, <2>1, <2>2, <2>3, <2>4, <2>5 DEF World
<1>7. CASE UNCHANGED vars
  BY <1>7 DEF vars
<1>8. QED  BY <1>1, <1>2, <1>3, <1>4, <1>5, <1>6, <1>7 DEF Next, Step

-----------------------------------------------------------------------------
\* So do the switches.
LEMMA SwitchesStep ==
  ASSUME SwitchesOK
  PROVE  [Next]_vars => SwitchesOK'
<1> USE DEF SwitchesOK
<1>1. ASSUME NEW w \in Workers, NEW g \in Gifts, NEW k \in {"auto", "manual"},
             NEW p \in Asks, Start(w, g, k, p)
      PROVE  SwitchesOK'
  BY <1>1 DEF Start
<1>2. ASSUME NEW w \in Workers, Prepare(w)
      PROVE  SwitchesOK'
  <2>1. CASE AllowAgain(w) \/ GiveUp(w) \/ ErrAlreadyAttempted(w) \/
    ReadFunds(w) \/ FinalQuote(w) \/ Abort(w)
    BY <2>1 DEF AllowAgain, GiveUp, ErrAlreadyAttempted, ReadFunds,
      FinalQuote, Abort
  <2>2. CASE Reserve(w)
    BY <2>2 DEF Reserve
  <2>3. CASE ReserveRefused(w)
    BY <2>3 DEF ReserveRefused, Return
  <2>4. CASE Reread(w)
    BY <2>4 DEF Reread
  <2>5. CASE ClaimBuy(w) \/ ReleaseBuy(w)
    BY <2>5 DEF ClaimBuy, ReleaseBuy
  <2>6. QED  BY <1>2, <2>1, <2>2, <2>3, <2>4, <2>5 DEF Prepare
<1>3. ASSUME NEW w \in Workers, Execute(w)
      PROVE  SwitchesOK'
  <2>1. CASE RetryOnNextRoute(w) \/ SettleOK(w) \/ SettleAmbiguous(w) \/
    Owned(w)
    BY <2>1 DEF RetryOnNextRoute, SettleOK, SettleAmbiguous, Owned
  <2>2. CASE SendCancelled(w)
    BY <2>2 DEF SendCancelled
  <2>3. CASE Send(w)
    BY <2>3 DEF Send, DisarmWith
  <2>4. CASE SettleRefused(w) \/ NotOwned(w)
    BY <2>4 DEF SettleRefused, RecordFailure, DisarmWith, NotOwned
  <2>5. CASE SettleBlocked(w) \/ OwnershipUnknown(w)
    BY <2>5 DEF SettleBlocked, DisarmWith, OwnershipUnknown
  <2>6. QED  BY <1>3, <2>1, <2>2, <2>3, <2>4, <2>5 DEF Execute
<1>4. ASSUME NEW w \in Workers, Book(w)
      PROVE  SwitchesOK'
  <2>1. CASE ListOrSuggest(w) \/ Leave(w)
    BY <2>1 DEF ListOrSuggest, Leave, Return
  <2>2. CASE FinishBought(w)
    BY <2>2 DEF FinishBought
  <2>3. CASE PriceIt(w)
    BY <2>3 DEF PriceIt, DisarmWith
  <2>4. CASE Commit(w)
    BY <2>4 DEF Commit, DisarmWith
  <2>5. CASE RecordPosition(w)
    BY <2>5 DEF RecordPosition, DisarmWith
  <2>6. QED  BY <1>4, <2>1, <2>2, <2>3, <2>4, <2>5 DEF Book
<1>5. CASE Operator
  BY <1>5 DEF Operator, Arm, Disarm, DisarmWith, Pause, PauseEnds
<1>6. CASE World
  <2>1. ASSUME NEW w \in Workers, Cancel(w)  PROVE SwitchesOK'
    BY <2>1 DEF Cancel
  <2>2. CASE Crash
    BY <2>2 DEF Crash
  <2>3. ASSUME NEW g \in Gifts, Taken(g) \/ Sold(g) \/ Offered(g)  PROVE SwitchesOK'
    BY <2>3 DEF Taken, Sold, Offered
  <2>4. ASSUME NEW g \in Gifts, NEW p \in Asks, Reprice(g, p)  PROVE SwitchesOK'
    BY <2>4 DEF Reprice
  <2>5. CASE NextDay
    BY <2>5 DEF NextDay
  <2>6. QED  BY <1>6, <2>1, <2>2, <2>3, <2>4, <2>5 DEF World
<1>7. CASE UNCHANGED vars
  BY <1>7 DEF vars
<1>8. QED  BY <1>1, <1>2, <1>3, <1>4, <1>5, <1>6, <1>7 DEF Next, Step

-----------------------------------------------------------------------------
\* Only Reserve takes the permit, and only from nobody; only Leave and a crash give it up.
LEMMA HeldStep ==
  ASSUME CallsOK, Held
  PROVE  [Next]_vars => Held'
<1> USE DEF CallsOK, Held
<1>1. ASSUME NEW w \in Workers, NEW g \in Gifts, NEW k \in {"auto", "manual"},
             NEW p \in Asks, Start(w, g, k, p)
      PROVE  Held'
  BY <1>1 DEF Start
<1>2. ASSUME NEW w \in Workers, Prepare(w)
      PROVE  Held'
  <2>1. CASE Reserve(w)
    BY NobodyAssumption, <2>1 DEF Reserve
  <2>2. CASE ReserveRefused(w)
    BY <2>2 DEF ReserveRefused, Return
  <2>3. CASE Reread(w)
    BY <2>3 DEF Reread
  <2>4. CASE AllowAgain(w)
    BY <2>4 DEF AllowAgain
  <2>5. CASE GiveUp(w) \/ ErrAlreadyAttempted(w) \/ ReadFunds(w) \/ Abort(w)
    BY <2>5 DEF GiveUp, ErrAlreadyAttempted, ReadFunds, Abort
  <2>6. CASE ClaimBuy(w)
    BY <2>6 DEF ClaimBuy
  <2>7. CASE FinalQuote(w)
    BY <2>7 DEF FinalQuote
  <2>8. CASE ReleaseBuy(w)
    BY <2>8 DEF ReleaseBuy
  <2>9. QED  BY <1>2, <2>1, <2>2, <2>3, <2>4, <2>5, <2>6, <2>7, <2>8 DEF Prepare
<1>3. ASSUME NEW w \in Workers, Execute(w)
      PROVE  Held'
  <2>1. CASE Send(w)
    BY <2>1 DEF Send
  <2>2. CASE SendCancelled(w) \/ RetryOnNextRoute(w)
    BY <2>2 DEF SendCancelled, RetryOnNextRoute
  <2>3. CASE SettleOK(w) \/ SettleAmbiguous(w) \/ Owned(w)
    BY <2>3 DEF SettleOK, Settles, SettleAmbiguous, Owned
  <2>4. CASE SettleRefused(w)
    BY <2>4 DEF SettleRefused, Settles
  <2>5. CASE SettleBlocked(w)
    BY <2>5 DEF SettleBlocked, Settles
  <2>6. CASE OwnershipUnknown(w)
    BY <2>6 DEF OwnershipUnknown
  <2>7. CASE NotOwned(w)
    BY <2>7 DEF NotOwned
  <2>8. QED  BY <1>3, <2>1, <2>2, <2>3, <2>4, <2>5, <2>6, <2>7 DEF Execute
<1>4. ASSUME NEW w \in Workers, Book(w)
      PROVE  Held'
  <2>1. CASE FinishBought(w)
    BY <2>1 DEF FinishBought
  <2>2. CASE PriceIt(w)
    BY <2>2 DEF PriceIt
  <2>3. CASE Commit(w)
    BY <2>3 DEF Commit
  <2>4. CASE RecordPosition(w)
    BY <2>4 DEF RecordPosition
  <2>5. CASE ListOrSuggest(w)
    BY <2>5 DEF ListOrSuggest
  <2>6. CASE Leave(w)
    BY <2>6 DEF Leave, Return
  <2>7. QED  BY <1>4, <2>1, <2>2, <2>3, <2>4, <2>5, <2>6 DEF Book
<1>5. CASE Operator
  BY <1>5 DEF Operator, Arm, Disarm, Pause, PauseEnds
<1>6. CASE World
  <2>1. ASSUME NEW w \in Workers, Cancel(w)  PROVE Held'
    BY <2>1 DEF Cancel
  <2>2. CASE Crash
    BY <2>2 DEF Crash
  <2>3. ASSUME NEW g \in Gifts, Taken(g) \/ Sold(g) \/ Offered(g)  PROVE Held'
    BY <2>3 DEF Taken, Sold, Offered
  <2>4. ASSUME NEW g \in Gifts, NEW p \in Asks, Reprice(g, p)  PROVE Held'
    BY <2>4 DEF Reprice
  <2>5. CASE NextDay
    BY <2>5 DEF NextDay
  <2>6. QED  BY <1>6, <2>1, <2>2, <2>3, <2>4, <2>5 DEF World
<1>7. CASE UNCHANGED vars
  BY <1>7 DEF vars
<1>8. QED  BY <1>1, <1>2, <1>3, <1>4, <1>5, <1>6, <1>7 DEF Next, Step

-----------------------------------------------------------------------------
\* A claim changes hands with the stage of the call that owns it.
LEMMA ClaimStep ==
  ASSUME RowsOK, MarketOK, CallsOK, AtHand, Held, ClaimFollows
  PROVE  [Next]_vars => ClaimFollows'
<1> USE DEF RowsOK, MarketOK, CallsOK, AtHand, Held, ClaimFollows, Asking,
  Writing, Booking
<1>1. ASSUME NEW w \in Workers, NEW g \in Gifts, NEW k \in {"auto", "manual"},
             NEW p \in Asks, Start(w, g, k, p)
      PROVE  ClaimFollows'
  BY <1>1 DEF Start
<1>2. ASSUME NEW w \in Workers, Prepare(w)
      PROVE  ClaimFollows'
  <2>1. CASE Reserve(w)
    BY <2>1 DEF Reserve
  <2>2. CASE ReserveRefused(w)
    BY <2>2 DEF ReserveRefused, Return
  <2>3. CASE Reread(w)
    BY <2>3 DEF Reread
  <2>4. CASE AllowAgain(w)
    BY <2>4 DEF AllowAgain
  <2>5. CASE GiveUp(w) \/ ErrAlreadyAttempted(w) \/ ReadFunds(w) \/ Abort(w)
    BY <2>5 DEF GiveUp, ErrAlreadyAttempted, ReadFunds, Abort
  <2>6. CASE ClaimBuy(w)
    BY <2>6 DEF ClaimBuy
  <2>7. CASE FinalQuote(w)
    BY <2>7 DEF FinalQuote
  <2>8. CASE ReleaseBuy(w)
    BY <2>8 DEF ReleaseBuy
  <2>9. QED  BY <1>2, <2>1, <2>2, <2>3, <2>4, <2>5, <2>6, <2>7, <2>8 DEF Prepare
<1>3. ASSUME NEW w \in Workers, Execute(w)
      PROVE  ClaimFollows'
  <2>1. CASE Send(w)
    BY <2>1 DEF Send
  <2>2. CASE SendCancelled(w) \/ RetryOnNextRoute(w)
    BY <2>2 DEF SendCancelled, RetryOnNextRoute
  <2>3. CASE SettleOK(w) \/ SettleAmbiguous(w) \/ Owned(w)
    BY <2>3 DEF SettleOK, Settles, SettleAmbiguous, Owned
  <2>4. CASE SettleRefused(w)
    BY <2>4 DEF SettleRefused, Settles, FinishBuy
  <2>5. CASE SettleBlocked(w)
    BY <2>5 DEF SettleBlocked, Settles, FinishBuy
  <2>6. CASE OwnershipUnknown(w)
    BY <2>6 DEF OwnershipUnknown, FinishBuy
  <2>7. CASE NotOwned(w)
    BY <2>7 DEF NotOwned, FinishBuy
  <2>8. QED  BY <1>3, <2>1, <2>2, <2>3, <2>4, <2>5, <2>6, <2>7 DEF Execute
<1>4. ASSUME NEW w \in Workers, Book(w)
      PROVE  ClaimFollows'
  <2>1. CASE FinishBought(w)
    BY <2>1 DEF FinishBought, FinishBuy
  <2>2. CASE PriceIt(w)
    BY <2>2 DEF PriceIt
  <2>3. CASE Commit(w)
    BY <2>3 DEF Commit
  <2>4. CASE RecordPosition(w)
    BY <2>4 DEF RecordPosition
  <2>5. CASE ListOrSuggest(w)
    BY <2>5 DEF ListOrSuggest
  <2>6. CASE Leave(w)
    BY <2>6 DEF Leave, Return
  <2>7. QED  BY <1>4, <2>1, <2>2, <2>3, <2>4, <2>5, <2>6 DEF Book
<1>5. CASE Operator
  <2>1. CASE Arm
    BY <2>1 DEF Arm
  <2>2. CASE Disarm
    BY <2>2 DEF Disarm
  <2>3. CASE Pause \/ PauseEnds
    BY <2>3 DEF Pause, PauseEnds
  <2>4. QED  BY <1>5, <2>1, <2>2, <2>3 DEF Operator
<1>6. CASE World
  <2>1. ASSUME NEW w \in Workers, Cancel(w)  PROVE ClaimFollows'
    BY <2>1 DEF Cancel
  <2>2. CASE Crash
    BY <2>2 DEF Crash
  <2>3. ASSUME NEW g \in Gifts, Taken(g) \/ Sold(g) \/ Offered(g)  PROVE ClaimFollows'
    BY <2>3 DEF Taken, Sold, Offered
  <2>4. ASSUME NEW g \in Gifts, NEW p \in Asks, Reprice(g, p)  PROVE ClaimFollows'
    BY <2>4 DEF Reprice
  <2>5. CASE NextDay
    BY <2>5 DEF NextDay
  <2>6. QED  BY <1>6, <2>1, <2>2, <2>3, <2>4, <2>5 DEF World
<1>7. CASE UNCHANGED vars
  BY <1>7 DEF vars
<1>8. QED  BY <1>1, <1>2, <1>3, <1>4, <1>5, <1>6, <1>7 DEF Next, Step

-----------------------------------------------------------------------------
\* A position is written only by a call whose claim says "bought".
LEMMA PositionStep ==
  ASSUME RowsOK, CallsOK, ClaimFollows, RowsFollowClaims
  PROVE  [Next]_vars => RowsFollowClaims'
<1> USE DEF RowsOK, CallsOK, ClaimFollows, RowsFollowClaims, Asking, Writing,
  Booking
<1>1. ASSUME NEW w \in Workers, NEW g \in Gifts, NEW k \in {"auto", "manual"},
             NEW p \in Asks, Start(w, g, k, p)
      PROVE  RowsFollowClaims'
  BY <1>1 DEF Start
<1>2. ASSUME NEW w \in Workers, Prepare(w)
      PROVE  RowsFollowClaims'
  <2>1. CASE Reserve(w)
    BY <2>1 DEF Reserve
  <2>2. CASE ReserveRefused(w)
    BY <2>2 DEF ReserveRefused
  <2>3. CASE Reread(w)
    BY <2>3 DEF Reread
  <2>4. CASE AllowAgain(w)
    BY <2>4 DEF AllowAgain
  <2>5. CASE GiveUp(w) \/ ErrAlreadyAttempted(w) \/ ReadFunds(w) \/ Abort(w)
    BY <2>5 DEF GiveUp, ErrAlreadyAttempted, ReadFunds, Abort
  <2>6. CASE ClaimBuy(w)
    BY <2>6 DEF ClaimBuy
  <2>7. CASE FinalQuote(w)
    BY <2>7 DEF FinalQuote
  <2>8. CASE ReleaseBuy(w)
    BY <2>8 DEF ReleaseBuy
  <2>9. QED  BY <1>2, <2>1, <2>2, <2>3, <2>4, <2>5, <2>6, <2>7, <2>8 DEF Prepare
<1>3. ASSUME NEW w \in Workers, Execute(w)
      PROVE  RowsFollowClaims'
  <2>1. CASE Send(w)
    BY <2>1 DEF Send
  <2>2. CASE SendCancelled(w) \/ RetryOnNextRoute(w)
    BY <2>2 DEF SendCancelled, RetryOnNextRoute
  <2>3. CASE SettleOK(w) \/ SettleAmbiguous(w) \/ Owned(w)
    BY <2>3 DEF SettleOK, Settles, SettleAmbiguous, Owned
  <2>4. CASE SettleRefused(w)
    BY <2>4 DEF SettleRefused, Settles, FinishBuy
  <2>5. CASE SettleBlocked(w)
    BY <2>5 DEF SettleBlocked, Settles, FinishBuy
  <2>6. CASE OwnershipUnknown(w)
    BY <2>6 DEF OwnershipUnknown, FinishBuy
  <2>7. CASE NotOwned(w)
    BY <2>7 DEF NotOwned, FinishBuy
  <2>8. QED  BY <1>3, <2>1, <2>2, <2>3, <2>4, <2>5, <2>6, <2>7 DEF Execute
<1>4. ASSUME NEW w \in Workers, Book(w)
      PROVE  RowsFollowClaims'
  <2>1. CASE FinishBought(w)
    BY <2>1 DEF FinishBought, FinishBuy
  <2>2. CASE PriceIt(w)
    BY <2>2 DEF PriceIt
  <2>3. CASE Commit(w)
    BY <2>3 DEF Commit
  <2>4. CASE RecordPosition(w)
    BY <2>4, ZenonT(60) DEF RecordPosition
  <2>5. CASE ListOrSuggest(w)
    BY <2>5 DEF ListOrSuggest
  <2>6. CASE Leave(w)
    BY <2>6 DEF Leave
  <2>7. QED  BY <1>4, <2>1, <2>2, <2>3, <2>4, <2>5, <2>6 DEF Book
<1>5. CASE Operator
  BY <1>5 DEF Operator, Arm, Disarm, Pause, PauseEnds
<1>6. CASE World
  <2>1. ASSUME NEW w \in Workers, Cancel(w)  PROVE RowsFollowClaims'
    BY <2>1 DEF Cancel
  <2>2. CASE Crash
    BY <2>2 DEF Crash
  <2>3. ASSUME NEW g \in Gifts, Taken(g) \/ Sold(g) \/ Offered(g)  PROVE RowsFollowClaims'
    BY <2>3 DEF Taken, Sold, Offered
  <2>4. ASSUME NEW g \in Gifts, NEW p \in Asks, Reprice(g, p)  PROVE RowsFollowClaims'
    BY <2>4 DEF Reprice
  <2>5. CASE NextDay
    BY <2>5 DEF NextDay
  <2>6. QED  BY <1>6, <2>1, <2>2, <2>3, <2>4, <2>5 DEF World
<1>7. CASE UNCHANGED vars
  BY <1>7 DEF vars
<1>8. QED  BY <1>1, <1>2, <1>3, <1>4, <1>5, <1>6, <1>7 DEF Next, Step

-----------------------------------------------------------------------------
\* A call sends at most one request per route, and only the claimer sends.
LEMMA RequestsStep ==
  ASSUME MarketOK, CallsOK, AtHand, Held, ClaimFollows, RequestsCounted
  PROVE  [Next]_vars => RequestsCounted'
<1> USE RouteAssumption DEF MarketOK, CallsOK, AtHand, Held, ClaimFollows,
  RequestsCounted, RequestsBounded, Asking, Writing, Booking
<1>1. ASSUME NEW w \in Workers, NEW g \in Gifts, NEW k \in {"auto", "manual"},
             NEW p \in Asks, Start(w, g, k, p)
      PROVE  RequestsCounted'
  BY <1>1 DEF Start
<1>2. ASSUME NEW w \in Workers, Prepare(w)
      PROVE  RequestsCounted'
  <2>1. CASE Reserve(w)
    BY <2>1 DEF Reserve
  <2>2. CASE ReserveRefused(w)
    BY <2>2 DEF ReserveRefused, Return
  <2>3. CASE Reread(w)
    BY <2>3 DEF Reread
  <2>4. CASE AllowAgain(w)
    BY <2>4 DEF AllowAgain
  <2>5. CASE GiveUp(w) \/ ErrAlreadyAttempted(w) \/ ReadFunds(w) \/ Abort(w)
    BY <2>5 DEF GiveUp, ErrAlreadyAttempted, ReadFunds, Abort
  <2>6. CASE ClaimBuy(w)
    BY <2>6 DEF ClaimBuy
  <2>7. CASE FinalQuote(w)
    BY <2>7 DEF FinalQuote
  <2>8. CASE ReleaseBuy(w)
    BY <2>8 DEF ReleaseBuy
  <2>9. QED  BY <1>2, <2>1, <2>2, <2>3, <2>4, <2>5, <2>6, <2>7, <2>8 DEF Prepare
<1>3. ASSUME NEW w \in Workers, Execute(w)
      PROVE  RequestsCounted'
  <2>1. CASE Send(w)
    BY <2>1 DEF Send
  <2>2. CASE SendCancelled(w) \/ RetryOnNextRoute(w)
    BY <2>2 DEF SendCancelled, RetryOnNextRoute, MayRetry
  <2>3. CASE SettleOK(w) \/ SettleAmbiguous(w) \/ Owned(w)
    BY <2>3 DEF SettleOK, Settles, SettleAmbiguous, Owned
  <2>4. CASE SettleRefused(w)
    BY <2>4 DEF SettleRefused, Settles
  <2>5. CASE SettleBlocked(w)
    BY <2>5 DEF SettleBlocked, Settles
  <2>6. CASE OwnershipUnknown(w)
    BY <2>6 DEF OwnershipUnknown
  <2>7. CASE NotOwned(w)
    BY <2>7 DEF NotOwned
  <2>8. QED  BY <1>3, <2>1, <2>2, <2>3, <2>4, <2>5, <2>6, <2>7 DEF Execute
<1>4. ASSUME NEW w \in Workers, Book(w)
      PROVE  RequestsCounted'
  <2>1. CASE FinishBought(w)
    BY <2>1 DEF FinishBought
  <2>2. CASE PriceIt(w)
    BY <2>2 DEF PriceIt
  <2>3. CASE Commit(w)
    BY <2>3 DEF Commit
  <2>4. CASE RecordPosition(w)
    BY <2>4 DEF RecordPosition
  <2>5. CASE ListOrSuggest(w)
    BY <2>5 DEF ListOrSuggest
  <2>6. CASE Leave(w)
    BY <2>6 DEF Leave, Return
  <2>7. QED  BY <1>4, <2>1, <2>2, <2>3, <2>4, <2>5, <2>6 DEF Book
<1>5. CASE Operator
  BY <1>5 DEF Operator, Arm, Disarm, Pause, PauseEnds
<1>6. CASE World
  <2>1. ASSUME NEW w \in Workers, Cancel(w)  PROVE RequestsCounted'
    BY <2>1 DEF Cancel
  <2>2. CASE Crash
    BY <2>2 DEF Crash
  <2>3. ASSUME NEW g \in Gifts, Taken(g) \/ Sold(g) \/ Offered(g)  PROVE RequestsCounted'
    BY <2>3 DEF Taken, Sold, Offered
  <2>4. ASSUME NEW g \in Gifts, NEW p \in Asks, Reprice(g, p)  PROVE RequestsCounted'
    BY <2>4 DEF Reprice
  <2>5. CASE NextDay
    BY <2>5 DEF NextDay
  <2>6. QED  BY <1>6, <2>1, <2>2, <2>3, <2>4, <2>5 DEF World
<1>7. CASE UNCHANGED vars
  BY <1>7 DEF vars
<1>8. QED  BY <1>1, <1>2, <1>3, <1>4, <1>5, <1>6, <1>7 DEF Next, Step

-----------------------------------------------------------------------------
\* A landed purchase makes the gift ours until a position row exists.
LEMMA LandedStep ==
  ASSUME MarketOK, CallsOK, AtHand, Held, ClaimFollows, RowsFollowClaims, LandedOnce
  PROVE  [Next]_vars => LandedOnce'
<1> USE DEF MarketOK, CallsOK, AtHand, Held, ClaimFollows, RowsFollowClaims,
  LandedOnce, OnePurchasePerGift, Asking, Writing
<1>1. ASSUME NEW w \in Workers, NEW g \in Gifts, NEW k \in {"auto", "manual"},
             NEW p \in Asks, Start(w, g, k, p)
      PROVE  LandedOnce'
  BY <1>1 DEF Start
<1>2. ASSUME NEW w \in Workers, Prepare(w)
      PROVE  LandedOnce'
  <2>1. CASE Reserve(w)
    BY <2>1 DEF Reserve
  <2>2. CASE ReserveRefused(w)
    BY <2>2 DEF ReserveRefused, Return
  <2>3. CASE Reread(w)
    BY <2>3 DEF Reread
  <2>4. CASE AllowAgain(w)
    BY <2>4 DEF AllowAgain
  <2>5. CASE GiveUp(w) \/ ErrAlreadyAttempted(w) \/ ReadFunds(w) \/ Abort(w)
    BY <2>5 DEF GiveUp, ErrAlreadyAttempted, ReadFunds, Abort
  <2>6. CASE ClaimBuy(w)
    BY <2>6 DEF ClaimBuy
  <2>7. CASE FinalQuote(w)
    BY <2>7 DEF FinalQuote
  <2>8. CASE ReleaseBuy(w)
    BY <2>8 DEF ReleaseBuy
  <2>9. QED  BY <1>2, <2>1, <2>2, <2>3, <2>4, <2>5, <2>6, <2>7, <2>8 DEF Prepare
<1>3. ASSUME NEW w \in Workers, Execute(w)
      PROVE  LandedOnce'
  <2>1. CASE Send(w)
    BY <2>1 DEF Send, MarketAnswers
  <2>2. CASE SendCancelled(w) \/ RetryOnNextRoute(w)
    BY <2>2 DEF SendCancelled, RetryOnNextRoute
  <2>3. CASE SettleOK(w) \/ SettleAmbiguous(w) \/ Owned(w)
    BY <2>3 DEF SettleOK, Settles, SettleAmbiguous, Owned
  <2>4. CASE SettleRefused(w)
    BY <2>4 DEF SettleRefused, Settles
  <2>5. CASE SettleBlocked(w)
    BY <2>5 DEF SettleBlocked, Settles
  <2>6. CASE OwnershipUnknown(w)
    BY <2>6 DEF OwnershipUnknown
  <2>7. CASE NotOwned(w)
    BY <2>7 DEF NotOwned
  <2>8. QED  BY <1>3, <2>1, <2>2, <2>3, <2>4, <2>5, <2>6, <2>7 DEF Execute
<1>4. ASSUME NEW w \in Workers, Book(w)
      PROVE  LandedOnce'
  <2>1. CASE FinishBought(w)
    BY <2>1 DEF FinishBought
  <2>2. CASE PriceIt(w)
    BY <2>2 DEF PriceIt
  <2>3. CASE Commit(w)
    BY <2>3 DEF Commit
  <2>4. CASE RecordPosition(w)
    BY <2>4 DEF RecordPosition
  <2>5. CASE ListOrSuggest(w)
    BY <2>5 DEF ListOrSuggest
  <2>6. CASE Leave(w)
    BY <2>6 DEF Leave, Return
  <2>7. QED  BY <1>4, <2>1, <2>2, <2>3, <2>4, <2>5, <2>6 DEF Book
<1>5. CASE Operator
  BY <1>5 DEF Operator, Arm, Disarm, Pause, PauseEnds
<1>6. CASE World
  <2>1. ASSUME NEW w \in Workers, Cancel(w)  PROVE LandedOnce'
    BY <2>1 DEF Cancel
  <2>2. CASE Crash
    BY <2>2 DEF Crash
  <2>3. ASSUME NEW g \in Gifts, Taken(g) \/ Sold(g) \/ Offered(g)  PROVE LandedOnce'
    BY <2>3 DEF Taken, Sold, Offered
  <2>4. ASSUME NEW g \in Gifts, NEW p \in Asks, Reprice(g, p)  PROVE LandedOnce'
    BY <2>4 DEF Reprice
  <2>5. CASE NextDay
    BY <2>5 DEF NextDay
  <2>6. QED  BY <1>6, <2>1, <2>2, <2>3, <2>4, <2>5 DEF World
<1>7. CASE UNCHANGED vars
  BY <1>7 DEF vars
<1>8. QED  BY <1>1, <1>2, <1>3, <1>4, <1>5, <1>6, <1>7 DEF Next, Step

-----------------------------------------------------------------------------
\* Room for an unattended purchase survives midnight and other callers.
LEMMA RoomStep ==
  ASSUME LedgerOK, CallsOK, Held, RoomReserved
  PROVE  [Next]_vars => RoomReserved'
<1>1. ASSUME NEW w \in Workers, NEW g \in Gifts, NEW k \in {"auto", "manual"},
             NEW p \in Asks, Start(w, g, k, p)
      PROVE  RoomReserved'
  BY MoneyAssumption, <1>1 DEF LedgerOK, CallsOK, Held, RoomReserved,
    AutoWithinBudget, Expected, Asking, Writing, Start
<1>2. ASSUME NEW w \in Workers, Prepare(w)
      PROVE  RoomReserved'
  <2>1. CASE Reserve(w)
    BY MoneyAssumption, <2>1 DEF LedgerOK, CallsOK, Held, RoomReserved,
      AutoWithinBudget, Expected, Asking, Writing, Reserve
  <2>2. CASE ReserveRefused(w)
    BY MoneyAssumption, <2>2 DEF LedgerOK, CallsOK, Held, RoomReserved,
      AutoWithinBudget, Expected, Asking, Writing, ReserveRefused, Return
  <2>3. CASE Reread(w)
    BY MoneyAssumption, <2>3, SMTT(60) DEF LedgerOK, CallsOK, Held, RoomReserved,
      AutoWithinBudget, Expected, Asking, Writing, Reread
  <2>4. CASE AllowAgain(w)
    BY MoneyAssumption, <2>4 DEF LedgerOK, CallsOK, Held, RoomReserved,
      AutoWithinBudget, Expected, Asking, Writing, AllowAgain, Allowed
  <2>5. CASE GiveUp(w)
    BY MoneyAssumption, <2>5 DEF LedgerOK, CallsOK, Held, RoomReserved,
      AutoWithinBudget, Expected, Asking, Writing, GiveUp
  <2>6. CASE ClaimBuy(w)
    <3>1. \A v \in Workers : v # w => stage[v] \in {"idle", "waiting"} /\ stage'[v] = stage[v]
      BY <2>6 DEF CallsOK, Held, ClaimBuy
    <3>2. \A v \in Workers : bookDay'[v] <= day
      BY <2>6 DEF LedgerOK, CallsOK, RoomReserved, ClaimBuy
    <3>3. kind[w] = "auto" => bookDay'[w] = day /\ spent[day] + Expected(w) <= DailyBudget
      BY <2>6 DEF CallsOK, RoomReserved, ClaimBuy
    <3>4. stage'[w] = "funds"
      BY <2>6 DEF CallsOK, ClaimBuy
    <3>5. QED
      BY <2>6, <3>1, <3>2, <3>3, <3>4 DEF RoomReserved, AutoWithinBudget, Expected, Asking, Writing, ClaimBuy
  <2>7. CASE ErrAlreadyAttempted(w)
    BY MoneyAssumption, <2>7 DEF LedgerOK, CallsOK, Held, RoomReserved,
      AutoWithinBudget, Expected, Asking, Writing, ErrAlreadyAttempted
  <2>8. CASE ReadFunds(w)
    BY MoneyAssumption, <2>8 DEF LedgerOK, CallsOK, Held, RoomReserved,
      AutoWithinBudget, Expected, Asking, Writing, ReadFunds
  <2>9. CASE FinalQuote(w)
    BY MoneyAssumption, <2>9 DEF LedgerOK, CallsOK, Held, RoomReserved,
      AutoWithinBudget, Expected, Asking, Writing, FinalQuote
  <2>10. CASE Abort(w)
    BY MoneyAssumption, <2>10 DEF LedgerOK, CallsOK, Held, RoomReserved,
      AutoWithinBudget, Expected, Asking, Writing, Abort
  <2>11. CASE ReleaseBuy(w)
    BY MoneyAssumption, <2>11 DEF LedgerOK, CallsOK, Held, RoomReserved,
      AutoWithinBudget, Expected, Asking, Writing, ReleaseBuy
  <2>12. QED  BY <1>2, <2>1, <2>2, <2>3, <2>4, <2>5, <2>6, <2>7, <2>8, <2>9, <2>10, <2>11 DEF Prepare
<1>3. ASSUME NEW w \in Workers, Execute(w)
      PROVE  RoomReserved'
  <2>1. CASE Send(w)
    BY MoneyAssumption, <2>1 DEF LedgerOK, CallsOK, Held, RoomReserved,
      AutoWithinBudget, Expected, Asking, Writing, Send
  <2>2. CASE SendCancelled(w)
    BY MoneyAssumption, <2>2 DEF LedgerOK, CallsOK, Held, RoomReserved,
      AutoWithinBudget, Expected, Asking, Writing, SendCancelled
  <2>3. CASE RetryOnNextRoute(w)
    BY MoneyAssumption, <2>3 DEF LedgerOK, CallsOK, Held, RoomReserved,
      AutoWithinBudget, Expected, Asking, Writing, RetryOnNextRoute
  <2>4. CASE SettleOK(w)
    BY MoneyAssumption, <2>4 DEF LedgerOK, CallsOK, Held, RoomReserved,
      AutoWithinBudget, Expected, Asking, Writing, SettleOK, Settles
  <2>5. CASE SettleRefused(w)
    BY MoneyAssumption, <2>5 DEF LedgerOK, CallsOK, Held, RoomReserved,
      AutoWithinBudget, Expected, Asking, Writing, SettleRefused, Settles
  <2>6. CASE SettleBlocked(w)
    BY MoneyAssumption, <2>6 DEF LedgerOK, CallsOK, Held, RoomReserved,
      AutoWithinBudget, Expected, Asking, Writing, SettleBlocked, Settles
  <2>7. CASE SettleAmbiguous(w)
    BY MoneyAssumption, <2>7 DEF LedgerOK, CallsOK, Held, RoomReserved,
      AutoWithinBudget, Expected, Asking, Writing, SettleAmbiguous, Settles
  <2>8. CASE OwnershipUnknown(w)
    BY MoneyAssumption, <2>8 DEF LedgerOK, CallsOK, Held, RoomReserved,
      AutoWithinBudget, Expected, Asking, Writing, OwnershipUnknown
  <2>9. CASE Owned(w)
    BY MoneyAssumption, <2>9 DEF LedgerOK, CallsOK, Held, RoomReserved,
      AutoWithinBudget, Expected, Asking, Writing, Owned
  <2>10. CASE NotOwned(w)
    BY MoneyAssumption, <2>10 DEF LedgerOK, CallsOK, Held, RoomReserved,
      AutoWithinBudget, Expected, Asking, Writing, NotOwned
  <2>11. QED  BY <1>3, <2>1, <2>2, <2>3, <2>4, <2>5, <2>6, <2>7, <2>8, <2>9, <2>10 DEF Execute
<1>4. ASSUME NEW w \in Workers, Book(w)
      PROVE  RoomReserved'
  <2>1. CASE FinishBought(w)
    BY MoneyAssumption, <2>1 DEF LedgerOK, CallsOK, Held, RoomReserved,
      AutoWithinBudget, Expected, Asking, Writing, FinishBought
  <2>2. CASE PriceIt(w)
    BY MoneyAssumption, <2>2 DEF LedgerOK, CallsOK, Held, RoomReserved,
      AutoWithinBudget, Expected, Asking, Writing, PriceIt
  <2>3. CASE Commit(w)
    <3>1. \A v \in Workers : stage'[v] \in {"idle", "waiting", "record"}
      BY <2>3 DEF CallsOK, Held, Commit
    <3>2. CASE dead[w]
      BY <2>3, <3>1, <3>2 DEF RoomReserved, AutoWithinBudget, Asking, Writing, Commit
    <3>3. CASE ~dead[w]
      <4> DEFINE d == bookDay[w]
                 least == Lesser(cost[w], Expected(w))
      <4>1. d \in Days /\ d <= day /\ cost[w] \in Nat /\ Expected(w) \in Nat
        BY MoneyAssumption DEF CallsOK, RoomReserved, Expected
      <4>2. least \in Nat /\ least <= cost[w] /\ least <= Expected(w)
        BY <4>1 DEF Lesser
      <4>3. \A e \in Days : spent'[e] = IF e = d THEN spent[e] + cost[w] ELSE spent[e]
        BY <2>3, <3>3 DEF LedgerOK, Commit
      <4>4. autoBooked' = autoBooked
              \/ (kind[w] = "auto" /\ autoBooked' = [autoBooked EXCEPT ![d] = autoBooked[d] + least])
        BY <2>3, <3>3 DEF Commit
      <4>5. kind[w] = "auto" => spent[d] + Expected(w) <= DailyBudget
        BY <2>3 DEF RoomReserved, Commit
      <4> HIDE DEF d, least
      <4>6. ASSUME NEW e \in Days
            PROVE  (e > day => spent'[e] = 0) /\ autoBooked'[e] <= spent'[e]
        <5>1. spent[e] \in Nat /\ autoBooked[e] \in Nat /\ e \in Nat /\ day \in Nat
          BY DEF LedgerOK
        <5>2. (e > day => spent[e] = 0) /\ autoBooked[e] <= spent[e]
          BY DEF RoomReserved
        <5>3. autoBooked'[e] = autoBooked[e] \/ (e = d /\ autoBooked'[e] = autoBooked[e] + least)
          BY <4>4 DEF LedgerOK
        <5>4. QED  BY <4>1, <4>2, <4>3, <5>1, <5>2, <5>3
      <4>7. ASSUME NEW e \in Days
            PROVE  autoBooked'[e] <= DailyBudget
        <5>1. spent[e] \in Nat /\ autoBooked[e] \in Nat
          BY DEF LedgerOK
        <5>2. autoBooked[e] <= spent[e] /\ autoBooked[e] <= DailyBudget
          BY DEF RoomReserved, AutoWithinBudget
        <5>3. autoBooked'[e] = autoBooked[e]
                \/ (kind[w] = "auto" /\ e = d /\ autoBooked'[e] = autoBooked[e] + least)
          BY <4>4 DEF LedgerOK
        <5>4. QED  BY <4>1, <4>2, <4>5, <5>1, <5>2, <5>3, MoneyAssumption
      <4>8. QED
        BY <2>3, <3>1, <4>6, <4>7 DEF RoomReserved, AutoWithinBudget, Asking, Writing, Commit
    <3>4. QED  BY <3>2, <3>3
  <2>4. CASE RecordPosition(w)
    BY MoneyAssumption, <2>4 DEF LedgerOK, CallsOK, Held, RoomReserved,
      AutoWithinBudget, Expected, Asking, Writing, RecordPosition
  <2>5. CASE ListOrSuggest(w)
    BY MoneyAssumption, <2>5 DEF LedgerOK, CallsOK, Held, RoomReserved,
      AutoWithinBudget, Expected, Asking, Writing, ListOrSuggest
  <2>6. CASE Leave(w)
    BY MoneyAssumption, <2>6 DEF LedgerOK, CallsOK, Held, RoomReserved,
      AutoWithinBudget, Expected, Asking, Writing, Leave, Return
  <2>7. QED  BY <1>4, <2>1, <2>2, <2>3, <2>4, <2>5, <2>6 DEF Book
<1>5. CASE Operator
  BY MoneyAssumption, <1>5 DEF LedgerOK, CallsOK, Held, RoomReserved,
    AutoWithinBudget, Expected, Asking, Writing, Operator, Arm, Disarm, Pause,
    PauseEnds
<1>6. CASE World
  <2>1. ASSUME NEW w \in Workers, Cancel(w)  PROVE RoomReserved'
    BY MoneyAssumption, <2>1 DEF LedgerOK, CallsOK, Held, RoomReserved,
      AutoWithinBudget, Expected, Asking, Writing, Cancel
  <2>2. CASE Crash
    BY MoneyAssumption, <2>2 DEF LedgerOK, CallsOK, Held, RoomReserved,
      AutoWithinBudget, Expected, Asking, Writing, Crash
  <2>3. ASSUME NEW g \in Gifts, Taken(g) \/ Sold(g) \/ Offered(g)  PROVE RoomReserved'
    BY MoneyAssumption, <2>3, ZenonT(60) DEF LedgerOK, CallsOK, Held, RoomReserved,
      AutoWithinBudget, Expected, Asking, Writing, Taken, Sold, Offered
  <2>4. ASSUME NEW g \in Gifts, NEW p \in Asks, Reprice(g, p)  PROVE RoomReserved'
    BY MoneyAssumption, <2>4 DEF LedgerOK, CallsOK, Held, RoomReserved,
      AutoWithinBudget, Expected, Asking, Writing, Reprice
  <2>5. CASE NextDay
    <3>1. day' \in Days /\ day' > day /\ spent[day'] = 0
      BY <2>5, DayAssumption DEF LedgerOK, RoomReserved, NextDay
    <3>2. \A v \in Workers : bookDay[v] \in Nat /\ bookDay[v] <= day'
      BY <2>5, <3>1 DEF LedgerOK, CallsOK, RoomReserved, NextDay
    <3>3. ASSUME NEW v \in Workers, kind[v] = "auto", stage[v] = "claim"
          PROVE  spent[day'] + Expected(v) <= DailyBudget
      <4>1. spent[day] + Expected(v) <= DailyBudget
        BY <3>3 DEF RoomReserved
      <4>2. spent[day] \in Nat /\ Expected(v) \in Nat /\ DailyBudget \in Nat
        BY MoneyAssumption, SMTT(60) DEF LedgerOK, CallsOK, Expected
      <4>3. QED  BY <3>1, <4>1, <4>2
    <3>4. \A d \in Days : d > day' => spent[d] = 0
      BY <3>1 DEF LedgerOK, RoomReserved
    <3>5. QED
      BY <2>5, <3>2, <3>3, <3>4 DEF RoomReserved, AutoWithinBudget, Expected, NextDay
  <2>6. QED  BY <1>6, <2>1, <2>2, <2>3, <2>4, <2>5 DEF World
<1>7. CASE UNCHANGED vars
  BY MoneyAssumption, <1>7 DEF LedgerOK, CallsOK, Held, RoomReserved,
    AutoWithinBudget, Expected, Asking, Writing, vars
<1>8. QED  BY <1>1, <1>2, <1>3, <1>4, <1>5, <1>6, <1>7 DEF Next, Step

-----------------------------------------------------------------------------
\* Nothing moves a quote after its last check.
LEMMA TicketStep ==
  ASSUME CallsOK, TicketKept
  PROVE  [Next]_vars => TicketKept'
<1> USE MoneyAssumption DEF CallsOK, TicketKept, Expected, Asking, Writing
<1>1. ASSUME NEW w \in Workers, NEW g \in Gifts, NEW k \in {"auto", "manual"},
             NEW p \in Asks, Start(w, g, k, p)
      PROVE  TicketKept'
  BY <1>1 DEF Start
<1>2. ASSUME NEW w \in Workers, Prepare(w)
      PROVE  TicketKept'
  <2>1. CASE Reserve(w)
    BY <2>1 DEF Reserve
  <2>2. CASE ReserveRefused(w)
    BY <2>2 DEF ReserveRefused, Return
  <2>3. CASE Reread(w)
    BY <2>3 DEF Reread
  <2>4. CASE AllowAgain(w)
    BY <2>4 DEF AllowAgain, Allowed
  <2>5. CASE GiveUp(w) \/ ErrAlreadyAttempted(w) \/ ReadFunds(w) \/ Abort(w)
    BY <2>5 DEF GiveUp, ErrAlreadyAttempted, ReadFunds, Abort
  <2>6. CASE ClaimBuy(w)
    BY <2>6 DEF ClaimBuy
  <2>7. CASE FinalQuote(w)
    BY <2>7 DEF FinalQuote
  <2>8. CASE ReleaseBuy(w)
    BY <2>8 DEF ReleaseBuy
  <2>9. QED  BY <1>2, <2>1, <2>2, <2>3, <2>4, <2>5, <2>6, <2>7, <2>8 DEF Prepare
<1>3. ASSUME NEW w \in Workers, Execute(w)
      PROVE  TicketKept'
  <2>1. CASE Send(w)
    BY <2>1 DEF Send
  <2>2. CASE SendCancelled(w) \/ RetryOnNextRoute(w)
    BY <2>2 DEF SendCancelled, RetryOnNextRoute
  <2>3. CASE SettleOK(w) \/ SettleAmbiguous(w) \/ Owned(w)
    BY <2>3 DEF SettleOK, Settles, SettleAmbiguous, Owned
  <2>4. CASE SettleRefused(w)
    BY <2>4 DEF SettleRefused, Settles
  <2>5. CASE SettleBlocked(w)
    BY <2>5 DEF SettleBlocked, Settles
  <2>6. CASE OwnershipUnknown(w)
    BY <2>6 DEF OwnershipUnknown
  <2>7. CASE NotOwned(w)
    BY <2>7 DEF NotOwned
  <2>8. QED  BY <1>3, <2>1, <2>2, <2>3, <2>4, <2>5, <2>6, <2>7 DEF Execute
<1>4. ASSUME NEW w \in Workers, Book(w)
      PROVE  TicketKept'
  <2>1. CASE FinishBought(w)
    BY <2>1 DEF FinishBought
  <2>2. CASE PriceIt(w)
    BY <2>2 DEF PriceIt
  <2>3. CASE Commit(w)
    BY <2>3 DEF Commit
  <2>4. CASE RecordPosition(w)
    BY <2>4 DEF RecordPosition
  <2>5. CASE ListOrSuggest(w)
    BY <2>5 DEF ListOrSuggest
  <2>6. CASE Leave(w)
    BY <2>6 DEF Leave, Return
  <2>7. QED  BY <1>4, <2>1, <2>2, <2>3, <2>4, <2>5, <2>6 DEF Book
<1>5. CASE Operator
  BY <1>5 DEF Operator, Arm, Disarm, Pause, PauseEnds
<1>6. CASE World
  <2>1. ASSUME NEW w \in Workers, Cancel(w)  PROVE TicketKept'
    BY <2>1 DEF Cancel
  <2>2. CASE Crash
    BY <2>2 DEF Crash
  <2>3. ASSUME NEW g \in Gifts, Taken(g) \/ Sold(g) \/ Offered(g)  PROVE TicketKept'
    BY <2>3 DEF Taken, Sold, Offered
  <2>4. ASSUME NEW g \in Gifts, NEW p \in Asks, Reprice(g, p)  PROVE TicketKept'
    BY <2>4 DEF Reprice
  <2>5. CASE NextDay
    BY <2>5 DEF NextDay
  <2>6. QED  BY <1>6, <2>1, <2>2, <2>3, <2>4, <2>5 DEF World
<1>7. CASE UNCHANGED vars
  BY <1>7 DEF vars
<1>8. QED  BY <1>1, <1>2, <1>3, <1>4, <1>5, <1>6, <1>7 DEF Next, Step

-----------------------------------------------------------------------------
\* Disarming lets at most the purchase past its last check go out.
LEMMA LateStep ==
  ASSUME SwitchesOK, LedgerOK, CallsOK, Held, RequestsCounted, LateCounted
  PROVE  [Next]_vars => LateCounted'
<1>1. ASSUME NEW w \in Workers, NEW g \in Gifts, NEW k \in {"auto", "manual"},
             NEW p \in Asks, Start(w, g, k, p)
      PROVE  LateCounted'
  BY <1>1 DEF SwitchesOK, LedgerOK, CallsOK, Held, RequestsCounted,
    LateCounted, AtMostOneAfterDisarm, Asking, Writing, Booking, Start
<1>2. ASSUME NEW w \in Workers, Prepare(w)
      PROVE  LateCounted'
  <2>1. CASE Reserve(w)
    BY <2>1 DEF SwitchesOK, LedgerOK, CallsOK, Held, RequestsCounted,
      LateCounted, AtMostOneAfterDisarm, Asking, Writing, Booking, Reserve
  <2>2. CASE ReserveRefused(w)
    BY <2>2 DEF SwitchesOK, LedgerOK, CallsOK, Held, RequestsCounted,
      LateCounted, AtMostOneAfterDisarm, Asking, Writing, Booking,
      ReserveRefused, Return
  <2>3. CASE Reread(w)
    BY <2>3 DEF SwitchesOK, LedgerOK, CallsOK, Held, RequestsCounted,
      LateCounted, AtMostOneAfterDisarm, Asking, Writing, Booking, Reread
  <2>4. CASE AllowAgain(w)
    BY <2>4 DEF SwitchesOK, LedgerOK, CallsOK, Held, RequestsCounted,
      LateCounted, AtMostOneAfterDisarm, Asking, Writing, Booking, AllowAgain,
      Allowed
  <2>5. CASE GiveUp(w) \/ ErrAlreadyAttempted(w) \/ ReadFunds(w) \/ Abort(w)
    BY <2>5, SMTT(60) DEF SwitchesOK, LedgerOK, CallsOK, Held, RequestsCounted,
      LateCounted, AtMostOneAfterDisarm, Asking, Writing, Booking, GiveUp,
      ErrAlreadyAttempted, ReadFunds, Abort
  <2>6. CASE ClaimBuy(w)
    BY <2>6 DEF SwitchesOK, LedgerOK, CallsOK, Held, RequestsCounted,
      LateCounted, AtMostOneAfterDisarm, Asking, Writing, Booking, ClaimBuy
  <2>7. CASE FinalQuote(w)
    BY <2>7 DEF SwitchesOK, LedgerOK, CallsOK, Held, RequestsCounted,
      LateCounted, AtMostOneAfterDisarm, Asking, Writing, Booking, FinalQuote
  <2>8. CASE ReleaseBuy(w)
    BY <2>8 DEF SwitchesOK, LedgerOK, CallsOK, Held, RequestsCounted,
      LateCounted, AtMostOneAfterDisarm, Asking, Writing, Booking, ReleaseBuy
  <2>9. QED  BY <1>2, <2>1, <2>2, <2>3, <2>4, <2>5, <2>6, <2>7, <2>8 DEF Prepare
<1>3. ASSUME NEW w \in Workers, Execute(w)
      PROVE  LateCounted'
  <2>1. CASE Send(w)
    <3>1. \A v \in Workers : stage'[v] \in {"idle", "waiting", "answered"}
      BY <2>1 DEF CallsOK, Held, Send
    <3>2. armed' => armed
      BY <2>1 DEF SwitchesOK, Send, DisarmWith
    <3>3. lateAuto' # lateAuto => lateAuto = 0 /\ lateAuto' = 1 /\ ~armed
      BY <2>1 DEF LateCounted, Asking, Send
    <3>4. QED
      BY <2>1, <3>1, <3>2, <3>3 DEF LateCounted, AtMostOneAfterDisarm, Asking, Send
  <2>2. CASE SendCancelled(w) \/ RetryOnNextRoute(w)
    BY <2>2, SMTT(60) DEF SwitchesOK, LedgerOK, CallsOK, Held, RequestsCounted,
      LateCounted, AtMostOneAfterDisarm, Asking, Writing, Booking,
      SendCancelled, RetryOnNextRoute, MayRetry
  <2>3. CASE SettleOK(w) \/ SettleAmbiguous(w) \/ Owned(w)
    BY <2>3, SMTT(60) DEF SwitchesOK, LedgerOK, CallsOK, Held, RequestsCounted,
      LateCounted, AtMostOneAfterDisarm, Asking, Writing, Booking, SettleOK,
      Settles, SettleAmbiguous, Owned
  <2>4. CASE SettleRefused(w)
    BY <2>4 DEF SwitchesOK, LedgerOK, CallsOK, Held, RequestsCounted,
      LateCounted, AtMostOneAfterDisarm, Asking, Writing, Booking,
      SettleRefused, Settles, RecordFailure, DisarmWith
  <2>5. CASE SettleBlocked(w)
    BY <2>5 DEF SwitchesOK, LedgerOK, CallsOK, Held, RequestsCounted,
      LateCounted, AtMostOneAfterDisarm, Asking, Writing, Booking,
      SettleBlocked, Settles, DisarmWith
  <2>6. CASE OwnershipUnknown(w)
    BY <2>6 DEF SwitchesOK, LedgerOK, CallsOK, Held, RequestsCounted,
      LateCounted, AtMostOneAfterDisarm, Asking, Writing, Booking,
      OwnershipUnknown
  <2>7. CASE NotOwned(w)
    BY <2>7 DEF SwitchesOK, LedgerOK, CallsOK, Held, RequestsCounted,
      LateCounted, AtMostOneAfterDisarm, Asking, Writing, Booking, NotOwned,
      RecordFailure, DisarmWith
  <2>8. QED  BY <1>3, <2>1, <2>2, <2>3, <2>4, <2>5, <2>6, <2>7 DEF Execute
<1>4. ASSUME NEW w \in Workers, Book(w)
      PROVE  LateCounted'
  <2>1. CASE FinishBought(w)
    BY <2>1 DEF SwitchesOK, LedgerOK, CallsOK, Held, RequestsCounted,
      LateCounted, AtMostOneAfterDisarm, Asking, Writing, Booking,
      FinishBought
  <2>2. CASE PriceIt(w)
    BY <2>2 DEF SwitchesOK, LedgerOK, CallsOK, Held, RequestsCounted,
      LateCounted, AtMostOneAfterDisarm, Asking, Writing, Booking, PriceIt,
      DisarmWith
  <2>3. CASE Commit(w)
    BY <2>3 DEF SwitchesOK, LedgerOK, CallsOK, Held, RequestsCounted,
      LateCounted, AtMostOneAfterDisarm, Asking, Writing, Booking, Commit,
      DisarmWith
  <2>4. CASE RecordPosition(w)
    BY <2>4 DEF SwitchesOK, LedgerOK, CallsOK, Held, RequestsCounted,
      LateCounted, AtMostOneAfterDisarm, Asking, Writing, Booking,
      RecordPosition, DisarmWith
  <2>5. CASE ListOrSuggest(w)
    BY <2>5 DEF SwitchesOK, LedgerOK, CallsOK, Held, RequestsCounted,
      LateCounted, AtMostOneAfterDisarm, Asking, Writing, Booking,
      ListOrSuggest
  <2>6. CASE Leave(w)
    BY <2>6 DEF SwitchesOK, LedgerOK, CallsOK, Held, RequestsCounted,
      LateCounted, AtMostOneAfterDisarm, Asking, Writing, Booking, Leave,
      Return
  <2>7. QED  BY <1>4, <2>1, <2>2, <2>3, <2>4, <2>5, <2>6 DEF Book
<1>5. CASE Operator
  BY <1>5 DEF SwitchesOK, LedgerOK, CallsOK, Held, RequestsCounted,
    LateCounted, AtMostOneAfterDisarm, Asking, Writing, Booking, Operator,
    Arm, Disarm, DisarmWith, Pause, PauseEnds
<1>6. CASE World
  <2>1. ASSUME NEW w \in Workers, Cancel(w)  PROVE LateCounted'
    BY <2>1 DEF SwitchesOK, LedgerOK, CallsOK, Held, RequestsCounted,
      LateCounted, AtMostOneAfterDisarm, Asking, Writing, Booking, Cancel
  <2>2. CASE Crash
    BY <2>2 DEF SwitchesOK, LedgerOK, CallsOK, Held, RequestsCounted,
      LateCounted, AtMostOneAfterDisarm, Asking, Writing, Booking, Crash
  <2>3. ASSUME NEW g \in Gifts, Taken(g) \/ Sold(g) \/ Offered(g)  PROVE LateCounted'
    BY <2>3 DEF SwitchesOK, LedgerOK, CallsOK, Held, RequestsCounted,
      LateCounted, AtMostOneAfterDisarm, Asking, Writing, Booking, Taken,
      Sold, Offered
  <2>4. ASSUME NEW g \in Gifts, NEW p \in Asks, Reprice(g, p)  PROVE LateCounted'
    BY <2>4 DEF SwitchesOK, LedgerOK, CallsOK, Held, RequestsCounted,
      LateCounted, AtMostOneAfterDisarm, Asking, Writing, Booking, Reprice
  <2>5. CASE NextDay
    BY <2>5 DEF SwitchesOK, LedgerOK, CallsOK, Held, RequestsCounted,
      LateCounted, AtMostOneAfterDisarm, Asking, Writing, Booking, NextDay
  <2>6. QED  BY <1>6, <2>1, <2>2, <2>3, <2>4, <2>5 DEF World
<1>7. CASE UNCHANGED vars
  BY <1>7 DEF SwitchesOK, LedgerOK, CallsOK, Held, RequestsCounted,
    LateCounted, AtMostOneAfterDisarm, Asking, Writing, Booking, vars
<1>8. QED  BY <1>1, <1>2, <1>3, <1>4, <1>5, <1>6, <1>7 DEF Next, Step

-----------------------------------------------------------------------------
\* The parts together are inductive.
LEMMA StepIInv == IInv /\ [Next]_vars => IInv'
<1> SUFFICES ASSUME IInv, [Next]_vars PROVE IInv'
  OBVIOUS
<1> USE DEF IInv, TypeOK
<1>1. TypeOK' /\ AtHand'
  BY LedgerStep, RowsStep, MarketStep, CallsStep, SwitchesStep
<1>2. Held' /\ ClaimFollows' /\ RowsFollowClaims'
  BY HeldStep, ClaimStep, PositionStep
<1>3. RequestsCounted' /\ LandedOnce'
  BY RequestsStep, LandedStep
<1>4. RoomReserved' /\ TicketKept' /\ LateCounted'
  BY RoomStep, TicketStep, LateStep
<1>5. QED  BY <1>1, <1>2, <1>3, <1>4

\* Every reachable state satisfies the inductive invariant.
THEOREM Inductive == Spec => []IInv
<1>1. Init => IInv
  BY InitIInv
<1>2. IInv /\ [Next]_vars => IInv'
  BY StepIInv
<1>3. QED  BY <1>1, <1>2, PTL DEF Spec

\* Every variable keeps its kind.
THEOREM TypeCorrect == Spec => []TypeOK
<1>1. IInv => TypeOK
  BY DEF IInv
<1>2. QED  BY <1>1, Inductive, PTL

\* A double tap, a repeated poll, a resale, a retry over other routes or a
\* crash never buys a gift twice.
THEOREM NeverTwice == Spec => []OnePurchasePerGift
<1>1. IInv => OnePurchasePerGift
  BY DEF IInv, LandedOnce
<1>2. QED  BY <1>1, Inductive, PTL

\* A gift is asked for at most once per route in its life.
THEOREM NeverMoreThanRoutes == Spec => []RequestsBounded
<1>1. IInv => RequestsBounded
  BY DEF IInv, RequestsCounted
<1>2. QED  BY <1>1, Inductive, PTL

\* No position row without a claim that says "bought".
THEOREM RowsBehindClaims == Spec => []RowsFollowClaims
<1>1. IInv => RowsFollowClaims
  BY DEF IInv
<1>2. QED  BY <1>1, Inductive, PTL

\* Unattended spending of a day stays within the budget, overcharges aside.
THEOREM BudgetKept == Spec => []AutoWithinBudget
<1>1. IInv => AutoWithinBudget
  BY DEF IInv, RoomReserved
<1>2. QED  BY <1>1, Inductive, PTL

\* No unattended request above max_ticket.
THEOREM TicketRespected == Spec => []UnattendedWithinTicket
<1>1. IInv => UnattendedWithinTicket
  BY DEF IInv, TicketKept, UnattendedWithinTicket, Writing
<1>2. QED  BY <1>1, Inductive, PTL

\* After a disarm at most one unattended purchase goes out.
THEOREM OneLatePurchase == Spec => []AtMostOneAfterDisarm
<1>1. IInv => AtMostOneAfterDisarm
  BY DEF IInv, LateCounted
<1>2. QED  BY <1>1, Inductive, PTL

\* Requests are only ever added.
LEMMA RequestsGrow ==
  ASSUME MarketOK, AtHand
  PROVE  [Next]_vars => \A g \in Gifts : requests'[g] >= requests[g]
<1>1. ASSUME NEW w \in Workers, Send(w)
      PROVE  \A g \in Gifts : requests'[g] >= requests[g]
  <2>1. requests' = [requests EXCEPT ![gift[w]] = requests[gift[w]] + 1]
    BY <1>1 DEF Send
  <2>2. QED  BY <2>1 DEF MarketOK
<1>2. ASSUME NEW w \in Workers, Step(w), ~Send(w)
      PROVE  requests' = requests
  BY <1>2 DEF Step, Prepare, Execute, Book, Reserve, ReserveRefused, Reread,
    AllowAgain, GiveUp, ClaimBuy, ErrAlreadyAttempted, ReadFunds, FinalQuote,
    Abort, ReleaseBuy, SendCancelled, RetryOnNextRoute, SettleOK,
    SettleRefused, SettleBlocked, SettleAmbiguous, OwnershipUnknown, Owned,
    NotOwned, FinishBought, PriceIt, Commit, RecordPosition, ListOrSuggest, Leave
<1>3. ASSUME NEW w \in Workers, NEW g \in Gifts, NEW k \in {"auto", "manual"},
             NEW p \in Asks, Start(w, g, k, p)
      PROVE  requests' = requests
  BY <1>3 DEF Start
<1>4. ASSUME Operator \/ World \/ UNCHANGED vars
      PROVE  requests' = requests
  <2>1. CASE Operator
    BY <2>1 DEF Operator, Arm, Disarm, Pause, PauseEnds
  <2>2. CASE World
    BY <2>2 DEF World, Cancel, Crash, Taken, Sold, Offered, Reprice, NextDay
  <2>3. CASE UNCHANGED vars
    BY <2>3 DEF vars
  <2>4. QED  BY <1>4, <2>1, <2>2, <2>3
<1>5. requests' = requests => \A g \in Gifts : requests'[g] >= requests[g]
  BY DEF MarketOK
<1>6. QED  BY <1>1, <1>2, <1>3, <1>4, <1>5 DEF Next

\* A claim survives every outcome once its request has left.
THEOREM ClaimKept == Spec => ClaimOutlivesWrite
<1>1. IInv /\ IInv' /\ [Next]_vars
        => [\A g \in Gifts : requests[g] > 0 => claim'[g] # "none"]_vars
  <2> SUFFICES ASSUME IInv, IInv', [Next]_vars, NEW g \in Gifts, requests[g] > 0
               PROVE  claim'[g] # "none"
    OBVIOUS
  <2>1. requests'[g] >= requests[g]
    BY RequestsGrow DEF IInv, TypeOK
  <2>2. requests[g] \in Nat /\ requests'[g] \in Nat
    BY DEF IInv, TypeOK, MarketOK
  <2>3. claim'[g] = "none" => requests'[g] = 0
    BY DEF IInv, ClaimFollows
  <2>4. QED  BY <2>1, <2>2, <2>3
<1>2. QED  BY <1>1, Inductive, PTL DEF Spec, ClaimOutlivesWrite

-----------------------------------------------------------------------------
(* The books: what the rows add up to. The sums are folds over finite sets;  *)
(* the facts about them rest on induction over the natural numbers, stated   *)
(* for sets so that it can be cited, and come first.                         *)

\* A set of naturals has a least element.
LEMMA Least ==
  ASSUME NEW T \in SUBSET Nat, T # {}
  PROVE  \E x \in T : \A y \in T : x <= y
<1>1. PICK x \in T : \A y \in T : <<y, x>> \notin OpToRel(<, Nat)
  BY WFMin, NatLessThanWellFounded
<1>2. \A y \in T : ~(y < x)
  BY <1>1 DEF OpToRel
<1>3. QED  BY <1>2

\* Induction on the natural numbers, for a set.
LEMMA Induction ==
  ASSUME NEW Q \in SUBSET Nat, 0 \in Q, \A n \in Q : n + 1 \in Q
  PROVE  Q = Nat
<1> SUFFICES ASSUME Nat \ Q # {} PROVE FALSE
  OBVIOUS
<1>1. PICK n \in Nat \ Q : \A m \in Nat \ Q : n <= m
  BY Least
<1>2. n - 1 \in Nat /\ n - 1 \notin Nat \ Q
  BY <1>1
<1>3. (n - 1) + 1 \in Q
  BY <1>2
<1>4. QED  BY <1>1, <1>3

\* Induction on the subsets of a finite set, one element at a time.
LEMMA SubsetInduction ==
  ASSUME NEW S, IsFiniteSet(S), NEW Q \in SUBSET SUBSET S, {} \in Q,
         \A s \in SUBSET S : s # {} /\ (\A x \in s : s \ {x} \in Q) => s \in Q
  PROVE  Q = SUBSET S
<1> DEFINE sizes == {Cardinality(s) : s \in (SUBSET S) \ Q}
<1> SUFFICES ASSUME sizes # {} PROVE FALSE
  OBVIOUS
<1>1. \A s \in SUBSET S : IsFiniteSet(s) /\ Cardinality(s) \in Nat
  BY FS_Subset, FS_CardinalityType
<1>2. PICK n \in sizes : \A m \in sizes : n <= m
  <2>1. sizes \in SUBSET Nat
    BY <1>1
  <2> HIDE DEF sizes
  <2>2. QED  BY <2>1, Least
<1>3. PICK s \in (SUBSET S) \ Q : Cardinality(s) = n
  BY <1>2
<1>4. PICK x \in s : s \ {x} \notin Q
  <2>1. s \in SUBSET S /\ s \notin Q
    BY <1>3
  <2>3. s # {}
    BY <2>1
  <2>2. QED  BY <2>1, <2>3
<1>5. Cardinality(s \ {x}) = n - 1
  BY <1>1, <1>3, FS_RemoveElement
<1>6. Cardinality(s \ {x}) \in sizes
  BY <1>4
<1>7. n \in Nat
  BY <1>1, <1>3
<1>8. n <= n - 1
  BY <1>2, <1>5, <1>6
<1>9. QED  BY <1>7, <1>8

-----------------------------------------------------------------------------
\* One unfolding of the sum of f over s, with g for the smaller sets.
Unfold(g, f, s) ==
  IF s = {} THEN 0 ELSE LET x == CHOOSE x \in s : TRUE IN f[x] + g[s \ {x}]

IsSum(g, f, S) == g = [s \in SUBSET S |-> Unfold(g, f, s)]

LEMMA TotalIsSum ==
  ASSUME NEW f, NEW S
  PROVE  Total(f, S) = (CHOOSE g : IsSum(g, f, S))[S]
BY DEF Total, MapThenSumSet, MapThenFoldSet, Unfold, IsSum

\* The recursion that defines the sum has a solution.
LEMMA SumExists ==
  ASSUME NEW f, NEW S, IsFiniteSet(S)
  PROVE  \E g : IsSum(g, f, S)
<1> DEFINE Small(n) == {s \in SUBSET S : Cardinality(s) <= n}
           SumTo(g, n) == g = [s \in Small(n) |-> Unfold(g, f, s)]
           Q == {n \in Nat : \E g : SumTo(g, n)}
<1>1. \A s \in SUBSET S : IsFiniteSet(s) /\ Cardinality(s) \in Nat
                           /\ Cardinality(s) <= Cardinality(S)
  BY FS_Subset, FS_CardinalityType
<1>2. 0 \in Q
  <2> DEFINE g == [s \in Small(0) |-> 0]
  <2>1. \A s \in Small(0) : s = {}
    BY <1>1, FS_EmptySet
  <2>2. \A s \in Small(0) : Unfold(g, f, s) = 0
    BY <2>1 DEF Unfold
  <2>3. SumTo(g, 0)
    BY <2>2
  <2>4. QED  BY <2>3
<1>3. ASSUME NEW n \in Q PROVE n + 1 \in Q
  <2>1. PICK g : SumTo(g, n)
    OBVIOUS
  <2> DEFINE h == [s \in Small(n + 1) |-> Unfold(g, f, s)]
  <2>2. \A s \in Small(n) : g[s] = Unfold(g, f, s)
    BY <2>1
  <2>3. ASSUME NEW s \in Small(n + 1) PROVE Unfold(g, f, s) = Unfold(h, f, s)
    <3>1. CASE s = {}
      BY <3>1 DEF Unfold
    <3>2. CASE s # {}
      <4> DEFINE x == CHOOSE x \in s : TRUE
      <4>1. x \in s
        BY <3>2
      <4>2. Cardinality(s \ {x}) = Cardinality(s) - 1
        BY <1>1, <4>1, FS_RemoveElement
      <4>3. s \ {x} \in Small(n) /\ s \ {x} \in Small(n + 1)
        BY <1>1, <4>2
      <4>4. h[s \ {x}] = g[s \ {x}]
        BY <2>2, <4>3
      <4> HIDE DEF h
      <4>5. QED  BY <3>2, <4>4 DEF Unfold
    <3>3. QED  BY <3>1, <3>2
  <2>4. SumTo(h, n + 1)
    BY <2>3
  <2>5. n + 1 \in Nat
    OBVIOUS
  <2>6. QED  BY <2>4, <2>5
<1>4. Q = Nat
  <2> HIDE DEF Q
  <2>1. Q \in SUBSET Nat
    BY DEF Q
  <2>2. QED  BY <1>2, <1>3, <2>1, Induction
<1>5. PICK g : SumTo(g, Cardinality(S))
  BY <1>1, <1>4
<1>6. Small(Cardinality(S)) = SUBSET S
  BY <1>1
<1>7. QED  BY <1>5, <1>6 DEF IsSum

-----------------------------------------------------------------------------
\* A sum over no cell is zero, and any cell can be taken out of a sum.
LEMMA SumParts ==
  ASSUME NEW S, IsFiniteSet(S), NEW f, NEW g, IsSum(g, f, S), \A x \in S : f[x] \in Nat
  PROVE  \A s \in SUBSET S :
           /\ g[s] \in Nat
           /\ s = {} => g[s] = 0
           /\ \A x \in s : g[s] = f[x] + g[s \ {x}]
<1> DEFINE Splits(s) == /\ g[s] \in Nat
                        /\ s = {} => g[s] = 0
                        /\ \A x \in s : g[s] = f[x] + g[s \ {x}]
           Q == {s \in SUBSET S : \A t \in SUBSET s : Splits(t)}
<1>1. \A s \in SUBSET S : g[s] = Unfold(g, f, s)
  BY DEF IsSum
<1>2. g[{}] = 0
  BY <1>1 DEF Unfold
<1>3. {} \in Q
  BY <1>2
<1>4. ASSUME NEW s \in SUBSET S, s # {}, \A x \in s : s \ {x} \in Q
      PROVE  s \in Q
  <2>1. PICK c \in s : g[s] = f[c] + g[s \ {c}]
    <3>1. (CHOOSE x \in s : TRUE) \in s
      BY <1>4
    <3>2. QED  BY <1>1, <1>4, <3>1 DEF Unfold
  <2>2. \A x \in s : \A t \in SUBSET (s \ {x}) : Splits(t)
    BY <1>4
  <2>3. \A x \in s : f[x] \in Nat /\ g[s \ {x}] \in Nat
    BY <2>2
  <2>4. ASSUME NEW x \in s PROVE g[s] = f[x] + g[s \ {x}]
    <3>1. CASE x = c
      BY <2>1, <3>1
    <3>2. CASE x # c
      <4>1. (s \ {c}) \ {x} = (s \ {x}) \ {c}
        OBVIOUS
      <4>2. g[s \ {c}] = f[x] + g[(s \ {c}) \ {x}]
        BY <2>2, <3>2
      <4>3. g[s \ {x}] = f[c] + g[(s \ {x}) \ {c}]
        BY <2>2, <3>2
      <4> DEFINE rest == g[(s \ {c}) \ {x}]
      <4>4. rest \in Nat
        BY <2>2
      <4>5. f[x] \in Nat /\ f[c] \in Nat
        BY <2>3
      <4>6. g[s] = f[c] + (f[x] + rest) /\ g[s \ {x}] = f[c] + rest
        BY <2>1, <4>1, <4>2, <4>3
      <4> HIDE DEF rest
      <4>7. QED  BY <4>4, <4>5, <4>6
    <3>3. QED  BY <3>1, <3>2
  <2>5. Splits(s)
    <3>1. f[c] \in Nat /\ g[s \ {c}] \in Nat
      BY <2>3
    <3>2. g[s] \in Nat
      BY <2>1, <3>1
    <3>3. QED  BY <1>4, <2>4, <3>2
  <2>6. \A t \in SUBSET s : t = s \/ \E x \in s : t \in SUBSET (s \ {x})
    OBVIOUS
  <2> HIDE DEF Splits
  <2>7. \A t \in SUBSET s : Splits(t)
    BY <2>2, <2>5, <2>6
  <2>8. QED  BY <2>7
<1>5. Q = SUBSET S
  <2> HIDE DEF Q
  <2>1. Q \in SUBSET SUBSET S
    BY DEF Q
  <2>2. QED  BY <1>3, <1>4, <2>1, SubsetInduction
<1>6. QED  BY <1>5

\* Sums of functions that agree are the same.
LEMMA SumsAgree ==
  ASSUME NEW S, IsFiniteSet(S), NEW f, NEW g, IsSum(g, f, S), \A x \in S : f[x] \in Nat,
         NEW k, NEW h, IsSum(h, k, S), \A x \in S : k[x] \in Nat,
         NEW T \in SUBSET S, \A x \in T : f[x] = k[x]
  PROVE  g[T] = h[T]
<1> DEFINE Q == {s \in SUBSET T : g[s] = h[s]}
<1>1. \A s \in SUBSET T : /\ s = {} => g[s] = 0 /\ h[s] = 0
                         /\ \A x \in s : g[s] = f[x] + g[s \ {x}] /\ h[s] = k[x] + h[s \ {x}]
  <2>1. \A s \in SUBSET S : (s = {} => g[s] = 0) /\ \A x \in s : g[s] = f[x] + g[s \ {x}]
    BY SumParts
  <2>2. \A s \in SUBSET S : (s = {} => h[s] = 0) /\ \A x \in s : h[s] = k[x] + h[s \ {x}]
    BY SumParts
  <2>3. QED  BY <2>1, <2>2
<1>2. {} \in Q
  BY <1>1
<1>3. ASSUME NEW s \in SUBSET T, s # {}, \A x \in s : s \ {x} \in Q
      PROVE  s \in Q
  BY <1>1, <1>3, ZenonT(60)
<1>4. IsFiniteSet(T)
  BY FS_Subset
<1>5. Q = SUBSET T
  <2> HIDE DEF Q
  <2>1. Q \in SUBSET SUBSET T
    BY DEF Q
  <2>2. QED  BY <1>2, <1>3, <1>4, <2>1, SubsetInduction
<1>6. QED  BY <1>5

\* Every Total is a sum in that sense.
LEMMA TotalSolves ==
  ASSUME NEW f, NEW S, IsFiniteSet(S)
  PROVE  \E g : IsSum(g, f, S) /\ Total(f, S) = g[S]
BY TotalIsSum, SumExists

\* A total of natural numbers is one; of zeros, zero.
LEMMA TotalNat ==
  ASSUME NEW S, IsFiniteSet(S), NEW f \in [S -> Nat]
  PROVE  Total(f, S) \in Nat
BY TotalSolves, SumParts

LEMMA TotalZero ==
  ASSUME NEW S, IsFiniteSet(S)
  PROVE  Total([x \in S |-> 0], S) = 0
<1> DEFINE f == [x \in S |-> 0]
<1>1. PICK g : IsSum(g, f, S) /\ Total(f, S) = g[S]
  BY TotalSolves
<1>2. \A x \in S : f[x] = 0
  OBVIOUS
<1>8. \A x \in S : f[x] \in Nat
  BY <1>2
<1> HIDE DEF f
<1> DEFINE Q == {s \in SUBSET S : g[s] = 0}
<1>3. \A s \in SUBSET S : /\ s = {} => g[s] = 0
                         /\ \A x \in s : g[s] = f[x] + g[s \ {x}]
  BY <1>1, <1>8, SumParts, SMTT(60)
<1>4. {} \in Q
  BY <1>3
<1>5. ASSUME NEW s \in SUBSET S, s # {}, \A x \in s : s \ {x} \in Q
      PROVE  s \in Q
  <2>1. PICK x \in s : g[s] = f[x] + g[s \ {x}]
    BY <1>3, <1>5
  <2>2. f[x] = 0 /\ g[s \ {x}] = 0
    BY <1>2, <1>5
  <2>3. QED  BY <2>1, <2>2
<1>6. Q = SUBSET S
  <2> HIDE DEF Q
  <2>1. Q \in SUBSET SUBSET S
    BY DEF Q
  <2>2. QED  BY <1>4, <1>5, <2>1, SubsetInduction
<1>7. QED  BY <1>1, <1>6 DEF f

\* Changing one cell changes the total by as much.
LEMMA TotalChange ==
  ASSUME NEW S, IsFiniteSet(S), NEW f \in [S -> Nat], NEW k \in [S -> Nat],
         NEW c \in S, \A x \in S \ {c} : k[x] = f[x]
  PROVE  Total(k, S) + f[c] = Total(f, S) + k[c]
<1>1. PICK g : IsSum(g, f, S) /\ Total(f, S) = g[S]
  BY TotalSolves
<1>2. PICK h : IsSum(h, k, S) /\ Total(k, S) = h[S]
  BY TotalSolves
<1>3. g[S \ {c}] = h[S \ {c}]
  BY <1>1, <1>2, SumsAgree
<1>4. g[S] = f[c] + g[S \ {c}] /\ g[S \ {c}] \in Nat
  BY <1>1, SumParts
<1>5. h[S] = k[c] + h[S \ {c}]
  BY <1>2, SumParts
<1>6. QED  BY <1>1, <1>2, <1>3, <1>4, <1>5

-----------------------------------------------------------------------------
USE DEF db, risk, call, market, sent, Goto, Days, Replies, Stages

LEMMA DaysFinite == IsFiniteSet(Days)
BY FS_Interval, DayAssumption

\* The cost about to be recorded is counted already: a call at UpsertPosition
\* whose context lives has added its spend.
Counted ==
  /\ LedgerCoversPositions
  /\ \A w \in Workers : stage[w] = "record" /\ ~dead[w] => Recorded + cost[w] <= Booked

LEMMA BooksNat == RowsOK /\ LedgerOK => Recorded \in Nat /\ Booked \in Nat
BY GiftsFinite, DaysFinite, TotalNat DEF RowsOK, LedgerOK, Recorded, Booked

LEMMA InitCounted == Init => Counted
<1> SUFFICES ASSUME Init PROVE Counted
  OBVIOUS
<1>1. Recorded = 0
  BY GiftsFinite, TotalZero DEF Init, Recorded
<1>2. Booked = 0
  BY DaysFinite, TotalZero DEF Init, Booked
<1>3. QED  BY <1>1, <1>2 DEF Init, Counted, LedgerCoversPositions

\* rm.Commit adds the cost to one day of the ledger.
LEMMA CommitAdds ==
  ASSUME LedgerOK, CallsOK, NEW w \in Workers, Commit(w)
  PROVE  /\ Recorded' = Recorded
         /\ dead[w] => Booked' = Booked
         /\ ~dead[w] => Booked' = Booked + cost[w]
<1>1. Recorded' = Recorded
  BY DEF Commit, Recorded
<1>2. dead[w] => Booked' = Booked
  BY DEF Commit, Booked
<1>3. ASSUME ~dead[w] PROVE Booked' = Booked + cost[w]
  <2>1. bookDay[w] \in Days /\ cost[w] \in Nat /\ spent \in [Days -> Nat]
    BY DEF LedgerOK, CallsOK
  <2>2. spent' = [spent EXCEPT ![bookDay[w]] = spent[bookDay[w]] + cost[w]]
    BY <1>3 DEF Commit
  <2> DEFINE d == bookDay[w]
             now == spent'
  <2>3. now \in [Days -> Nat] /\ now[d] = spent[d] + cost[w]
         /\ \A x \in Days \ {d} : now[x] = spent[x]
    BY <2>1, <2>2
  <2>4. Booked' = Total(now, Days)
    BY DEF Booked
  <2>8. d \in Days
    BY <2>1
  <2> HIDE DEF now, d, Days
  <2>5. Total(now, Days) + spent[d] = Total(spent, Days) + now[d]
    BY <2>1, <2>3, <2>8, DaysFinite, TotalChange
  <2>6. Total(now, Days) \in Nat /\ Total(spent, Days) \in Nat /\ spent[d] \in Nat
    BY <2>1, <2>3, <2>8, DaysFinite, TotalNat
  <2>7. QED  BY <2>1, <2>3, <2>4, <2>5, <2>6 DEF Booked
<1>4. QED  BY <1>1, <1>2, <1>3

\* UpsertPosition replaces the cost of one row.
LEMMA RecordReplaces ==
  ASSUME RowsOK, CallsOK, NEW w \in Workers, gift[w] \in Gifts, RecordPosition(w)
  PROVE  /\ Booked' = Booked
         /\ dead[w] => Recorded' = Recorded
         /\ ~dead[w] => Recorded' + paid[gift[w]] = Recorded + cost[w]
<1>1. Booked' = Booked
  BY DEF RecordPosition, Booked
<1>2. dead[w] => Recorded' = Recorded
  BY DEF RecordPosition, Recorded
<1>3. ASSUME ~dead[w] PROVE Recorded' + paid[gift[w]] = Recorded + cost[w]
  <2>1. cost[w] \in Nat /\ paid \in [Gifts -> Nat]
    BY DEF RowsOK, CallsOK
  <2>2. paid' = [paid EXCEPT ![gift[w]] = cost[w]]
    BY <1>3 DEF RecordPosition
  <2> DEFINE g == gift[w]
             now == paid'
  <2>3. now \in [Gifts -> Nat] /\ now[g] = cost[w] /\ \A x \in Gifts \ {g} : now[x] = paid[x]
    BY <2>1, <2>2
  <2>4. Recorded' = Total(now, Gifts)
    BY DEF Recorded
  <2> HIDE DEF now
  <2>5. Total(now, Gifts) + paid[g] = Total(paid, Gifts) + now[g]
    BY <2>1, <2>3, GiftsFinite, TotalChange
  <2>6. QED  BY <2>3, <2>4, <2>5 DEF Recorded
<1>4. QED  BY <1>1, <1>2, <1>3

\* No other step touches a sum.
LEMMA OnlyTwoBook ==
  ASSUME [Next]_vars, \A w \in Workers : ~Commit(w) /\ ~RecordPosition(w)
  PROVE  spent' = spent /\ paid' = paid
<1>1. ASSUME NEW w \in Workers, NEW g \in Gifts, NEW k \in {"auto", "manual"},
             NEW p \in Asks, Start(w, g, k, p)
      PROVE  spent' = spent /\ paid' = paid
  BY <1>1 DEF Start
<1>2. ASSUME NEW w \in Workers, Prepare(w)
      PROVE  spent' = spent /\ paid' = paid
  BY <1>2 DEF Prepare, Reserve, ReserveRefused, Reread, AllowAgain, GiveUp, ClaimBuy,
    ErrAlreadyAttempted, ReadFunds, FinalQuote, Abort, ReleaseBuy
<1>3. ASSUME NEW w \in Workers, Execute(w)
      PROVE  spent' = spent /\ paid' = paid
  BY <1>3 DEF Execute, Send, SendCancelled, RetryOnNextRoute, SettleOK, SettleRefused,
    SettleBlocked, SettleAmbiguous, OwnershipUnknown, Owned, NotOwned
<1>4. ASSUME NEW w \in Workers, Book(w)
      PROVE  spent' = spent /\ paid' = paid
  BY <1>4 DEF Book, FinishBought, PriceIt, ListOrSuggest, Leave
<1>5. CASE Operator
  BY <1>5 DEF Operator, Arm, Disarm, Pause, PauseEnds
<1>6. CASE World
  BY <1>6 DEF World, Cancel, Crash, Taken, Sold, Offered, Reprice, NextDay
<1>7. CASE UNCHANGED vars
  BY <1>7 DEF vars
<1>8. QED  BY <1>1, <1>2, <1>3, <1>4, <1>5, <1>6, <1>7 DEF Next, Step

\* A call reaches UpsertPosition through rm.Commit only, with its cost fixed.
LEMMA RecordEntered ==
  ASSUME CallsOK, SwitchesOK, [Next]_vars, \A w \in Workers : ~Commit(w) /\ ~RecordPosition(w),
         NEW v \in Workers, stage'[v] = "record", ~dead'[v]
  PROVE  stage[v] = "record" /\ ~dead[v] /\ cost'[v] = cost[v]
<1> USE DEF CallsOK, SwitchesOK
<1>1. ASSUME NEW w \in Workers, NEW g \in Gifts, NEW k \in {"auto", "manual"},
             NEW p \in Asks, Start(w, g, k, p)
      PROVE  stage[v] = "record" /\ ~dead[v] /\ cost'[v] = cost[v]
  BY <1>1 DEF Start
<1>2. ASSUME NEW w \in Workers, Prepare(w)
      PROVE  stage[v] = "record" /\ ~dead[v] /\ cost'[v] = cost[v]
  <2>1. CASE Reserve(w) \/ Reread(w) \/ AllowAgain(w) \/ GiveUp(w) \/ ClaimBuy(w)
    BY <2>1 DEF Reserve, Reread, AllowAgain, GiveUp, ClaimBuy
  <2>2. CASE ReserveRefused(w)
    BY <2>2 DEF ReserveRefused, Return
  <2>3. CASE ErrAlreadyAttempted(w) \/ ReadFunds(w) \/ FinalQuote(w) \/ Abort(w) \/ ReleaseBuy(w)
    BY <2>3 DEF ErrAlreadyAttempted, ReadFunds, FinalQuote, Abort, ReleaseBuy
  <2>4. QED  BY <1>2, <2>1, <2>2, <2>3 DEF Prepare
<1>3. ASSUME NEW w \in Workers, Execute(w)
      PROVE  stage[v] = "record" /\ ~dead[v] /\ cost'[v] = cost[v]
  <2>1. CASE Send(w) \/ SendCancelled(w) \/ RetryOnNextRoute(w)
    BY <2>1 DEF Send, SendCancelled, RetryOnNextRoute
  <2>2. CASE SettleOK(w) \/ SettleRefused(w) \/ SettleBlocked(w) \/ SettleAmbiguous(w)
    BY <2>2 DEF SettleOK, SettleRefused, SettleBlocked, SettleAmbiguous
  <2>3. CASE OwnershipUnknown(w) \/ Owned(w) \/ NotOwned(w)
    BY <2>3 DEF OwnershipUnknown, Owned, NotOwned
  <2>4. QED  BY <1>3, <2>1, <2>2, <2>3 DEF Execute
<1>4. ASSUME NEW w \in Workers, Book(w)
      PROVE  stage[v] = "record" /\ ~dead[v] /\ cost'[v] = cost[v]
  <2>1. CASE FinishBought(w) \/ ListOrSuggest(w)
    BY <2>1 DEF FinishBought, ListOrSuggest
  <2>2. CASE PriceIt(w)
    BY <2>2 DEF PriceIt
  <2>3. CASE Leave(w)
    BY <2>3 DEF Leave, Return
  <2>4. QED  BY <1>4, <2>1, <2>2, <2>3 DEF Book
<1>5. CASE Operator
  BY <1>5 DEF Operator, Arm, Disarm, Pause, PauseEnds
<1>6. CASE World
  BY <1>6 DEF World, Cancel, Crash, Taken, Sold, Offered, Reprice, NextDay
<1>7. CASE UNCHANGED vars
  BY <1>7 DEF vars
<1>8. QED  BY <1>1, <1>2, <1>3, <1>4, <1>5, <1>6, <1>7 DEF Next, Step

LEMMA StepCounted ==
  ASSUME IInv, IInv', Counted, [Next]_vars
  PROVE  Counted'
<1> USE DEF IInv, TypeOK
<1>1. /\ Recorded \in Nat /\ Booked \in Nat /\ Recorded' \in Nat /\ Booked' \in Nat
      /\ cost \in [Workers -> Nat]
  <2>1. Recorded' \in Nat /\ Booked' \in Nat
    BY GiftsFinite, DaysFinite, TotalNat DEF RowsOK, LedgerOK, Recorded, Booked
  <2>2. QED  BY <2>1, BooksNat DEF CallsOK
<1>2. ASSUME NEW w \in Workers, Commit(w) PROVE Counted'
  <2>1. /\ Recorded' = Recorded
        /\ dead[w] => Booked' = Booked
        /\ ~dead[w] => Booked' = Booked + cost[w]
    BY <1>2, CommitAdds
  <2>2. /\ stage' = [stage EXCEPT ![w] = "record"] /\ cost' = cost /\ dead' = dead
        /\ stage[w] = "commit" /\ stage \in [Workers -> Stages] /\ cost[w] \in Nat
    BY <1>2 DEF Commit, CallsOK
  <2>3. \A v \in Workers : stage[v] = "record" => v = w
    BY <2>2 DEF Held
  <2>4. Recorded' <= Booked'
    BY <1>1, <2>1, <2>2 DEF Counted, LedgerCoversPositions
  <2>5. ASSUME NEW v \in Workers, stage'[v] = "record", ~dead'[v]
        PROVE  Recorded' + cost'[v] <= Booked'
    <3>1. v = w
      BY <2>2, <2>3, <2>5
    <3>2. Booked' = Booked + cost[w] /\ Recorded' = Recorded /\ cost'[v] = cost[w]
      BY <2>1, <2>2, <2>5, <3>1
    <3>3. Recorded <= Booked
      BY DEF Counted, LedgerCoversPositions
    <3>4. QED  BY <1>1, <2>2, <3>2, <3>3
  <2>6. QED  BY <2>4, <2>5 DEF Counted, LedgerCoversPositions
<1>3. ASSUME NEW w \in Workers, RecordPosition(w) PROVE Counted'
  <2>1. /\ stage' = [stage EXCEPT ![w] = "list"] /\ stage[w] = "record"
        /\ stage \in [Workers -> Stages] /\ cost[w] \in Nat
    BY <1>3 DEF RecordPosition, CallsOK
  <2>2. gift[w] \in Gifts /\ paid[gift[w]] \in Nat
    BY <2>1 DEF AtHand, RowsOK
  <2>3. /\ Booked' = Booked
        /\ dead[w] => Recorded' = Recorded
        /\ ~dead[w] => Recorded' + paid[gift[w]] = Recorded + cost[w]
    BY <1>3, <2>2, RecordReplaces
  <2>4. \A v \in Workers : stage'[v] # "record"
    BY <2>1 DEF Held
  <2>5. Recorded <= Booked /\ (~dead[w] => Recorded + cost[w] <= Booked)
    BY <2>1 DEF Counted, LedgerCoversPositions
  <2>6. Recorded' <= Booked'
    BY <1>1, <2>1, <2>2, <2>3, <2>5
  <2>7. QED  BY <2>4, <2>6 DEF Counted, LedgerCoversPositions
<1>4. ASSUME \A w \in Workers : ~Commit(w) /\ ~RecordPosition(w)
      PROVE  Counted'
  <2>1. spent' = spent /\ paid' = paid
    BY <1>4, OnlyTwoBook
  <2>2. Booked' = Booked /\ Recorded' = Recorded
    BY <2>1 DEF Booked, Recorded
  <2>3. ASSUME NEW v \in Workers, stage'[v] = "record", ~dead'[v]
        PROVE  stage[v] = "record" /\ ~dead[v] /\ cost'[v] = cost[v]
    BY <1>4, <2>3, RecordEntered
  <2>4. QED  BY <2>2, <2>3 DEF Counted, LedgerCoversPositions
<1>5. QED  BY <1>2, <1>3, <1>4

\* The cost a row shows was counted on the daily ledger before.
THEOREM PositionsCovered == Spec => []LedgerCoversPositions
<1>1. Init => Counted
  BY InitCounted
<1>2. IInv /\ IInv' /\ Counted /\ [Next]_vars => Counted'
  BY StepCounted
<1>3. Counted => LedgerCoversPositions
  BY DEF Counted
<1>4. QED  BY <1>1, <1>2, <1>3, Inductive, PTL DEF Spec

-----------------------------------------------------------------------------
\* The replies that may hide an executed purchase are those after which the
\* inventory is read, and no retry of the call overwrites one of them.
RereadBeforeFailing == \A r \in Hiding : r = "ambiguous" \/ (r = "lost" /\ Routes = 1)

\* Until the reply is settled, a landed purchase shows in the reply, and at the
\* inventory read in the inventory.
WrittenOff ==
  /\ \A w \in Workers :
       /\ stage[w] = "send" => landed[gift[w]] = 0
       /\ stage[w] = "answered" /\ landed[gift[w]] > 0 => reply[w] \in {"ok"} \cup Hiding
       /\ stage[w] = "inventory" /\ landed[gift[w]] > 0 => owner[gift[w]] = "ours"
  /\ FailedMeansNotBought

LEMMA InitWrittenOff == Init => WrittenOff
BY DEF Init, WrittenOff, FailedMeansNotBought

LEMMA StepWrittenOff ==
  ASSUME RereadBeforeFailing, IInv, WrittenOff, [Next]_vars
  PROVE  WrittenOff'
<1> USE DEF IInv, TypeOK, RowsOK, MarketOK, CallsOK, Held, AtHand, WrittenOff, FailedMeansNotBought
<1>1. ASSUME NEW w \in Workers, NEW g \in Gifts, NEW k \in {"auto", "manual"},
             NEW p \in Asks, Start(w, g, k, p)
      PROVE  WrittenOff'
  BY <1>1 DEF Start
<1>2. ASSUME NEW w \in Workers, Prepare(w)
      PROVE  WrittenOff'
  <2>1. CASE Reserve(w) \/ Reread(w) \/ AllowAgain(w) \/ GiveUp(w)
    BY <2>1 DEF Reserve, Reread, AllowAgain, GiveUp
  <2>2. CASE ReserveRefused(w)
    BY <2>2 DEF ReserveRefused, Return
  <2>3. CASE ErrAlreadyAttempted(w) \/ ReadFunds(w) \/ Abort(w)
    BY <2>3 DEF ErrAlreadyAttempted, ReadFunds, Abort
  <2>4. CASE ClaimBuy(w)
    BY <2>4 DEF ClaimBuy
  <2>5. CASE FinalQuote(w)
    <3>1. landed[gift[w]] = 0
      BY <2>5 DEF FinalQuote, ClaimFollows, Asking, LandedOnce
    <3>2. QED  BY <2>5, <3>1 DEF FinalQuote
  <2>6. CASE ReleaseBuy(w)
    BY <2>6 DEF ReleaseBuy
  <2>7. QED  BY <1>2, <2>1, <2>2, <2>3, <2>4, <2>5, <2>6 DEF Prepare
<1>3. ASSUME NEW w \in Workers, Execute(w)
      PROVE  WrittenOff'
  <2>1. CASE Send(w)
    <3>1. PICK r \in Replies, lands \in BOOLEAN :
            MarketAnswers(w, r, lands) /\ reply' = [reply EXCEPT ![w] = r]
      BY <2>1, ZenonT(60) DEF Send
    <3>2. /\ stage' = [stage EXCEPT ![w] = "answered"] /\ gift' = gift /\ claim' = claim
          /\ gift[w] \in Gifts /\ claim[gift[w]] = "pending" /\ landed[gift[w]] = 0
      BY <2>1 DEF Send, ClaimFollows, Writing
    <3>3. \A v \in Workers \ {w} : stage[v] \in {"idle", "waiting"}
      BY <2>1 DEF Send
    <3>4. lands => r \in {"ok"} \cup Hiding
      BY <3>1 DEF MarketAnswers
    <3>5. \A g \in Gifts \ {gift[w]} : landed'[g] = landed[g]
      BY <3>1 DEF MarketAnswers
    <3>6. ~lands => landed' = landed
      BY <3>1 DEF MarketAnswers
    <3>7. FailedMeansNotBought'
      BY <3>2, <3>5
    <3>8. reply'[w] = r
      BY <3>1
    <3>9. landed'[gift[w]] > 0 => reply'[w] \in {"ok"} \cup Hiding
      BY <3>2, <3>4, <3>6, <3>8
    <3>10. QED  BY <3>2, <3>3, <3>7, <3>9
  <2>2. CASE SendCancelled(w)
    BY <2>2 DEF SendCancelled
  <2>3. CASE RetryOnNextRoute(w)
    <3>1. landed[gift[w]] = 0
      BY <2>3, RouteAssumption DEF RetryOnNextRoute, MayRetry, RequestsCounted, RereadBeforeFailing
    <3>2. QED  BY <2>3, <3>1 DEF RetryOnNextRoute
  <2>4. CASE SettleOK(w) \/ Owned(w)
    BY <2>4 DEF SettleOK, Owned
  <2>5. CASE SettleAmbiguous(w)
    BY <2>5 DEF SettleAmbiguous, Settles, LandedOnce
  <2>6. CASE SettleRefused(w)
    <3>1. landed[gift[w]] = 0
      BY <2>6 DEF SettleRefused, Settles, RereadBeforeFailing
    <3>2. QED  BY <2>6, <3>1 DEF SettleRefused, FinishBuy
  <2>7. CASE SettleBlocked(w)
    <3>1. landed[gift[w]] = 0
      BY <2>7 DEF SettleBlocked, Settles, RereadBeforeFailing
    <3>2. QED  BY <2>7, <3>1 DEF SettleBlocked, FinishBuy
  <2>8. CASE OwnershipUnknown(w)
    BY <2>8 DEF OwnershipUnknown, FinishBuy
  <2>9. CASE NotOwned(w)
    <3>1. landed[gift[w]] = 0
      BY <2>9 DEF NotOwned
    <3>2. QED  BY <2>9, <3>1 DEF NotOwned, FinishBuy
  <2>10. QED  BY <1>3, <2>1, <2>2, <2>3, <2>4, <2>5, <2>6, <2>7, <2>8, <2>9 DEF Execute
<1>4. ASSUME NEW w \in Workers, Book(w)
      PROVE  WrittenOff'
  <2>1. CASE FinishBought(w)
    BY <2>1 DEF FinishBought, FinishBuy
  <2>2. CASE PriceIt(w) \/ Commit(w) \/ RecordPosition(w) \/ ListOrSuggest(w)
    <3>1. /\ \E s \in {"commit", "record", "list", "leave"} : stage' = [stage EXCEPT ![w] = s]
          /\ UNCHANGED <<claim, landed, gift, reply, owner>>
      BY <2>2 DEF PriceIt, Commit, RecordPosition, ListOrSuggest
    <3>2. QED  BY <3>1
  <2>3. CASE Leave(w)
    BY <2>3 DEF Leave, Return
  <2>4. QED  BY <1>4, <2>1, <2>2, <2>3 DEF Book
<1>5. CASE Operator
  BY <1>5 DEF Operator, Arm, Disarm, Pause, PauseEnds
<1>6. CASE World
  <2>1. ASSUME NEW w \in Workers, Cancel(w)  PROVE WrittenOff'
    BY <2>1 DEF Cancel
  <2>2. CASE Crash
    BY <2>2 DEF Crash
  <2>3. ASSUME NEW g \in Gifts, Taken(g) \/ Offered(g)  PROVE WrittenOff'
    BY <2>3 DEF Taken, Offered
  <2>4. ASSUME NEW g \in Gifts, Sold(g)  PROVE WrittenOff'
    <3>1. \A w \in Workers : stage[w] = "inventory" => gift[w] # g
      BY <2>4 DEF Sold, RowsFollowClaims, ClaimFollows, Writing
    <3>2. QED  BY <2>4, <3>1 DEF Sold
  <2>5. ASSUME NEW g \in Gifts, NEW p \in Asks, Reprice(g, p)  PROVE WrittenOff'
    BY <2>5 DEF Reprice
  <2>6. CASE NextDay
    BY <2>6 DEF NextDay
  <2>7. QED  BY <1>6, <2>1, <2>2, <2>3, <2>4, <2>5, <2>6 DEF World
<1>7. CASE UNCHANGED vars
  BY <1>7 DEF vars
<1>8. QED  BY <1>1, <1>2, <1>3, <1>4, <1>5, <1>6, <1>7 DEF Next, Step

\* A purchase written off as failed was never executed, whatever crashes or
\* is cancelled, provided the replies that hide one are reread.
THEOREM FailureIsFinal ==
  ASSUME RereadBeforeFailing
  PROVE  Spec => []FailedMeansNotBought
<1>1. Init => WrittenOff
  BY InitWrittenOff
<1>2. IInv /\ WrittenOff /\ [Next]_vars => WrittenOff'
  BY StepWrittenOff
<1>3. WrittenOff => FailedMeansNotBought
  BY DEF WrittenOff
<1>4. QED  BY <1>1, <1>2, <1>3, Inductive, PTL DEF Spec

-----------------------------------------------------------------------------
\* Without crashes, cancellations and failed inventory reads.
Faultless == Faults = {}

\* No call dies half way.
Alive == \A w \in Workers : ~dead[w]

\* The row of a purchase being booked is not there yet, and a missing row has
\* no cost.
Unrecorded ==
  /\ \A w \in Workers : stage[w] \in Booking => position[gift[w]] = "none"
  /\ \A g \in Gifts : position[g] = "none" => paid[g] = 0

\* What was executed is a position behind a claim, or its call is at it.
AtIt(g) ==
  \E w \in Workers : gift[w] = g /\ stage[w] \in {"answered", "inventory", "bought"} \cup Booking
Accounted ==
  \A g \in Gifts : landed[g] > 0 => (claim[g] = "bought" /\ position[g] # "none") \/ AtIt(g)

\* The books differ by the cost of the call between its two writes, if any.
Exact ==
  /\ \A w \in Workers : stage[w] = "record" => Recorded + cost[w] = Booked
  /\ (\A w \in Workers : stage[w] # "record") => Recorded = Booked

Whole == Alive /\ Unrecorded /\ Accounted /\ Exact

LEMMA InitWhole == Init => Whole
<1> SUFFICES ASSUME Init PROVE Whole
  OBVIOUS
<1>1. Recorded = 0
  BY GiftsFinite, TotalZero DEF Init, Recorded
<1>2. Booked = 0
  BY DaysFinite, TotalZero DEF Init, Booked
<1>3. QED  BY <1>1, <1>2 DEF Init, Whole, Alive, Unrecorded, Accounted, Exact, Booking

LEMMA AliveStep ==
  ASSUME Faultless, Alive, SwitchesOK, [Next]_vars
  PROVE  Alive'
<1> USE DEF Alive, SwitchesOK
<1>1. ASSUME NEW w \in Workers, Step(w) PROVE Alive'
  <2>1. dead' = dead \/ dead' = [dead EXCEPT ![w] = FALSE]
    <3>1. CASE Prepare(w)
      BY <3>1 DEF Prepare, Reserve, ReserveRefused, Return, Reread, AllowAgain, GiveUp, ClaimBuy,
        ErrAlreadyAttempted, ReadFunds, FinalQuote, Abort, ReleaseBuy
    <3>2. CASE Execute(w)
      BY <3>2 DEF Execute, Send, SendCancelled, RetryOnNextRoute, SettleOK, SettleRefused,
        SettleBlocked, SettleAmbiguous, OwnershipUnknown, Owned, NotOwned
    <3>3. CASE Book(w)
      BY <3>3 DEF Book, FinishBought, PriceIt, Commit, RecordPosition, ListOrSuggest, Leave, Return
    <3>4. QED  BY <1>1, <3>1, <3>2, <3>3 DEF Step
  <2>2. QED  BY <2>1
<1>2. ASSUME NEW w \in Workers, NEW g \in Gifts, NEW k \in {"auto", "manual"},
             NEW p \in Asks, Start(w, g, k, p)
      PROVE  Alive'
  BY <1>2 DEF Start
<1>3. CASE Operator
  BY <1>3 DEF Operator, Arm, Disarm, Pause, PauseEnds
<1>4. CASE World
  BY <1>4 DEF World, Cancel, Crash, Taken, Sold, Offered, Reprice, NextDay, Faultless
<1>5. CASE UNCHANGED vars
  BY <1>5 DEF vars
<1>6. QED  BY <1>1, <1>2, <1>3, <1>4, <1>5 DEF Next

LEMMA UnrecordedStep ==
  ASSUME IInv, Alive, Unrecorded, [Next]_vars
  PROVE  Unrecorded'
<1> USE DEF IInv, TypeOK, RowsOK, CallsOK, Held, AtHand, Unrecorded, Booking
<1>1. ASSUME NEW w \in Workers, Prepare(w) \/ Execute(w)
      PROVE  Unrecorded'
  <2>1. /\ UNCHANGED <<position, paid>>
        /\ \/ /\ gift' = gift
              /\ \E s \in Stages \ Booking : stage' = [stage EXCEPT ![w] = s]
           \/ /\ gift' = [gift EXCEPT ![w] = NoGift]
              /\ stage' = [stage EXCEPT ![w] = "idle"]
    <3>1. CASE Prepare(w)
      <4>1. CASE ReserveRefused(w)
        BY <4>1 DEF ReserveRefused, Return
      <4>2. CASE ~ReserveRefused(w)
        BY <3>1, <4>2 DEF Prepare, Reserve, Reread, AllowAgain, GiveUp, ClaimBuy,
          ErrAlreadyAttempted, ReadFunds, FinalQuote, Abort, ReleaseBuy
      <4>3. QED  BY <4>1, <4>2
    <3>2. CASE Execute(w)
      BY <3>2 DEF Execute, Send, SendCancelled, RetryOnNextRoute, SettleOK, SettleRefused,
        SettleBlocked, SettleAmbiguous, OwnershipUnknown, Owned, NotOwned
    <3>3. QED  BY <1>1, <3>1, <3>2
  <2>2. QED  BY <2>1
<1>2. ASSUME NEW w \in Workers, Book(w)
      PROVE  Unrecorded'
  <2>1. CASE FinishBought(w)
    <3>1. claim[gift[w]] = "pending" /\ gift[w] \in Gifts
      BY <2>1 DEF FinishBought, ClaimFollows, Writing
    <3>2. position[gift[w]] = "none"
      BY <3>1 DEF RowsFollowClaims
    <3>3. QED  BY <2>1, <3>2 DEF FinishBought
  <2>2. CASE PriceIt(w) \/ Commit(w)
    <3>1. /\ UNCHANGED <<position, paid, gift>>
          /\ stage[w] \in Booking
          /\ \E s \in Booking : stage' = [stage EXCEPT ![w] = s]
      BY <2>2 DEF PriceIt, Commit
    <3>2. QED  BY <3>1
  <2>3. CASE RecordPosition(w)
    <3>1. /\ position' = [position EXCEPT ![gift[w]] = "open"]
          /\ paid' = [paid EXCEPT ![gift[w]] = cost[w]]
          /\ stage[w] = "record" /\ stage' = [stage EXCEPT ![w] = "list"]
      BY <2>3 DEF RecordPosition, Alive
    <3>2. \A v \in Workers : stage'[v] \notin Booking
      BY <3>1
    <3>3. \A g \in Gifts : position'[g] = "none" => paid'[g] = 0
      BY <3>1
    <3>4. QED  BY <3>2, <3>3
  <2>4. CASE ListOrSuggest(w)
    BY <2>4 DEF ListOrSuggest
  <2>5. CASE Leave(w)
    BY <2>5 DEF Leave, Return
  <2>6. QED  BY <1>2, <2>1, <2>2, <2>3, <2>4, <2>5 DEF Book
<1>3. ASSUME NEW w \in Workers, NEW g \in Gifts, NEW k \in {"auto", "manual"},
             NEW p \in Asks, Start(w, g, k, p)
      PROVE  Unrecorded'
  BY <1>3 DEF Start
<1>4. CASE Operator
  BY <1>4 DEF Operator, Arm, Disarm, Pause, PauseEnds
<1>5. CASE World
  <2>1. ASSUME NEW g \in Gifts, Sold(g) PROVE Unrecorded'
    BY <2>1 DEF Sold
  <2>2. CASE \A g \in Gifts : ~Sold(g)
    BY <1>5, <2>2 DEF World, Cancel, Crash, Taken, Offered, Reprice, NextDay
  <2>3. QED  BY <2>1, <2>2
<1>6. CASE UNCHANGED vars
  BY <1>6 DEF vars
<1>7. QED  BY <1>1, <1>2, <1>3, <1>4, <1>5, <1>6 DEF Next, Step

\* Without faults a call leaves UpsertPosition through it.
LEMMA RecordStays ==
  ASSUME Faultless, CallsOK, Held, [Next]_vars, \A w \in Workers : ~RecordPosition(w),
         NEW v \in Workers, stage[v] = "record"
  PROVE  stage'[v] = "record"
<1> USE DEF CallsOK, Held
<1>1. ASSUME NEW w \in Workers, Prepare(w)
      PROVE  stage'[v] = "record"
  BY <1>1 DEF Prepare, Reserve, ReserveRefused, Return, Reread, AllowAgain, GiveUp, ClaimBuy,
    ErrAlreadyAttempted, ReadFunds, FinalQuote, Abort, ReleaseBuy
<1>2. ASSUME NEW w \in Workers, Execute(w)
      PROVE  stage'[v] = "record"
  BY <1>2 DEF Execute, Send, SendCancelled, RetryOnNextRoute, Settles, SettleOK, SettleRefused,
    SettleBlocked, SettleAmbiguous, OwnershipUnknown, Owned, NotOwned
<1>3. ASSUME NEW w \in Workers, Book(w)
      PROVE  stage'[v] = "record"
  BY <1>3 DEF Book, FinishBought, PriceIt, Commit, ListOrSuggest, Leave, Return
<1>4. ASSUME NEW w \in Workers, NEW g \in Gifts, NEW k \in {"auto", "manual"},
             NEW p \in Asks, Start(w, g, k, p)
      PROVE  stage'[v] = "record"
  BY <1>4 DEF Start
<1>5. CASE Operator
  BY <1>5 DEF Operator, Arm, Disarm, Pause, PauseEnds
<1>6. CASE World
  BY <1>6 DEF World, Cancel, Crash, Taken, Sold, Offered, Reprice, NextDay, Faultless
<1>7. CASE UNCHANGED vars
  BY <1>7 DEF vars
<1>8. QED  BY <1>1, <1>2, <1>3, <1>4, <1>5, <1>6, <1>7 DEF Next, Step

LEMMA ExactStep ==
  ASSUME Faultless, IInv, IInv', Alive, Alive', Unrecorded, Exact, [Next]_vars
  PROVE  Exact'
<1> USE DEF IInv, TypeOK
<1>1. /\ Recorded \in Nat /\ Booked \in Nat /\ Recorded' \in Nat /\ Booked' \in Nat
      /\ cost \in [Workers -> Nat]
  <2>1. Recorded' \in Nat /\ Booked' \in Nat
    BY GiftsFinite, DaysFinite, TotalNat DEF RowsOK, LedgerOK, Recorded, Booked
  <2>2. QED  BY <2>1, BooksNat DEF CallsOK
<1>2. ASSUME NEW w \in Workers, Commit(w) PROVE Exact'
  <2>1. Recorded' = Recorded /\ Booked' = Booked + cost[w]
    BY <1>2, CommitAdds DEF Alive
  <2>2. /\ stage' = [stage EXCEPT ![w] = "record"] /\ cost' = cost
        /\ stage[w] = "commit" /\ stage \in [Workers -> Stages]
    BY <1>2 DEF Commit, CallsOK
  <2>3. \A v \in Workers : stage[v] # "record"
    BY <2>2 DEF Held
  <2>4. Recorded' + cost[w] = Booked'
    BY <1>1, <2>1, <2>3 DEF Exact
  <2>5. QED  BY <2>2, <2>3, <2>4 DEF Exact
<1>3. ASSUME NEW w \in Workers, RecordPosition(w) PROVE Exact'
  <2>1. /\ stage' = [stage EXCEPT ![w] = "list"] /\ stage[w] = "record"
        /\ stage \in [Workers -> Stages] /\ cost[w] \in Nat
    BY <1>3 DEF RecordPosition, CallsOK
  <2>2. gift[w] \in Gifts /\ paid[gift[w]] = 0
    BY <2>1 DEF AtHand, Unrecorded, Booking
  <2>3. Booked' = Booked /\ Recorded' + paid[gift[w]] = Recorded + cost[w]
    BY <1>3, <2>2, RecordReplaces DEF Alive
  <2>4. \A v \in Workers : stage'[v] # "record"
    BY <2>1 DEF Held
  <2>5. Recorded' = Booked'
    BY <1>1, <2>1, <2>2, <2>3 DEF Exact
  <2>6. QED  BY <2>4, <2>5 DEF Exact
<1>4. ASSUME \A w \in Workers : ~Commit(w) /\ ~RecordPosition(w)
      PROVE  Exact'
  <2>1. spent' = spent /\ paid' = paid
    BY <1>4, OnlyTwoBook
  <2>2. Booked' = Booked /\ Recorded' = Recorded
    BY <2>1 DEF Booked, Recorded
  <2>3. ASSUME NEW v \in Workers, stage'[v] = "record"
        PROVE  stage[v] = "record" /\ cost'[v] = cost[v]
    BY <1>4, <2>3, RecordEntered DEF Alive
  <2>4. ASSUME NEW v \in Workers, stage[v] = "record" PROVE stage'[v] = "record"
    BY <1>4, <2>4, RecordStays
  <2>5. QED  BY <2>2, <2>3, <2>4 DEF Exact
<1>5. QED  BY <1>2, <1>3, <1>4

LEMMA AccountedStep ==
  ASSUME Faultless, RereadBeforeFailing, IInv, WrittenOff, Alive, Accounted, [Next]_vars
  PROVE  Accounted'
<1> USE DEF IInv, TypeOK, RowsOK, MarketOK, CallsOK, Held, AtHand, AtIt, Booking
\* A step that leaves the rows alone and keeps a call at its stages or lets
\* one go that executed nothing.
<1>1. ASSUME NEW w \in Workers, NEW s \in Stages,
             UNCHANGED <<claim, position, landed, gift>>, gift[w] \in Gifts,
             stage' = [stage EXCEPT ![w] = s],
             \/ landed[gift[w]] = 0
             \/ s \in {"answered", "inventory", "bought"} \cup Booking
             \/ stage[w] \notin {"answered", "inventory", "bought"} \cup Booking
      PROVE  Accounted'
  <2>1. ASSUME NEW g \in Gifts, landed[g] > 0, AtIt(g) PROVE AtIt(g)'
    <3>1. PICK v \in Workers : gift[v] = g /\ stage[v] \in {"answered", "inventory", "bought"} \cup Booking
      BY <2>1
    <3>2. CASE v = w
      BY <1>1, <2>1, <3>1, <3>2
    <3>3. CASE v # w
      BY <1>1, <3>1, <3>3
    <3>4. QED  BY <3>2, <3>3
  <2>2. QED  BY <1>1, <2>1 DEF Accounted
<1>2. ASSUME NEW w \in Workers, Prepare(w)
      PROVE  Accounted'
  <2>1. CASE ReserveRefused(w)
    BY <2>1 DEF ReserveRefused, Return, Accounted
  <2>2. CASE ClaimBuy(w)
    BY <2>2 DEF ClaimBuy, Accounted
  <2>3. CASE ReleaseBuy(w)
    <3>1. claim[gift[w]] = "pending" /\ landed[gift[w]] = 0 /\ gift[w] \in Gifts
      BY <2>3 DEF ReleaseBuy, ClaimFollows, Asking, LandedOnce
    <3>2. QED  BY <2>3, <3>1 DEF ReleaseBuy, Accounted
  <2>4. CASE ~ReserveRefused(w) /\ ~ClaimBuy(w) /\ ~ReleaseBuy(w)
    <3>1. /\ UNCHANGED <<claim, position, landed, gift>> /\ gift[w] \in Gifts
          /\ stage[w] \notin {"answered", "inventory", "bought"} \cup Booking
          /\ \E s \in Stages : stage' = [stage EXCEPT ![w] = s]
      BY <1>2, <2>4 DEF Prepare, Reserve, Reread, AllowAgain, GiveUp,
        ErrAlreadyAttempted, ReadFunds, FinalQuote, Abort
    <3>2. QED  BY <1>1, <3>1
  <2>5. QED  BY <2>1, <2>2, <2>3, <2>4
<1>3. ASSUME NEW w \in Workers, Execute(w)
      PROVE  Accounted'
  <2>1. gift[w] \in Gifts
    BY <1>3 DEF Execute, Send, SendCancelled, RetryOnNextRoute, Settles, SettleOK, SettleRefused,
      SettleBlocked, SettleAmbiguous, OwnershipUnknown, Owned, NotOwned
  <2>2. CASE Send(w)
    <3>1. PICK r \in Replies, lands \in BOOLEAN : MarketAnswers(w, r, lands)
      BY <2>2 DEF Send
    <3>2. /\ stage' = [stage EXCEPT ![w] = "answered"] /\ stage[w] = "send"
          /\ UNCHANGED <<claim, position, gift>>
      BY <2>2 DEF Send
    <3>3. \A g \in Gifts \ {gift[w]} : landed'[g] = landed[g]
      BY <3>1 DEF MarketAnswers
    <3>4. AtIt(gift[w])'
      BY <3>2
    <3>5. ASSUME NEW g \in Gifts \ {gift[w]}, AtIt(g) PROVE AtIt(g)'
      BY <3>2, <3>5
    <3>6. QED  BY <3>2, <3>3, <3>4, <3>5 DEF Accounted
  <2>3. CASE SendCancelled(w) \/ SettleOK(w) \/ SettleAmbiguous(w) \/ Owned(w)
    <3>1. /\ UNCHANGED <<claim, position, landed, gift>>
          /\ \E s \in {"inventory", "bought"} : stage' = [stage EXCEPT ![w] = s]
      BY <2>3 DEF SendCancelled, SettleOK, SettleAmbiguous, Owned
    <3>2. QED  BY <1>1, <2>1, <3>1
  <2>4. CASE RetryOnNextRoute(w)
    <3>1. landed[gift[w]] = 0
      BY <2>4, RouteAssumption DEF RetryOnNextRoute, MayRetry, RequestsCounted, RereadBeforeFailing, WrittenOff
    <3>2. /\ UNCHANGED <<claim, position, landed, gift>>
          /\ stage' = [stage EXCEPT ![w] = "send"]
      BY <2>4 DEF RetryOnNextRoute
    <3>3. QED  BY <1>1, <2>1, <3>1, <3>2
  <2>5. CASE SettleRefused(w) \/ SettleBlocked(w) \/ NotOwned(w)
    <3>1. landed[gift[w]] = 0
      <4>1. CASE SettleRefused(w) \/ SettleBlocked(w)
        BY <4>1 DEF SettleRefused, SettleBlocked, Settles, RereadBeforeFailing, WrittenOff
      <4>2. CASE NotOwned(w)
        BY <4>2 DEF NotOwned, WrittenOff
      <4>3. QED  BY <2>5, <4>1, <4>2
    <3>2. /\ UNCHANGED <<position, landed, gift>>
          /\ stage' = [stage EXCEPT ![w] = "leave"]
          /\ claim' = [claim EXCEPT ![gift[w]] = "failed"]
      BY <2>5 DEF SettleRefused, SettleBlocked, NotOwned, FinishBuy, Alive
    <3>3. ASSUME NEW g \in Gifts \ {gift[w]}, AtIt(g) PROVE AtIt(g)'
      BY <3>2, <3>3
    <3>4. QED  BY <3>1, <3>2, <3>3 DEF Accounted
  <2>6. ~OwnershipUnknown(w)
    BY DEF OwnershipUnknown, Alive, Faultless
  <2>7. QED  BY <1>3, <2>2, <2>3, <2>4, <2>5, <2>6 DEF Execute
<1>4. ASSUME NEW w \in Workers, Book(w)
      PROVE  Accounted'
  <2>1. CASE FinishBought(w)
    <3>1. /\ UNCHANGED <<position, landed, gift>> /\ gift[w] \in Gifts
          /\ stage' = [stage EXCEPT ![w] = "price"]
          /\ claim' = [claim EXCEPT ![gift[w]] = "bought"]
      BY <2>1 DEF FinishBought, FinishBuy, Alive
    <3>2. ASSUME NEW g \in Gifts, AtIt(g) PROVE AtIt(g)'
      BY <3>1, <3>2
    <3>3. QED  BY <3>1, <3>2 DEF Accounted
  <2>2. CASE PriceIt(w) \/ Commit(w)
    <3>1. /\ UNCHANGED <<claim, position, landed, gift>> /\ gift[w] \in Gifts
          /\ \E s \in Booking : stage' = [stage EXCEPT ![w] = s]
      BY <2>2 DEF PriceIt, Commit
    <3>2. QED  BY <1>1, <3>1
  <2>3. CASE RecordPosition(w)
    <3>1. /\ UNCHANGED <<claim, landed, gift>> /\ gift[w] \in Gifts
          /\ stage[w] = "record" /\ stage' = [stage EXCEPT ![w] = "list"]
          /\ position' = [position EXCEPT ![gift[w]] = "open"]
      BY <2>3 DEF RecordPosition, Alive
    <3>2. claim'[gift[w]] = "bought" /\ position'[gift[w]] # "none"
      BY <3>1 DEF ClaimFollows, Alive
    <3>3. ASSUME NEW g \in Gifts \ {gift[w]}, AtIt(g) PROVE AtIt(g)'
      BY <3>1, <3>3
    <3>4. QED  BY <3>1, <3>2, <3>3 DEF Accounted
  <2>4. CASE ListOrSuggest(w)
    <3>1. /\ UNCHANGED <<claim, position, landed, gift>> /\ gift[w] \in Gifts
          /\ stage[w] = "list" /\ stage' = [stage EXCEPT ![w] = "leave"]
      BY <2>4 DEF ListOrSuggest
    <3>2. QED  BY <1>1, <3>1
  <2>5. CASE Leave(w)
    <3>1. /\ UNCHANGED <<claim, position, landed>>
          /\ stage[w] = "leave" /\ stage' = [stage EXCEPT ![w] = "idle"]
          /\ gift' = [gift EXCEPT ![w] = NoGift]
      BY <2>5 DEF Leave, Return
    <3>2. ASSUME NEW g \in Gifts, AtIt(g) PROVE AtIt(g)'
      BY <3>1, <3>2
    <3>3. QED  BY <3>1, <3>2 DEF Accounted
  <2>6. QED  BY <1>4, <2>1, <2>2, <2>3, <2>4, <2>5 DEF Book
<1>5. ASSUME NEW w \in Workers, NEW g \in Gifts, NEW k \in {"auto", "manual"},
             NEW p \in Asks, Start(w, g, k, p)
      PROVE  Accounted'
  <2>1. /\ UNCHANGED <<claim, position, landed>>
        /\ stage[w] = "idle" /\ stage' = [stage EXCEPT ![w] = "waiting"]
        /\ gift' = [gift EXCEPT ![w] = g]
    BY <1>5 DEF Start
  <2>2. ASSUME NEW x \in Gifts, AtIt(x) PROVE AtIt(x)'
    BY <2>1, <2>2
  <2>3. QED  BY <2>1, <2>2 DEF Accounted
<1>6. CASE Operator
  <2>1. UNCHANGED <<claim, position, landed, gift, stage>>
    BY <1>6 DEF Operator, Arm, Disarm, Pause, PauseEnds
  <2>2. QED  BY <2>1 DEF Accounted
<1>7. CASE World
  <2>1. ASSUME NEW g \in Gifts, Sold(g) PROVE Accounted'
    BY <2>1 DEF Sold, Accounted
  <2>2. CASE \A g \in Gifts : ~Sold(g)
    BY <1>7, <2>2 DEF World, Cancel, Crash, Taken, Offered, Reprice, NextDay, Faultless, Accounted
  <2>3. QED  BY <2>1, <2>2
<1>8. CASE UNCHANGED vars
  BY <1>8 DEF vars, Accounted
<1>9. QED  BY <1>2, <1>3, <1>4, <1>5, <1>6, <1>7, <1>8 DEF Next, Step

\* Without faults, and with replies that are reread before a purchase is
\* written off, the three records of a purchase agree once its call returned.
THEOREM BooksBalance ==
  ASSUME Faultless, RereadBeforeFailing
  PROVE  Spec => []EveryPurchaseBooked
<1>1. Init => WrittenOff /\ Whole
  BY InitWrittenOff, InitWhole
<1>2. IInv /\ IInv' /\ WrittenOff /\ Whole /\ [Next]_vars => WrittenOff' /\ Whole'
  <2> SUFFICES ASSUME IInv, IInv', WrittenOff, Whole, [Next]_vars
               PROVE  WrittenOff' /\ Whole'
    OBVIOUS
  <2>1. WrittenOff'
    BY StepWrittenOff
  <2>2. Alive'
    BY AliveStep DEF Whole, IInv, TypeOK
  <2>3. Unrecorded' /\ Accounted' /\ Exact'
    BY <2>2, UnrecordedStep, AccountedStep, ExactStep DEF Whole
  <2>4. QED  BY <2>1, <2>2, <2>3 DEF Whole
<1>3. Whole => EveryPurchaseBooked
  BY DEF Whole, Accounted, AtIt, Exact, EveryPurchaseBooked, AtRest, Booking
<1>4. QED  BY <1>1, <1>2, <1>3, Inductive, PTL DEF Spec

=============================================================================
