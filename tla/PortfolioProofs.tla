-------------------------- MODULE PortfolioProofs --------------------------
(***************************************************************************)
(* Proofs about Portfolio: for any prices, clocks, windows, faults and any *)
(* number of moves of other people, no writer of the position row turns a  *)
(* gift the executor bought into one it sold while it is still held.       *)
(***************************************************************************)
EXTENDS Portfolio, FiniteSetTheorems, WellFoundedInduction, TLAPS

USE DEF market, store

\* A set of naturals has a least element.
LEMMA Least ==
  ASSUME NEW T \in SUBSET Nat, T # {}
  PROVE  \E x \in T : \A y \in T : x <= y
<1>1. PICK x \in T : \A y \in T : <<y, x>> \notin OpToRel(<, Nat)
  BY WFMin, NatLessThanWellFounded
<1>2. \A y \in T : ~(y < x)
  BY <1>1 DEF OpToRel
<1>3. QED  BY <1>2

\* Stamped records up to a bound have an oldest and a newest one.
LEMMA OldestExists ==
  ASSUME NEW ts, ts # {}, \A t \in ts : t.ts \in Nat
  PROVE  \E t \in ts : \A o \in ts : t.ts <= o.ts
<1> DEFINE T == {t.ts : t \in ts}
<1>1. T \in SUBSET Nat /\ T # {}
  OBVIOUS
<1> HIDE DEF T
<1>2. PICK x \in T : \A y \in T : x <= y
  BY <1>1, Least
<1>3. QED  BY <1>2 DEF T

LEMMA NewestExists ==
  ASSUME NEW ts, ts # {}, NEW n \in Nat, \A t \in ts : t.ts \in Nat /\ t.ts <= n
  PROVE  \E t \in ts : \A o \in ts : o.ts <= t.ts
<1> DEFINE T == {n - t.ts : t \in ts}
<1>1. T \in SUBSET Nat /\ T # {}
  OBVIOUS
<1> HIDE DEF T
<1>2. PICK x \in T : \A y \in T : x <= y
  BY <1>1, Least
<1>3. PICK t \in ts : x = n - t.ts
  BY DEF T
<1>4. ASSUME NEW o \in ts PROVE o.ts <= t.ts
  <2>1. n - t.ts <= n - o.ts
    BY <1>2, <1>3 DEF T
  <2>2. QED  BY <2>1
<1>5. QED  BY <1>4

LEMMA NewestIn ==
  ASSUME NEW ts, ts # {}, NEW n \in Nat, \A t \in ts : t.ts \in Nat /\ t.ts <= n
  PROVE  Newest(ts) \in ts
BY NewestExists DEF Newest

\* The trade of every rank is on a tape whose trades have times of their own.
LEMMA RankExists ==
  ASSUME NEW ts, IsFiniteSet(ts), NEW n \in Nat, \A t \in ts : t.ts \in Nat /\ t.ts <= n,
         \A t, o \in ts : t.ts = o.ts => t = o,
         NEW k \in Nat, k < Cardinality(ts)
  PROVE  \E o \in ts : Cardinality({q \in ts : q.ts <= o.ts}) = k + 1
<1> DEFINE upto(o)   == {q \in ts : q.ts <= o.ts}
           before(o) == {q \in ts : q.ts < o.ts}
           later     == {o \in ts : Cardinality(upto(o)) >= k + 1}
<1>1. \A o \in ts : /\ IsFiniteSet(upto(o)) /\ Cardinality(upto(o)) \in Nat
                    /\ IsFiniteSet(before(o)) /\ Cardinality(before(o)) \in Nat
  BY FS_Subset, FS_CardinalityType
<1>2. Cardinality(ts) \in Nat /\ ts # {}
  BY FS_CardinalityType, FS_EmptySet
<1>3. later # {}
  <2>1. PICK t \in ts : \A o \in ts : o.ts <= t.ts
    BY <1>2, NewestExists
  <2>2. upto(t) = ts
    BY <2>1
  <2>3. Cardinality(upto(t)) >= k + 1
    <3>1. Cardinality(upto(t)) = Cardinality(ts)
      BY <2>2
    <3> HIDE DEF upto
    <3>2. QED  BY <1>2, <3>1
  <2>4. QED  BY <2>3
<1>4. PICK o \in later : \A q \in later : o.ts <= q.ts
  <2>1. \A t \in later : t.ts \in Nat
    OBVIOUS
  <2> HIDE DEF later
  <2>2. QED  BY <1>3, <2>1, OldestExists
<1>5. Cardinality(before(o)) = Cardinality(upto(o)) - 1
  <2>1. o \in upto(o) /\ upto(o) \ {o} = before(o)
    <3>1. o \in ts /\ o.ts \in Nat
      BY <1>4
    <3>2. \A q \in ts : q \in before(o) <=> q \in upto(o) /\ q # o
      BY <3>1
    <3>3. QED  BY <3>1, <3>2
  <2> HIDE DEF before, upto
  <2>2. QED  BY <1>1, <1>4, <2>1, FS_RemoveElement
<1>6. Cardinality(before(o)) <= k
  <2>1. CASE before(o) = {}
    <3>1. Cardinality(before(o)) = 0
      BY <2>1, FS_EmptySet
    <3> HIDE DEF before
    <3>2. QED  BY <3>1
  <2>2. CASE before(o) # {}
    <3>1. PICK p \in before(o) : \A q \in before(o) : q.ts <= p.ts
      <4>1. \A q \in before(o) : q.ts \in Nat /\ q.ts <= n
        OBVIOUS
      <4> HIDE DEF before
      <4>2. QED  BY <2>2, <4>1, NewestExists
    <3>2. upto(p) = before(o)
      BY <3>1, <1>4
    <3>3. p \notin later
      BY <3>1, <1>4
    <3>4. p \in ts /\ ~(Cardinality(upto(p)) >= k + 1)
      BY <3>1, <3>3
    <3>5. Cardinality(before(o)) \in Nat /\ ~(Cardinality(before(o)) >= k + 1)
      BY <1>1, <1>4, <3>2, <3>4
    <3> HIDE DEF before, upto
    <3>6. QED  BY <3>5
  <2>3. QED  BY <2>1, <2>2
<1>7. Cardinality(upto(o)) = k + 1
  <2>1. Cardinality(upto(o)) >= k + 1 /\ o \in ts
    BY <1>4
  <2>2. Cardinality(upto(o)) \in Nat /\ Cardinality(before(o)) \in Nat
    BY <1>1, <2>1
  <2> HIDE DEF before, upto
  <2>3. QED  BY <1>5, <1>6, <2>1, <2>2
<1>8. QED  BY <1>4, <1>7

-----------------------------------------------------------------------------
\* Records keep their fields.
Shape(r, fields) == r = [f \in fields |-> r[f]]
RowFields  == {"status", "cost", "source", "bought", "list", "again"}
FeedFields == {"at", "trade", "p"}
PollFields == {"at", "now", "listed", "price", "seen", "p", "trade"}

\* The executor's purchase has a start once sent and a cost once executed.
Clocks ==
  /\ now \in Nat \ {0} /\ fed \in Nat
  /\ buy \in [at : {"idle", "sent", "bought", "done"}, now : Nat, cost : Nat]
  /\ buy.now <= now
  /\ buy.at \in {"idle", "sent"} => buy.cost = 0
  /\ buy.at = "bought" => buy.cost > 0
  /\ buy.at = "sent" \/ buy.cost > 0 => buy.now > 0

OnTape(s) == \E t \in tape : t.ts = s.ts /\ t.price = s.price

\* One trade at a time, and the history records trades.
TapeRight ==
  /\ IsFiniteSet(tape)
  /\ \A t \in tape : t.ts \in Nat /\ t.ts <= now
  /\ \A t, o \in tape : t.ts = o.ts => t = o
  /\ \A s \in sales : OnTape(s)

\* After the start of an executed purchase the tape holds that purchase, at its
\* price and within clockSkew, and what follows a sale of ours; until that sale
\* the gift is ours.
HeldSince ==
  buy.cost > 0 =>
    /\ \A t \in tape : t.ts > buy.now
         => SoldBy(t.ts) \/ (t.ts <= buy.now + Skew /\ t.price = buy.cost)
    /\ holder = "us" \/ SoldBy(now)

\* A row that names the executor as its source shows what the purchase cost.
RowRight(p) == p.source = "floorline" => p.cost = buy.cost /\ buy.cost > 0

RowsRight == Shape(row, RowFields) /\ RowRight(row)

\* What the feed or a poll is about to book is a trade, and not the purchase of
\* the row it read.
FeedRight ==
  /\ Shape(feed, FeedFields) /\ RowRight(feed.p)
  /\ feed.at \in {"read", "book"} => OnTape(feed.trade)
  /\ feed.at = "book" => ~OurAcquisition(feed.p, feed.trade)

PollRight ==
  /\ Shape(poll, PollFields) /\ RowRight(poll.p)
  /\ poll.at = "settle" /\ poll.trade # NoTrade
       => OnTape(poll.trade) /\ ~OurAcquisition(poll.p, poll.trade)

\* A trade at that time that is not the executor's purchase.
Another(ts) == \E t \in tape : t.ts = ts /\ ~(t.ts <= buy.now + Skew /\ t.price = buy.cost)

BooksRight ==
  \A b \in booked : b.judged.source = "floorline" =>
    /\ buy.cost > 0
    /\ b.judged.bought = buy.now /\ b.trip.ts > buy.now
         => Another(b.trip.ts) /\ SoldBy(b.trip.ts)

IInv == Clocks /\ TapeRight /\ HeldSince /\ RowsRight /\ FeedRight /\ PollRight /\ BooksRight

LEMMA InitIInv == Init => IInv
<1> SUFFICES ASSUME Init PROVE IInv
  OBVIOUS
<1>1. Clocks /\ HeldSince /\ BooksRight
  BY DEF Init, Clocks, HeldSince, BooksRight
<1>2. TapeRight
  BY FS_EmptySet DEF Init, TapeRight
<1>3. RowsRight /\ FeedRight /\ PollRight
  BY DEF Init, RowsRight, FeedRight, PollRight, Shape, RowRight, RowFields, FeedFields, PollFields,
    NoRow, IdleFeed, IdlePoll
<1>4. QED  BY <1>1, <1>2, <1>3 DEF IInv

-----------------------------------------------------------------------------
\* Apart from the four trades a step leaves the tape and the holder alone.
Trades == WeSell \/ OthersTrade \/ BuyByHand \/ BuyExecutes

LEMMA Quiet ==
  ASSUME [Next]_vars, ~Trades
  PROVE  /\ UNCHANGED <<tape, holder>>
         /\ now' = now \/ now' = now + 1
         /\ buy' = buy \/ StartBuy \/ buy' = [buy EXCEPT !.at = "done"]
<1>1. CASE ListByHand \/ TimePasses \/ StartBuy \/ BuyRefused \/ RecordPosition
  BY <1>1 DEF ListByHand, TimePasses, StartBuy, BuyRefused, RecordPosition
<1>2. CASE PlaceAsk \/ RecordAsk \/ SetCost \/ SaveCost \/ PollHistory
  BY <1>2 DEF PlaceAsk, RecordAsk, SetCost, SaveCost, PollHistory
<1>3. CASE Feed
  BY <1>3 DEF Feed, SaleEvent, CloseIfOurs, BookFromFeed
<1>4. CASE Poll
  BY <1>4 DEF Poll, StartPoll, ReadPage, PageFails, GetExisting, Reconcile, LoadTracked,
    FindSale, Settle
<1>5. CASE Restart
  BY <1>5 DEF Restart
<1>6. CASE UNCHANGED vars
  BY <1>6 DEF vars
<1>7. QED  BY <1>1, <1>2, <1>3, <1>4, <1>5, <1>6 DEF Next, Trades

\* A trade is the next record of the tape; only the executor's sets buy.
LEMMA OneTrade ==
  ASSUME Trades, Clocks
  PROVE  \E side, price :
           /\ now' = now + 1
           /\ tape' = tape \cup {[ts |-> now + 1, price |-> price, side |-> side]}
           /\ UNCHANGED <<store, feed, poll, fed>>
           /\ \/ buy' = buy /\ side = "sell"
              \/ buy' = buy /\ holder = "them"
              \/ /\ BuyExecutes /\ holder' = "us" /\ price \in Prices
                 /\ buy' = [buy EXCEPT !.at = "bought", !.cost = price]
<1>1. CASE WeSell
  BY <1>1 DEF WeSell, Trade
<1>2. CASE OthersTrade
  BY <1>2 DEF OthersTrade, Trade
<1>3. CASE BuyByHand
  BY <1>3 DEF BuyByHand, Trade
<1>4. CASE BuyExecutes
  BY <1>4 DEF BuyExecutes, Trade
<1>5. QED  BY <1>1, <1>2, <1>3, <1>4 DEF Trades

LEMMA FedStep ==
  ASSUME fed \in Nat, [Next]_vars
  PROVE  fed' \in Nat
<1>1. CASE Trades \/ ListByHand \/ TimePasses \/ StartBuy \/ BuyRefused \/ RecordPosition
  BY <1>1 DEF Trades, WeSell, OthersTrade, BuyByHand, BuyExecutes, ListByHand, TimePasses,
    StartBuy, BuyRefused, RecordPosition
<1>2. CASE PlaceAsk \/ RecordAsk \/ SetCost \/ SaveCost \/ PollHistory
  BY <1>2 DEF PlaceAsk, RecordAsk, SetCost, SaveCost, PollHistory
<1>3. CASE Feed
  BY <1>3 DEF Feed, SaleEvent, CloseIfOurs, BookFromFeed
<1>4. CASE Poll
  BY <1>4 DEF Poll, StartPoll, ReadPage, PageFails, GetExisting, Reconcile, LoadTracked,
    FindSale, Settle
<1>5. CASE Restart
  BY <1>5 DEF Restart
<1>6. CASE UNCHANGED vars
  BY <1>6 DEF vars
<1>7. QED  BY <1>1, <1>2, <1>3, <1>4, <1>5, <1>6 DEF Next, Trades

LEMMA ClocksStep ==
  ASSUME Clocks, [Next]_vars
  PROVE  Clocks'
<1> USE DEF Clocks
<1>1. fed' \in Nat
  BY FedStep
<1>2. CASE Trades
  <2>1. PICK side, price :
          /\ now' = now + 1
          /\ \/ buy' = buy
             \/ /\ BuyExecutes /\ price \in Prices
                /\ buy' = [buy EXCEPT !.at = "bought", !.cost = price]
    BY <1>2, OneTrade
  <2>2. CASE buy' = buy
    BY <1>1, <2>1, <2>2
  <2>3. CASE BuyExecutes /\ price \in Prices /\ buy' = [buy EXCEPT !.at = "bought", !.cost = price]
    <3>1. price \in Nat /\ price > 0 /\ buy.at = "sent"
      BY <2>3, PortfolioAssumption DEF BuyExecutes
    <3>2. /\ buy' \in [at : {"idle", "sent", "bought", "done"}, now : Nat, cost : Nat]
          /\ buy'.at = "bought" /\ buy'.cost = price /\ buy'.now = buy.now
      BY <2>3, <3>1
    <3>3. buy.now <= now' /\ now' \in Nat \ {0} /\ buy.now > 0
      BY <2>1, <3>1
    <3>4. QED  BY <1>1, <3>1, <3>2, <3>3
  <2>4. QED  BY <2>1, <2>2, <2>3
<1>3. CASE ~Trades
  <2>1. /\ now' = now \/ now' = now + 1
        /\ buy' = buy \/ StartBuy \/ buy' = [buy EXCEPT !.at = "done"]
    BY <1>3, Quiet
  <2>2. CASE StartBuy
    <3>1. buy.at = "idle" /\ buy' = [buy EXCEPT !.at = "sent", !.now = now] /\ now' = now
      BY <2>2 DEF StartBuy
    <3>2. /\ buy' \in [at : {"idle", "sent", "bought", "done"}, now : Nat, cost : Nat]
          /\ buy'.at = "sent" /\ buy'.cost = buy.cost /\ buy'.now = now
      BY <3>1
    <3>3. QED  BY <1>1, <3>1, <3>2
  <2>3. CASE ~StartBuy
    <3>1. now' \in Nat \ {0} /\ now <= now'
      BY <2>1
    <3>2. CASE buy' = buy
      BY <1>1, <3>1, <3>2
    <3>3. CASE buy' = [buy EXCEPT !.at = "done"]
      <4>1. /\ buy' \in [at : {"idle", "sent", "bought", "done"}, now : Nat, cost : Nat]
            /\ buy'.at = "done" /\ buy'.cost = buy.cost /\ buy'.now = buy.now
        BY <3>3
      <4>2. QED  BY <1>1, <3>1, <4>1
    <3>4. QED  BY <2>1, <2>3, <3>2, <3>3
  <2>4. QED  BY <2>2, <2>3
<1>4. QED  BY <1>2, <1>3

\* Nothing but its own execution changes the cost of a purchase, and nothing
\* the start of an executed one.
LEMMA PurchaseFixed ==
  ASSUME Clocks, [Next]_vars
  PROVE  buy.cost > 0 => buy'.cost = buy.cost /\ buy'.now = buy.now
<1> SUFFICES ASSUME buy.cost > 0 PROVE buy'.cost = buy.cost /\ buy'.now = buy.now
  OBVIOUS
<1>1. buy.at \notin {"idle", "sent"}
  BY DEF Clocks
<1>2. buy' = buy \/ buy' = [buy EXCEPT !.at = "done"]
  BY <1>1, OneTrade, Quiet DEF StartBuy, BuyExecutes
<1>3. QED  BY <1>2 DEF Clocks

\* The feed reads a trade of the tape.
LEMMA SaleEventReads ==
  ASSUME SaleEvent, Clocks, TapeRight
  PROVE  \E s : /\ OnTape(s)
                /\ sales' = sales \/ sales' = sales \cup {s}
                /\ feed' = [feed EXCEPT !.at = "read", !.trade = s]
<1> DEFINE t == CHOOSE o \in tape : Cardinality({q \in tape : q.ts <= o.ts}) = fed + 1
           s == [ts |-> t.ts, price |-> t.price, side |-> t.side, stamp |-> "feed"]
<1>1. \E o \in tape : Cardinality({q \in tape : q.ts <= o.ts}) = fed + 1
  <2>1. fed \in Nat /\ now \in Nat /\ fed < Cardinality(tape)
    BY DEF SaleEvent, Clocks
  <2>2. QED  BY <2>1, RankExists DEF TapeRight
<1>2. t \in tape
  BY <1>1
<1>3. /\ sales' = sales \/ sales' = sales \cup {s}
      /\ feed' = [feed EXCEPT !.at = "read", !.trade = s]
  BY DEF SaleEvent
<1> HIDE DEF t
<1>4. OnTape(s)
  BY <1>2 DEF OnTape
<1> HIDE DEF s
<1>5. QED  BY <1>3, <1>4

LEMMA SalesStep ==
  ASSUME [Next]_vars, Clocks, TapeRight
  PROVE  sales' = sales \/ \E s : OnTape(s) /\ sales' = sales \cup {s}
<1>1. CASE Trades \/ ListByHand \/ TimePasses \/ StartBuy \/ BuyRefused \/ RecordPosition
  BY <1>1 DEF Trades, WeSell, OthersTrade, BuyByHand, BuyExecutes, ListByHand, TimePasses,
    StartBuy, BuyRefused, RecordPosition
<1>2. CASE PlaceAsk \/ RecordAsk \/ SetCost \/ SaveCost
  BY <1>2 DEF PlaceAsk, RecordAsk, SetCost, SaveCost
<1>3. CASE PollHistory
  <2>1. PICK t \in tape, s \in Stamps :
          sales' = sales \cup {[ts |-> t.ts, price |-> t.price, side |-> t.side, stamp |-> s]}
    BY <1>3 DEF PollHistory
  <2> DEFINE r == [ts |-> t.ts, price |-> t.price, side |-> t.side, stamp |-> s]
  <2>2. OnTape(r)
    BY DEF OnTape
  <2>3. QED  BY <2>1, <2>2
<1>4. CASE SaleEvent
  BY <1>4, SaleEventReads
<1>5. CASE CloseIfOurs \/ BookFromFeed
  BY <1>5 DEF CloseIfOurs, BookFromFeed
<1>6. CASE Poll
  BY <1>6 DEF Poll, StartPoll, ReadPage, PageFails, GetExisting, Reconcile, LoadTracked,
    FindSale, Settle
<1>7. CASE Restart
  BY <1>7 DEF Restart
<1>8. CASE UNCHANGED vars
  BY <1>8 DEF vars
<1>9. QED  BY <1>1, <1>2, <1>3, <1>4, <1>5, <1>6, <1>7, <1>8 DEF Next, Trades, Feed

LEMMA TapeStep ==
  ASSUME [Next]_vars, Clocks, TapeRight
  PROVE  TapeRight'
<1> USE DEF TapeRight
<1>1. CASE Trades
  <2>1. PICK side, price :
          /\ now' = now + 1
          /\ tape' = tape \cup {[ts |-> now + 1, price |-> price, side |-> side]}
          /\ sales' = sales
    BY <1>1, OneTrade
  <2> DEFINE r == [ts |-> now + 1, price |-> price, side |-> side]
  <2>2. r.ts = now + 1 /\ now \in Nat
    BY DEF Clocks
  <2>3. tape' = tape \cup {r}
    BY <2>1
  <2> HIDE DEF r
  <2>4. IsFiniteSet(tape')
    BY <2>3, FS_AddElement
  <2>5. \A t \in tape' : t.ts \in Nat /\ t.ts <= now'
    BY <2>1, <2>2, <2>3
  <2>6. \A t \in tape : t.ts # r.ts
    BY <2>2
  <2>7. \A t, o \in tape' : t.ts = o.ts => t = o
    BY <2>3, <2>6
  <2>8. \A s \in sales' : OnTape(s)'
    BY <2>1, <2>3 DEF OnTape
  <2>9. QED  BY <2>4, <2>5, <2>7, <2>8
<1>2. CASE ~Trades
  <2>1. tape' = tape /\ (now' = now \/ now' = now + 1)
    BY <1>2, Quiet
  <2>2. \A t \in tape' : t.ts \in Nat /\ t.ts <= now'
    BY <2>1 DEF Clocks
  <2>3. \A s \in sales' : OnTape(s)'
    BY <2>1, SalesStep DEF OnTape
  <2>4. QED  BY <2>1, <2>2, <2>3
<1>3. QED  BY <1>1, <1>2

\* A gift stays sold by a time, and by any later one.
LEMMA SoldStays ==
  ASSUME [Next]_vars, Clocks, TapeRight, buy.cost > 0
  PROVE  /\ \A ts : SoldBy(ts) => SoldBy(ts)'
         /\ \A ts : OnTape(ts) => OnTape(ts)'
         /\ SoldBy(now) => SoldBy(now)'
<1>1. tape \subseteq tape'
  BY OneTrade, Quiet
<1>2. buy'.now = buy.now
  BY PurchaseFixed
<1>3. now \in Nat /\ (now' = now \/ now' = now + 1)
  BY OneTrade, Quiet DEF Clocks
<1>4. \A ts : SoldBy(ts) => SoldBy(ts)'
  BY <1>1, <1>2 DEF SoldBy
<1>5. \A ts : OnTape(ts) => OnTape(ts)'
  BY <1>1 DEF OnTape
<1>6. ASSUME SoldBy(now) PROVE SoldBy(now)'
  <2>1. PICK t \in tape : t.side = "sell" /\ buy.now < t.ts /\ t.ts <= now
    BY <1>6 DEF SoldBy
  <2>2. t.ts <= now'
    BY <1>3, <2>1 DEF TapeRight
  <2>3. QED  BY <1>1, <1>2, <2>1, <2>2 DEF SoldBy
<1>7. QED  BY <1>4, <1>5, <1>6

LEMMA HeldStep ==
  ASSUME [Next]_vars, Clocks, Clocks', TapeRight, HeldSince
  PROVE  HeldSince'
<1> SUFFICES ASSUME buy'.cost > 0
             PROVE  /\ \A t \in tape' : t.ts > buy'.now
                         => SoldBy(t.ts)' \/ (t.ts <= buy'.now + Skew /\ t.price = buy'.cost)
                    /\ holder' = "us" \/ SoldBy(now)'
  BY DEF HeldSince
<1>1. CASE Trades
  <2>1. PICK side, price :
          /\ now' = now + 1
          /\ tape' = tape \cup {[ts |-> now + 1, price |-> price, side |-> side]}
          /\ \/ buy' = buy /\ side = "sell"
             \/ buy' = buy /\ holder = "them"
             \/ /\ BuyExecutes /\ holder' = "us" /\ price \in Prices
                /\ buy' = [buy EXCEPT !.at = "bought", !.cost = price]
    BY <1>1, OneTrade
  <2>2. PICK r : r.ts = now + 1 /\ r.price = price /\ r.side = side /\ tape' = tape \cup {r}
    <3> DEFINE r == [ts |-> now + 1, price |-> price, side |-> side]
    <3>1. r.ts = now + 1 /\ r.price = price /\ r.side = side /\ tape' = tape \cup {r}
      BY <2>1
    <3> HIDE DEF r
    <3>2. QED  BY <3>1
  <2>3. now \in Nat
    BY DEF Clocks
  <2>4. CASE buy' = buy
    <3>1. SoldBy(now)'
      <4>1. CASE side = "sell"
        BY <2>1, <2>2, <2>3, <2>4, <4>1 DEF SoldBy, Clocks
      <4>2. CASE holder = "them"
        BY <2>4, <4>2, SoldStays DEF HeldSince
      <4>3. CASE side # "sell" /\ holder # "them"
        <5>1. BuyExecutes /\ buy' = [buy EXCEPT !.at = "bought", !.cost = price]
          BY <2>1, <4>3
        <5>2. buy.at = "sent"
          BY <5>1 DEF BuyExecutes
        <5>3. QED  BY <2>4, <5>2 DEF Clocks
      <4>4. QED  BY <4>1, <4>2, <4>3
    <3>2. ASSUME NEW t \in tape, t.ts > buy'.now
          PROVE  SoldBy(t.ts)' \/ (t.ts <= buy'.now + Skew /\ t.price = buy'.cost)
      BY <2>4, <3>2, SoldStays DEF HeldSince
    <3>3. SoldBy(r.ts)'
      BY <2>1, <2>2, <3>1
    <3>4. QED  BY <2>2, <3>1, <3>2, <3>3
  <2>5. CASE BuyExecutes /\ holder' = "us" /\ buy' = [buy EXCEPT !.at = "bought", !.cost = price]
    <3>1. now < buy.now + Skew /\ \A t \in tape : t.ts <= buy.now
      BY <2>5 DEF BuyExecutes
    <3>2. buy'.now = buy.now /\ buy'.cost = price /\ buy.now \in Nat /\ Skew \in Nat
      BY <2>5, PortfolioAssumption DEF Clocks
    <3>3. \A t \in tape : ~(t.ts > buy.now)
      BY <3>1, <3>2 DEF TapeRight
    <3>4. r.ts <= buy.now + Skew
      BY <2>2, <2>3, <3>1, <3>2
    <3>5. QED  BY <2>2, <2>5, <3>2, <3>3, <3>4
  <2>6. QED  BY <2>1, <2>4, <2>5
<1>2. CASE ~Trades
  <2>1. UNCHANGED <<tape, holder>> /\ buy'.cost = buy.cost
    <3>1. UNCHANGED <<tape, holder>>
      BY <1>2, Quiet
    <3>2. buy' = buy \/ buy' = [buy EXCEPT !.at = "sent", !.now = now] \/ buy' = [buy EXCEPT !.at = "done"]
      BY <1>2, Quiet DEF StartBuy
    <3>3. QED  BY <3>1, <3>2 DEF Clocks
  <2>2. buy'.now = buy.now /\ buy.cost > 0
    BY <2>1, PurchaseFixed
  <2>3. QED  BY <2>1, <2>2, SoldStays DEF HeldSince
<1>3. QED  BY <1>1, <1>2

-----------------------------------------------------------------------------
\* What the statements of the store do to a row.
RowKeeps(r, s) ==
  /\ Shape(s, RowFields)
  /\ (s.source = "floorline" => r.source = "floorline" /\ s.cost = r.cost)

LEMMA Statements ==
  ASSUME NEW r, Shape(r, RowFields), NEW price, NEW t
  PROVE  /\ RowKeeps(r, Listed(r, price)) /\ RowKeeps(r, Unlisted(r)) /\ RowKeeps(r, Missing(r))
         /\ Shape(Recovered(r, t), RowFields) /\ Recovered(r, t).source = "sale_history"
         /\ RowKeeps(r, [r EXCEPT !.status = "sold"])
         /\ Shape([r EXCEPT !.cost = price, !.source = "manual"], RowFields)
         /\ [r EXCEPT !.cost = price, !.source = "manual"].source = "manual"
BY DEF Listed, Unlisted, Missing, Recovered, RowKeeps, Shape, RowFields

LEMMA UpsertRight ==
  ASSUME NEW old, Shape(old, RowFields), RowRight(old), NEW new, Shape(new, RowFields), RowRight(new)
  PROVE  Shape(Upsert(old, new), RowFields) /\ RowRight(Upsert(old, new))
BY DEF Upsert, RowRight, Shape, RowFields

\* The row names the executor only with the cost of its purchase.
LEMMA RowStep ==
  ASSUME [Next]_vars, Clocks, Shape(row, RowFields), RowRight(row)
  PROVE  Shape(row', RowFields) /\ RowRight(row)'
<1>1. ASSUME row' = row PROVE Shape(row', RowFields) /\ RowRight(row)'
  BY <1>1, PurchaseFixed DEF RowRight
<1>2. ASSUME RowKeeps(row, row') PROVE Shape(row', RowFields) /\ RowRight(row)'
  BY <1>2, PurchaseFixed DEF RowRight, RowKeeps
<1>3. ASSUME Shape(row', RowFields), row'.source # "floorline"
      PROVE  Shape(row', RowFields) /\ RowRight(row)'
  BY <1>3 DEF RowRight
<1>4. CASE Trades \/ ListByHand \/ TimePasses \/ StartBuy \/ BuyRefused
  <2>1. row' = row
    BY <1>4 DEF Trades, WeSell, OthersTrade, BuyByHand, BuyExecutes, ListByHand, TimePasses,
      StartBuy, BuyRefused
  <2>2. QED  BY <1>1, <2>1
<1>5. CASE RecordPosition
  <2> DEFINE new == [NoRow EXCEPT !.status = "open", !.cost = buy.cost,
                                  !.source = "floorline", !.bought = buy.now]
  <2>1. row' = Upsert(row, new) /\ buy.cost > 0 /\ buy'.cost = buy.cost
    BY <1>5, PurchaseFixed DEF RecordPosition, Clocks
  <2>2. Shape(new, RowFields) /\ RowRight(new)
    BY <2>1 DEF NoRow, Shape, RowFields, RowRight
  <2> HIDE DEF new
  <2>3. Shape(row', RowFields) /\ RowRight(Upsert(row, new))
    BY <2>1, <2>2, UpsertRight
  <2>4. QED  BY <2>1, <2>3 DEF RowRight
<1>6. CASE PlaceAsk \/ SetCost \/ PollHistory \/ SaleEvent \/ CloseIfOurs \/ Restart \/ UNCHANGED vars
  <2>1. row' = row
    BY <1>6 DEF PlaceAsk, SetCost, PollHistory, SaleEvent, CloseIfOurs, Restart, vars
  <2>2. QED  BY <1>1, <2>1
<1>7. CASE RecordAsk
  BY <1>2, <1>7, Statements DEF RecordAsk
<1>8. CASE SaveCost
  <2>1. PICK price : row' = [row EXCEPT !.cost = price, !.source = "manual"]
    BY <1>8 DEF SaveCost
  <2>2. Shape(row', RowFields) /\ row'.source = "manual"
    BY <2>1, Statements
  <2>3. QED  BY <1>3, <2>2
<1>9. CASE BookFromFeed
  BY <1>2, <1>9, Statements DEF BookFromFeed, BookSale
<1>10. CASE Reconcile
  <2>1. CASE Import(poll.p)
    <3> DEFINE base == [NoRow EXCEPT !.again = (poll.p.status = "sold"),
                             !.status = IF poll.listed THEN "listed" ELSE "open",
                             !.list = IF poll.listed THEN poll.price ELSE 0]
    <3>1. Shape(base, RowFields) /\ base.source = "unknown"
      BY DEF NoRow, Shape, RowFields
    <3>2. PICK new : row' = Upsert(row, new)
                      /\ (new = [base EXCEPT !.bought = poll.now] \/ \E t : new = Recovered(base, t))
      BY <2>1 DEF Import
    <3> HIDE DEF base
    <3>3. Shape(new, RowFields) /\ new.source # "floorline"
      <4>1. CASE new = [base EXCEPT !.bought = poll.now]
        BY <3>1, <4>1 DEF Shape, RowFields
      <4>2. ASSUME NEW t, new = Recovered(base, t)
            PROVE  Shape(new, RowFields) /\ new.source # "floorline"
        <5>1. Shape(Recovered(base, t), RowFields) /\ Recovered(base, t).source = "sale_history"
          BY <3>1, Statements
        <5>2. QED  BY <4>2, <5>1
      <4>3. QED  BY <3>2, <4>1, <4>2
    <3>4. Shape(row', RowFields) /\ RowRight(Upsert(row, new))
      BY <3>2, <3>3, UpsertRight DEF RowRight
    <3>5. QED  BY <3>2, <3>4, PurchaseFixed DEF RowRight
  <2>2. CASE Refresh(poll.p)
    <3>1. PICK r : row' = Observed(poll.p, r) /\ (r = row \/ \E t : r = Recovered(row, t))
      BY <2>2 DEF Refresh
    <3>2. Shape(r, RowFields)
      <4>1. ASSUME NEW t PROVE Shape(Recovered(row, t), RowFields)
        BY Statements
      <4>2. QED  BY <3>1, <4>1
    <3>3. row' = r \/ RowKeeps(r, row')
      BY <3>1, <3>2, Statements DEF Observed
    <3>4. CASE r = row
      BY <1>1, <1>2, <3>3, <3>4
    <3>5. CASE \E t : r = Recovered(row, t)
      <4>1. r.source = "sale_history"
        BY <3>5, Statements, ZenonT(60)
      <4>2. QED  BY <1>3, <3>2, <3>3, <4>1 DEF RowKeeps
    <3>6. QED  BY <3>1, <3>4, <3>5
  <2>3. QED  BY <1>10, <2>1, <2>2 DEF Reconcile
<1>11. CASE Settle
  <2>1. row' = row \/ row' = Missing(row) \/ row' = [row EXCEPT !.status = "sold"]
    BY <1>11 DEF Settle, BookSale
  <2>2. QED  BY <1>1, <1>2, <2>1, Statements
<1>12. CASE Poll /\ ~Reconcile /\ ~Settle
  <2>1. row' = row
    BY <1>12 DEF Poll, StartPoll, ReadPage, PageFails, GetExisting, LoadTracked, FindSale
  <2>2. QED  BY <1>1, <2>1
<1>13. QED
  BY <1>4, <1>5, <1>6, <1>7, <1>8, <1>9, <1>10, <1>11, <1>12 DEF Next, Trades, Feed

LEMMA FeedStep ==
  ASSUME [Next]_vars, Clocks, TapeRight, RowRight(row), FeedRight
  PROVE  FeedRight'
<1> USE DEF FeedRight
<1>1. ASSUME feed' = feed PROVE FeedRight'
  <2>1. RowRight(feed.p)'
    BY <1>1, PurchaseFixed DEF RowRight
  <2>2. feed.at \in {"read", "book"} => OnTape(feed.trade)'
    <3>1. tape \subseteq tape'
      BY OneTrade, Quiet
    <3>2. QED  BY <1>1, <3>1 DEF OnTape
  <2>3. QED  BY <1>1, <2>1, <2>2 DEF OurAcquisition
<1>2. ASSUME feed' = IdleFeed PROVE FeedRight'
  BY <1>2 DEF IdleFeed, Shape, FeedFields, RowRight, NoRow
<1>3. CASE Trades \/ ListByHand \/ TimePasses \/ StartBuy \/ BuyRefused \/ RecordPosition
  BY <1>1, <1>3 DEF Trades, WeSell, OthersTrade, BuyByHand, BuyExecutes, ListByHand, TimePasses,
    StartBuy, BuyRefused, RecordPosition
<1>4. CASE PlaceAsk \/ RecordAsk \/ SetCost \/ SaveCost \/ PollHistory
  BY <1>1, <1>4 DEF PlaceAsk, RecordAsk, SetCost, SaveCost, PollHistory
<1>5. CASE SaleEvent
  <2>1. PICK s : OnTape(s) /\ feed' = [feed EXCEPT !.at = "read", !.trade = s]
    BY <1>5, SaleEventReads
  <2>2. tape' = tape /\ buy' = buy
    BY <1>5 DEF SaleEvent
  <2>3. Shape(feed', FeedFields) /\ feed'.at = "read" /\ feed'.trade = s /\ feed'.p = feed.p
    BY <2>1 DEF Shape, FeedFields
  <2>4. OnTape(feed.trade)'
    BY <2>1, <2>2, <2>3 DEF OnTape
  <2>5. RowRight(feed.p)'
    BY <2>2, <2>3 DEF RowRight
  <2>6. QED  BY <2>3, <2>4, <2>5
<1>6. CASE CloseIfOurs
  <2>1. CASE feed' = IdleFeed
    BY <1>2, <2>1
  <2>2. CASE feed' # IdleFeed
    <3>1. /\ feed' = [feed EXCEPT !.at = "book", !.p = row] /\ feed.at = "read"
          /\ ~OurAcquisition(row, feed.trade) /\ UNCHANGED <<tape, buy>>
      BY <1>6, <2>2 DEF CloseIfOurs
    <3>2. Shape(feed', FeedFields) /\ feed'.at = "book" /\ feed'.trade = feed.trade /\ feed'.p = row
      BY <3>1 DEF Shape, FeedFields
    <3>3. OnTape(feed.trade)'
      BY <3>1, <3>2 DEF OnTape
    <3>4. RowRight(feed.p)'
      BY <3>1, <3>2 DEF RowRight
    <3>5. ~OurAcquisition(feed.p, feed.trade)'
      BY <3>1, <3>2 DEF OurAcquisition
    <3>6. QED  BY <3>2, <3>3, <3>4, <3>5
  <2>3. QED  BY <2>1, <2>2
<1>7. CASE BookFromFeed \/ Restart
  BY <1>2, <1>7 DEF BookFromFeed, Restart
<1>8. CASE Poll
  BY <1>1, <1>8 DEF Poll, StartPoll, ReadPage, PageFails, GetExisting, Reconcile, LoadTracked,
    FindSale, Settle
<1>9. CASE UNCHANGED vars
  BY <1>1, <1>9 DEF vars
<1>10. QED  BY <1>3, <1>4, <1>5, <1>6, <1>7, <1>8, <1>9 DEF Next, Trades, Feed

LEMMA PollStep ==
  ASSUME [Next]_vars, Clocks, TapeRight, RowRight(row), PollRight
  PROVE  PollRight'
<1> USE DEF PollRight
<1>1. ASSUME poll' = poll PROVE PollRight'
  <2>1. RowRight(poll.p)'
    BY <1>1, PurchaseFixed DEF RowRight
  <2>2. OnTape(poll.trade) => OnTape(poll.trade)'
    <3>1. tape \subseteq tape'
      BY OneTrade, Quiet
    <3>2. QED  BY <1>1, <3>1 DEF OnTape
  <2>3. QED  BY <1>1, <2>1, <2>2 DEF OurAcquisition
\* Any other stage with a row that was just read, or none.
<1>2. ASSUME UNCHANGED buy, Shape(poll', PollFields), poll'.at # "settle",
             poll'.p \in {poll.p, row, NoRow}
      PROVE  PollRight'
  <2>1. RowRight(poll.p)'
    BY <1>2 DEF RowRight, NoRow
  <2>2. QED  BY <1>2, <2>1
<1>3. CASE Trades \/ ListByHand \/ TimePasses \/ StartBuy \/ BuyRefused \/ RecordPosition
  BY <1>1, <1>3 DEF Trades, WeSell, OthersTrade, BuyByHand, BuyExecutes, ListByHand, TimePasses,
    StartBuy, BuyRefused, RecordPosition
<1>4. CASE PlaceAsk \/ RecordAsk \/ SetCost \/ SaveCost \/ PollHistory \/ Feed
  BY <1>1, <1>4 DEF PlaceAsk, RecordAsk, SetCost, SaveCost, PollHistory, Feed, SaleEvent,
    CloseIfOurs, BookFromFeed
<1>5. ASSUME poll' = IdlePoll PROVE PollRight'
  BY <1>5 DEF IdlePoll, Shape, PollFields, RowRight, NoRow
<1>6. CASE StartPoll
  <2>1. poll' = [IdlePoll EXCEPT !.at = "page", !.now = now] /\ UNCHANGED buy
    BY <1>6 DEF StartPoll
  <2>2. Shape(poll', PollFields) /\ poll'.at = "page" /\ poll'.p = NoRow
    BY <2>1 DEF IdlePoll, Shape, PollFields
  <2>3. QED  BY <1>2, <2>1, <2>2
<1>7. CASE ReadPage
  <2>1. /\ UNCHANGED buy
        /\ \/ poll' = [poll EXCEPT !.at = "get", !.price = ask, !.seen = TRUE]
           \/ poll' = Turn(poll)
    BY <1>7 DEF ReadPage
  <2>2. Shape(poll', PollFields) /\ poll'.at # "settle" /\ poll'.p = poll.p
    BY <2>1 DEF Turn, Shape, PollFields
  <2>3. QED  BY <1>2, <2>1, <2>2
<1>8. CASE PageFails \/ Settle \/ Restart
  BY <1>5, <1>8 DEF PageFails, Settle, Restart
<1>9. CASE GetExisting
  <2>1. poll' = [poll EXCEPT !.at = "reconcile", !.p = row] /\ UNCHANGED buy
    BY <1>9 DEF GetExisting
  <2>2. Shape(poll', PollFields) /\ poll'.at = "reconcile" /\ poll'.p = row
    BY <2>1 DEF Shape, PollFields
  <2>3. QED  BY <1>2, <2>1, <2>2
<1>10. CASE Reconcile
  <2>1. poll' = [Turn(poll) EXCEPT !.p = NoRow, !.price = 0] /\ UNCHANGED buy
    BY <1>10 DEF Reconcile
  <2>2. Shape(poll', PollFields) /\ poll'.at # "settle" /\ poll'.p = NoRow
    BY <2>1 DEF Turn, Shape, PollFields
  <2>3. QED  BY <1>2, <2>1, <2>2
<1>11. CASE LoadTracked
  <2>1. CASE poll' = IdlePoll
    BY <1>5, <2>1
  <2>2. CASE poll' # IdlePoll
    <3>1. poll' = [poll EXCEPT !.at = "close", !.p = row] /\ UNCHANGED buy
      BY <1>11, <2>2 DEF LoadTracked
    <3>2. Shape(poll', PollFields) /\ poll'.at = "close" /\ poll'.p = row
      BY <3>1 DEF Shape, PollFields
    <3>3. QED  BY <1>2, <3>1, <3>2
  <2>3. QED  BY <2>1, <2>2
<1>12. CASE FindSale
  <2> DEFINE mine == {t \in SalesAfter(poll.p.bought) : ~OurAcquisition(poll.p, t)}
  <2>1. /\ poll' = [poll EXCEPT !.at = "settle",
                                !.trade = IF mine = {} THEN NoTrade ELSE Newest(mine)]
        /\ UNCHANGED <<buy, tape>>
    BY <1>12 DEF FindSale
  <2>2. mine # {} => Newest(mine) \in mine
    <3>1. \A t \in mine : t.ts \in Nat /\ t.ts <= now
      <4>1. \A t \in mine : OnTape(t)
        BY DEF SalesAfter, TapeRight
      <4> HIDE DEF mine
      <4>2. QED  BY <4>1 DEF OnTape, TapeRight
    <3> HIDE DEF mine
    <3>2. QED  BY <3>1, NewestIn DEF Clocks
  <2>3. \A t \in mine : OnTape(t) /\ ~OurAcquisition(poll.p, t)
    BY DEF SalesAfter, TapeRight
  <2> HIDE DEF mine
  <2>4. Shape(poll', PollFields) /\ poll'.at = "settle" /\ poll'.p = poll.p
        /\ (poll'.trade = NoTrade \/ poll'.trade \in mine)
    BY <2>1, <2>2 DEF Shape, PollFields
  <2>5. RowRight(poll.p)'
    BY <2>1, <2>4 DEF RowRight
  <2>6. poll'.trade # NoTrade => OnTape(poll.trade)' /\ ~OurAcquisition(poll.p, poll.trade)'
    BY <2>1, <2>3, <2>4 DEF OnTape, OurAcquisition
  <2>7. QED  BY <2>4, <2>5, <2>6
<1>13. CASE UNCHANGED vars
  BY <1>1, <1>13 DEF vars
<1>14. QED
  BY <1>3, <1>4, <1>6, <1>7, <1>8, <1>9, <1>10, <1>11, <1>12, <1>13 DEF Next, Trades, Feed, Poll

\* A booking is judged from the row that was read and by the trade that was
\* found.
LEMMA BookingRight ==
  ASSUME [Next]_vars, Clocks, TapeRight, HeldSince, BooksRight, UNCHANGED <<tape, buy>>,
         NEW p, NEW t, BookSale(p, t), RowRight(p), OnTape(t), ~OurAcquisition(p, t)
  PROVE  BooksRight'
<1>1. ASSUME NEW b \in booked', b \notin booked, b.judged.source = "floorline"
      PROVE  /\ buy.cost > 0
             /\ b.judged.bought = buy.now /\ b.trip.ts > buy.now
                  => Another(b.trip.ts) /\ SoldBy(b.trip.ts)
  <2>1. b = [trip |-> [bought |-> row.bought, ts |-> t.ts, stamp |-> t.stamp],
             judged |-> [source |-> p.source, bought |-> p.bought]]
    BY <1>1 DEF BookSale
  <2>2. b.judged.source = p.source /\ b.judged.bought = p.bought /\ b.trip.ts = t.ts
    BY <2>1
  <2>3. p.cost = buy.cost /\ buy.cost > 0 /\ buy.now > 0
    BY <1>1, <2>2 DEF RowRight, Clocks
  <2>4. ASSUME p.bought = buy.now, t.ts > buy.now
        PROVE  Another(t.ts) /\ SoldBy(t.ts)
    <3>1. PICK o \in tape : o.ts = t.ts /\ o.price = t.price
      BY DEF OnTape
    <3>2. ~(o.ts <= buy.now + Skew /\ o.price = buy.cost)
      BY <2>3, <2>4, <3>1 DEF OurAcquisition
    <3>3. SoldBy(o.ts)
      BY <2>3, <2>4, <3>1, <3>2 DEF HeldSince
    <3>4. QED  BY <3>1, <3>2, <3>3 DEF Another
  <2>5. QED  BY <2>2, <2>3, <2>4
<1>2. QED  BY <1>1 DEF BooksRight, Another, SoldBy

LEMMA BooksStep ==
  ASSUME [Next]_vars, IInv
  PROVE  BooksRight'
<1> USE DEF IInv
<1>1. ASSUME booked' = booked PROVE BooksRight'
  <2>1. ASSUME NEW b \in booked, b.judged.source = "floorline"
        PROVE  /\ buy'.cost > 0
               /\ b.judged.bought = buy'.now /\ b.trip.ts > buy'.now
                    => Another(b.trip.ts)' /\ SoldBy(b.trip.ts)'
    <3>1. buy.cost > 0
      BY <2>1 DEF BooksRight
    <3>2. buy'.cost = buy.cost /\ buy'.now = buy.now
      BY <3>1, PurchaseFixed
    <3>3. tape \subseteq tape'
      BY OneTrade, Quiet
    <3>4. Another(b.trip.ts) => Another(b.trip.ts)'
      BY <3>2, <3>3 DEF Another
    <3>5. SoldBy(b.trip.ts) => SoldBy(b.trip.ts)'
      BY <3>1, SoldStays
    <3>6. QED  BY <2>1, <3>1, <3>2, <3>4, <3>5 DEF BooksRight
  <2>2. QED  BY <1>1, <2>1 DEF BooksRight
<1>2. CASE BookFromFeed
  BY <1>2, BookingRight DEF BookFromFeed, FeedRight
<1>3. CASE Settle
  <2>1. CASE poll.trade = NoTrade
    BY <1>1, <1>3, <2>1 DEF Settle
  <2>2. CASE poll.trade # NoTrade
    BY <1>3, <2>2, BookingRight DEF Settle, PollRight
  <2>3. QED  BY <2>1, <2>2
<1>4. CASE Trades \/ ListByHand \/ TimePasses \/ StartBuy \/ BuyRefused \/ RecordPosition
  BY <1>1, <1>4 DEF Trades, WeSell, OthersTrade, BuyByHand, BuyExecutes, ListByHand, TimePasses,
    StartBuy, BuyRefused, RecordPosition
<1>5. CASE PlaceAsk \/ RecordAsk \/ SetCost \/ SaveCost \/ PollHistory \/ SaleEvent \/ CloseIfOurs
  BY <1>1, <1>5 DEF PlaceAsk, RecordAsk, SetCost, SaveCost, PollHistory, SaleEvent, CloseIfOurs
<1>6. CASE Poll /\ ~Settle
  BY <1>1, <1>6 DEF Poll, StartPoll, ReadPage, PageFails, GetExisting, Reconcile, LoadTracked,
    FindSale
<1>7. CASE Restart \/ UNCHANGED vars
  BY <1>1, <1>7 DEF Restart, vars
<1>8. QED  BY <1>2, <1>3, <1>4, <1>5, <1>6, <1>7 DEF Next, Trades, Feed

LEMMA StepIInv == IInv /\ [Next]_vars => IInv'
<1> SUFFICES ASSUME IInv, [Next]_vars PROVE IInv'
  OBVIOUS
<1> USE DEF IInv
<1>1. Clocks' /\ TapeRight'
  BY ClocksStep, TapeStep
<1>2. HeldSince'
  BY <1>1, HeldStep
<1>3. RowsRight'
  BY RowStep DEF RowsRight
<1>4. FeedRight' /\ PollRight'
  BY FeedStep, PollStep DEF RowsRight
<1>5. BooksRight'
  BY BooksStep
<1>6. QED  BY <1>1, <1>2, <1>3, <1>4, <1>5

THEOREM Inductive == Spec => []IInv
<1>1. Init => IInv
  BY InitIInv
<1>2. IInv /\ [Next]_vars => IInv'
  BY StepIInv
<1>3. QED  BY <1>1, <1>2, PTL DEF Spec

\* No poll, event, crash or shifted page makes a gift the executor bought and
\* we hold a sold one, whoever trades it and however often.
THEOREM HeldIsNeverSold == Spec => []ExecutedBookedRight
<1>1. IInv => ExecutedBookedRight
  BY DEF IInv, BooksRight, ExecutedBookedRight, Executed
<1>2. QED  BY <1>1, Inductive, PTL

-----------------------------------------------------------------------------
\* While nobody else trades the gift the tape holds the executor's purchase and
\* sales of ours.
TradesOurs ==
  \A t \in tape : \/ t.side = "sell"
                  \/ buy.cost > 0 /\ t.ts <= buy.now + Skew /\ t.price = buy.cost

LEMMA TradesOursStep ==
  ASSUME [Next]_vars, Clocks, TradesOurs, "foreign" \notin Faults
  PROVE  TradesOurs'
<1> USE DEF TradesOurs
<1>1. buy.cost > 0 => buy'.cost = buy.cost /\ buy'.now = buy.now
  BY PurchaseFixed
<1>2. CASE WeSell
  <2>1. PICK r : r.side = "sell" /\ tape' = tape \cup {r} /\ buy' = buy
    <3> DEFINE r == [ts |-> now + 1, price |-> ask, side |-> "sell"]
    <3>1. r.side = "sell" /\ tape' = tape \cup {r} /\ buy' = buy
      BY <1>2 DEF WeSell, Trade
    <3> HIDE DEF r
    <3>2. QED  BY <3>1
  <2>2. QED  BY <2>1
<1>3. CASE BuyExecutes
  <2>1. PICK p \in Prices : /\ buy' = [buy EXCEPT !.at = "bought", !.cost = p]
                            /\ tape' = tape \cup {[ts |-> now + 1, price |-> p, side |-> "buy"]}
    BY <1>3 DEF BuyExecutes, Trade
  <2>2. now + 1 <= buy.now + Skew
    BY <1>3, PortfolioAssumption DEF BuyExecutes, Clocks
  <2>3. buy'.now = buy.now /\ buy'.cost = p /\ p > 0
    BY <2>1, PortfolioAssumption DEF Clocks
  <2>4. PICK r : r.ts = now + 1 /\ r.price = p /\ tape' = tape \cup {r}
    <3> DEFINE r == [ts |-> now + 1, price |-> p, side |-> "buy"]
    <3>1. r.ts = now + 1 /\ r.price = p /\ tape' = tape \cup {r}
      BY <2>1
    <3> HIDE DEF r
    <3>2. QED  BY <3>1
  <2>5. buy.cost = 0
    BY <1>3 DEF BuyExecutes, Clocks
  <2>6. QED  BY <2>2, <2>3, <2>4, <2>5
<1>4. ~OthersTrade /\ ~BuyByHand
  BY DEF OthersTrade, BuyByHand
<1>5. CASE ~Trades
  <2>1. tape' = tape
    BY <1>5, Quiet
  <2>2. QED  BY <1>1, <2>1
<1>6. QED  BY <1>2, <1>3, <1>4, <1>5 DEF Trades

\* Then the round trip that is booked is the sale itself.
THEOREM BookedIsTheSale ==
  ASSUME "foreign" \notin Faults
  PROVE  Spec => []ExecutedBookedExactly
<1>1. Init => TradesOurs
  BY DEF Init, TradesOurs
<1>2. IInv /\ TradesOurs /\ [Next]_vars => TradesOurs'
  BY TradesOursStep DEF IInv
<1>3. IInv /\ TradesOurs => ExecutedBookedExactly
  BY DEF IInv, TradesOurs, BooksRight, Another, ExecutedBookedExactly, Executed, OurSale
<1>4. QED  BY <1>1, <1>2, <1>3, Inductive, PTL DEF Spec

=============================================================================
