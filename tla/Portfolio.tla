----------------------------- MODULE Portfolio -----------------------------
(***************************************************************************)
(* The life of one position: the row the desk keeps of a gift and the gift *)
(* on the marketplace.  Five writers share the row: the executor after a   *)
(* purchase, a goroutine that lists, the inventory poll, the event feed    *)
(* and the operator's /cost (internal/app/pollers.go, events.go,           *)
(* portfolio.go, internal/store/queries.go).  Each reads the row, works    *)
(* for a while and writes it back; a database statement is one step.       *)
(*                                                                         *)
(* One unit of time is two and a half minutes, clockSkew being two of them; *)
(* acquisitionWindow is scaled to lie just beyond it.  A cost is kept       *)
(* as the ask it was paid at, so the fee and entryBand are an equality.    *)
(***************************************************************************)
EXTENDS Naturals, FiniteSets, FiniteSetsExt

CONSTANTS
  Prices,      \* asks
  MaxTime,     \* bound on the clock
  Skew,        \* clockSkew
  Window,      \* acquisitionWindow
  Stamps,      \* clocks a sale may be stamped by: the feed's, the history's
  MaxMoves,    \* bound on what other people and the operator do
  Faults       \* "crash", "page", "lag", "shift", "foreign"

ASSUME PortfolioAssumption ==
  /\ Prices \subseteq Nat \ {0} /\ Prices # {}
  /\ MaxTime \in Nat \ {0} /\ Skew \in Nat /\ Window \in Nat \ {0}
  /\ Stamps \subseteq {"feed", "history"} /\ "feed" \in Stamps
  /\ MaxMoves \in Nat
  /\ Faults \subseteq {"crash", "page", "lag", "shift", "foreign"}

VARIABLES
  \* the marketplace
  now, holder, ask, tape,
  \* the store
  sales, row, booked,
  \* goroutines
  feed,    \* handleEvent on the socket
  poll,    \* pollInventory
  buy,     \* Executor.Buy behind its write
  lister,  \* ListAt and exitAtText behind their write
  teller,  \* setCostText
  fed,     \* events the feed has handled
  moves

market == <<now, holder, ask, tape>>
store  == <<sales, row, booked>>
vars   == <<market, store, feed, poll, buy, lister, teller, fed, moves>>

Held == {"open", "listed", "missing"}
NoRow == [status |-> "none", cost |-> 0, source |-> "unknown", bought |-> 0, list |-> 0,
          again |-> FALSE]
NoTrade == [ts |-> 0, price |-> 0, side |-> "other", stamp |-> "feed"]
IdleFeed == [at |-> "idle", trade |-> NoTrade, p |-> NoRow]
IdlePoll == [at |-> "idle", now |-> 0, listed |-> FALSE, price |-> 0, seen |-> FALSE,
             p |-> NoRow, trade |-> NoTrade]

Fault(f)    == f \in Faults /\ moves < MaxMoves /\ moves' = moves + 1
Later(a, b) == IF a > b THEN a ELSE b
Back(t)     == IF t > Window THEN t - Window ELSE 0
Newest(ts)  == CHOOSE t \in ts : \A o \in ts : o.ts <= t.ts
Known(t)    == \E s \in sales : s.ts = t.ts
Provisional(p) == p.source \notin {"floorline", "manual"}

\* AcquisitionForGiftAfter and SalesForGiftAfter.
SalesAfter(t) == {s \in sales : s.ts > t}

\* Slip: whatever is close in price, at any time.
Slip_OurAcquisition(p, t) == p.bought > 0 /\ p.cost > 0 /\ t.price = p.cost

OurAcquisition(p, t) ==
  /\ p.bought > 0 /\ p.cost > 0
  /\ t.ts <= p.bought + Skew
  /\ t.price = p.cost

-----------------------------------------------------------------------------
(* The statements of the store. *)

\* Over a closed row everything is new; over an open one what is known stays.
Upsert(old, new) ==
  IF old.status \in {"none", "sold"} THEN new
  ELSE [new EXCEPT !.cost   = IF old.cost > 0 THEN old.cost ELSE @,
                   !.source = IF old.cost > 0 THEN old.source ELSE @,
                   !.bought = old.bought,
                   !.list   = IF @ > 0 THEN @ ELSE old.list,
                   !.again  = old.again]

Listed(r, price) == [r EXCEPT !.list = price, !.status = "listed"]
Unlisted(r)      == [r EXCEPT !.list = 0, !.status = "open"]
Missing(r)       == [r EXCEPT !.status = "missing"]
Recovered(r, t)  == [r EXCEPT !.cost = t.price, !.bought = t.ts, !.source = "sale_history"]

Trips == {b.trip : b \in booked}

\* SetPositionSold: INSERT OR IGNORE keyed by the purchase and the sale, then
\* the row, whatever it says by now.
BookSale(p, t) ==
  LET trip == [bought |-> row.bought, ts |-> t.ts, stamp |-> t.stamp] IN
  /\ IF trip \in Trips THEN UNCHANGED booked
     ELSE booked' = booked \cup {[trip |-> trip, judged |-> [source |-> p.source, bought |-> p.bought]]}
  /\ row' = [row EXCEPT !.status = "sold"]

-----------------------------------------------------------------------------
(* The marketplace: other people, and the operator by hand. *)

Moving == moves < MaxMoves /\ now < MaxTime

Trade(side, price) ==
  /\ now' = now + 1
  /\ tape' = tape \cup {[ts |-> now + 1, price |-> price, side |-> side]}
  /\ ask' = 0

\* The feed hears of a trade at once, unless it lags.
Caught == "lag" \in Faults \/ (fed = Cardinality(tape) /\ feed.at = "idle")

\* Somebody buys our listing.
WeSell ==
  /\ Moving /\ Caught /\ holder = "us" /\ ask > 0
  /\ Trade("sell", ask) /\ holder' = "them" /\ moves' = moves + 1
  /\ UNCHANGED <<store, feed, poll, buy, lister, teller, fed>>

\* The gift changes hands between others.
OthersTrade ==
  /\ Moving /\ Caught /\ "foreign" \in Faults /\ holder = "them"
  /\ \E p \in Prices : Trade("other", p)
  /\ moves' = moves + 1
  /\ UNCHANGED <<holder, store, feed, poll, buy, lister, teller, fed>>

\* The operator buys it by hand.
BuyByHand ==
  /\ Moving /\ Caught /\ "foreign" \in Faults /\ holder = "them"
  /\ \E p \in Prices : Trade("buy", p)
  /\ holder' = "us" /\ moves' = moves + 1
  /\ UNCHANGED <<store, feed, poll, buy, lister, teller, fed>>

\* The operator lists, reprices or withdraws by hand.
ListByHand ==
  /\ Moving /\ holder = "us"
  /\ ask' \in (Prices \cup {0}) \ {ask} /\ moves' = moves + 1
  /\ UNCHANGED <<now, holder, tape, store, feed, poll, buy, lister, teller, fed>>

TimePasses ==
  /\ now < MaxTime
  /\ now' = now + 1
  /\ UNCHANGED <<holder, ask, tape, store, feed, poll, buy, lister, teller, fed, moves>>

-----------------------------------------------------------------------------
(* Executor.Buy: the request, and the row some requests later.  ClaimBuy     *)
(* lets it happen once.                                                      *)

StartBuy ==
  /\ buy.at = "idle" /\ holder = "them"
  /\ buy' = [buy EXCEPT !.at = "sent", !.now = now]
  /\ UNCHANGED <<market, store, feed, poll, lister, teller, fed, moves>>

\* Its requests have timeouts, so within clockSkew of the start; the lot quoted
\* is gone once it has changed hands.
BuyExecutes ==
  /\ buy.at = "sent" /\ holder = "them" /\ now < MaxTime /\ Caught
  /\ now < buy.now + Skew /\ \A t \in tape : t.ts <= buy.now
  /\ \E p \in Prices :
       /\ Trade("buy", p) /\ buy' = [buy EXCEPT !.at = "bought", !.cost = p]
  /\ holder' = "us"
  /\ UNCHANGED <<store, feed, poll, lister, teller, fed, moves>>

BuyRefused ==
  /\ buy.at = "sent"
  /\ buy' = [buy EXCEPT !.at = "done"]
  /\ UNCHANGED <<market, store, feed, poll, lister, teller, fed, moves>>

RecordPosition ==
  /\ buy.at = "bought"
  /\ row' = Upsert(row, [NoRow EXCEPT !.status = "open", !.cost = buy.cost,
                                      !.source = "floorline", !.bought = buy.now])
  /\ buy' = [buy EXCEPT !.at = "done"]
  /\ UNCHANGED <<market, sales, booked, feed, poll, lister, teller, fed, moves>>

-----------------------------------------------------------------------------
(* Listing: the request is accepted for a gift that is ours and not on sale, *)
(* the row follows.                                                          *)

PlaceAsk ==
  /\ lister = 0 /\ row.status # "none" /\ row.cost > 0
  /\ holder = "us" /\ ask = 0
  /\ \E p \in Prices : ask' = p /\ lister' = p
  /\ UNCHANGED <<now, holder, tape, store, feed, poll, buy, teller, fed, moves>>

RecordAsk ==
  /\ lister > 0
  /\ row' = Listed(row, lister) /\ lister' = 0
  /\ UNCHANGED <<market, sales, booked, feed, poll, buy, teller, fed, moves>>

\* /cost, in two statements.  The operator says what was paid.
SetCost ==
  /\ moves < MaxMoves /\ teller = "idle" /\ row.status # "none"
  /\ teller' = "found" /\ moves' = moves + 1
  /\ UNCHANGED <<market, store, feed, poll, buy, lister, fed>>

SaveCost ==
  /\ teller = "found"
  /\ LET paid == Newest({t \in tape : t.side = "buy"}).price IN
       row' = [row EXCEPT !.cost = paid, !.source = "manual"]
  /\ teller' = "idle"
  /\ UNCHANGED <<market, sales, booked, feed, poll, buy, lister, fed, moves>>

-----------------------------------------------------------------------------
(* The sale history rotation: any trade it has not recorded yet.  The same   *)
(* sale under another clock's time is recognised.                            *)

PollHistory ==
  /\ \E t \in tape, s \in Stamps :
       /\ ~Known(t)
       /\ sales' = sales \cup {[ts |-> t.ts, price |-> t.price, side |-> t.side, stamp |-> s]}
  /\ UNCHANGED <<market, row, booked, feed, poll, buy, lister, teller, fed, moves>>

-----------------------------------------------------------------------------
(* onSaleEvent: the tape first, then closeIfOurs. *)

SaleEvent ==
  LET t == CHOOSE o \in tape : Cardinality({q \in tape : q.ts <= o.ts}) = fed + 1
      s == [ts |-> t.ts, price |-> t.price, side |-> t.side, stamp |-> "feed"] IN
  /\ feed.at = "idle" /\ fed < Cardinality(tape)
  /\ sales' = IF Known(t) THEN sales ELSE sales \cup {s}
  /\ feed' = [feed EXCEPT !.at = "read", !.trade = s]
  /\ UNCHANGED <<market, row, booked, poll, buy, lister, teller, fed, moves>>

CloseIfOurs ==
  /\ feed.at = "read"
  /\ IF row.status \in Held /\ ~OurAcquisition(row, feed.trade)
       THEN feed' = [feed EXCEPT !.at = "book", !.p = row] /\ UNCHANGED fed
       ELSE feed' = IdleFeed /\ fed' = fed + 1
  /\ UNCHANGED <<market, store, poll, buy, lister, teller, moves>>

BookFromFeed ==
  /\ feed.at = "book"
  /\ BookSale(feed.p, feed.trade)
  /\ feed' = IdleFeed /\ fed' = fed + 1
  /\ UNCHANGED <<market, sales, poll, buy, lister, teller, moves>>

-----------------------------------------------------------------------------
(* pollInventory: what is not on sale, what is, then the rows nobody saw.    *)

StartPoll ==
  /\ poll.at = "idle"
  /\ poll' = [IdlePoll EXCEPT !.at = "page", !.now = now]
  /\ UNCHANGED <<market, store, feed, buy, lister, teller, fed, moves>>

Turn(p) == IF p.listed THEN [p EXCEPT !.at = "tracked"]
                       ELSE [p EXCEPT !.at = "page", !.listed = TRUE]

\* A gift listed or withdrawn between the two reads is in both or in neither;
\* one that leaves an earlier page shifts another out of the next.
ReadPage ==
  LET there == holder = "us" /\ (ask > 0) = poll.listed IN
  /\ poll.at = "page"
  /\ \/ there /\ poll' = [poll EXCEPT !.at = "get", !.price = ask, !.seen = TRUE]
        /\ UNCHANGED moves
     \/ ~there /\ poll' = Turn(poll) /\ UNCHANGED moves
     \/ there /\ Fault("shift") /\ poll' = Turn(poll)
  /\ UNCHANGED <<market, store, feed, buy, lister, teller, fed>>

PageFails ==
  /\ poll.at = "page" /\ Fault("page")
  /\ poll' = IdlePoll
  /\ UNCHANGED <<market, store, feed, buy, lister, teller, fed>>

GetExisting ==
  /\ poll.at = "get"
  /\ poll' = [poll EXCEPT !.at = "reconcile", !.p = row]
  /\ UNCHANGED <<market, store, feed, buy, lister, teller, fed, moves>>

\* Where the trade that made it ours can be: after the last sale of ours, and
\* not too long ago.
ImportAfter(p) ==
  LET closed == {b.ts : b \in {c \in Trips : p.status = "sold" \/ p.again}}
  IN Later(IF closed = {} THEN 0 ELSE Max(closed), Back(poll.now))

\* reconcileOwned, no row or a closed one: import it.
Import(p) ==
  LET after == ImportAfter(p)
      found == SalesAfter(after)
      base  == [NoRow EXCEPT !.again = (p.status = "sold"),
                             !.status = IF poll.listed THEN "listed" ELSE "open",
                             !.list = IF poll.listed THEN poll.price ELSE 0] IN
  /\ p.status \in {"none", "sold"}
  /\ row' = Upsert(row, IF found = {} THEN [base EXCEPT !.bought = poll.now]
                        ELSE Recovered(base, Newest(found)))

\* A guessed cost follows the tape, from the trade it was read from onwards.
Rederived(p) ==
  LET after == IF p.cost > 0 THEN p.bought - 1 ELSE ImportAfter(p)
      found == SalesAfter(after) IN
  IF ~Provisional(p) \/ found = {} THEN {}
  ELSE {t \in {Newest(found)} : t.ts > p.bought \/ t.price # p.cost}

\* Slip: a gift back at its old price stays missing.
Slip_Observed(p, r) ==
  CASE poll.listed /\ p.list # poll.price -> Listed(r, poll.price)
    [] ~poll.listed /\ (p.status = "listed" \/ p.list > 0) -> Unlisted(r)
    [] OTHER -> r

\* The row as recorded, listed or not as seen.
Observed(p, r) ==
  CASE poll.listed /\ (p.status = "missing" \/ p.list # poll.price) -> Listed(r, poll.price)
    [] ~poll.listed /\ (p.status \in {"listed", "missing"} \/ p.list > 0) -> Unlisted(r)
    [] OTHER -> r

Refresh(p) ==
  LET r == IF Rederived(p) = {} THEN row ELSE Recovered(row, Newest(Rederived(p))) IN
  /\ p.status \in Held
  /\ row' = Observed(p, r)

Reconcile ==
  /\ poll.at = "reconcile"
  /\ Import(poll.p) \/ Refresh(poll.p)
  /\ poll' = [Turn(poll) EXCEPT !.p = NoRow, !.price = 0]
  /\ UNCHANGED <<market, sales, booked, feed, buy, lister, teller, fed, moves>>

\* LoadOpenPositions; whoever was seen is left alone.
LoadTracked ==
  /\ poll.at = "tracked"
  /\ poll' = IF row.status \in Held /\ ~poll.seen
               THEN [poll EXCEPT !.at = "close", !.p = row] ELSE IdlePoll
  /\ UNCHANGED <<market, store, feed, buy, lister, teller, fed, moves>>

\* closePosition looks for a sale that is not our own purchase.
FindSale ==
  LET mine == {t \in SalesAfter(poll.p.bought) : ~OurAcquisition(poll.p, t)} IN
  /\ poll.at = "close"
  /\ poll' = [poll EXCEPT !.at = "settle",
                          !.trade = IF mine = {} THEN NoTrade ELSE Newest(mine)]
  /\ UNCHANGED <<market, store, feed, buy, lister, teller, fed, moves>>

\* Slip: what is not found is closed at its ask.
Slip_SettleAsk ==
  /\ poll.at = "settle"
  /\ BookSale(poll.p, IF poll.trade # NoTrade THEN poll.trade ELSE [NoTrade EXCEPT !.ts = now])
  /\ poll' = IdlePoll
  /\ UNCHANGED <<market, sales, feed, buy, lister, teller, fed, moves>>

Settle ==
  /\ poll.at = "settle"
  /\ IF poll.trade # NoTrade THEN BookSale(poll.p, poll.trade)
     ELSE /\ row' = IF poll.p.status = "missing" THEN row ELSE Missing(row)
          /\ UNCHANGED booked
  /\ poll' = IdlePoll
  /\ UNCHANGED <<market, sales, feed, buy, lister, teller, fed, moves>>

-----------------------------------------------------------------------------

\* The process stops anywhere; the feed comes back from a stored cursor.
Restart ==
  /\ Fault("crash")
  /\ feed' = IdleFeed /\ poll' = IdlePoll /\ lister' = 0 /\ teller' = "idle"
  /\ buy' = IF buy.at = "idle" THEN buy ELSE [buy EXCEPT !.at = "done"]
  /\ fed' \in 0..fed
  /\ UNCHANGED <<market, store>>

Init ==
  /\ now = 1 /\ holder = "them" /\ ask = 0 /\ tape = {}
  /\ sales = {} /\ row = NoRow /\ booked = {}
  /\ feed = IdleFeed /\ poll = IdlePoll /\ lister = 0 /\ teller = "idle"
  /\ buy = [at |-> "idle", now |-> 0, cost |-> 0]
  /\ fed = 0 /\ moves = 0

Feed == SaleEvent \/ CloseIfOurs \/ BookFromFeed
Poll == \/ StartPoll \/ ReadPage \/ PageFails \/ GetExisting \/ Reconcile
        \/ LoadTracked \/ FindSale \/ Settle

Next ==
  \/ WeSell \/ OthersTrade \/ BuyByHand \/ ListByHand \/ TimePasses
  \/ StartBuy \/ BuyExecutes \/ BuyRefused \/ RecordPosition
  \/ PlaceAsk \/ RecordAsk \/ SetCost \/ SaveCost \/ PollHistory
  \/ Feed \/ Poll \/ Restart

Spec == Init /\ [][Next]_vars

\* The goroutines run, every poll comes round again, and the history is read.
FairSpec ==
  /\ Spec
  /\ WF_vars(Feed) /\ WF_vars(Poll) /\ WF_vars(PollHistory)
  /\ WF_vars(RecordPosition) /\ WF_vars(BuyRefused) /\ WF_vars(RecordAsk) /\ WF_vars(SaveCost)

-----------------------------------------------------------------------------
(* Properties *)

\* Types; the tape holds one record per trade, and the feed is never ahead.
TypeOK ==
  /\ now \in 1..MaxTime /\ holder \in {"us", "them"} /\ ask \in Prices \cup {0}
  /\ row.status \in Held \cup {"none", "sold"} /\ row.cost \in Prices \cup {0}
  /\ row.list \in Prices \cup {0} /\ row.bought \in 0..now
  /\ \A s \in sales : \E t \in tape : t.ts = s.ts /\ t.price = s.price
  /\ \A s, o \in sales : s.ts = o.ts => s = o
  /\ fed <= Cardinality(tape)

OurSale(ts) == \E t \in tape : t.ts = ts /\ t.side = "sell"

\* Every round trip in the books is a sale of ours (a phantom one is what
\* events.go says ourAcquisition rules out).
BookedWasOurs == \A b \in booked : OurSale(b.trip.ts)

\* A trip judged from the row the executor wrote, by a trade after it bought.
Executed == {b \in booked : /\ b.judged = [source |-> "floorline", bought |-> buy.now]
                            /\ b.trip.ts > buy.now}

\* The gift the executor bought had been sold by then.
SoldBy(ts) == \E t \in tape : t.side = "sell" /\ buy.now < t.ts /\ t.ts <= ts

\* Polls, feed, restarts and shifted pages never turn a gift the executor
\* bought and we hold into a sold one, whoever trades it before and after.
ExecutedBookedRight == \A b \in Executed : SoldBy(b.trip.ts)

\* While nobody else trades the gift, what is booked is the sale itself.
ExecutedBookedExactly == \A b \in Executed : OurSale(b.trip.ts)

\* A sale is booked the same way whichever goroutine notices it first.
BookedOnce == \A b, c \in Trips : b.ts = c.ts /\ OurSale(b.ts) => b = c

Agrees ==
  /\ holder = "us" => row.status \in {"open", "listed"} /\ row.list = ask
  /\ holder = "them" => row.status \in {"none", "sold", "missing"}

\* Once nobody moves, the row comes to say what the marketplace says, whatever
\* was read before it was written.
SettlesDown == <>[]Agrees

\* A sale of a position the executor recorded, too late to be its own
\* purchase, is booked by the feed or a poll, unless an import took the row over.
SaleIsBooked ==
  \A t \in 1..MaxTime :
    [](row.status \in Held /\ row.source = "floorline"
         /\ (\E s \in tape : s.ts = t /\ s.side = "sell" /\ s.ts > row.bought + Skew)
       => <>((\E b \in Trips : b.ts = t) \/ row.source # "floorline"))
=============================================================================
