-------------------------------- MODULE Tape --------------------------------
(***************************************************************************)
(* How fast and at what price a model trades, read off its stored trades   *)
(* (internal/pricing/stats.go) after every print was restated at today's   *)
(* rate of the GRAM (internal/pricing/fx.go, normalizeGramSales of         *)
(* internal/app/gram.go), with what its collection lends it. Rows are a    *)
(* function of their place on the tape. One tick is an hour; velocities    *)
(* are hundredths of a sale a day, ratios per mille. Two prints never      *)
(* carry the same second here.                                             *)
(***************************************************************************)
EXTENDS Integers, Sequences, FiniteSets, FiniteSetsExt

CONSTANTS
  Gifts,     \* [id, num]; num is 0 in rows that predate the column
  Prices,    \* what a gift may trade at
  Rates,     \* quotes of the GRAM, in a unit of the dollar
  Gaps,      \* hours that may pass between two rows
  Window,    \* lookback window, hours
  Crowds,    \* what the rest of the collection did: [sales, models]
  MaxPrints, \* bound on trades
  MaxQuotes  \* bound on quotes

VARIABLES
  now,
  sales,     \* rows of the model's table, oldest first
  quotes,    \* rows of gram_quotes, oldest first
  crowd      \* CollectionTape of the window

vars == <<now, sales, quotes, crowd>>

\* Rows are at least an hour apart, and a price is large enough to be restated
\* in whole units.
TapeAssumption ==
  /\ Gifts \subseteq [id : Nat, num : Nat]
  /\ Prices \subseteq Nat \ {0, 1} /\ Rates \subseteq Nat \ {0} /\ Gaps \subseteq Nat \ {0} /\ Window \in Nat
  /\ Crowds \subseteq [sales : Nat, models : Nat]

Smaller(a, b) == IF a < b THEN a ELSE b
Larger(a, b) == IF a > b THEN a ELSE b

\* The kth of the numbers xs[i] from below, and the middle of them.
Nth(xs, k) ==
  CHOOSE x \in {xs[i] : i \in DOMAIN xs} :
    /\ Cardinality({i \in DOMAIN xs : xs[i] < x}) < k
    /\ k <= Cardinality({i \in DOMAIN xs : xs[i] <= x})
Median(xs) ==
  LET n == Cardinality(DOMAIN xs)
  IN  IF n = 0 THEN 0
      ELSE IF n % 2 = 1 THEN Nth(xs, n \div 2 + 1)
      ELSE (Nth(xs, n \div 2) + Nth(xs, n \div 2 + 1)) \div 2
MedianAbsDev(xs, m) == Median([i \in DOMAIN xs |-> Larger(xs[i] - m, m - xs[i])])

-----------------------------------------------------------------------------
(* The rate *)

Clamped(factor) == Smaller(1050, Larger(950, factor))

\* The newest quote not after the trade, when it is at most two hours old.
RateOf(t) ==
  LET before == {i \in DOMAIN quotes : quotes[i].ts <= t}
  IN  IF before = {} \/ t - quotes[Max(before)].ts > 2 THEN 0 ELSE quotes[Max(before)].usd

CurrentRate == IF quotes = <<>> \/ now > quotes[Len(quotes)].ts THEN 0 ELSE quotes[Len(quotes)].usd

NormalizeSales(rows) ==
  [i \in DOMAIN rows |->
     IF CurrentRate = 0 \/ RateOf(rows[i].ts) = 0 THEN rows[i]
     ELSE [rows[i] EXCEPT !.price = (@ * Clamped((1000 * RateOf(rows[i].ts)) \div CurrentRate)) \div 1000]]

-----------------------------------------------------------------------------
(* The tape *)

Physical(g) == IF g.num # 0 THEN g.num ELSE g.id

\* The raw tape of the window; a row without identity is no evidence.
Printed(rows) == {i \in DOMAIN rows : rows[i].price > 0 /\ rows[i].ts >= now - Window /\ Physical(rows[i].gift) # 0}

\* Slip: every hop of a gift is a sale.
Slip_Latest(rows) == Printed(rows)

\* The newest sale of every physical gift.
Latest(rows) ==
  {i \in Printed(rows) :
     \A j \in Printed(rows) : Physical(rows[j].gift) = Physical(rows[i].gift) => rows[j].ts <= rows[i].ts}

PricesOf(rows, held) == [i \in held |-> rows[i].price]

\* Days of history the velocity is spread over: never less than one.
Coverage == IF sales = <<>> THEN 0 ELSE now - sales[1].ts
EffectiveDays == Larger(24, IF Coverage > 0 THEN Smaller(Window, Coverage) ELSE Window)

Liquidity(rows) ==
  LET last   == Latest(rows)
      week   == {i \in last : rows[i].ts >= now - 168}
      median == Median(PricesOf(rows, last))
  IN  [prints   |-> Cardinality(Printed(rows)),
       sales    |-> Cardinality(last),
       turnover |-> IF last = {} THEN 0 ELSE (1000 * Cardinality(last)) \div Cardinality(Printed(rows)),
       median   |-> median,
       mad      |-> MedianAbsDev(PricesOf(rows, last), median),
       median7  |-> IF Cardinality(week) >= 3 THEN Median(PricesOf(rows, week)) ELSE median,
       velocity |-> (2400 * Cardinality(last)) \div EffectiveDays]

\* What an average model of the collection sells a day, once it is a market.
PerModel == IF crowd.sales < 20 \/ crowd.models < 4 THEN 0
            ELSE (2400 * crowd.sales) \div (crowd.models * EffectiveDays)

WithPeerSupport(l) ==
  LET blended == (l.sales * l.velocity + 6 * PerModel) \div (l.sales + 6)
  IN  IF PerModel = 0 \/ l.velocity = 0 \/ l.sales < 2 THEN l.velocity
      ELSE Larger(l.velocity, Smaller(blended, 3 * l.velocity))

-----------------------------------------------------------------------------

Init == /\ now = 0 /\ sales = <<>> /\ quotes = <<>>
        /\ crowd \in Crowds

Trade(g, p, gap) ==
  /\ Len(sales) < MaxPrints
  /\ now' = now + gap
  /\ sales' = Append(sales, [gift |-> g, price |-> p, ts |-> now + gap])
  /\ UNCHANGED <<quotes, crowd>>

Quote(usd) ==
  /\ Len(quotes) < MaxQuotes
  /\ now' = now + 1
  /\ quotes' = Append(quotes, [usd |-> usd, ts |-> now + 1])
  /\ UNCHANGED <<sales, crowd>>

Next == \/ \E g \in Gifts, p \in Prices, gap \in Gaps : Trade(g, p, gap)
        \/ \E usd \in Rates : Quote(usd)

Spec == Init /\ [][Next]_vars

-----------------------------------------------------------------------------
(* Properties *)

TypeOK ==
  /\ now \in Nat /\ crowd \in Crowds
  /\ \A i \in DOMAIN sales : sales[i].ts <= now /\ sales[i].gift \in Gifts
  /\ \A i \in DOMAIN quotes : quotes[i].ts <= now /\ quotes[i].usd \in Rates

\* One item passed around is not a market: taking every older hop of a gift off
\* the tape changes neither the velocity nor the prices the desk trades on, and
\* a hop lowers the turnover the gates read (stats.go:77, DistinctGifts).
Onward(i) == \E j \in DOMAIN sales : j > i /\ Physical(sales[j].gift) = Physical(sales[i].gift)
Kept == {i \in DOMAIN sales : ~Onward(i)}
Settled == [i \in Kept |-> sales[i]]
FlipsMoveNothing ==
  LET full == Liquidity(NormalizeSales(sales))
      once == Liquidity(NormalizeSales(Settled))
  IN  /\ full.velocity = once.velocity /\ full.median = once.median
      /\ full.mad = once.mad /\ full.median7 = once.median7
      /\ (\E i \in DOMAIN sales : Onward(i) /\ Physical(sales[i].gift) # 0 /\ sales[i].ts >= now - Window)
           => full.turnover < 1000

\* The collection lends a model speed and never invents it: nothing to a model
\* with one sale, never more than three times its own rate (stats.go:201).
PeersLendBounded ==
  LET l == Liquidity(NormalizeSales(sales))
  IN  /\ WithPeerSupport(l) >= l.velocity /\ WithPeerSupport(l) <= 3 * l.velocity
      /\ l.sales < 2 => WithPeerSupport(l) = l.velocity

\* "a single historical print may move by at most five percent" (fx.go:28), and
\* so the median and the week's median never leave that band either, but for
\* rounding: a print may lose a unit of its price, the middle of two half a unit.
RateIsMild ==
  LET raw == Liquidity(sales)
      fx  == Liquidity(NormalizeSales(sales))
  IN  /\ 100 * fx.median >= 95 * raw.median - 150 /\ 100 * fx.median <= 105 * raw.median + 52
      /\ 100 * fx.median7 >= 95 * raw.median7 - 150 /\ 100 * fx.median7 <= 105 * raw.median7 + 52

=============================================================================
