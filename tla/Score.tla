-------------------------------- MODULE Score -------------------------------
(***************************************************************************)
(* How signals are ranked: BuildScore of internal/pricing turns a settled  *)
(* valuation into 0..100, PortfolioFit of internal/risk lowers it by what  *)
(* the desk already holds, and the lots of one batch, scored together, are *)
(* bought one after another. Factors are percent, the edge and its buffer  *)
(* hundredths of a percent, money and days hundredths, the total           *)
(* hundredths of a point; roots and quotients are rounded down. The price  *)
(* of traits and its logarithms are an input.                              *)
(***************************************************************************)
EXTENDS Integers, FiniteSetsExt

CONSTANTS
  Views,     \* settled valuations
  Gains,     \* improvements to try on each: field to values
  Desks,     \* what the desk holds
  Limits,    \* perModel, model and collection of the limits, the last two percent
  MaxOpen    \* bound on the open positions

VARIABLES view, desk, score, stage

vars == <<view, desk, score, stage>>

Never == 1000000

\* A settled valuation; a price is positive.
View ==
  [fx : BOOLEAN, jump : BOOLEAN, fromCross : BOOLEAN, capped : BOOLEAN, competing : BOOLEAN, tight : BOOLEAN,
   invented : BOOLEAN, disagree : BOOLEAN, cost : Nat \ {0}, proceeds : Nat, days : 0..Never, near : Nat, crossNear : Nat,
   mad : Nat, sales : Nat, distinct : Nat, peers : Nat, perModel : Nat, turnover : Nat, trend : Nat, traits : 0..100,
   depth : Nat, unreachable : Nat, support : Nat, venues : Nat, divergence : Nat, below : Nat, velocity : Nat,
   ticket : Nat, apart : Nat, lag : Int]

\* What improves when it grows, when it gets smaller, or when it goes away.
Greater == {"proceeds", "sales", "distinct", "peers", "turnover", "trend", "depth", "venues", "velocity"}
Lesser  == {"cost", "days", "mad", "near", "crossNear", "divergence", "below", "apart", "lag", "ticket"}
Flags   == {"invented", "disagree", "jump"}

\* A desk within its number of the model; the parts are no more than the whole.
DeskOK(d) ==
  /\ d \in [open : 0..MaxOpen, count : Nat, model : Nat, collection : Nat, positions : Nat, known : BOOLEAN,
            balance : Nat, last : {0}]
  /\ d.count <= d.open /\ (Limits.perModel > 0 => d.count <= Limits.perModel)
  /\ d.model <= d.positions /\ d.collection <= d.positions

ScoreAssumption ==
  /\ Limits \in [perModel : Nat, model : Nat, collection : Nat] /\ MaxOpen \in Nat
  /\ \A v \in Views : v \in View
  /\ \A d \in Desks : DeskOK(d)
  /\ DOMAIN Gains \subseteq Greater \cup Lesser \cup Flags
  /\ \A f \in DOMAIN Gains : \A x \in Gains[f] :
       /\ f \in Flags => x \in BOOLEAN
       /\ f = "lag" => x \in Int
       /\ f \notin Flags \cup {"lag"} => x \in Nat /\ (f = "cost" => x > 0)

Larger(a, b) == IF a > b THEN a ELSE b
Smaller(a, b) == IF a < b THEN a ELSE b
Clamp(x, lo, hi) == IF x < lo THEN lo ELSE IF x > hi THEN hi ELSE x
SquareRoot(n) == Max({r \in 0..40 : r * r <= n})
FourthRoot(n) == Max({r \in 0..105 : r * r * r * r <= n})

-----------------------------------------------------------------------------
(* How far the evidence is believed *)

\* The collection's tape in prints of this model.
PeerCredit(v) == IF v.perModel <= 0 \/ v.peers <= 0 THEN 0 ELSE Smaller((100 * v.peers) \div 15, 500)

Confidence(v) ==
  LET n      == 100 * v.distinct + PeerCredit(v)
      tidy   == 4500 + 20 * Clamp(v.turnover, 0, 100) + 25 * Clamp(100 - v.mad, 0, 100) + 10 * Clamp(v.trend, 0, 100)
      base   == ((100 * n) \div (n + 800)) * tidy
  IN  IF v.distinct <= 0 THEN 0
      ELSE IF v.traits > 0 THEN ((80 * base) \div 10000 + 20 * v.traits) \div 100
      ELSE base \div 10000

\* The one live price, the stack of prices, no price at all.
Lonely(v)  == v.capped \/ (v.competing /\ v.depth < 2)
Stacked(v) == ~Lonely(v) /\ v.tight

DepthFactor(v) ==
  LET f == IF Lonely(v) THEN 45 ELSE IF Stacked(v) THEN 72 ELSE 100
  IN  IF v.fromCross THEN 100 ELSE IF v.competing THEN f ELSE Smaller(f, 50)

CrossCrowding(v) ==
  IF v.crossNear >= 4 THEN 70 ELSE IF v.crossNear >= 2 THEN 85 ELSE IF v.crossNear = 1 THEN 95 ELSE 100

CrossFactor(v) ==
  IF v.unreachable > 0 THEN IF v.capped \/ v.depth < 2 \/ ~v.competing THEN 5 ELSE 35
  ELSE IF v.support <= 0 THEN 80
  ELSE ((IF v.venues >= 2 THEN 105 ELSE 100) * Clamp(100 - v.divergence, 40, 100) * CrossCrowding(v)
        * (IF v.below > 0 THEN 60 ELSE 100)) \div 1000000

LiquidityFactor(v) == IF v.velocity <= 0 THEN 30 ELSE Clamp((100 * v.velocity) \div (v.velocity + 60), 30, 100)

FXFactor(v) ==
  LET f == Clamp(100 - (3 * Larger(v.lag, 0)) \div 2 + (35 * Larger(-v.lag, 0)) \div 100, 50, 115)
  IN  IF ~v.fx THEN 100 ELSE IF v.jump THEN (85 * f) \div 100 ELSE f

\* Slip: a disagreement is charged before an exit that was made up.
Slip_Doubt(v) == IF v.disagree THEN 75 ELSE IF v.invented \/ v.apart > 25 THEN 12 ELSE 100

\* One fact, one penalty.
Doubt(v) == IF v.invented \/ v.apart > 25 THEN 12 ELSE IF v.disagree THEN 75 ELSE 100

\* In hundredths of a percent.
EvidenceQuality(v, fit) ==
  LET mean == FourthRoot(Clamp(Confidence(v), 1, 100) * Clamp(DepthFactor(v), 1, 100)
                         * Clamp(CrossFactor(v), 1, 105) * Clamp(LiquidityFactor(v), 1, 100))
  IN  Smaller((mean * Doubt(v) * FXFactor(v) * fit) \div 10000, 10000)

-----------------------------------------------------------------------------
(* The score *)

Net(v)  == v.proceeds - v.cost
Edge(v) == (10000 * Net(v)) \div v.cost

\* Noise of the tape, a thin or crowded queue, everyone who can step under us.
SafetyBuffer(v) ==
  50 + Smaller(300, (15 * v.mad) \div SquareRoot(Larger(v.sales, 1)))
     + Smaller(100, 10 * (v.near + v.crossNear))
     + (IF ~v.fromCross /\ (Lonely(v) \/ Stacked(v)) THEN 100 ELSE 0)

\* Slip: what the ticket is measured against grows with the trade.
Slip_SizeFactor(v) == IF v.ticket <= 0 \/ Net(v) <= 0 THEN 100 ELSE Clamp((6 * v.ticket) \div Net(v), 25, 100)

SizeFactor(v) == IF v.ticket <= 0 \/ Net(v) <= 0 THEN 100 ELSE Clamp((10000 * Net(v)) \div (6 * v.ticket), 25, 100)

BuildScore(v, fit) ==
  LET adjusted == Larger(Edge(v) - SafetyBuffer(v), 0)
      quality  == EvidenceQuality(v, Clamp(fit, 0, 100))
      roi      == (100 * adjusted) \div Larger(v.days, 50)
      price    == (1000 * roi) \div (roi + 300)
  IN  [fit     |-> fit,
       edge    |-> adjusted,
       quality |-> quality,
       total   |-> IF adjusted = 0 \/ v.days = Never THEN 0
                   ELSE Smaller((price * quality * SizeFactor(v)) \div 100000, 10000)]

-----------------------------------------------------------------------------
(* What the desk holds *)

\* Value of the desk in the denominator, without the lot in question.
Worth(d) == d.positions + (IF d.known THEN d.balance ELSE 0)

OverShare(part, limit, d, price) == limit > 0 /\ 100 * (part + price) > limit * (Worth(d) + price)

Room(part, limit, d, price) ==
  IF limit <= 0 THEN 100 ELSE 100 - (5000 * (part + price)) \div (limit * (Worth(d) + price))

\* Zero at a limit, at least a tenth below it; with fewer than three positions
\* only their number in the model counts.
PortfolioFit(d, price) ==
  IF Limits.perModel > 0 /\ d.count >= Limits.perModel THEN 0
  ELSE IF d.open < 3 \/ Worth(d) + price <= 0 THEN 100
  ELSE IF OverShare(d.model, Limits.model, d, price) \/ OverShare(d.collection, Limits.collection, d, price) THEN 0
  ELSE Larger(Smaller(Room(d.model, Limits.model, d, price),
                      Room(d.collection, Limits.collection, d, price)), 10)

Bought(d, price) ==
  [d EXCEPT !.open = @ + 1, !.count = @ + 1, !.model = @ + price, !.collection = @ + price,
            !.positions = @ + price, !.balance = @ - price,
            !.last = IF d.open < 3 THEN 0 ELSE price]      \* history: bought under the shares

-----------------------------------------------------------------------------

Init ==
  /\ view \in Views /\ desk \in Desks /\ stage = "settled"
  /\ score = [fit |-> 0, edge |-> 0, quality |-> 0, total |-> 0]

\* The detector scores a valuation as if the desk held nothing.
Value ==
  /\ stage = "settled"
  /\ score' = BuildScore(view, 100)
  /\ stage' = "scored"
  /\ UNCHANGED <<view, desk>>

\* The batch is ordered by a score that knows what the desk holds now.
Rank ==
  /\ stage = "scored"
  /\ score' = BuildScore(view, PortfolioFit(desk, view.cost))
  /\ stage' = "ranked"
  /\ UNCHANGED <<view, desk>>

\* Slip: the purchase is allowed by the fit the batch was ranked with.
Slip_BuyAnother ==
  /\ stage = "ranked" /\ desk.open < MaxOpen
  /\ score.fit > 0
  /\ desk.known => desk.balance >= view.cost
  /\ desk' = Bought(desk, view.cost)
  /\ UNCHANGED <<view, score, stage>>

\* A lot of the same model, ahead of this one in the batch, is bought: Allow
\* asks for the fit again.
BuyAnother ==
  /\ stage = "ranked" /\ desk.open < MaxOpen
  /\ PortfolioFit(desk, view.cost) > 0
  /\ desk.known => desk.balance >= view.cost
  /\ desk' = Bought(desk, view.cost)
  /\ UNCHANGED <<view, score, stage>>

Next == Value \/ Rank \/ BuyAnother

Spec == Init /\ [][Next]_vars

-----------------------------------------------------------------------------
(* Properties *)

TypeOK ==
  /\ view \in View
  /\ stage \in {"settled", "scored", "ranked"}
  /\ score.fit \in 0..100 /\ {score.quality, score.total} \subseteq Nat /\ score.quality <= 10000 /\ score.total <= 10000
  /\ desk.open \in 0..MaxOpen /\ desk.count <= desk.open

Gain(v, f, x) ==
  /\ f \in Greater => x > v[f]
  /\ f \in Lesser => x < v[f]
  /\ f \in Flags => v[f] /\ ~x
  /\ f \in {"distinct", "sales", "velocity"} => v.velocity > 0

Improved(v, f, x) == LET w == [v EXCEPT ![f] = x] IN [w EXCEPT !.sales = Larger(@, w.distinct)]

\* The better listing never ranks lower, and the edge the gates read never
\* falls, when one thing about it improves: the factors are averaged, capped
\* and discounted apart from each other, and half of them read the same facts.
BetterRanksHigher ==
  stage # "settled" =>
    \A f \in DOMAIN Gains : \A x \in Gains[f] :
      Gain(view, f, x) => LET better == BuildScore(Improved(view, f, x), score.fit)
                          IN  better.total >= score.total /\ better.edge >= score.edge

\* A price invented between a tape and a queue that contradict each other is
\* never ranked "as though it were observed": however good the trade looks and
\* whatever else is favourable, a seventh of the scale is all it gets.
GuessesStayLow == view.invented \/ view.apart > 25 => score.total <= 1400

Undone(d) ==
  [d EXCEPT !.model = @ - d.last, !.positions = @ - d.last, !.balance = @ + d.last]

\* The lots of a batch are ranked before any of them is bought: none of those
\* purchases makes this lot fit better than it was ranked, and none takes the
\* model past its number or, where shares count, past its share.
BatchStaysSpread ==
  stage = "ranked" =>
    /\ PortfolioFit(desk, view.cost) <= score.fit
    /\ Limits.perModel > 0 => desk.count <= Limits.perModel
    /\ desk.last > 0 => ~OverShare(Undone(desk).model, Limits.model, Undone(desk), desk.last)

\* "A venue that could not be read at all is worse than a venue with nothing
\* listed" (internal/pricing/attributes.go:328): what the others show does not
\* change, so neither may the score rise when one more goes silent.
SilenceIsWorse ==
  view.unreachable = 0 =>
    BuildScore([view EXCEPT !.unreachable = 1], 100).quality <= BuildScore(view, 100).quality
=============================================================================
