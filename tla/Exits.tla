-------------------------------- MODULE Exits -------------------------------
(***************************************************************************)
(* What the desk thinks a listing can be sold for (internal/pricing):      *)
(* Evaluate prices a lot against the local book and its trade history,     *)
(* WithCrossDepth runs the whole pipeline a second time, on the same       *)
(* value, with what the other venues answered (internal/market, crossDepth *)
(* of internal/app/pollers.go). Every stage of the pipeline is a function  *)
(* from the valuation to the valuation, in the order recompute calls them. *)
(* Prices are integers (hundredths of a GRAM), ratios per mille, and a     *)
(* division rounds down where the code keeps a fraction.                   *)
(***************************************************************************)
EXTENDS Integers, Sequences, FiniteSets, SequencesExt, FiniteSetsExt

CONSTANTS
  Lots,      \* what Evaluate may be handed
  Venues,    \* the other marketplaces, numbered as configured
  Answers,   \* what a venue may have on its shelves
  Fee,       \* Params.Fee, per mille
  Undercut   \* Params.Undercut, per mille

\* A book is in order, and an ask anywhere is worth at least a hundredth of a
\* GRAM to its seller.
LotOK(in) ==
  /\ \A f \in {"price", "paid", "floor", "median", "median7", "distinct", "velocity",
              "trait", "samples", "share", "comparable"} : in[f] \in Nat
  /\ in.asks \in Seq(Nat)
  /\ \A i \in DOMAIN in.asks : in.asks[i] > 0 /\ \A j \in DOMAIN in.asks : i <= j => in.asks[i] <= in.asks[j]
AnswerOK(a) ==
  \A rung \in {"exact", "backdrop", "model"} :
    /\ a[rung] \in Seq(Nat)
    /\ \A i \in DOMAIN a[rung] : 1000 * a[rung][i] >= 1000 + Fee

ASSUME LotsAssumption    == \A in \in Lots : LotOK(in)
ASSUME VenuesAssumption  == Venues \in SUBSET Nat /\ IsFiniteSet(Venues)
ASSUME AnswersAssumption == \A a \in Answers : AnswerOK(a)
ASSUME RatesAssumption   == Fee \in Nat /\ Undercut \in 0..1000

VARIABLES
  lot,       \* v.input
  quotes,    \* what each venue had; empty before WithCrossDepth
  val,       \* the valuation
  stage      \* "new", "priced", "crossed"

vars == <<lot, quotes, val, stage>>

-----------------------------------------------------------------------------
(* Arithmetic *)

Never == 1000000              \* +Inf days
PerMille(x, p) == (x * p) \div 1000
Lower(a, b) == IF a < b THEN a ELSE b
Higher(a, b) == IF a > b THEN a ELSE b
Apart(a, b) == (1000 * Higher(a - b, b - a)) \div b     \* |a/b - 1|, per mille
Below(asks, x) == Cardinality({i \in DOMAIN asks : asks[i] < x})
Within(asks, lo, hi) == Cardinality({i \in DOMAIN asks : asks[i] >= lo /\ asks[i] <= hi})

\* The prices of some offers, the k-th smallest at k.
Sorted(offers) ==
  [k \in 1..Cardinality(offers) |->
     CHOOSE x \in {o.price : o \in offers} :
       /\ Cardinality({o \in offers : o.price < x}) < k
       /\ k <= Cardinality({o \in offers : o.price <= x})]

TonnelEquivalent(paid) == IF paid <= 0 THEN 0 ELSE (paid * 1000) \div (1000 + Fee)
SamePrice(a, b) == a = b

-----------------------------------------------------------------------------
(* The other venues *)

NoCross == [support |-> 0, asks |-> <<>>, best |-> 0, depth |-> 0, comparable |-> FALSE, unreachable |-> 0]

\* A venue is asked for the exact traits, then the backdrop, then the model.
AskLadder(venue) ==
  LET rungs == <<"exact", "backdrop", "model">>
      stop  == {i \in 1..3 : rungs[i] = venue.fails \/ Len(venue[rungs[i]]) > 0}
  IN  IF stop = {} THEN [asks |-> <<>>, scope |-> "model", failed |-> FALSE]
      ELSE LET i == Min(stop)
           IN  [asks   |-> IF rungs[i] = venue.fails THEN <<>> ELSE venue[rungs[i]],
                scope  |-> rungs[i],
                failed |-> rungs[i] = venue.fails]

Comparable(scope) == scope \in {"exact", "backdrop"}

\* What a venue says the model is worth; 0 when nothing can be built on it.
Reference(asks) ==
  LET x == Sorted({[at |-> i, price |-> asks[i]] : i \in DOMAIN asks}) IN
  CASE Len(x) < 2 -> 0
    [] Len(x) = 2 -> IF 10 * x[2] > 14 * x[1] THEN 0 ELSE x[1]
    [] OTHER      -> x[2]

FillBuyerCosts(cm) ==
  IF cm.asks = <<>> THEN cm
  ELSE [cm EXCEPT !.best  = IF @ <= 0 THEN cm.asks[1] ELSE @,
                  !.depth = IF @ <= 0 THEN cm.asks[Lower(3, Len(cm.asks))] ELSE @]

\* What each venue answered.
QuotesForGift(answers) == {[venue |-> n, shelf |-> AskLadder(answers[n])] : n \in Venues}

CrossDepth(answers) ==
  LET quoted  == QuotesForGift(answers)
      silent  == Cardinality({q \in quoted : q.shelf.failed})
      heard   == {q \in quoted : Reference(q.shelf.asks) > 0}
      refs    == Sorted({[venue |-> q.venue, price |-> Reference(q.shelf.asks)] : q \in heard})
      asks    == Sorted(UNION {{[venue |-> q.venue, at |-> i, price |-> q.shelf.asks[i]]
                                : i \in DOMAIN q.shelf.asks} : q \in heard})
      nearest == {q \in heard : q.shelf.asks[1] = asks[1]}
      first   == CHOOSE q \in nearest : \A r \in nearest : q.venue <= r.venue
  IN  IF heard = {} THEN [NoCross EXCEPT !.unreachable = silent]
      ELSE [support     |-> refs[Len(refs) \div 2 + 1],
            asks        |-> asks,
            best        |-> asks[1],
            depth       |-> asks[Lower(3, Len(asks))],
            comparable  |-> Comparable(first.shelf.scope),
            unreachable |-> silent]

-----------------------------------------------------------------------------
(* The market around the lot *)

Trend(in) == IF in.median > 0 THEN (1000 * in.median7) \div in.median ELSE 1000

ReadRegime(in) ==
  IF in.distinct < 5 \/ in.median <= 0 THEN "neutral"
  ELSE IF Trend(in) < 960 THEN "falling" ELSE IF Trend(in) > 1050 THEN "bull" ELSE "neutral"

RecencyWeight(regime) == CASE regime = "falling" -> 700 [] regime = "bull" -> 350 [] OTHER -> 0

RegimeReference(regime, in) ==
  IF in.median <= 0 THEN in.median7
  ELSE IF in.median7 <= 0 THEN in.median
  ELSE PerMille(in.median, 1000 - RecencyWeight(regime)) + PerMille(in.median7, RecencyWeight(regime))

HasTraitEvidence(in) == in.samples >= 5 /\ in.trait > 0

HistoryWeight(distinct) ==
  IF distinct < 5 THEN 10 ELSE IF distinct < 10 THEN 20 ELSE IF distinct < 20 THEN 30 ELSE 40

-----------------------------------------------------------------------------
(* The survival curve. A Poisson count of mean m passes k with even odds     *)
(* from its median on, which is all the prices and the gates read of it.     *)

EvenOdds(k) == IF k = 0 THEN 693 ELSE 1000 * k + 675
Likely(days, queue, velocity) == velocity > 0 /\ queue <= 40 /\ 10 * velocity * days >= EvenOdds(queue)

\* Everybody on sale, in no order: it is only counted over.
MergedLadder(in, cross) == in.asks \o [i \in DOMAIN cross.asks |-> TonnelEquivalent(cross.asks[i])]

NoCurve == [cheaper |-> 0, under |-> 0, queue |-> 0]

FillCurve(ladder, price) ==
  LET cheaper == Below(ladder, price + 1)
      under   == Within(ladder, price + 1, PerMille(price, 1050))
  IN  IF price <= 0 THEN NoCurve
      ELSE [cheaper |-> cheaper, under |-> under, queue |-> cheaper + (under + 1) \div 2]

ExecutableAt(ladder, floor, ceiling, velocity, days) ==
  LET prices == {floor, ceiling} \cup {PerMille(ladder[i], 1000 - Undercut) : i \in DOMAIN ladder}
      fits   == {p \in prices : p >= floor /\ (ceiling > 0 => p <= ceiling)
                                /\ Likely(days, FillCurve(ladder, p).queue, velocity)}
  IN  IF velocity <= 0 \/ floor <= 0 THEN 0 ELSE Max(fits \cup {0})

-----------------------------------------------------------------------------
(* The pipeline *)

\* Slip: a second pass starts from the counters of the first.
Slip_ResetDerived(v) ==
  [v EXCEPT !.valid = FALSE, !.walkaway = 0, !.venue = "none", !.liquidation = 0, !.basis = "none",
            !.fill = NoCurve, !.patientFill = NoCurve]

ResetDerived(v) ==
  [v EXCEPT !.valid = FALSE, !.competing = 0, !.liveDepth = 0, !.liveCount = 0, !.capped = FALSE,
            !.below = 0, !.undercuts = 0, !.aboveMarket = FALSE, !.fromCross = FALSE, !.unpriced = FALSE,
            !.walkaway = 0, !.venue = "none", !.liquidation = 0, !.basis = "none",
            !.divergence = 0, !.disagree = FALSE, !.crossDivergence = 0, !.invented = FALSE,
            !.crossNear = 0, !.crossBelow = 0, !.implausible = FALSE,
            !.fill = NoCurve, !.patientFill = NoCurve, !.exits = <<0, 0, 0>>]

\* How many of the cheapest asks are reachable without stepping over a hole.
ContiguousDepth(asks) ==
  LET n     == Lower(3, Len(asks))
      holes == {i \in 2..n : asks[i] > PerMille(asks[i - 1], 1200)}
  IN  IF holes = {} THEN n ELSE Min(holes) - 1

MedianFirst(asks, n) ==
  IF n % 2 = 1 THEN asks[n \div 2 + 1] ELSE (asks[n \div 2] + asks[n \div 2 + 1]) \div 2

ReadLocalBook(v, in) ==
  LET trusted == ContiguousDepth(in.asks)
      median  == MedianFirst(in.asks, trusted)
      lid     == PerMille(in.asks[1], 1200)
  IN  IF in.asks = <<>> THEN v
      ELSE [v EXCEPT !.competing = in.asks[1],
                     !.liveCount = trusted,
                     !.liveDepth = IF Len(in.asks) >= 2 THEN Lower(median, lid) ELSE 0,
                     !.capped    = Len(in.asks) >= 2 /\ (trusted < Lower(3, Len(in.asks)) \/ median > lid)]

ExecutableAnchor(v, in) ==
  IF v.competing > 0 THEN v.competing
  ELSE IF in.median > 0 THEN in.median ELSE IF in.floor > 0 THEN in.floor ELSE v.cost

PlausibleCross(support, anchor) ==
  support <= 0 \/ (10 * support <= 25 * anchor /\ 10 * support >= 4 * anchor)

\* The asks are in order: the implausibly cheap ones come first.
Without(asks, low) == [i \in 1..(Len(asks) - low) |-> asks[i + low]]
Screened(cm, low) == [cm EXCEPT !.asks = Without(cm.asks, low), !.best = 0, !.depth = 0]

ScreenCross(v, in) ==
  LET anchor == ExecutableAnchor(v, in)
      low    == Cardinality({i \in DOMAIN v.cross.asks : 10 * v.cross.asks[i] < 4 * anchor})
      w      == IF PlausibleCross(v.support, anchor) THEN v
                ELSE [v EXCEPT !.implausible = TRUE, !.support = 0, !.cross.support = 0]
  IN  IF anchor <= 0 THEN v
      ELSE IF low = 0 THEN w
      ELSE [w EXCEPT !.implausible = TRUE, !.cross = FillBuyerCosts(Screened(w.cross, low))]

ReadWalkaway(v, in) ==
  LET shown   == in.asks \o v.cross.asks
      best    == TonnelEquivalent(v.cross.best)
      outside == best > 0 /\ (v.competing <= 0 \/ best < v.competing)
      away    == IF outside THEN best ELSE v.competing
  IN  [v EXCEPT !.below     = @ + Below(shown, v.cost),
                !.undercuts = @ + Below(shown, PerMille(v.cost, 950)),
                !.walkaway  = away,
                !.venue     = IF outside THEN "venues" ELSE IF away > 0 THEN "Tonnel" ELSE "none"]

\* Slip: measured against the local queue alone.
Slip_SetLiquidation(v, in) ==
  LET under == PerMille(IF v.competing > 0 THEN v.competing ELSE in.floor, 1000 - Undercut)
  IN  IF under = 0 THEN v ELSE [v EXCEPT !.liquidation = under, !.basis = "book"]

SetLiquidation(v, in) ==
  LET floor == IF v.walkaway > 0 THEN v.walkaway ELSE in.floor
      under == PerMille(floor, 1000 - Undercut)
      tape  == v.liveCount < 2 /\ in.median > 0 /\ in.median < under
  IN  IF floor <= 0 THEN v
      ELSE [v EXCEPT !.liquidation = IF tape THEN in.median ELSE under,
                     !.basis = IF tape THEN "history" ELSE IF v.venue = "venues" THEN "venues" ELSE "book"]

NoWeights == [live |-> 0, history |-> 0, cross |-> 0, trait |-> 0]
Weights(v, in) ==
  LET hw == IF in.median <= 0 THEN 0 ELSE HistoryWeight(in.distinct)
      tw == IF HasTraitEvidence(in) THEN 5 ELSE 0
      cw == IF v.support > 0 THEN 20 ELSE 0
      lw == IF v.liveDepth > 0 THEN Higher(0, 100 - hw - cw - tw) ELSE 0
  IN  [live |-> lw, history |-> hw, cross |-> cw, trait |-> tw]

\* What the trades say, drawn towards the book when they are few.
Shrunk(v, in) ==
  LET med == RegimeReference(v.regime, in)
  IN  IF med > 0 /\ v.liveDepth > 0
      THEN v.liveDepth + ((med - v.liveDepth) * Weights(v, in).history) \div 40 ELSE med

BlendWeights(v, in) ==
  IF Weights(v, in) = NoWeights THEN [v EXCEPT !.reason = "no support"]
  ELSE [v EXCEPT !.weights = Weights(v, in), !.history = Shrunk(v, in),
                 !.crossDivergence = IF v.support > 0 /\ v.liveDepth > 0
                                     THEN Apart(v.support, v.liveDepth) ELSE @]

\* A part without a price or without a weight is not asked.
Weighted(parts) ==
  LET told(i)  == parts[i][1] > 0 /\ parts[i][2] > 0
      share(i) == IF told(i) THEN parts[i][2] ELSE 0
      total    == share(1) + share(2) + share(3) + share(4)
      priced   == parts[1][1] * share(1) + parts[2][1] * share(2) + parts[3][1] * share(3) + parts[4][1] * share(4)
  IN  IF total = 0 THEN 0 ELSE priced \div total

DepthCap(v) == IF Len(v.cross.asks) >= 2 THEN TonnelEquivalent(v.cross.depth) ELSE 0

PriceExits(v, in) ==
  LET blend  == Weighted(<< <<v.liveDepth, v.weights.live>>, <<v.history, v.weights.history>>,
                            <<v.support, v.weights.cross>>, <<in.trait, v.weights.trait>> >>)
      over   == DepthCap(v) > 0 /\ blend > DepthCap(v)
      fair   == IF over THEN DepthCap(v) ELSE blend
      fast   == IF v.walkaway > 0 THEN v.liquidation ELSE Higher(fair, v.liquidation)
      abroad == over \/ (v.walkaway > 0 /\ v.basis = "venues")
  IN  IF fast <= 0 THEN [v EXCEPT !.fair = fair, !.fast = fast, !.fromCross = over, !.reason = "no exit"]
      ELSE [v EXCEPT !.fair = fair, !.fast = fast, !.fromCross = abroad,
                     !.unpriced = in.premium /\ abroad /\ ~v.cross.comparable /\ ~HasTraitEvidence(in)]

ClampToHistory(v, in) ==
  LET med  == RegimeReference(v.regime, in)
      band == PerMille(med, 1350)
  IN  IF med <= 0 \/ in.distinct < 5 \/ v.fast <= band THEN v
      ELSE [v EXCEPT !.divergence = Apart(med, v.fast), !.disagree = TRUE, !.invented = TRUE,
                     !.fast = band, !.fair = Lower(@, band), !.liquidation = Lower(@, band)]

ClampOverpriced(v) ==
  IF v.weights.trait > 0 THEN v
  ELSE IF v.undercuts >= 3
  THEN [v EXCEPT !.aboveMarket = TRUE, !.fast = IF @ > v.cost THEN Higher(v.liquidation, v.cost) ELSE @]
  ELSE [v EXCEPT !.aboveMarket = @ \/ (v.below >= 1 /\ v.fast <= v.cost)]

\* in.comparable is the cheapest other ask with both of the lot's traits, or 0.
BuildLadder(v, in) ==
  LET first  == Higher(v.fast, PerMille(v.fair, 1015))
      second == IF HasTraitEvidence(in) /\ in.comparable > 0
                THEN Higher(Higher(v.fast, v.fair), Lower(first, PerMille(in.comparable, 1000 - Undercut)))
                ELSE first
      third  == IF DepthCap(v) > 0 THEN Higher(v.fast, Lower(second, DepthCap(v))) ELSE second
  IN  [v EXCEPT !.patient = third]

CrossCompetition(v) ==
  LET level == [i \in DOMAIN v.cross.asks |-> TonnelEquivalent(v.cross.asks[i])]
  IN  [v EXCEPT !.crossNear  = Within(level, v.fast, PerMille(v.fast, 1050)),
                !.crossBelow = Below(level, v.fast)]

MeasureDivergence(v, in) ==
  LET anchor == IF v.fast > 0 THEN v.fast ELSE v.liveDepth
      d      == Higher(v.divergence, Apart(in.median, anchor))
  IN  IF in.median <= 0 \/ anchor <= 0 THEN v
      ELSE [v EXCEPT !.divergence = d, !.disagree = @ \/ d > 100]

\* Days, in hundredths; velocity is in hundredths of a sale a day.
Days(queue, velocity) == (10000 * (1 + queue)) \div velocity

ExpectedDays(v, in) ==
  LET share   == IF in.samples < 5 THEN 250 ELSE Higher(in.share, 50)
      fast    == Days(v.fill.queue, in.velocity)
      patient == (Days(v.patientFill.queue, in.velocity) * 1000) \div share
  IN  IF in.velocity <= 0 THEN [v EXCEPT !.days = Never, !.patientDays = Never]
      ELSE [v EXCEPT !.days = fast,
                     !.patientDays = IF SamePrice(v.patient, v.fast) THEN fast ELSE Higher(patient, fast)]

Settle(u, in) ==
  LET v       == CrossCompetition(MeasureDivergence(u, in))
      ladder  == MergedLadder(in, v.cross)
      ceiling == Higher(v.fair, v.patient)
      w       == [v EXCEPT
                    !.net = v.fast - v.cost,
                    !.edge = ((v.fast - v.cost) * 1000) \div v.cost,
                    !.near = Within(in.asks, v.fast, PerMille(v.fast, 1050)),
                    !.cheaper = Below(in.asks, v.fast),
                    !.fill = FillCurve(ladder, v.fast),
                    !.patientFill = FillCurve(ladder, v.patient),
                    !.exits = [h \in 1..3 |-> ExecutableAt(ladder, v.liquidation, ceiling, in.velocity, <<1, 3, 7>>[h])]]
  IN  [ExpectedDays(w, in) EXCEPT !.valid = TRUE, !.reason = "none"]

Rejected(v) == v.reason # "none"

Recompute(v0, in) ==
  LET fresh  == [ResetDerived(v0) EXCEPT !.reason = "none"]
      shown  == ReadLocalBook([fresh EXCEPT !.regime = ReadRegime(in)], in)
      walked == SetLiquidation(ReadWalkaway(ScreenCross(shown, in), in), in)
      blend  == BlendWeights(walked, in)
      priced == PriceExits(blend, in)
  IN  IF in.price <= 0 THEN [fresh EXCEPT !.reason = "no price"]
      ELSE IF Rejected(blend) THEN blend
      ELSE IF Rejected(priced) THEN priced
      ELSE Settle(BuildLadder(ClampOverpriced(ClampToHistory(priced, in)), in), in)

-----------------------------------------------------------------------------
(* Evaluate and WithCrossDepth *)

Blank(in, cm) ==
  [cost |-> IF in.paid > 0 THEN in.paid ELSE PerMille(in.price, 1000 + Fee), regime |-> "neutral", cross |-> cm, support |-> cm.support,
   valid |-> FALSE, reason |-> "none", competing |-> 0, liveDepth |-> 0, liveCount |-> 0, capped |-> FALSE,
   below |-> 0, undercuts |-> 0, aboveMarket |-> FALSE, fromCross |-> FALSE, unpriced |-> FALSE,
   walkaway |-> 0, venue |-> "none", liquidation |-> 0, basis |-> "none", divergence |-> 0, disagree |-> FALSE,
   crossDivergence |-> 0, invented |-> FALSE, crossNear |-> 0, crossBelow |-> 0, implausible |-> FALSE,
   fill |-> NoCurve, patientFill |-> NoCurve, exits |-> <<0, 0, 0>>,
   weights |-> NoWeights,
   history |-> 0, fair |-> 0, fast |-> 0, patient |-> 0, net |-> 0, edge |-> 0, near |-> 0, cheaper |-> 0,
   days |-> 0, patientDays |-> 0]

WithCrossDepth(v, cm, in) ==
  IF cm.support <= 0
  THEN IF cm.unreachable = v.cross.unreachable THEN v
       ELSE Recompute([v EXCEPT !.cross.unreachable = cm.unreachable], in)
  ELSE Recompute([v EXCEPT !.cross = FillBuyerCosts(cm), !.support = cm.support], in)

Init ==
  /\ stage = "new" /\ quotes = <<>>
  /\ lot \in Lots
  /\ val = Blank(lot, NoCross)

Evaluate ==
  /\ stage = "new" /\ stage' = "priced"
  /\ val' = Recompute(val, lot)
  /\ UNCHANGED <<lot, quotes>>

AskVenues(answers) ==
  /\ stage = "priced" /\ stage' = "crossed"
  /\ quotes' = answers
  /\ val' = WithCrossDepth(val, CrossDepth(answers), lot)
  /\ UNCHANGED lot

Next == Evaluate \/ \E answers \in [Venues -> Answers] : AskVenues(answers)

Spec == Init /\ [][Next]_vars

-----------------------------------------------------------------------------
(* Properties *)

TypeOK ==
  /\ stage \in {"new", "priced", "crossed"}
  /\ lot \in Lots
  /\ quotes = <<>> \/ quotes \in [Venues -> Answers]
  /\ val.valid \in BOOLEAN /\ val.fast \in Nat /\ val.patient \in Nat

\* A second pass over a valuation tells the same as a first pass that knew the
\* venues from the start: nothing the first one derived survives into it, no
\* counter counts twice and no flag stays up (resetDerived and WithCrossDepth).
Read(v) == [v EXCEPT !.cross = NoCross]
SecondPassIsFresh ==
  stage = "crossed" =>
    LET cm    == CrossDepth(quotes)
        known == IF cm.support <= 0 THEN [NoCross EXCEPT !.unreachable = cm.unreachable] ELSE FillBuyerCosts(cm)
        once  == Recompute(Blank(lot, known), lot)
    IN  /\ val.valid = once.valid /\ val.reason = once.reason
        /\ val.cross = once.cross
        /\ val.valid => Read(val) = Read(once)

\* With a competing offer anywhere, the fast exit stands behind none of them:
\* no ask on any venue the pipeline believed is cheaper than the price the
\* purchase is judged by, and the two censuses agree (priceExits, settle).
NothingStandsCheaper ==
  (val.valid /\ val.walkaway > 0) =>
    /\ \A i \in DOMAIN MergedLadder(lot, val.cross) : val.fast <= MergedLadder(lot, val.cross)[i]
    /\ val.crossBelow = 0 /\ val.cheaper = 0

\* A higher price is never also the faster sale, and a longer wait never pays
\* less: the rungs and the waits of the ladder are ordered, whatever the clamps
\* and the venues did to each of them (buildLadder, expectedDays, executableAt).
LadderIsOrdered ==
  val.valid =>
    /\ val.liquidation <= val.fast /\ val.fast <= val.patient /\ val.fair <= val.patient
    /\ val.days <= val.patientDays
    /\ val.exits[1] <= val.exits[2] /\ val.exits[2] <= val.exits[3]

\* "liquidation <= fast <= fair <= patient" (exit.go:22): refuted, buildLadder
\* never compares the fast exit with the fair price.
FastIsBelowFair == val.valid => val.fast <= val.fair

\* "A venue with a single listing contributes a fact about execution and
\* nothing about value" (valuation.go:306): refuted, crossDepth drops the asks
\* of a venue without a reference, so the exit may stand above one of them.
LonelyAskCounts ==
  (stage = "crossed" /\ val.valid) =>
    \A n \in Venues :
      LET asks == AskLadder(quotes[n]).asks
      IN  (Len(asks) = 1 /\ 10 * asks[1] >= 4 * ExecutableAnchor(val, lot))
            => val.fast <= TonnelEquivalent(asks[1])

=============================================================================
