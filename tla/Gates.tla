-------------------------------- MODULE Gates -------------------------------
(***************************************************************************)
(* The decision on one listing (internal/signal): what is thrown out       *)
(* before it is priced, the gates a card has to clear, the verdict built   *)
(* from three layers, and the gates only unattended buying has to clear.   *)
(* A gate is named, not worded. Ratios are per mille, money and rates are  *)
(* hundredths.                                                             *)
(***************************************************************************)
EXTENDS Integers, FiniteSets, FiniteSetsExt

CONSTANTS
  Sig,       \* config.Sig: minPrice, maxPrice, minEdge, minNet, maxExitDays, minVelocity, minSales, maxMAD, minTrend
  Auto,      \* config.Auto: minEdge, minVelocity, minSales, minTurnover, maxMAD, minTrend, maxDataAge, maxMove
  MaxExit,   \* limits.MaxExitDays
  Views,     \* the listings, each with its valuation and the state of the desk
  Gains      \* improvements to try on each: field to values

VARIABLES view, decision

vars == <<view, decision>>

\* A listing with its valuation, and what the desk and its market say of it.
View ==
  [kind : STRING, ours : BOOLEAN, already : BOOLEAN, valid : BOOLEAN, roomKnown : BOOLEAN, median24 : BOOLEAN,
   median72 : BOOLEAN, median7 : BOOLEAN, aboveMarket : BOOLEAN, invented : BOOLEAN, implausible : BOOLEAN,
   warm : BOOLEAN, shadow : BOOLEAN, calibrated : BOOLEAN, disagree : BOOLEAN, unpriced : BOOLEAN,
   rateValid : BOOLEAN, capped : BOOLEAN, muted : BOOLEAN, cooling : BOOLEAN,
   price : Nat, median : Nat, cost : Nat, velocity : Nat, sales : Nat, mad : Nat, trend : Nat, turnover : Nat,
   confidence : Nat, unreachable : Nat, score : Nat, arrived : Nat, arrivedBelow : Nat, cheapest : Nat,
   crossDivergence : Nat, days : Nat, age : Nat, move : Nat, depth : Nat, peers : Nat,
   room : Int, edge : Int, riskEdge : Int, net : Int]

\* What may get better about a listing; all but cost and mad by growing.
Improvable == {"cost", "edge", "riskEdge", "velocity", "sales", "turnover", "trend", "mad"}

\* A falling market is one of at least five sales with a trend, so a bar of fewer
\* sales or without a trend would let a better tape raise the other bars.
GatesAssumption ==
  /\ Sig \in [minPrice : Nat, maxPrice : Nat, minEdge : Nat, minNet : Nat, maxExitDays : Nat, minVelocity : Nat,
              minSales : Nat, maxMAD : Nat, minTrend : Nat]
  /\ Auto \in [minEdge : Nat, minVelocity : Nat, minSales : Nat, minTurnover : Nat, maxMAD : Nat, minTrend : Nat,
               maxDataAge : Nat, maxMove : Nat]
  /\ Sig.minSales >= 5 /\ Sig.minTrend > 0
  /\ Sig.maxExitDays # 1      \* a limit that rounds down to none in a falling market
  /\ MaxExit \in Nat
  /\ \A v \in Views : v \in View
  /\ DOMAIN Gains \subseteq Improvable
  /\ \A f \in DOMAIN Gains : Gains[f] \subseteq Nat
  /\ "cost" \in DOMAIN Gains => 0 \notin Gains["cost"]

Never == 1000000
Higher(a, b) == IF a > b THEN a ELSE b
If(name, fails) == IF fails THEN {name} ELSE {}

-----------------------------------------------------------------------------
(* Before the price *)

Tradable(v) ==
  /\ v.kind = "plain"              \* not a bundle, premarket, foreign settlement, refunded, sold or USDT
  /\ v.price > 0 /\ v.price >= Sig.minPrice
  /\ Sig.maxPrice > 0 => v.price <= Sig.maxPrice

Hopeless(v) == v.median <= 0 /\ v.sales < Sig.minSales

-----------------------------------------------------------------------------
(* The bars *)

Falling(v) == v.sales >= 5 /\ v.median > 0 /\ v.trend > 0 /\ v.trend < 960
EdgeSurcharge(v) == IF Falling(v) THEN 20 ELSE 0
HoldLimit(v, base) == IF base > 0 /\ Falling(v) THEN (base * 6) \div 10 ELSE base

\* Slip: the relief goes to the thin market.
Slip_RequiredEdge(base, v) ==
  (IF v.velocity >= 200 THEN base ELSE IF v.velocity >= 100 THEN base + 15 ELSE Higher(base - 5, 0)) + EdgeSurcharge(v)

\* A model that can be left by tomorrow needs less than one that cannot.
RequiredEdge(base, v) ==
  (IF v.velocity >= 200 THEN Higher(base - 5, 0) ELSE IF v.velocity >= 100 THEN base ELSE base + 15) + EdgeSurcharge(v)

\* The bar follows the money that would be stuck, and only ever relaxes.
RequiredVelocity(base, v) ==
  LET share == IF v.cost <= 400 THEN 700 ELSE IF v.cost <= 800 THEN 850 ELSE 1000
      fat   == IF v.edge >= 120 /\ v.cost <= 800 THEN 250 ELSE 0
  IN  IF base <= 0 \/ v.cost <= 0 THEN base ELSE (base * Higher(share - fat, 0)) \div 1000

\* A discount among sellers who are leaving is the front of a slide.
AssessCrowd(v) ==
  LET undercut == v.arrivedBelow >= 2 \/ (v.cheapest > 0 /\ v.cheapest < v.price)
  IN  \/ v.arrivedBelow >= 2 /\ (Falling(v) \/ v.arrived >= 3)
      \/ v.arrived >= 3 /\ Falling(v) /\ undercut

WashedTape(v) ==
  /\ Auto.minTurnover > 0 /\ v.turnover < Auto.minTurnover /\ v.sales > 0
  /\ v.turnover * 100 < Auto.minTurnover * 75 \/ v.sales < 10

-----------------------------------------------------------------------------
(* The verdict is the weakest of its layers *)

Layers(v, fails) ==
  [price     |-> fails = {},
   liquidity |-> v.velocity > 0 /\ v.median72,
   data      |-> /\ v.confidence >= 350 /\ ~v.invented /\ ~v.implausible
                 /\ v.unreachable = 0 /\ v.score >= 12]

Grade(v, fails) ==
  LET l == Layers(v, fails) IN
  IF ~l.price THEN "PASS" ELSE IF ~l.liquidity THEN "MANUAL" ELSE IF ~l.data THEN "SPEC" ELSE "BUY"

Blocking(layers) == {name \in DOMAIN layers : ~layers[name]}

-----------------------------------------------------------------------------
(* The gates *)

\* Fill.Median: the first quoted horizon by which a fill is likelier than not.
MedianWait(v) ==
  IF v.velocity <= 0 THEN Never
  ELSE IF v.median24 THEN 100 ELSE IF v.median72 THEN 300 ELSE IF v.median7 THEN 700 ELSE Never

SignalGates(v) ==
  LET limit == HoldLimit(v, Sig.maxExitDays) IN
       If("budget", v.roomKnown /\ v.cost > v.room)
  \cup If("edge", v.edge <= 0 \/ v.riskEdge < RequiredEdge(Sig.minEdge, v))
  \cup If("net", Sig.minNet > 0 /\ v.net < Sig.minNet)
  \cup If("hold", limit > 0 /\ MedianWait(v) > limit)
  \cup If("above market", v.aboveMarket)
  \cup If("velocity", v.velocity < Sig.minVelocity)
  \cup If("sales", v.sales < Sig.minSales)
  \cup If("mad", v.mad > Sig.maxMAD)
  \cup If("trend", v.trend < Sig.minTrend)

AutoGates(v) ==
       If("warm", ~v.warm)
  \cup If("shadow", v.shadow)
  \cup If("calibration", ~v.shadow /\ ~v.calibrated)
  \cup If("edge", v.riskEdge < RequiredEdge(Auto.minEdge, v))
  \cup (IF Grade(v, {}) # "BUY" THEN Blocking(Layers(v, {})) ELSE {})
  \cup If("adverse", AssessCrowd(v))
  \cup If("velocity", v.velocity < RequiredVelocity(Auto.minVelocity, v))
  \cup If("sales", v.sales < Auto.minSales)
  \cup If("washed", WashedTape(v))
  \cup If("disagreement", v.disagree)
  \cup If("venues disagree", v.crossDivergence > 150)
  \cup If("unpriced", v.unpriced)
  \cup If("silent venue", v.unreachable > 0)
  \cup If("mad", v.mad > Auto.maxMAD)
  \cup If("trend", v.trend < Auto.minTrend)
  \cup If("wait", MaxExit > 0 /\ v.days > MaxExit)
  \cup If("stale", Auto.maxDataAge > 0 /\ v.age > Auto.maxDataAge)
  \cup If("rate", ~v.rateValid \/ (Auto.maxMove > 0 /\ v.move > Auto.maxMove))
  \cup If("depth", v.depth < 2 \/ v.capped)

-----------------------------------------------------------------------------
(* Detector.evaluate *)

NoDecision == [signal |-> FALSE, auto |-> FALSE, verdict |-> "none", suppressed |-> FALSE, fails |-> {}]

Judge(v) ==
  LET fails == SignalGates(v) \cup If("batch", v.peers >= 3)
  IN  IF v.ours \/ ~Tradable(v) \/ v.already \/ Hopeless(v) THEN NoDecision
      ELSE IF ~v.valid THEN [NoDecision EXCEPT !.fails = {"invalid"}]
      ELSE [signal     |-> fails = {},
            verdict    |-> Grade(v, fails),
            suppressed |-> fails = {} /\ (v.muted \/ v.cooling),
            auto       |-> fails = {} /\ AutoGates(v) = {},
            fails      |-> fails]

\* What /val and the scanner are told about a valuation made elsewhere.
GatesFor(v) ==
  IF ~v.valid THEN [signal |-> {"invalid"}, auto |-> {}]
  ELSE [signal |-> SignalGates(v), auto |-> IF SignalGates(v) = {} THEN AutoGates(v) ELSE {}]

Init == view \in Views /\ decision = <<>>

Evaluate ==
  /\ decision = <<>>
  /\ decision' = Judge(view)
  /\ UNCHANGED view

Next == Evaluate

Spec == Init /\ [][Next]_vars

-----------------------------------------------------------------------------
(* Properties *)

TypeOK ==
  /\ view \in Views
  /\ decision = <<>> \/ (decision.verdict \in {"none", "PASS", "MANUAL", "SPEC", "BUY"}
                         /\ {decision.signal, decision.auto, decision.suppressed} \subseteq BOOLEAN)

\* The better listing never loses: what is bought, or shown, is still bought or
\* shown when it is cheaper, faster to sell, wider in margin or better known,
\* although the bars move with the ticket, the velocity and the market
\* (requiredEdge, requiredVelocity, HoldLimit, washedTape).
Gain(v, f, x) == IF f \in {"cost", "mad"} THEN x < v[f] ELSE x > v[f]

BetterNeverLoses ==
  decision # <<>> =>
    \A f \in DOMAIN Gains : \A x \in Gains[f] :
      Gain(view, f, x) => LET better == Judge([view EXCEPT ![f] = x])
                          IN  (decision.signal => better.signal) /\ (decision.auto => better.auto)

\* BUY "is the only verdict unattended buying is allowed to act on": what the
\* machine would take is what its own card headlines as BUY, and every lot it
\* refuses after a card went out has a stated reason (Grade is asked twice, with
\* different evidence, and Blocking turns the answer into reasons).
AutoIsABuy ==
  decision # <<>> =>
    /\ decision.auto => decision.verdict = "BUY"
    /\ (decision.signal /\ ~decision.auto) => GatesFor(view).auto # {}
=============================================================================
