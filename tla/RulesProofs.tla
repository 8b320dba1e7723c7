----------------------------- MODULE RulesProofs ----------------------------
(***************************************************************************)
(* Proofs about the rules beside the valuation: the gates (Gates), the     *)
(* ranking and the batch (Score), the tape and the rate (Tape), composed   *)
(* in MCRules.                                                             *)
(***************************************************************************)
EXTENDS ExitsProofs

-----------------------------------------------------------------------------
(* The gates *)

\* What a listing keeps when something about it improves.
Same ==
  {"kind", "ours", "already", "valid", "roomKnown", "median24", "median72", "median7", "aboveMarket", "invented",
   "implausible", "warm", "shadow", "calibrated", "disagree", "unpriced", "rateValid", "capped", "muted", "cooling",
   "price", "median", "confidence", "unreachable", "score", "arrived", "arrivedBelow", "cheapest",
   "crossDivergence", "days", "age", "move", "depth", "peers", "room", "net"}

\* One listing is at least as good as another that is otherwise the same.
Better(v, w) ==
  /\ v \in Ga!View
  /\ \A f \in Same : w[f] = v[f]
  /\ w.cost \in Nat /\ w.cost <= v.cost /\ (w.cost = v.cost \/ w.cost > 0)
  /\ w.mad \in Nat /\ w.mad <= v.mad
  /\ w.edge \in Int /\ w.edge >= v.edge
  /\ w.riskEdge \in Int /\ w.riskEdge >= v.riskEdge
  /\ w.velocity \in Nat /\ w.velocity >= v.velocity
  /\ w.sales \in Nat /\ w.sales >= v.sales
  /\ w.turnover \in Nat /\ w.turnover >= v.turnover
  /\ w.trend \in Nat /\ w.trend >= v.trend

Bars ==
  /\ {GateSig.minPrice, GateSig.maxPrice, GateSig.minEdge, GateSig.minNet, GateSig.maxExitDays, GateSig.minVelocity,
      GateSig.minSales, GateSig.maxMAD, GateSig.minTrend} \subseteq Nat
  /\ {GateAuto.minEdge, GateAuto.minVelocity, GateAuto.minSales, GateAuto.minTurnover, GateAuto.maxMAD,
      GateAuto.minTrend, GateAuto.maxDataAge, GateAuto.maxMove} \subseteq Nat
  /\ GateSig.minSales >= 5 /\ GateSig.minTrend > 0 /\ GateSig.maxExitDays # 1 /\ MaxExit \in Nat

LEMMA GatesAssumed == Ga!GatesAssumption
BY RulesAssumption

LEMMA BarsAssumed == Bars
BY GatesAssumed DEF Ga!GatesAssumption, Bars

LEMMA ImprovedIsBetter ==
  ASSUME NEW v \in GateViews, NEW f \in DOMAIN GateGains, NEW x \in GateGains[f], Ga!Gain(v, f, x)
  PROVE  Better(v, [v EXCEPT ![f] = x])
<1>1. v \in Ga!View /\ f \in Ga!Improvable /\ x \in Nat /\ (f = "cost" => x > 0)
  BY GatesAssumed DEF Ga!GatesAssumption
<1>2. Ga!Improvable \subseteq DOMAIN v /\ Same \subseteq DOMAIN v
  BY <1>1 DEF Ga!View, Ga!Improvable, Same
<1>3. {v.cost, v.mad, v.velocity, v.sales, v.turnover, v.trend} \subseteq Nat /\ v.edge \in Int /\ v.riskEdge \in Int
  BY <1>1 DEF Ga!View
<1> DEFINE w == [v EXCEPT ![f] = x]
<1>4. \A g \in DOMAIN v : w[g] = IF g = f THEN x ELSE v[g]
  OBVIOUS
<1> HIDE DEF w
<1>5. \A g \in Same : w[g] = v[g]
  BY <1>1, <1>2, <1>4 DEF Same, Ga!Improvable
<1>6. \A g \in Ga!Improvable : w[g] = IF g = f THEN x ELSE v[g]
  BY <1>2, <1>4
<1>7. Better(v, w)
  BY <1>1, <1>3, <1>5, <1>6 DEF Better, Ga!Gain, Ga!Improvable
<1>8. QED  BY <1>7 DEF w

\* Enough sales and a trend: a tape like that is falling no more when it improves.
Traded(v) == v.sales >= 5 /\ v.trend > 0

LEMMA Typed ==
  ASSUME NEW v, NEW w, Better(v, w)
  PROVE  /\ {v.cost, v.mad, v.velocity, v.sales, v.turnover, v.trend, v.median, v.price, v.arrived, v.arrivedBelow,
             v.cheapest, v.days, v.age, v.move, v.depth, v.unreachable, v.crossDivergence, v.confidence, v.score,
             v.peers} \subseteq Nat
         /\ {v.edge, v.riskEdge, v.net, v.room} \subseteq Int
BY DEF Better, Ga!View

LEMMA Kept ==
  ASSUME NEW v, NEW w, Better(v, w)
  PROVE  /\ w.kind = v.kind /\ w.ours = v.ours /\ w.already = v.already /\ w.valid = v.valid
         /\ w.roomKnown = v.roomKnown /\ w.room = v.room /\ w.net = v.net /\ w.aboveMarket = v.aboveMarket
         /\ w.median24 = v.median24 /\ w.median72 = v.median72 /\ w.median7 = v.median7
         /\ w.invented = v.invented /\ w.implausible = v.implausible /\ w.warm = v.warm /\ w.shadow = v.shadow
         /\ w.calibrated = v.calibrated /\ w.disagree = v.disagree /\ w.unpriced = v.unpriced
         /\ w.rateValid = v.rateValid /\ w.capped = v.capped /\ w.price = v.price /\ w.median = v.median
         /\ w.confidence = v.confidence /\ w.unreachable = v.unreachable /\ w.score = v.score
         /\ w.arrived = v.arrived /\ w.arrivedBelow = v.arrivedBelow /\ w.cheapest = v.cheapest
         /\ w.crossDivergence = v.crossDivergence /\ w.days = v.days /\ w.age = v.age /\ w.move = v.move
         /\ w.depth = v.depth /\ w.peers = v.peers
BY DEF Better, Same

LEMMA FallsNoMore ==
  ASSUME NEW v, NEW w, Better(v, w), Traded(v), Ga!Falling(w)
  PROVE  Ga!Falling(v)
BY Typed, Kept DEF Better, Traded, Ga!Falling

LEMMA EdgeBar ==
  ASSUME NEW v, NEW w, Better(v, w), Traded(v), NEW base \in Nat
  PROVE  /\ Ga!RequiredEdge(base, v) \in Nat /\ Ga!RequiredEdge(base, w) \in Nat
         /\ Ga!RequiredEdge(base, w) <= Ga!RequiredEdge(base, v)
<1>1. Ga!EdgeSurcharge(w) <= Ga!EdgeSurcharge(v) /\ {Ga!EdgeSurcharge(w), Ga!EdgeSurcharge(v)} \subseteq Nat
  BY FallsNoMore DEF Ga!EdgeSurcharge
<1>2. v.velocity \in Nat /\ w.velocity \in Nat /\ v.velocity <= w.velocity
  BY Typed DEF Better
<1>3. QED  BY <1>1, <1>2 DEF Ga!RequiredEdge, Ga!Higher

LEMMA VelocityBar ==
  ASSUME NEW v, NEW w, Better(v, w), NEW base \in Nat
  PROVE  /\ Ga!RequiredVelocity(base, v) \in Int /\ Ga!RequiredVelocity(base, w) \in Int
         /\ Ga!RequiredVelocity(base, w) <= Ga!RequiredVelocity(base, v)
<1> DEFINE share(u) == IF u.cost <= 400 THEN 700 ELSE IF u.cost <= 800 THEN 850 ELSE 1000
           fat(u)   == IF u.edge >= 120 /\ u.cost <= 800 THEN 250 ELSE 0
           left(u)  == Ga!Higher(share(u) - fat(u), 0)
<1>1. {v.cost, w.cost} \subseteq Nat /\ {v.edge, w.edge} \subseteq Int /\ w.cost <= v.cost /\ w.edge >= v.edge
      /\ (w.cost = v.cost \/ w.cost > 0)
  BY Typed DEF Better
<1>2. left(w) <= left(v) /\ {left(v), left(w)} \subseteq {450, 600, 700, 750, 850, 1000}
  BY <1>1 DEF Ga!Higher
<1>3. \A u \in {v, w} : Ga!RequiredVelocity(base, u) = IF base <= 0 \/ u.cost <= 0 THEN base ELSE (base * left(u)) \div 1000
  BY DEF Ga!RequiredVelocity
<1> HIDE DEF left
<1>4. base * left(w) <= base * left(v) /\ base * left(v) \in Nat /\ base * left(w) \in Nat /\ base * left(w) <= base * 1000
  BY <1>2
<1>5. (base * left(w)) \div 1000 <= (base * left(v)) \div 1000 /\ (base * left(w)) \div 1000 \in Nat
      /\ (base * left(v)) \div 1000 \in Nat /\ (base * left(w)) \div 1000 <= base
  BY <1>4
<1>6. QED  BY <1>1, <1>3, <1>5

LEMMA WaitBar ==
  ASSUME NEW v, NEW w, Better(v, w), Traded(v), NEW base \in Nat \ {1},
         Ga!HoldLimit(w, base) > 0, Ga!MedianWait(w) > Ga!HoldLimit(w, base)
  PROVE  Ga!HoldLimit(v, base) > 0 /\ Ga!MedianWait(v) > Ga!HoldLimit(v, base)
<1>1. /\ Ga!MedianWait(w) <= Ga!MedianWait(v)
      /\ {Ga!MedianWait(v), Ga!MedianWait(w)} \subseteq {100, 300, 700, 1000000}
  BY Typed, Kept DEF Better, Ga!MedianWait, Ga!Never
<1>2. CASE base = 0
  BY <1>2 DEF Ga!HoldLimit
<1>3. CASE base > 1
  <2> DEFINE short == (base * 6) \div 10
  <2>1. short \in Nat /\ short <= base /\ short > 0
    BY <1>3
  <2>2. \A u \in {v, w} : Ga!HoldLimit(u, base) = IF Ga!Falling(u) THEN short ELSE base
    BY <1>3 DEF Ga!HoldLimit
  <2> HIDE DEF short
  <2>3. QED  BY <1>1, <1>3, <2>1, <2>2, FallsNoMore
<1>4. QED  BY <1>2, <1>3

\* What fails a listing at the gates of a card fails a worse one.
LEMMA SignalKept ==
  ASSUME NEW v, NEW w, Better(v, w), Ga!SignalGates(v) = {}
  PROVE  Ga!SignalGates(w) = {} /\ Traded(v)
<1>1. Bars
  BY BarsAssumed
<1> DEFINE limit(u) == Ga!HoldLimit(u, GateSig.maxExitDays)
<1>2. /\ ~(v.roomKnown /\ v.cost > v.room)
      /\ ~(v.edge <= 0 \/ v.riskEdge < Ga!RequiredEdge(GateSig.minEdge, v))
      /\ ~(GateSig.minNet > 0 /\ v.net < GateSig.minNet)
      /\ ~(limit(v) > 0 /\ Ga!MedianWait(v) > limit(v))
      /\ ~v.aboveMarket
      /\ ~(v.velocity < GateSig.minVelocity)
      /\ ~(v.sales < GateSig.minSales)
      /\ ~(v.mad > GateSig.maxMAD)
      /\ ~(v.trend < GateSig.minTrend)
  <2> HIDE DEF limit
  <2>1. Ga!SignalGates(v) =
               Ga!If("budget", v.roomKnown /\ v.cost > v.room)
          \cup Ga!If("edge", v.edge <= 0 \/ v.riskEdge < Ga!RequiredEdge(GateSig.minEdge, v))
          \cup Ga!If("net", GateSig.minNet > 0 /\ v.net < GateSig.minNet)
          \cup Ga!If("hold", limit(v) > 0 /\ Ga!MedianWait(v) > limit(v))
          \cup Ga!If("above market", v.aboveMarket)
          \cup Ga!If("velocity", v.velocity < GateSig.minVelocity)
          \cup Ga!If("sales", v.sales < GateSig.minSales)
          \cup Ga!If("mad", v.mad > GateSig.maxMAD)
          \cup Ga!If("trend", v.trend < GateSig.minTrend)
    BY DEF Ga!SignalGates, limit
  <2>2. QED  BY <2>1 DEF Ga!If
<1>3. Traded(v)
  BY <1>1, <1>2, Typed DEF Traded, Bars
<1> DEFINE need(u) == Ga!RequiredEdge(GateSig.minEdge, u)
<1>4. /\ ~(w.roomKnown /\ w.cost > w.room)
      /\ ~(GateSig.minNet > 0 /\ w.net < GateSig.minNet)
      /\ ~w.aboveMarket
      /\ ~(w.velocity < GateSig.minVelocity)
      /\ ~(w.sales < GateSig.minSales)
      /\ ~(w.mad > GateSig.maxMAD)
      /\ ~(w.trend < GateSig.minTrend)
  BY <1>1, <1>2, Typed, Kept DEF Better, Bars
<1>5. need(w) <= need(v) /\ need(w) \in Nat /\ need(v) \in Nat
  BY <1>1, <1>3, EdgeBar DEF Bars
<1>6. ~(w.edge <= 0 \/ w.riskEdge < need(w))
  <2> HIDE DEF need
  <2>1. v.edge > 0 /\ ~(v.riskEdge < need(v))
    BY <1>2, Typed DEF need
  <2>2. QED  BY <1>5, <2>1, Typed DEF Better
<1>7. ~(limit(w) > 0 /\ Ga!MedianWait(w) > limit(w))
  BY <1>1, <1>2, <1>3, WaitBar DEF Bars
<1>8. Ga!SignalGates(w) = {}
  BY <1>4, <1>6, <1>7 DEF Ga!SignalGates, Ga!If
<1>9. QED  BY <1>3, <1>8

LEMMA CrowdKept ==
  ASSUME NEW v, NEW w, Better(v, w), Traded(v), Ga!AssessCrowd(w)
  PROVE  Ga!AssessCrowd(v)
BY FallsNoMore, Kept DEF Ga!AssessCrowd

LEMMA WashedKept ==
  ASSUME NEW v, NEW w, Better(v, w), Traded(v), Ga!WashedTape(w)
  PROVE  Ga!WashedTape(v)
BY BarsAssumed, Typed DEF Better, Traded, Bars, Ga!WashedTape

LEMMA GradeKept ==
  ASSUME NEW v, NEW w, Better(v, w), Ga!Grade(v, {}) = "BUY"
  PROVE  Ga!Grade(w, {}) = "BUY"
BY Typed, Kept DEF Better, Ga!Grade, Ga!Layers

\* A verdict short of BUY has its reasons.
LEMMA ShortOfBuy ==
  ASSUME NEW v, Ga!Grade(v, {}) # "BUY"
  PROVE  Ga!Blocking(Ga!Layers(v, {})) # {}
<1> DEFINE l == Ga!Layers(v, {})
<1>1. DOMAIN l = {"price", "liquidity", "data"} /\ l.price
  BY DEF Ga!Layers
<1>2. ~l.liquidity \/ ~l.data
  BY <1>1 DEF Ga!Grade
<1> HIDE DEF l
<1>3. "liquidity" \in Ga!Blocking(l) \/ "data" \in Ga!Blocking(l)
  BY <1>1, <1>2 DEF Ga!Blocking
<1>4. QED  BY <1>3 DEF l

\* The gates of unattended buying, one by one.
AutoHolds(v) ==
  /\ v.warm /\ ~v.shadow /\ v.calibrated
  /\ ~(v.riskEdge < Ga!RequiredEdge(GateAuto.minEdge, v))
  /\ Ga!Grade(v, {}) = "BUY"
  /\ ~Ga!AssessCrowd(v)
  /\ ~(v.velocity < Ga!RequiredVelocity(GateAuto.minVelocity, v))
  /\ ~(v.sales < GateAuto.minSales)
  /\ ~Ga!WashedTape(v)
  /\ ~v.disagree /\ ~(v.crossDivergence > 150) /\ ~v.unpriced /\ ~(v.unreachable > 0)
  /\ ~(v.mad > GateAuto.maxMAD)
  /\ ~(v.trend < GateAuto.minTrend)
  /\ ~(MaxExit > 0 /\ v.days > MaxExit)
  /\ ~(GateAuto.maxDataAge > 0 /\ v.age > GateAuto.maxDataAge)
  /\ ~(~v.rateValid \/ (GateAuto.maxMove > 0 /\ v.move > GateAuto.maxMove))
  /\ ~(v.depth < 2 \/ v.capped)

LEMMA NoAutoGate ==
  ASSUME NEW v
  PROVE  Ga!AutoGates(v) = {} <=> AutoHolds(v)
<1>1. (Ga!AutoGates(v) = {}) => AutoHolds(v)
  <2>1. Ga!Grade(v, {}) # "BUY" => Ga!Blocking(Ga!Layers(v, {})) # {}
    BY ShortOfBuy
  <2>2. SUFFICES ASSUME \A x : x \notin Ga!AutoGates(v) PROVE AutoHolds(v)
    OBVIOUS
  <2> DEFINE blocks == Ga!Blocking(Ga!Layers(v, {}))
             buy    == Ga!Grade(v, {}) = "BUY"
  <2>3. \A x : x \notin IF ~buy THEN blocks ELSE {}
    BY <2>2, ZenonT(60) DEF Ga!AutoGates
  <2>4. buy
    <3> HIDE DEF blocks, buy
    <3>1. QED  BY <2>1, <2>3 DEF blocks, buy
  <2>5. QED  BY <2>2, <2>4, ZenonT(60) DEF Ga!AutoGates, Ga!If, AutoHolds
<1>2. AutoHolds(v) => Ga!AutoGates(v) = {}
  BY DEF Ga!AutoGates, Ga!If, AutoHolds
<1>3. QED  BY <1>1, <1>2

LEMMA AutoKept ==
  ASSUME NEW v, NEW w, Better(v, w), Traded(v), Ga!AutoGates(v) = {}
  PROVE  Ga!AutoGates(w) = {}
<1>1. AutoHolds(v) /\ Bars
  BY NoAutoGate, BarsAssumed
<1> DEFINE need(u)  == Ga!RequiredEdge(GateAuto.minEdge, u)
           speed(u) == Ga!RequiredVelocity(GateAuto.minVelocity, u)
<1>2. need(w) <= need(v) /\ need(w) \in Nat /\ need(v) \in Nat
  BY <1>1, EdgeBar DEF Bars
<1>3. speed(w) <= speed(v) /\ speed(w) \in Int /\ speed(v) \in Int
  BY <1>1, VelocityBar DEF Bars
<1>4. ~(v.riskEdge < need(v)) /\ ~(v.velocity < speed(v))
  BY <1>1 DEF AutoHolds
<1> HIDE DEF need, speed
<1>5. ~(w.riskEdge < need(w)) /\ ~(w.velocity < speed(w))
  BY <1>2, <1>3, <1>4, Typed DEF Better
<1>6. Ga!Grade(w, {}) = "BUY" /\ ~Ga!AssessCrowd(w) /\ ~Ga!WashedTape(w)
  BY <1>1, GradeKept, CrowdKept, WashedKept DEF AutoHolds
<1>7. ~(w.sales < GateAuto.minSales) /\ ~(w.mad > GateAuto.maxMAD) /\ ~(w.trend < GateAuto.minTrend)
  BY <1>1, Typed DEF Better, Bars, AutoHolds
<1>8. AutoHolds(w)
  BY <1>1, <1>5, <1>6, <1>7, Kept DEF AutoHolds, need, speed
<1>9. QED  BY <1>8, NoAutoGate

LEMMA NobodyHopeless ==
  ASSUME NEW v, NEW w, Better(v, w), ~Ga!Hopeless(v)
  PROVE  ~Ga!Hopeless(w)
BY BarsAssumed, Typed, Kept DEF Better, Bars, Ga!Hopeless

Out(v)   == v.ours \/ ~Ga!Tradable(v) \/ v.already \/ Ga!Hopeless(v)
Fails(v) == Ga!SignalGates(v) \cup Ga!If("batch", v.peers >= 3)

\* The judgement, field by field.
LEMMA Judged ==
  ASSUME NEW v
  PROVE  LET d == Ga!Judge(v) IN
         /\ d.signal <=> ~Out(v) /\ v.valid /\ Fails(v) = {}
         /\ d.auto <=> ~Out(v) /\ v.valid /\ Fails(v) = {} /\ Ga!AutoGates(v) = {}
         /\ ~Out(v) /\ v.valid => d.verdict = Ga!Grade(v, Fails(v))
<1> DEFINE judged == [signal     |-> Fails(v) = {},
                      verdict    |-> Ga!Grade(v, Fails(v)),
                      suppressed |-> Fails(v) = {} /\ (v.muted \/ v.cooling),
                      auto       |-> Fails(v) = {} /\ Ga!AutoGates(v) = {},
                      fails      |-> Fails(v)]
<1>1. Ga!Judge(v) = IF Out(v) THEN Ga!NoDecision
                    ELSE IF ~v.valid THEN [Ga!NoDecision EXCEPT !.fails = {"invalid"}] ELSE judged
  BY DEF Ga!Judge, Out, Fails
<1>2. /\ ~Ga!NoDecision.signal /\ ~Ga!NoDecision.auto
      /\ ~[Ga!NoDecision EXCEPT !.fails = {"invalid"}].signal /\ ~[Ga!NoDecision EXCEPT !.fails = {"invalid"}].auto
  BY DEF Ga!NoDecision
<1>3. /\ judged.signal = (Fails(v) = {}) /\ judged.auto = (Fails(v) = {} /\ Ga!AutoGates(v) = {})
      /\ judged.verdict = Ga!Grade(v, Fails(v))
  OBVIOUS
<1> HIDE DEF judged
<1>4. CASE Out(v)
  BY <1>1, <1>2, <1>4
<1>5. CASE ~Out(v) /\ ~v.valid
  BY <1>1, <1>2, <1>5
<1>6. CASE ~Out(v) /\ v.valid
  <2>1. Ga!Judge(v) = judged
    BY <1>1, <1>6
  <2>2. QED  BY <1>3, <1>6, <2>1
<1>7. QED  BY <1>4, <1>5, <1>6

\* A listing that is at least as good is signalled, and bought, at least as readily.
LEMMA BetterIsJudgedSo ==
  ASSUME NEW v, NEW w, Better(v, w)
  PROVE  /\ Ga!Judge(v).signal => Ga!Judge(w).signal
         /\ Ga!Judge(v).auto => Ga!Judge(w).auto
<1> SUFFICES ASSUME ~Out(v), v.valid, Fails(v) = {}
             PROVE  /\ ~Out(w) /\ w.valid /\ Fails(w) = {}
                    /\ Ga!AutoGates(v) = {} => Ga!AutoGates(w) = {}
  BY Judged
<1>1. Ga!SignalGates(v) = {} /\ ~(v.peers >= 3)
  BY DEF Fails, Ga!If
<1>2. Ga!SignalGates(w) = {} /\ Traded(v)
  BY <1>1, SignalKept
<1>3. Fails(w) = {}
  BY <1>1, <1>2, Kept DEF Fails, Ga!If
<1>4. ~Out(w) /\ w.valid
  BY NobodyHopeless, Kept DEF Out, Ga!Tradable
<1>5. QED  BY <1>2, <1>3, <1>4, AutoKept

LEMMA AutoIsBuy ==
  ASSUME NEW v
  PROVE  /\ Ga!Judge(v).auto => Ga!Judge(v).verdict = "BUY"
         /\ Ga!Judge(v).signal /\ ~Ga!Judge(v).auto => Ga!GatesFor(v).auto # {}
<1>1. ASSUME Ga!Judge(v).auto
      PROVE  Ga!Judge(v).verdict = "BUY"
  <2>1. Ga!Judge(v).verdict = Ga!Grade(v, {}) /\ Ga!AutoGates(v) = {}
    BY <1>1, Judged
  <2>2. QED  BY <2>1, NoAutoGate DEF AutoHolds
<1>2. ASSUME Ga!Judge(v).signal, ~Ga!Judge(v).auto
      PROVE  Ga!GatesFor(v).auto # {}
  <2>1. v.valid /\ Fails(v) = {} /\ Ga!AutoGates(v) # {}
    BY <1>2, Judged
  <2>2. Ga!SignalGates(v) = {}
    BY <2>1 DEF Fails
  <2>3. QED  BY <2>1, <2>2 DEF Ga!GatesFor
<1>3. QED  BY <1>1, <1>2

\* What was decided is the judgement of a listing.
GatesJudged == part = "gates" => y1 \in GateViews /\ (y2 = <<>> \/ y2 = Ga!Judge(y1))

LEMMA GatesJudgedHolds == GatesJudged => (part = "gates" => Ga!BetterNeverLoses /\ Ga!AutoIsABuy)
<1> SUFFICES ASSUME y1 \in GateViews, y2 = Ga!Judge(y1)
             PROVE  Ga!BetterNeverLoses /\ Ga!AutoIsABuy
  BY DEF GatesJudged, Ga!BetterNeverLoses, Ga!AutoIsABuy
<1>1. Ga!BetterNeverLoses
  BY ImprovedIsBetter, BetterIsJudgedSo DEF Ga!BetterNeverLoses
<1>2. Ga!AutoIsABuy
  BY AutoIsBuy DEF Ga!AutoIsABuy
<1>3. QED  BY <1>1, <1>2

LEMMA GatesInit == RulesInit => GatesJudged
BY DEF RulesInit, GatesJudged, Ga!Init

LEMMA GatesNext == GatesJudged /\ [RulesNext]_<<advars, part, cells>> => GatesJudged'
<1> SUFFICES ASSUME GatesJudged, [RulesNext]_<<advars, part, cells>>, part' = "gates"
             PROVE  y1' \in GateViews /\ (y2' = <<>> \/ y2' = Ga!Judge(y1'))
  BY DEF GatesJudged
<1>1. CASE UNCHANGED cells
  BY <1>1 DEF GatesJudged, RulesNext, cells
<1>2. CASE Ga!Next /\ part = "gates"
  BY <1>2 DEF GatesJudged, Ga!Next, Ga!Evaluate
<1>3. QED  BY <1>1, <1>2 DEF RulesNext, cells

-----------------------------------------------------------------------------
(* Quotients *)

LEMMA Products ==
  ASSUME NEW a \in Nat, NEW b \in Nat, NEW c \in Nat, NEW d \in Nat, a <= b, c <= d
  PROVE  a * c \in Nat /\ b * d \in Nat /\ a * c <= b * d
<1>1. b * d = a * c + a * (d - c) + (b - a) * d
  OBVIOUS
<1>2. a * (d - c) \in Nat /\ (b - a) * d \in Nat /\ a * c \in Nat /\ b * d \in Nat
  OBVIOUS
<1>3. QED  BY <1>1, <1>2

LEMMA Capped ==
  ASSUME NEW x \in Nat, NEW j \in Nat
  PROVE  /\ j <= 12 => x * j <= 12 * x
         /\ j <= 100 => x * j <= 100 * x
         /\ j <= 105 => x * j <= 105 * x
         /\ j <= 115 => x * j <= 115 * x
<1>1. \A k \in Nat : j <= k => x * j <= x * k
  BY Products
<1>2. x * 12 = 12 * x /\ x * 100 = 100 * x /\ x * 105 = 105 * x /\ x * 115 = 115 * x
  OBVIOUS
<1>3. QED  BY <1>1, <1>2

\* A quotient of integers.
LEMMA Quotient ==
  ASSUME NEW x \in Int, NEW d \in Nat \ {0}
  PROVE  /\ x \div d \in Int /\ d * (x \div d) <= x /\ x < d * (x \div d) + d
         /\ x \in Nat => x \div d \in Nat
OBVIOUS

LEMMA QuotientAtLeast ==
  ASSUME NEW x \in Int, NEW d \in Nat \ {0}, NEW q \in Int, d * q <= x
  PROVE  q <= x \div d
<1> DEFINE r == x \div d
<1>1. r \in Int /\ x < d * r + d
  BY Quotient
<1> HIDE DEF r
<1>2. SUFFICES ASSUME q >= r + 1 PROVE FALSE
  BY <1>1 DEF r
<1>3. d * (q - (r + 1)) \in Nat
  BY <1>1, <1>2
<1>4. d * q = d * (q - (r + 1)) + d * r + d
  BY <1>1
<1>5. d * r \in Int /\ d * q \in Int
  BY <1>1
<1>6. QED  BY <1>1, <1>3, <1>4, <1>5

LEMMA QuotientUp ==
  ASSUME NEW x \in Int, NEW y \in Int, NEW d \in Nat \ {0}, x <= y
  PROVE  x \div d <= y \div d
<1>1. x \div d \in Int /\ d * (x \div d) <= x
  BY Quotient
<1>2. d * (x \div d) \in Int
  BY <1>1
<1>3. d * (x \div d) <= y
  BY <1>1, <1>2
<1>4. QED  BY <1>1, <1>3, QuotientAtLeast

\* Of a smaller whole the same is more.
LEMMA QuotientDown ==
  ASSUME NEW x \in Nat, NEW d \in Nat \ {0}, NEW e \in Nat \ {0}, d <= e
  PROVE  x \div e <= x \div d
<1> DEFINE q == x \div e
<1>1. q \in Nat /\ e * q <= x
  BY Quotient
<1> HIDE DEF q
<1>2. d * q \in Nat /\ d * q <= e * q /\ e * q \in Nat
  BY <1>1, Products
<1>3. d * q <= x
  BY <1>1, <1>2
<1>4. QED  BY <1>1, <1>3, QuotientAtLeast DEF q

\* Shrinkage n / (n + c) grows with n and stays below one.
LEMMA Shrinkage ==
  ASSUME NEW K \in Nat, NEW a \in Nat, NEW b \in Nat, NEW c \in Nat \ {0}, a <= b
  PROVE  /\ (K * a) \div (a + c) \in 0..K
         /\ (K * a) \div (a + c) <= (K * b) \div (b + c)
<1> DEFINE q == (K * a) \div (a + c)
<1>0. K * a \in Nat /\ K * b \in Nat /\ K * c \in Nat /\ a + c \in Nat \ {0} /\ b + c \in Nat \ {0}
  OBVIOUS
<1>1. q \in Nat /\ (a + c) * q <= K * a
  <2> DEFINE x == K * a
             d == a + c
  <2>1. x \in Nat /\ d \in Nat \ {0}
    BY <1>0
  <2> HIDE DEF x, d
  <2>2. x \div d \in Nat /\ d * (x \div d) <= x
    BY <2>1, Quotient
  <2>3. QED  BY <2>2 DEF x, d
<1> HIDE DEF q
<1>2. q <= K
  <2>1. SUFFICES ASSUME q >= K + 1 PROVE FALSE
    BY <1>1
  <2>2. (a + c) * q >= (a + c) * (K + 1) /\ (a + c) * q \in Nat
    BY <1>0, <1>1, <2>1, Products
  <2>3. (a + c) * (K + 1) = K * a + K * c + a + c
    BY <1>0
  <2>4. QED  BY <1>0, <1>1, <2>2, <2>3
<1>3. (b + c) * q = (a + c) * q + (b - a) * q
  BY <1>1
<1>4. (b - a) * q <= (b - a) * K /\ (b - a) * q \in Nat /\ (b - a) * K \in Nat
  BY <1>1, <1>2, Products
<1>5. K * b = K * a + (b - a) * K
  OBVIOUS
<1>6. (b + c) * q <= K * b /\ (a + c) * q \in Nat
  BY <1>0, <1>1, <1>3, <1>4, <1>5
<1>7. q <= (K * b) \div (b + c)
  BY <1>0, <1>1, <1>6, QuotientAtLeast
<1>8. QED  BY <1>1, <1>2, <1>7 DEF q

-----------------------------------------------------------------------------
\* What a valuation keeps when something about it improves.
Firm == {"fx", "fromCross", "capped", "competing", "tight", "perModel", "traits", "unreachable", "support"}

\* Numbers and flags of a settled valuation.
Measured(v) ==
  /\ {v.proceeds, v.near, v.crossNear, v.mad, v.sales, v.distinct, v.peers, v.turnover, v.trend, v.depth,
      v.venues, v.divergence, v.below, v.velocity, v.ticket, v.apart, v.perModel, v.unreachable, v.support} \subseteq Nat
  /\ v.cost \in Nat \ {0} /\ v.days \in 0..Sc!Never /\ v.lag \in Int /\ v.traits \in 0..100
  /\ {v.jump, v.invented, v.disagree} \subseteq BOOLEAN

\* One valuation is at least as good as another that is otherwise the same.
AsGood(v, w) ==
  /\ Measured(v) /\ Measured(w)
  /\ \A f \in Firm : w[f] = v[f]
  /\ w.proceeds >= v.proceeds /\ w.sales >= v.sales /\ w.distinct >= v.distinct /\ w.peers >= v.peers
  /\ w.turnover >= v.turnover /\ w.trend >= v.trend /\ w.depth >= v.depth /\ w.venues >= v.venues
  /\ w.velocity >= v.velocity
  /\ w.cost <= v.cost /\ w.days <= v.days /\ w.mad <= v.mad /\ w.near <= v.near /\ w.crossNear <= v.crossNear
  /\ w.divergence <= v.divergence /\ w.below <= v.below /\ w.apart <= v.apart /\ w.lag <= v.lag
  /\ w.ticket <= v.ticket
  /\ (w.invented => v.invented) /\ (w.disagree => v.disagree) /\ (w.jump => v.jump)

LEMMA ScoreAssumed == Sc!ScoreAssumption
BY RulesAssumption

LEMMA ScoreInputs ==
  /\ ScoreViews \subseteq Sc!View
  /\ DOMAIN ScoreGains \subseteq Sc!Greater \cup Sc!Lesser \cup Sc!Flags
  /\ \A g \in DOMAIN ScoreGains : \A y \in ScoreGains[g] :
       /\ g \in Sc!Flags => y \in BOOLEAN
       /\ g = "lag" => y \in Int
       /\ g \notin Sc!Flags \cup {"lag"} => y \in Nat /\ (g = "cost" => y > 0)
BY ScoreAssumed, SMT DEF Sc!ScoreAssumption

LEMMA NeverIsNat == Sc!Never \in Nat
BY SMT DEF Sc!Never

LEMMA ImprovedIsAsGood ==
  ASSUME NEW v \in ScoreViews, NEW f \in DOMAIN ScoreGains, NEW x \in ScoreGains[f], Sc!Gain(v, f, x)
  PROVE  AsGood(v, Sc!Improved(v, f, x))
<1>1. v \in Sc!View
  BY ScoreInputs
<1>2. Measured(v)
  BY <1>1 DEF Sc!View, Measured
<1>3. f \in Sc!Greater \cup Sc!Lesser \cup Sc!Flags
  BY ScoreInputs
<1>4. /\ f \in Sc!Flags => x \in BOOLEAN
      /\ f \notin Sc!Flags => x \in Int /\ (f # "lag" => x \in Nat) /\ (f = "cost" => x \in Nat \ {0})
  BY ScoreInputs DEF Sc!Flags
<1>5. Sc!Greater \cup Sc!Lesser \cup Sc!Flags \cup Firm \subseteq DOMAIN v
  BY <1>1 DEF Sc!View, Sc!Greater, Sc!Lesser, Sc!Flags, Firm
<1> DEFINE u == [v EXCEPT ![f] = x]
           w == [u EXCEPT !.sales = Sc!Larger(@, u.distinct)]
<1>6. \A g \in DOMAIN v : u[g] = IF g = f THEN x ELSE v[g]
  OBVIOUS
<1>7. \A g \in DOMAIN v : w[g] = IF g = "sales" THEN Sc!Larger(u.sales, u.distinct) ELSE u[g]
  <2>1. DOMAIN u = DOMAIN v
    OBVIOUS
  <2> HIDE DEF u
  <2>2. QED  BY <2>1
<1>8. w = Sc!Improved(v, f, x)
  BY DEF Sc!Improved
<1> HIDE DEF u, w
<1>9. \A g \in Firm : w[g] = v[g]
  BY <1>3, <1>5, <1>6, <1>7 DEF Firm, Sc!Greater, Sc!Lesser, Sc!Flags
<1>10. \A g \in Sc!Greater \cup Sc!Lesser \cup Sc!Flags :
          w[g] = IF g = "sales" THEN Sc!Larger(u.sales, u.distinct) ELSE IF g = f THEN x ELSE v[g]
  BY <1>5, <1>6, <1>7
<1>11. u.sales = (IF f = "sales" THEN x ELSE v.sales) /\ u.distinct = (IF f = "distinct" THEN x ELSE v.distinct)
  BY <1>5, <1>6 DEF Sc!Greater
<1>12. CASE f \in Sc!Greater
  <2>1. x > v[f] /\ x \in Nat
    BY <1>4, <1>12 DEF Sc!Gain, Sc!Greater, Sc!Lesser, Sc!Flags
  <2>2. Sc!Larger(u.sales, u.distinct) \in Nat /\ Sc!Larger(u.sales, u.distinct) >= v.sales
    BY <1>2, <1>11, <2>1 DEF Measured, Sc!Larger
  <2> DEFINE big == Sc!Larger(u.sales, u.distinct)
  <2> HIDE DEF big
  <2>3. Measured(w) /\ AsGood(v, w)
    BY <1>2, <1>9, <1>10, <1>12, <2>1, <2>2 DEF AsGood, Measured, Firm, Sc!Greater, Sc!Lesser, Sc!Flags, big
  <2>4. QED  BY <1>8, <2>3
<1>13. CASE f \in Sc!Lesser
  <2>1. x < v[f] /\ x \in Int /\ (f # "lag" => x \in Nat) /\ (f = "cost" => x \in Nat \ {0})
    BY <1>4, <1>13 DEF Sc!Gain, Sc!Lesser, Sc!Flags
  <2>2. Sc!Larger(u.sales, u.distinct) \in Nat /\ Sc!Larger(u.sales, u.distinct) >= v.sales
    BY <1>2, <1>11, <1>13 DEF Measured, Sc!Larger, Sc!Lesser
  <2> DEFINE big == Sc!Larger(u.sales, u.distinct)
  <2> HIDE DEF big
  <2>3. AsGood(v, w)
    <3>1. Measured(w)
      BY <1>2, <1>9, <1>10, <1>13, <2>1, <2>2, NeverIsNat DEF Measured, Firm, Sc!Greater, Sc!Lesser, Sc!Flags, big
    <3>2. \A g \in Sc!Greater : w[g] >= v[g]
      BY <1>2, <1>10, <1>13, <2>2 DEF Measured, Sc!Greater, Sc!Lesser, big
    <3>3. \A g \in Sc!Lesser : w[g] <= v[g]
      BY <1>2, <1>10, <1>13, <2>1 DEF Measured, Sc!Lesser
    <3>4. \A g \in Sc!Flags : w[g] = v[g]
      BY <1>10, <1>13 DEF Sc!Flags, Sc!Lesser
    <3>5. QED  BY <1>2, <1>9, <3>1, <3>2, <3>3, <3>4 DEF AsGood, Sc!Greater, Sc!Lesser, Sc!Flags
  <2>4. QED  BY <1>8, <2>3
<1>14. CASE f \in Sc!Flags
  <2>1. v[f] /\ ~x /\ x \in BOOLEAN
    BY <1>4, <1>14 DEF Sc!Gain
  <2>2. Sc!Larger(u.sales, u.distinct) \in Nat /\ Sc!Larger(u.sales, u.distinct) >= v.sales
    BY <1>2, <1>11, <1>14 DEF Measured, Sc!Larger, Sc!Flags
  <2>3. AsGood(v, w)
    BY <1>2, <1>9, <1>10, <1>14, <2>1, <2>2 DEF AsGood, Measured, Firm, Sc!Greater, Sc!Lesser, Sc!Flags
  <2>4. QED  BY <1>8, <2>3
<1>15. QED  BY <1>3, <1>12, <1>13, <1>14

-----------------------------------------------------------------------------
(* The factors of the score *)

LEMMA Roots ==
  ASSUME NEW a \in Nat, NEW b \in Nat, a <= b
  PROVE  /\ Sc!FourthRoot(a) \in 0..105 /\ Sc!FourthRoot(a) <= Sc!FourthRoot(b)
         /\ Sc!FourthRoot(a) * Sc!FourthRoot(a) * Sc!FourthRoot(a) * Sc!FourthRoot(a) <= a
<1> DEFINE under(n) == {r \in 0..105 : r * r * r * r <= n}
<1>1. \A n \in {a, b} : under(n) \subseteq Nat /\ under(n) # {} /\ \A r \in under(n) : r <= 105
  <2>1. \A n \in {a, b} : 0 \in under(n)
    OBVIOUS
  <2>2. QED  BY <2>1
<1>2. \A n \in {a, b} : Sc!FourthRoot(n) = Max(under(n))
  BY DEF Sc!FourthRoot, Sc!Max, Max
<1>3. under(a) \subseteq under(b)
  <2>1. ASSUME NEW r \in 0..105, r * r * r * r <= a PROVE r * r * r * r <= b
    <3>1. r * r * r * r \in Int
      OBVIOUS
    <3>2. QED  BY <2>1, <3>1
  <2>2. QED  BY <2>1
<1>4. Max(under(a)) \in under(a) /\ \A r \in under(b) : r <= Max(under(b))
  <2> HIDE DEF under
  <2>1. QED  BY <1>1, MaxOf
<1>5. QED  BY <1>2, <1>3, <1>4

LEMMA SquareRoots ==
  ASSUME NEW a \in Nat \ {0}, NEW b \in Nat \ {0}, a <= b
  PROVE  Sc!SquareRoot(a) \in 1..40 /\ Sc!SquareRoot(b) \in 1..40 /\ Sc!SquareRoot(a) <= Sc!SquareRoot(b)
<1> DEFINE under(n) == {r \in 0..40 : r * r <= n}
<1>1. \A n \in {a, b} : under(n) \subseteq Nat /\ 1 \in under(n) /\ \A r \in under(n) : r <= 40
  OBVIOUS
<1>2. \A n \in {a, b} : Sc!SquareRoot(n) = Max(under(n))
  BY DEF Sc!SquareRoot, Sc!Max, Max
<1>3. under(a) \subseteq under(b)
  <2>1. ASSUME NEW r \in 0..40, r * r <= a PROVE r * r <= b
    <3>1. r * r \in Int
      OBVIOUS
    <3>2. QED  BY <2>1, <3>1
  <2>2. QED  BY <2>1
<1>4. \A n \in {a, b} : Max(under(n)) \in under(n) /\ \A r \in under(n) : r <= Max(under(n))
  <2> HIDE DEF under
  <2>1. QED  BY <1>1, MaxOf
<1>5. \A n \in {a, b} : Max(under(n)) \in 0..40 /\ 1 <= Max(under(n))
  BY <1>1, <1>4
<1>6. Max(under(a)) <= Max(under(b))
  BY <1>3, <1>4
<1>7. QED  BY <1>2, <1>5, <1>6

LEMMA Firmly ==
  ASSUME NEW v, NEW w, AsGood(v, w)
  PROVE  /\ w.fx = v.fx /\ w.fromCross = v.fromCross /\ w.capped = v.capped /\ w.competing = v.competing
         /\ w.tight = v.tight /\ w.perModel = v.perModel /\ w.traits = v.traits
         /\ w.unreachable = v.unreachable /\ w.support = v.support
BY DEF AsGood, Firm

LEMMA CreditUp ==
  ASSUME NEW v, NEW w, AsGood(v, w)
  PROVE  /\ Sc!PeerCredit(v) \in Nat /\ Sc!PeerCredit(w) \in Nat
         /\ Sc!PeerCredit(v) <= Sc!PeerCredit(w)
<1>1. v.peers \in Nat /\ w.peers \in Nat /\ v.peers <= w.peers /\ w.perModel = v.perModel /\ v.perModel \in Nat
  BY Firmly DEF AsGood, Measured
<1>2. QED  BY <1>1 DEF Sc!PeerCredit, Sc!Smaller

LEMMA ConfidenceUp ==
  ASSUME NEW v, NEW w, AsGood(v, w)
  PROVE  Sc!Confidence(v) \in Nat /\ Sc!Confidence(w) \in Nat /\ Sc!Confidence(v) <= Sc!Confidence(w)
<1> DEFINE n(u)    == 100 * u.distinct + Sc!PeerCredit(u)
           tidy(u) == 4500 + 20 * Sc!Clamp(u.turnover, 0, 100) + 25 * Sc!Clamp(100 - u.mad, 0, 100)
                      + 10 * Sc!Clamp(u.trend, 0, 100)
           q(u)    == (100 * n(u)) \div (n(u) + 800)
           base(u) == q(u) * tidy(u)
<1>1. /\ {v.distinct, w.distinct, v.turnover, w.turnover, v.mad, w.mad, v.trend, w.trend} \subseteq Nat
      /\ v.distinct <= w.distinct /\ v.turnover <= w.turnover /\ w.mad <= v.mad /\ v.trend <= w.trend
      /\ w.traits = v.traits /\ v.traits \in Nat
  BY Firmly DEF AsGood, Measured
<1>2. n(v) \in Nat /\ n(w) \in Nat /\ n(v) <= n(w)
  BY <1>1, CreditUp
<1>3. tidy(v) \in Nat /\ tidy(w) \in Nat /\ tidy(v) <= tidy(w)
  BY <1>1 DEF Sc!Clamp
<1>4. q(v) \in Nat /\ q(w) \in Nat /\ q(v) <= q(w)
  <2> DEFINE K == 100
             c == 800
             a == n(v)
             b == n(w)
  <2>1. K \in Nat /\ c \in Nat \ {0} /\ a \in Nat /\ b \in Nat /\ a <= b
    BY <1>2
  <2> HIDE DEF K, c, a, b
  <2>2. (K * a) \div (a + c) \in 0..K /\ (K * b) \div (b + c) \in 0..K /\ (K * a) \div (a + c) <= (K * b) \div (b + c)
    BY <2>1, Shrinkage
  <2>3. QED  BY <2>1, <2>2 DEF K, c, a, b
<1>5. base(v) \in Nat /\ base(w) \in Nat /\ base(v) <= base(w)
  <2> HIDE DEF q, tidy
  <2>1. QED  BY <1>3, <1>4, Products
<1>6. \A u \in {v, w} :
        Sc!Confidence(u) = IF u.distinct <= 0 THEN 0
                           ELSE IF u.traits > 0 THEN ((80 * base(u)) \div 10000 + 20 * u.traits) \div 100
                           ELSE base(u) \div 10000
  BY DEF Sc!Confidence
<1> HIDE DEF base
<1>7. QED  BY <1>1, <1>5, <1>6

LEMMA DepthUp ==
  ASSUME NEW v, NEW w, AsGood(v, w)
  PROVE  /\ Sc!DepthFactor(v) \in 0..100 /\ Sc!DepthFactor(w) \in 0..100
         /\ Sc!DepthFactor(v) <= Sc!DepthFactor(w)
         /\ (Sc!Lonely(w) \/ Sc!Stacked(w)) => (Sc!Lonely(v) \/ Sc!Stacked(v))
<1>1. v.depth \in Nat /\ w.depth \in Nat /\ v.depth <= w.depth
  BY DEF AsGood, Measured
<1>2. (Sc!Lonely(w) => Sc!Lonely(v)) /\ (Sc!Stacked(w) => Sc!Stacked(v) \/ Sc!Lonely(v))
  BY <1>1, Firmly DEF Sc!Lonely, Sc!Stacked
<1>3. QED  BY <1>2, Firmly DEF Sc!DepthFactor, Sc!Smaller

LEMMA CrowdingDown ==
  ASSUME NEW v, NEW w, AsGood(v, w)
  PROVE  /\ Sc!CrossCrowding(v) \in 0..100 /\ Sc!CrossCrowding(w) \in 0..100
         /\ Sc!CrossCrowding(v) <= Sc!CrossCrowding(w)
<1>1. v.crossNear \in Nat /\ w.crossNear \in Nat /\ w.crossNear <= v.crossNear
  BY DEF AsGood, Measured
<1>2. QED  BY <1>1 DEF Sc!CrossCrowding

LEMMA CrossUp ==
  ASSUME NEW v, NEW w, AsGood(v, w)
  PROVE  Sc!CrossFactor(v) \in Nat /\ Sc!CrossFactor(w) \in Nat /\ Sc!CrossFactor(v) <= Sc!CrossFactor(w)
<1> DEFINE seen(u)  == IF u.venues >= 2 THEN 105 ELSE 100
           agree(u) == Sc!Clamp(100 - u.divergence, 40, 100)
           calm(u)  == IF u.below > 0 THEN 60 ELSE 100
           crowd(u) == Sc!CrossCrowding(u)
           all(u)   == seen(u) * agree(u) * crowd(u) * calm(u)
<1>1. /\ {v.venues, w.venues, v.divergence, w.divergence, v.below, w.below, v.unreachable, v.depth, w.depth, v.support} \subseteq Nat
      /\ v.venues <= w.venues /\ w.divergence <= v.divergence /\ w.below <= v.below /\ v.depth <= w.depth
  BY DEF AsGood, Measured
<1>2. /\ {seen(v), seen(w), agree(v), agree(w), calm(v), calm(w), crowd(v), crowd(w)} \subseteq Nat
      /\ seen(v) <= seen(w) /\ agree(v) <= agree(w) /\ calm(v) <= calm(w) /\ crowd(v) <= crowd(w)
  BY <1>1, CrowdingDown DEF Sc!Clamp
<1>3. \A u \in {v, w} :
        Sc!CrossFactor(u) = IF u.unreachable > 0 THEN IF u.capped \/ u.depth < 2 \/ ~u.competing THEN 5 ELSE 35
                            ELSE IF u.support <= 0 THEN 80 ELSE all(u) \div 1000000
  BY DEF Sc!CrossFactor
<1>4. all(v) \in Nat /\ all(w) \in Nat /\ all(v) <= all(w)
  <2> HIDE DEF seen, agree, calm, crowd
  <2>1. seen(v) * agree(v) \in Nat /\ seen(w) * agree(w) \in Nat /\ seen(v) * agree(v) <= seen(w) * agree(w)
    BY <1>2, Products
  <2>2. seen(v) * agree(v) * crowd(v) \in Nat /\ seen(w) * agree(w) * crowd(w) \in Nat
        /\ seen(v) * agree(v) * crowd(v) <= seen(w) * agree(w) * crowd(w)
    BY <1>2, <2>1, Products
  <2>3. QED  BY <1>2, <2>2, Products
<1> HIDE DEF all
<1>5. QED  BY <1>1, <1>3, <1>4, Firmly

LEMMA LiquidityUp ==
  ASSUME NEW v, NEW w, AsGood(v, w)
  PROVE  /\ Sc!LiquidityFactor(v) \in 30..100 /\ Sc!LiquidityFactor(w) \in 30..100
         /\ Sc!LiquidityFactor(v) <= Sc!LiquidityFactor(w)
<1> DEFINE q(u) == (100 * u.velocity) \div (u.velocity + 60)
<1>1. v.velocity \in Nat /\ w.velocity \in Nat /\ v.velocity <= w.velocity
  BY DEF AsGood, Measured
<1>2. q(v) \in Nat /\ q(w) \in Nat /\ q(v) <= q(w)
  <2> DEFINE K == 100
             c == 60
             a == v.velocity
             b == w.velocity
  <2>1. K \in Nat /\ c \in Nat \ {0} /\ a \in Nat /\ b \in Nat /\ a <= b
    BY <1>1
  <2> HIDE DEF K, c, a, b
  <2>2. (K * a) \div (a + c) \in 0..K /\ (K * b) \div (b + c) \in 0..K /\ (K * a) \div (a + c) <= (K * b) \div (b + c)
    BY <2>1, Shrinkage
  <2>3. QED  BY <2>1, <2>2 DEF K, c, a, b
<1>3. \A u \in {v, w} : Sc!LiquidityFactor(u) = IF u.velocity <= 0 THEN 30 ELSE Sc!Clamp(q(u), 30, 100)
  BY DEF Sc!LiquidityFactor
<1> HIDE DEF q
<1>4. QED  BY <1>1, <1>2, <1>3 DEF Sc!Clamp

LEMMA FXUp ==
  ASSUME NEW v, NEW w, AsGood(v, w)
  PROVE  Sc!FXFactor(v) \in 0..115 /\ Sc!FXFactor(w) \in 0..115 /\ Sc!FXFactor(v) <= Sc!FXFactor(w)
<1> DEFINE f(u) == Sc!Clamp(100 - (3 * Sc!Larger(u.lag, 0)) \div 2 + (35 * Sc!Larger(-u.lag, 0)) \div 100, 50, 115)
<1>1. v.lag \in Int /\ w.lag \in Int /\ w.lag <= v.lag /\ (w.jump => v.jump) /\ w.fx = v.fx
  BY Firmly DEF AsGood, Measured
<1>2. f(v) \in 50..115 /\ f(w) \in 50..115 /\ f(v) <= f(w)
  <2> DEFINE up(u)   == Sc!Larger(u.lag, 0)
             down(u) == Sc!Larger(-u.lag, 0)
  <2>1. {up(v), up(w), down(v), down(w)} \subseteq Nat /\ up(w) <= up(v) /\ down(v) <= down(w)
    BY <1>1 DEF Sc!Larger
  <2> HIDE DEF up, down
  <2>2. (3 * up(w)) \div 2 <= (3 * up(v)) \div 2 /\ (35 * down(v)) \div 100 <= (35 * down(w)) \div 100
        /\ {(3 * up(w)) \div 2, (3 * up(v)) \div 2, (35 * down(v)) \div 100, (35 * down(w)) \div 100} \subseteq Nat
    BY <2>1
  <2>3. QED  BY <2>2 DEF Sc!Clamp, up, down
<1>3. \A u \in {v, w} : Sc!FXFactor(u) = IF ~u.fx THEN 100 ELSE IF u.jump THEN (85 * f(u)) \div 100 ELSE f(u)
  BY DEF Sc!FXFactor
<1> HIDE DEF f
<1>4. QED  BY <1>1, <1>2, <1>3

LEMMA DoubtUp ==
  ASSUME NEW v, NEW w, AsGood(v, w)
  PROVE  Sc!Doubt(v) \in 0..100 /\ Sc!Doubt(w) \in 0..100 /\ Sc!Doubt(v) <= Sc!Doubt(w)
<1>1. v.apart \in Nat /\ w.apart \in Nat /\ w.apart <= v.apart
  BY DEF AsGood, Measured
<1>2. QED  BY <1>1 DEF AsGood, Sc!Doubt

\* The mean of the factors, and the quality made of it.
Mean(v) == Sc!FourthRoot(Sc!Clamp(Sc!Confidence(v), 1, 100) * Sc!Clamp(Sc!DepthFactor(v), 1, 100)
                         * Sc!Clamp(Sc!CrossFactor(v), 1, 105) * Sc!Clamp(Sc!LiquidityFactor(v), 1, 100))

LEMMA MeanUp ==
  ASSUME NEW v, NEW w, AsGood(v, w)
  PROVE  Mean(v) \in 0..101 /\ Mean(w) \in 0..105 /\ Mean(v) <= Mean(w)
<1> DEFINE c(u) == Sc!Clamp(Sc!Confidence(u), 1, 100)
           d(u) == Sc!Clamp(Sc!DepthFactor(u), 1, 100)
           x(u) == Sc!Clamp(Sc!CrossFactor(u), 1, 105)
           l(u) == Sc!Clamp(Sc!LiquidityFactor(u), 1, 100)
           p(u) == c(u) * d(u) * x(u) * l(u)
<1>1. /\ c(v) \in 0..100 /\ c(w) \in 0..100 /\ c(v) <= c(w)
      /\ d(v) \in 0..100 /\ d(w) \in 0..100 /\ d(v) <= d(w)
      /\ x(v) \in 0..105 /\ x(w) \in 0..105 /\ x(v) <= x(w)
      /\ l(v) \in 0..100 /\ l(w) \in 0..100 /\ l(v) <= l(w)
  BY ConfidenceUp, DepthUp, CrossUp, LiquidityUp DEF Sc!Clamp
<1> HIDE DEF c, d, x, l
<1>a. {c(v), c(w), d(v), d(w), x(v), x(w), l(v), l(w)} \subseteq Nat
  BY <1>1
<1>2. /\ c(v) * d(v) \in Nat /\ c(w) * d(w) \in Nat /\ c(v) * d(v) <= c(w) * d(w) /\ c(v) * d(v) <= 10000
  <2>1. c(v) * d(v) \in Nat /\ c(w) * d(w) \in Nat /\ c(v) * d(v) <= c(w) * d(w)
    BY <1>1, <1>a, Products
  <2>2. c(v) \in Nat /\ d(v) \in Nat /\ d(v) <= 100 /\ c(v) <= 100
    BY <1>1
  <2>3. c(v) * d(v) <= 100 * c(v)
    BY <2>2, Capped
  <2>4. QED  BY <2>1, <2>2, <2>3
<1>3. /\ c(v) * d(v) * x(v) \in Nat /\ c(w) * d(w) * x(w) \in Nat /\ c(v) * d(v) * x(v) <= c(w) * d(w) * x(w)
      /\ c(v) * d(v) * x(v) <= 1050000
  BY <1>1, <1>2, Products, Capped, SMTT(30)
<1>4. p(v) \in Nat /\ p(w) \in Nat /\ p(v) <= p(w) /\ p(v) <= 1050000 * 100
  BY <1>1, <1>3, Products, Capped, SMTT(30)
<1> HIDE DEF p
<1>5. Mean(v) = Sc!FourthRoot(p(v)) /\ Mean(w) = Sc!FourthRoot(p(w))
  BY DEF Mean, p, c, d, x, l
<1>6. Mean(v) \in 0..105 /\ Mean(v) <= Mean(w) /\ Mean(v) * Mean(v) * Mean(v) * Mean(v) <= 1050000 * 100
  <2>1. Mean(v) \in 0..105 /\ Mean(v) <= Mean(w) /\ Mean(v) * Mean(v) * Mean(v) * Mean(v) <= p(v)
    BY <1>4, <1>5, Roots
  <2>2. Mean(v) * Mean(v) * Mean(v) * Mean(v) \in Int
    BY <2>1
  <2>3. QED  BY <1>4, <2>1, <2>2, SMT
<1>7. Mean(w) \in 0..105
  <2>1. p(w) <= p(w)
    BY <1>4
  <2>2. QED  BY <1>4, <1>5, <2>1, Roots
<1>8. ASSUME Mean(v) > 101 PROVE FALSE
  <2>1. Mean(v) * Mean(v) \in Nat /\ Mean(v) * Mean(v) >= 102 * 102
    BY <1>6, <1>8, Products
  <2>2. (Mean(v) * Mean(v)) * (Mean(v) * Mean(v)) >= 10404 * 10404
    BY <2>1, Products
  <2>3. Mean(v) * Mean(v) * Mean(v) * Mean(v) = (Mean(v) * Mean(v)) * (Mean(v) * Mean(v))
    BY <1>6
  <2>4. QED  BY <1>6, <2>2, <2>3, SMT
<1>9. QED  BY <1>6, <1>7, <1>8

Quality(v, fit) == Mean(v) * Sc!Doubt(v) * Sc!FXFactor(v) * fit

LEMMA QualityUp ==
  ASSUME NEW v, NEW w, AsGood(v, w), NEW fit \in 0..100
  PROVE  /\ Sc!EvidenceQuality(v, fit) \in Nat /\ Sc!EvidenceQuality(w, fit) \in Nat
         /\ Sc!EvidenceQuality(v, fit) <= 10000
         /\ Sc!EvidenceQuality(v, fit) <= Sc!EvidenceQuality(w, fit)
         /\ Sc!Doubt(v) = 12 => Sc!EvidenceQuality(v, fit) <= 1394
<1> DEFINE a(u) == Mean(u) * Sc!Doubt(u)
           b(u) == a(u) * Sc!FXFactor(u)
<1>1. /\ Mean(v) \in 0..101 /\ Mean(w) \in Nat /\ Mean(v) <= Mean(w)
      /\ Sc!Doubt(v) \in 0..100 /\ Sc!Doubt(w) \in 0..100 /\ Sc!Doubt(v) <= Sc!Doubt(w)
      /\ Sc!FXFactor(v) \in 0..115 /\ Sc!FXFactor(w) \in 0..115 /\ Sc!FXFactor(v) <= Sc!FXFactor(w)
  BY MeanUp, DoubtUp, FXUp
<1>2. a(v) \in Nat /\ a(w) \in Nat /\ a(v) <= a(w) /\ (Sc!Doubt(v) = 12 => a(v) <= 1212)
  <2>0. {Mean(v), Mean(w), Sc!Doubt(v), Sc!Doubt(w)} \subseteq Nat
    BY <1>1
  <2>1. a(v) \in Nat /\ a(w) \in Nat /\ a(v) <= a(w)
    BY <1>1, <2>0, Products
  <2>2. Sc!Doubt(v) = 12 => a(v) <= 12 * Mean(v)
    BY <1>1
  <2>3. QED  BY <1>1, <2>1, <2>2
<1>3. b(v) \in Nat /\ b(w) \in Nat /\ b(v) <= b(w) /\ (Sc!Doubt(v) = 12 => b(v) <= 139380)
  <2> HIDE DEF a
  <2>1. b(v) \in Nat /\ b(w) \in Nat /\ b(v) <= b(w)
    BY <1>1, <1>2, Products, SMTT(30)
  <2>2. a(v) <= 1212 => b(v) <= 139380
    BY <1>1, <1>2, Capped
  <2>3. QED  BY <1>2, <2>1, <2>2
<1>4. \A u \in {v, w} : Quality(u, fit) = b(u) * fit
  BY DEF Quality
<1> HIDE DEF a, b
<1>5. Quality(v, fit) \in Nat /\ Quality(w, fit) \in Nat /\ Quality(v, fit) <= Quality(w, fit)
  BY <1>3, <1>4, Products
<1>6. Quality(v, fit) <= 100 * b(v)
  BY <1>3, <1>4, Capped
<1> DEFINE q(u) == Quality(u, fit) \div 10000
<1>7. \A u \in {v, w} : Sc!EvidenceQuality(u, fit) = Sc!Smaller(q(u), 10000)
  BY DEF Sc!EvidenceQuality, Quality, Mean
<1>8. Sc!Doubt(v) = 12 => Quality(v, fit) < 1394 * 10000
  BY <1>3, <1>5, <1>6, SMT
<1>9. q(v) \in Nat /\ q(w) \in Nat /\ q(v) <= q(w) /\ (Sc!Doubt(v) = 12 => q(v) <= 1394)
  BY <1>5, <1>8, SMT
<1> HIDE DEF q
<1>10. /\ Sc!EvidenceQuality(v, fit) = IF q(v) < 10000 THEN q(v) ELSE 10000
       /\ Sc!EvidenceQuality(w, fit) = IF q(w) < 10000 THEN q(w) ELSE 10000
  BY <1>7, SMT DEF Sc!Smaller
<1> DEFINE e == Sc!EvidenceQuality(v, fit)
           g == Sc!EvidenceQuality(w, fit)
<1> HIDE DEF e, g
<1>11. e \in Nat /\ g \in Nat /\ e <= 10000 /\ e <= g /\ (Sc!Doubt(v) = 12 => e <= 1394)
  <2>1. e = (IF q(v) < 10000 THEN q(v) ELSE 10000) /\ g = (IF q(w) < 10000 THEN q(w) ELSE 10000)
    BY <1>10 DEF e, g
  <2>2. e \in Nat /\ e <= 10000
    BY <1>9, <2>1
  <2>3. g \in Nat
    BY <1>9, <2>1
  <2>4. e <= g
    BY <1>9, <2>1
  <2>5. Sc!Doubt(v) = 12 => e <= 1394
    BY <1>9, <2>1
  <2>6. QED  BY <2>2, <2>3, <2>4, <2>5
<1>12. QED  BY <1>11 DEF e, g

LEMMA EdgeUp ==
  ASSUME NEW v, NEW w, AsGood(v, w)
  PROVE  /\ Sc!Net(v) \in Int /\ Sc!Net(w) \in Int /\ Sc!Net(v) <= Sc!Net(w)
         /\ Sc!Edge(v) \in Int /\ Sc!Edge(w) \in Int /\ Sc!Edge(v) <= Sc!Edge(w)
         /\ Sc!Net(v) <= 0 => Sc!Edge(v) <= 0
<1>1. /\ v.proceeds \in Nat /\ w.proceeds \in Nat /\ v.proceeds <= w.proceeds
      /\ v.cost \in Nat \ {0} /\ w.cost \in Nat \ {0} /\ w.cost <= v.cost
  BY DEF AsGood, Measured
<1>2. Sc!Net(v) \in Int /\ Sc!Net(w) \in Int /\ Sc!Net(v) <= Sc!Net(w)
  BY <1>1 DEF Sc!Net
<1> DEFINE q == (10000 * Sc!Net(v)) \div v.cost
<1>3. q \in Int /\ v.cost * q <= 10000 * Sc!Net(v) /\ 10000 * Sc!Net(v) < v.cost * q + v.cost
  <2> DEFINE x == 10000 * Sc!Net(v)
  <2>1. x \in Int
    BY <1>2
  <2> HIDE DEF x
  <2>2. x \div v.cost \in Int /\ v.cost * (x \div v.cost) <= x /\ x < v.cost * (x \div v.cost) + v.cost
    BY <1>1, <2>1, Quotient
  <2>3. QED  BY <2>2 DEF x
<1> HIDE DEF q
<1>4. v.cost * q \in Int /\ v.cost * q <= 10000 * v.proceeds - 10000 * v.cost
  BY <1>1, <1>3 DEF Sc!Net
<1>5. q + 10000 \in Nat
  <2>1. SUFFICES ASSUME q + 10000 < 0 PROVE FALSE
    BY <1>3
  <2>2. q + 10001 <= 0
    BY <1>3, <2>1
  <2>3. v.cost * (-(q + 10001)) \in Nat
    BY <1>1, <1>3, <2>2
  <2>4. v.cost * q + v.cost = -(v.cost * (-(q + 10001))) - 10000 * v.cost
    BY <1>1, <1>3
  <2>5. 10000 * Sc!Net(v) >= -10000 * v.cost
    BY <1>1 DEF Sc!Net
  <2>6. v.cost * (-(q + 10001)) \in Int /\ v.cost * q \in Int
    BY <1>1, <1>3
  <2>7. QED  BY <1>1, <1>2, <1>3, <2>3, <2>4, <2>5, <2>6
<1>6. w.cost * (q + 10000) <= v.cost * (q + 10000) /\ w.cost * (q + 10000) \in Nat
  BY <1>1, <1>5, Products
<1>7. w.cost * q <= 10000 * Sc!Net(w) /\ 10000 * Sc!Net(w) \in Int
  <2>1. w.cost * (q + 10000) = w.cost * q + 10000 * w.cost /\ v.cost * (q + 10000) = v.cost * q + 10000 * v.cost
    BY <1>1, <1>3
  <2>2. w.cost * q \in Int
    BY <1>1, <1>3
  <2>3. QED  BY <1>1, <1>4, <1>6, <2>1, <2>2 DEF Sc!Net
<1>8. q <= (10000 * Sc!Net(w)) \div w.cost /\ (10000 * Sc!Net(w)) \div w.cost \in Int
  <2> DEFINE x == 10000 * Sc!Net(w)
  <2>1. x \in Int /\ w.cost * q <= x
    BY <1>7
  <2> HIDE DEF x
  <2>2. q <= x \div w.cost /\ x \div w.cost \in Int
    <3>1. x \div w.cost \in Int
      BY <1>1, <2>1, Quotient
    <3>2. w.cost \in Nat \ {0} /\ q \in Int
      BY <1>1, <1>3
    <3>3. q <= x \div w.cost
      BY <2>1, <3>2, QuotientAtLeast
    <3>4. QED  BY <3>1, <3>3
  <2>3. QED  BY <2>2 DEF x
<1>9. Sc!Net(v) <= 0 => q <= 0
  <2>1. SUFFICES ASSUME Sc!Net(v) <= 0, q >= 1 PROVE FALSE
    BY <1>3
  <2>2. v.cost * q >= v.cost * 1
    BY <1>1, <1>3, <2>1, Products
  <2>3. QED  BY <1>1, <1>2, <1>3, <1>4, <2>1, <2>2
<1>10. QED  BY <1>2, <1>3, <1>8, <1>9 DEF Sc!Edge, q

LEMMA BufferDown ==
  ASSUME NEW v, NEW w, AsGood(v, w)
  PROVE  Sc!SafetyBuffer(v) \in Nat /\ Sc!SafetyBuffer(w) \in Nat /\ Sc!SafetyBuffer(w) <= Sc!SafetyBuffer(v)
<1> DEFINE root(u)  == Sc!SquareRoot(Sc!Larger(u.sales, 1))
           noise(u) == (15 * u.mad) \div root(u)
           queue(u) == 10 * (u.near + u.crossNear)
           thin(u)  == IF ~u.fromCross /\ (Sc!Lonely(u) \/ Sc!Stacked(u)) THEN 100 ELSE 0
<1>1. /\ {v.mad, w.mad, v.sales, w.sales, v.near, w.near, v.crossNear, w.crossNear} \subseteq Nat
      /\ w.mad <= v.mad /\ v.sales <= w.sales /\ w.near <= v.near /\ w.crossNear <= v.crossNear
  BY DEF AsGood, Measured
<1>2. root(v) \in Nat \ {0} /\ root(w) \in Nat \ {0} /\ root(v) <= root(w)
  <2> DEFINE a == Sc!Larger(v.sales, 1)
             b == Sc!Larger(w.sales, 1)
  <2>1. a \in Nat \ {0} /\ b \in Nat \ {0} /\ a <= b
    BY <1>1 DEF Sc!Larger
  <2> HIDE DEF a, b
  <2>2. Sc!SquareRoot(a) \in 1..40 /\ Sc!SquareRoot(b) \in 1..40 /\ Sc!SquareRoot(a) <= Sc!SquareRoot(b)
    BY <2>1, SquareRoots
  <2>3. QED  BY <2>2 DEF a, b
<1>3. noise(v) \in Nat /\ noise(w) \in Nat /\ noise(w) <= noise(v)
  <2> DEFINE x == 15 * w.mad
             y == 15 * v.mad
  <2>1. x \in Nat /\ y \in Nat /\ x <= y
    BY <1>1
  <2> HIDE DEF x, y, root
  <2>2. x \div root(w) <= x \div root(v) /\ x \div root(w) \in Nat
    BY <1>2, <2>1, QuotientDown, Quotient
  <2>3. x \div root(v) <= y \div root(v) /\ x \div root(v) \in Nat /\ y \div root(v) \in Nat
    BY <1>2, <2>1, QuotientUp, Quotient
  <2>4. QED  BY <2>2, <2>3 DEF x, y
<1>4. thin(v) \in {0, 100} /\ thin(w) \in {0, 100} /\ thin(w) <= thin(v)
  BY DepthUp, Firmly
<1>5. \A u \in {v, w} : Sc!SafetyBuffer(u) = 50 + Sc!Smaller(300, noise(u)) + Sc!Smaller(100, queue(u)) + thin(u)
  BY DEF Sc!SafetyBuffer
<1> HIDE DEF noise, thin
<1>6. QED  BY <1>1, <1>3, <1>4, <1>5 DEF Sc!Smaller

LEMMA SizeUp ==
  ASSUME NEW v, NEW w, AsGood(v, w), Sc!Net(v) > 0
  PROVE  /\ Sc!SizeFactor(v) \in 0..100 /\ Sc!SizeFactor(w) \in 0..100
         /\ Sc!SizeFactor(v) <= Sc!SizeFactor(w)
<1>1. v.ticket \in Nat /\ w.ticket \in Nat /\ w.ticket <= v.ticket
  BY DEF AsGood, Measured
<1>2. Sc!Net(v) \in Nat /\ Sc!Net(w) \in Nat /\ Sc!Net(v) <= Sc!Net(w) /\ Sc!Net(w) > 0
  BY EdgeUp
<1> DEFINE share(u) == (10000 * Sc!Net(u)) \div (6 * u.ticket)
<1>3. \A u \in {v, w} : Sc!SizeFactor(u) = IF u.ticket <= 0 THEN 100 ELSE Sc!Clamp(share(u), 25, 100)
  BY <1>2 DEF Sc!SizeFactor
<1>4. ASSUME w.ticket > 0
      PROVE  share(v) \in Int /\ share(w) \in Int /\ share(v) <= share(w)
  <2> DEFINE x == 10000 * Sc!Net(v)
             y == 10000 * Sc!Net(w)
             d == 6 * w.ticket
             e == 6 * v.ticket
  <2>1. x \in Nat /\ y \in Nat /\ x <= y /\ d \in Nat \ {0} /\ e \in Nat \ {0} /\ d <= e
    BY <1>1, <1>2, <1>4
  <2> HIDE DEF x, y, d, e
  <2>2. x \div e <= x \div d
    BY <2>1, QuotientDown
  <2>3. x \in Int /\ y \in Int
    BY <2>1
  <2>4. x \div d <= y \div d
    BY <2>1, <2>3, QuotientUp
  <2>5. x \div e \in Int /\ x \div d \in Int /\ y \div d \in Int
    BY <2>1, <2>3, Quotient
  <2>6. QED  BY <2>2, <2>4, <2>5 DEF x, y, d, e
<1>5. v.ticket > 0 => share(v) \in Int
  <2>1. SUFFICES ASSUME v.ticket > 0 PROVE share(v) \in Int
    OBVIOUS
  <2>2. 10000 * Sc!Net(v) \in Int /\ 6 * v.ticket \in Nat \ {0}
    BY <1>1, <1>2, <2>1
  <2>3. QED  BY <2>2
<1> HIDE DEF share
<1>6. QED  BY <1>1, <1>3, <1>4, <1>5 DEF Sc!Clamp

LEMMA AsGoodAsItself ==
  ASSUME NEW v, NEW w, AsGood(v, w)
  PROVE  AsGood(w, w)
<1>1. Measured(w)
  BY DEF AsGood
<1>2. QED  BY <1>1 DEF AsGood, Measured

\* A valuation that is at least as good scores no less, and a made up price never much.
LEMMA ScoreUp ==
  ASSUME NEW v, NEW w, AsGood(v, w), NEW fit \in 0..100
  PROVE  /\ Sc!BuildScore(v, fit).edge <= Sc!BuildScore(w, fit).edge
         /\ Sc!BuildScore(v, fit).total <= Sc!BuildScore(w, fit).total
         /\ Sc!BuildScore(v, fit).fit = fit
         /\ Sc!BuildScore(v, fit).quality \in Nat /\ Sc!BuildScore(v, fit).quality <= 10000
         /\ Sc!BuildScore(v, fit).total \in Nat /\ Sc!BuildScore(v, fit).total <= 10000
         /\ Sc!Doubt(v) = 12 => Sc!BuildScore(v, fit).total <= 1394
<1> DEFINE adj(u)   == Sc!Larger(Sc!Edge(u) - Sc!SafetyBuffer(u), 0)
           qual(u)  == Sc!EvidenceQuality(u, fit)
           roi(u)   == (100 * adj(u)) \div Sc!Larger(u.days, 50)
           price(u) == (1000 * roi(u)) \div (roi(u) + 300)
           size(u)  == Sc!SizeFactor(u)
           prod(u)  == price(u) * qual(u) * size(u)
           total(u) == IF adj(u) = 0 \/ u.days = Sc!Never THEN 0 ELSE Sc!Smaller(prod(u) \div 100000, 10000)
<1>1. \A u \in {v, w} : Sc!BuildScore(u, fit) = [fit |-> fit, edge |-> adj(u), quality |-> qual(u), total |-> total(u)]
  <2>1. Sc!Clamp(fit, 0, 100) = fit
    BY DEF Sc!Clamp
  <2>2. QED  BY <2>1 DEF Sc!BuildScore
<1>2. /\ adj(v) \in Nat /\ adj(w) \in Nat /\ adj(v) <= adj(w)
      /\ (adj(v) > 0 => Sc!Net(v) > 0) /\ (adj(w) > 0 => Sc!Net(w) > 0)
  <2>1. Sc!Edge(v) \in Int /\ Sc!Edge(w) \in Int /\ Sc!Edge(v) <= Sc!Edge(w) /\ (Sc!Net(v) <= 0 => Sc!Edge(v) <= 0)
        /\ Sc!Net(v) \in Int
    BY EdgeUp
  <2>2. Sc!SafetyBuffer(v) \in Nat /\ Sc!SafetyBuffer(w) \in Nat /\ Sc!SafetyBuffer(w) <= Sc!SafetyBuffer(v)
    BY BufferDown
  <2>3. Sc!Net(w) \in Int /\ (Sc!Net(w) <= 0 => Sc!Edge(w) <= 0)
    BY AsGoodAsItself, EdgeUp
  <2>4. QED  BY <2>1, <2>2, <2>3 DEF Sc!Larger
<1>3. /\ qual(v) \in Nat /\ qual(w) \in Nat /\ qual(v) <= 10000 /\ qual(v) <= qual(w)
      /\ Sc!Doubt(v) = 12 => qual(v) <= 1394
  BY QualityUp
<1>4. v.days \in 0..Sc!Never /\ w.days \in 0..Sc!Never /\ w.days <= v.days
  BY DEF AsGood, Measured
<1> HIDE DEF adj, qual
<1>5. roi(v) \in Nat /\ roi(w) \in Nat /\ roi(v) <= roi(w)
  <2> DEFINE x == 100 * adj(v)
             y == 100 * adj(w)
             d == Sc!Larger(w.days, 50)
             e == Sc!Larger(v.days, 50)
  <2>1. x \in Nat /\ y \in Nat /\ x <= y
    BY <1>2
  <2>2. d \in Nat \ {0} /\ e \in Nat \ {0} /\ d <= e
    BY <1>4, NeverIsNat DEF Sc!Larger
  <2> HIDE DEF x, y, d, e
  <2> x \in Int /\ y \in Int
    BY <2>1
  <2>3a. x \div e <= x \div d
    BY <2>1, <2>2, QuotientDown
  <2>3b. x \div d <= y \div d
    BY <2>1, <2>2, QuotientUp
  <2>4. x \div e \in Nat /\ x \div d \in Nat /\ y \div d \in Nat
    BY <2>1, <2>2, Quotient
  <2>5. x \div e <= y \div d
    BY <2>3a, <2>3b, <2>4
  <2>6. QED  BY <2>4, <2>5 DEF x, y, d, e
<1> HIDE DEF roi
<1>6. price(v) \in 0..1000 /\ price(w) \in 0..1000 /\ price(v) <= price(w)
  <2> DEFINE K == 1000
             c == 300
             a == roi(v)
             b == roi(w)
  <2>1. K \in Nat /\ c \in Nat \ {0} /\ a \in Nat /\ b \in Nat /\ a <= b
    BY <1>5
  <2> HIDE DEF K, c, a, b
  <2>2. (K * a) \div (a + c) \in 0..K /\ (K * b) \div (b + c) \in 0..K /\ (K * a) \div (a + c) <= (K * b) \div (b + c)
    BY <2>1, Shrinkage
  <2>3. QED  BY <2>2 DEF K, c, a, b
<1> HIDE DEF price
<1>7. /\ adj(v) > 0 => size(v) \in 0..100 /\ size(v) <= size(w)
      /\ adj(w) > 0 => size(w) \in 0..100
  BY <1>2, SizeUp, AsGoodAsItself
<1> HIDE DEF size
<1>8. ASSUME adj(v) > 0
      PROVE  /\ prod(v) \in Nat /\ prod(w) \in Nat /\ prod(v) <= prod(w)
             /\ Sc!Doubt(v) = 12 => prod(v) <= 100000 * 1394
  <2> DEFINE pq(u) == price(u) * qual(u)
  <2>0. {price(v), price(w), qual(v), qual(w), size(v), size(w)} \subseteq Nat
    <3>1. price(v) \in Nat /\ price(w) \in Nat
      BY <1>6, SMTT(30)
    <3>2. qual(v) \in Nat /\ qual(w) \in Nat
      BY <1>3
    <3>3. adj(w) > 0
      BY <1>2, <1>8
    <3>4. size(v) \in Nat /\ size(w) \in Nat
      BY <1>7, <1>8, <3>3
    <3>5. QED  BY <3>1, <3>2, <3>4
  <2>1. pq(v) \in Nat /\ pq(w) \in Nat /\ pq(v) <= pq(w)
    <3> DEFINE a == price(v)
               b == price(w)
               c == qual(v)
               d == qual(w)
    <3>1. a \in Nat /\ b \in Nat /\ c \in Nat /\ d \in Nat /\ a <= b /\ c <= d
      BY <1>3, <1>6, <2>0
    <3> HIDE DEF a, b, c, d
    <3>2. a * c \in Nat /\ b * d \in Nat /\ a * c <= b * d
      BY <3>1, Products
    <3>3. QED  BY <3>2 DEF a, b, c, d
  <2>2. pq(v) <= 1000 * qual(v)
    <3>1. qual(v) * price(v) <= qual(v) * 1000
      BY <1>6, <2>0, Products, SMTT(30)
    <3>2. QED  BY <2>0, <3>1
  <2> HIDE DEF pq
  <2>3. \A u \in {v, w} : prod(u) = pq(u) * size(u)
    BY DEF pq
  <2>4. pq(v) * size(v) \in Nat /\ pq(w) * size(w) \in Nat /\ pq(v) * size(v) <= pq(w) * size(w)
    BY <1>7, <1>8, <2>0, <2>1, Products
  <2>5. pq(v) * size(v) <= 100 * pq(v)
    BY <1>7, <1>8, <2>0, <2>1, Capped
  <2>6. Sc!Doubt(v) = 12 => pq(v) * size(v) <= 100000 * 1394
    BY <1>3, <2>0, <2>1, <2>2, <2>4, <2>5, SMT
  <2> HIDE DEF prod
  <2>7. QED  BY <2>3, <2>4, <2>6, SMT
<1> DEFINE sc(u) == prod(u) \div 100000
<1> HIDE DEF prod
<1>9. ASSUME adj(v) > 0
      PROVE  sc(v) \in Nat /\ sc(w) \in Nat /\ sc(v) <= sc(w) /\ (Sc!Doubt(v) = 12 => sc(v) <= 1394)
  BY <1>8, <1>9, SMT
<1>10. \A u \in {v, w} : total(u) = IF adj(u) = 0 \/ u.days = Sc!Never THEN 0 ELSE IF sc(u) < 10000 THEN sc(u) ELSE 10000
  BY SMT DEF Sc!Smaller
<1>11. adj(w) > 0 => sc(w) \in Nat
  <2>1. SUFFICES ASSUME adj(w) > 0 PROVE sc(w) \in Nat
    OBVIOUS
  <2>2. price(w) \in Nat /\ qual(w) \in Nat /\ size(w) \in Nat
    <3>1. price(w) \in Nat
      BY <1>6, SMTT(30)
    <3>2. qual(w) \in Nat
      BY <1>3
    <3>3. size(w) \in Nat
      BY <1>7, <2>1
    <3>4. QED  BY <3>1, <3>2, <3>3
  <2>3. prod(w) \in Nat
    BY <2>2 DEF prod
  <2>4. QED  BY <2>3, SMT
<1> HIDE DEF sc, total
<1>12. /\ total(v) \in Nat /\ total(v) <= 10000 /\ total(w) \in Nat /\ total(v) <= total(w)
       /\ Sc!Doubt(v) = 12 => total(v) <= 1394
  <2> DEFINE idle(u) == adj(u) = 0 \/ u.days = Sc!Never
  <2>1. total(v) = (IF idle(v) THEN 0 ELSE IF sc(v) < 10000 THEN sc(v) ELSE 10000)
    BY <1>10
  <2>2. total(w) = (IF idle(w) THEN 0 ELSE IF sc(w) < 10000 THEN sc(w) ELSE 10000)
    BY <1>10
  <2>3. idle(w) => idle(v)
    BY <1>2, <1>4, NeverIsNat
  <2>4. /\ ~idle(v) => sc(v) \in Nat /\ sc(w) \in Nat /\ sc(v) <= sc(w) /\ (Sc!Doubt(v) = 12 => sc(v) <= 1394)
        /\ ~idle(w) => sc(w) \in Nat
    BY <1>2, <1>9, <1>11
  <2> HIDE DEF idle
  <2>5. QED  BY <2>1, <2>2, <2>3, <2>4
<1>13. /\ Sc!BuildScore(v, fit) = [fit |-> fit, edge |-> adj(v), quality |-> qual(v), total |-> total(v)]
       /\ Sc!BuildScore(w, fit) = [fit |-> fit, edge |-> adj(w), quality |-> qual(w), total |-> total(w)]
  BY <1>1
<1>14. QED  BY <1>2, <1>3, <1>12, <1>13

-----------------------------------------------------------------------------
(* What the desk holds *)

\* With one more lot of the price in the part, and what was paid for it in the
\* whole or not, the share has grown.
LEMMA ShareGrows ==
  ASSUME NEW a \in Nat, NEW W \in Nat, NEW p \in Nat \ {0}, NEW L \in Nat \ {0}, NEW e \in {0, p}, a <= W
  PROVE  /\ (5000 * (a + p)) \div (L * (W + p)) \in Nat
         /\ (5000 * (a + p + p)) \div (L * (W + e + p)) \in Nat
         /\ (5000 * (a + p)) \div (L * (W + p)) <= (5000 * (a + p + p)) \div (L * (W + e + p))
<1> DEFINE x == 5000 * (a + p)
           y == 5000 * (a + p + p)
           d == L * (W + p)
           g == L * (W + e + p)
           q == x \div d
<1>1. x \in Nat /\ y \in Nat /\ y = x + 5000 * p /\ x <= 5000 * (W + p)
  OBVIOUS
<1>2. e \in Nat /\ e <= p /\ W + p \in Nat \ {0} /\ W + e + p \in Nat \ {0}
  OBVIOUS
<1>3. d \in Nat \ {0} /\ g \in Nat \ {0} /\ g = d + L * e
  BY <1>2
<1>4. q \in Nat /\ d * q <= x /\ y \div g \in Nat
  <2> HIDE DEF x, y, d, g
  <2>1. QED  BY <1>1, <1>3, Quotient
<1> HIDE DEF x, y, q
<1>5. L * q \in Nat /\ L * q <= 5000
  <2>1. L * q \in Nat
    BY <1>4
  <2>2. SUFFICES ASSUME L * q >= 5001 PROVE FALSE
    BY <2>1
  <2> DEFINE m == L * q
             n == W + p
  <2>3. d * q = n * m /\ n \in Nat \ {0} /\ m \in Nat
    BY <1>2, <1>4
  <2>4. m >= 5001 /\ x <= 5000 * n
    BY <1>1, <2>2
  <2> HIDE DEF m, n, d
  <2>5. n * 5001 <= n * m /\ n * m \in Nat
    BY <2>3, <2>4, Products
  <2>6. QED  BY <1>1, <1>4, <2>3, <2>4, <2>5
<1>6. g * q <= y
  <2> DEFINE m == L * q
  <2>1. g * q = d * q + e * m
    BY <1>2, <1>3, <1>4
  <2>2. d * q \in Nat
    BY <1>3, <1>4
  <2> HIDE DEF m, d, g
  <2>3. m \in Nat /\ m <= 5000
    BY <1>5 DEF m
  <2>4. e * m <= p * 5000 /\ e * m \in Nat
    BY <1>2, <2>3, Products
  <2>5. QED  BY <1>1, <1>4, <2>1, <2>2, <2>4
<1>7. q <= y \div g
  <2> HIDE DEF d, g
  <2>1. QED  BY <1>1, <1>3, <1>4, <1>6, QuotientAtLeast
<1>8. QED  BY <1>4, <1>7 DEF x, y, q

\* A desk as it may be after purchases.
DeskHeld(d) ==
  /\ d \in [open : Nat, count : Nat, model : Nat, collection : Nat, positions : Nat, known : BOOLEAN,
            balance : Int, last : Nat]
  /\ d.open <= MaxOpen /\ d.count <= d.open
  /\ ScoreLimits.perModel > 0 => d.count <= ScoreLimits.perModel
  /\ d.model <= d.positions /\ d.collection <= d.positions
  /\ d.known => d.balance >= 0

LEMMA LimitsTyped ==
  ScoreLimits.perModel \in Nat /\ ScoreLimits.model \in Nat /\ ScoreLimits.collection \in Nat /\ MaxOpen \in Nat
BY ScoreAssumed, SMT DEF Sc!ScoreAssumption

LEMMA DesksHeld == \A d \in ScoreDesks : DeskHeld(d) /\ d.last = 0
<1>1. SUFFICES ASSUME NEW d \in ScoreDesks PROVE DeskHeld(d) /\ d.last = 0
  OBVIOUS
<1>2. Sc!DeskOK(d)
  BY ScoreAssumed DEF Sc!ScoreAssumption
<1>3. QED  BY <1>2, LimitsTyped DEF Sc!DeskOK, DeskHeld

LEMMA WorthTyped ==
  ASSUME NEW d, DeskHeld(d)
  PROVE  Sc!Worth(d) \in Nat /\ d.model <= Sc!Worth(d) /\ d.collection <= Sc!Worth(d)
BY DEF DeskHeld, Sc!Worth

LEMMA BoughtHeld ==
  ASSUME NEW d, DeskHeld(d), NEW p \in Nat \ {0}, d.open < MaxOpen, d.known => d.balance >= p,
         ScoreLimits.perModel > 0 => d.count < ScoreLimits.perModel
  PROVE  /\ DeskHeld(Sc!Bought(d, p))
         /\ Sc!Worth(Sc!Bought(d, p)) = Sc!Worth(d) + (IF d.known THEN 0 ELSE p)
<1> DEFINE b == Sc!Bought(d, p)
<1>2. /\ d.open \in Nat /\ d.count \in Nat /\ d.model \in Nat /\ d.collection \in Nat /\ d.positions \in Nat
      /\ d.known \in BOOLEAN /\ d.balance \in Int
  BY DEF DeskHeld
<1>1. /\ b.open = d.open + 1 /\ b.count = d.count + 1 /\ b.model = d.model + p /\ b.collection = d.collection + p
      /\ b.positions = d.positions + p /\ b.known = d.known /\ b.balance = d.balance - p
      /\ b.last = (IF d.open < 3 THEN 0 ELSE p)
      /\ b \in [open : Nat, count : Nat, model : Nat, collection : Nat, positions : Nat, known : BOOLEAN,
                balance : Int, last : Nat]
  <2>1. d = [open |-> d.open, count |-> d.count, model |-> d.model, collection |-> d.collection,
             positions |-> d.positions, known |-> d.known, balance |-> d.balance, last |-> d.last]
    BY DEF DeskHeld
  <2>2. b = [open |-> d.open + 1, count |-> d.count + 1, model |-> d.model + p, collection |-> d.collection + p,
             positions |-> d.positions + p, known |-> d.known, balance |-> d.balance - p,
             last |-> IF d.open < 3 THEN 0 ELSE p]
    <3> DEFINE x1 == [d EXCEPT !.open = @ + 1]
               x2 == [x1 EXCEPT !.count = @ + 1]
               x3 == [x2 EXCEPT !.model = @ + p]
               x4 == [x3 EXCEPT !.collection = @ + p]
               x5 == [x4 EXCEPT !.positions = @ + p]
               x6 == [x5 EXCEPT !.balance = @ - p]
               x7 == [x6 EXCEPT !.last = IF d.open < 3 THEN 0 ELSE p]
    <3>1. b = x7
      BY DEF Sc!Bought
    <3>2. QED  BY <2>1, <3>1
  <2> HIDE DEF b
  <2>3. /\ d.open + 1 \in Nat /\ d.count + 1 \in Nat /\ d.model + p \in Nat /\ d.collection + p \in Nat
        /\ d.positions + p \in Nat /\ d.balance - p \in Int /\ (IF d.open < 3 THEN 0 ELSE p) \in Nat
    BY <1>2
  <2>4. QED  BY <1>2, <2>2, <2>3
<1> HIDE DEF b
<1>3. DeskHeld(b)
  BY <1>1, <1>2, LimitsTyped DEF DeskHeld
<1>4. Sc!Worth(b) = Sc!Worth(d) + (IF d.known THEN 0 ELSE p)
  BY <1>1, <1>2 DEF Sc!Worth
<1>5. QED  BY <1>3, <1>4 DEF b

LEMMA RoomShrinks ==
  ASSUME NEW d, DeskHeld(d), NEW p \in Nat \ {0}, NEW a \in Nat, a <= Sc!Worth(d), NEW limit \in Nat,
         NEW b, Sc!Worth(b) = Sc!Worth(d) + (IF d.known THEN 0 ELSE p)
  PROVE  /\ Sc!Room(a, limit, d, p) \in Int /\ Sc!Room(a + p, limit, b, p) \in Int
         /\ Sc!Room(a + p, limit, b, p) <= Sc!Room(a, limit, d, p) /\ Sc!Room(a, limit, d, p) <= 100
<1>1. CASE limit = 0
  BY <1>1 DEF Sc!Room
<1>2. CASE limit # 0
  <2> DEFINE W == Sc!Worth(d)
             e == IF d.known THEN 0 ELSE p
             x == (5000 * (a + p)) \div (limit * (W + p))
             y == (5000 * (a + p + p)) \div (limit * (W + e + p))
  <2>1. W \in Nat /\ e \in {0, p} /\ limit \in Nat \ {0}
    BY <1>2, WorthTyped
  <2>2. Sc!Room(a, limit, d, p) = 100 - x /\ Sc!Room(a + p, limit, b, p) = 100 - y
    BY <2>1 DEF Sc!Room
  <2>3. x \in Nat /\ y \in Nat /\ x <= y
    <3> HIDE DEF W, e
    <3>1. a <= W
      BY DEF W
    <3>2. QED  BY <2>1, <3>1, ShareGrows
  <2> HIDE DEF x, y
  <2>4. QED  BY <2>2, <2>3
<1>3. QED  BY <1>1, <1>2

\* Zero at the limits, and between a tenth and all of it below them.
LEMMA FitTyped ==
  ASSUME NEW d, DeskHeld(d), NEW p \in Nat \ {0}
  PROVE  Sc!PortfolioFit(d, p) \in 0..100
<1> DEFINE b == [d EXCEPT !.positions = @ + (IF d.known THEN 0 ELSE p)]
           r(a, limit) == Sc!Room(a, limit, d, p)
<1>1. Sc!Worth(d) \in Nat /\ d.model <= Sc!Worth(d) /\ d.collection <= Sc!Worth(d) /\ d.model \in Nat /\ d.collection \in Nat
  BY WorthTyped DEF DeskHeld
<1>2. Sc!Worth(b) = Sc!Worth(d) + (IF d.known THEN 0 ELSE p)
  BY DEF DeskHeld, Sc!Worth
<1> HIDE DEF b
<1>3. /\ r(d.model, ScoreLimits.model) \in Int /\ r(d.model, ScoreLimits.model) <= 100
      /\ r(d.collection, ScoreLimits.collection) \in Int /\ r(d.collection, ScoreLimits.collection) <= 100
  BY <1>1, <1>2, RoomShrinks, LimitsTyped
<1> DEFINE f == Sc!Larger(Sc!Smaller(r(d.model, ScoreLimits.model), r(d.collection, ScoreLimits.collection)), 10)
<1>4. f \in 0..100
  <2> HIDE DEF r
  <2>1. QED  BY <1>3 DEF Sc!Larger, Sc!Smaller
<1>5. Sc!PortfolioFit(d, p) \in {0, 100, f}
  BY DEF Sc!PortfolioFit
<1> HIDE DEF f
<1>6. QED  BY <1>4, <1>5

LEMMA FitAllows ==
  ASSUME NEW d, DeskHeld(d), NEW p \in Nat \ {0}, Sc!PortfolioFit(d, p) > 0
  PROVE  /\ ScoreLimits.perModel > 0 => d.count < ScoreLimits.perModel
         /\ d.open >= 3 => ~Sc!OverShare(d.model, ScoreLimits.model, d, p)
         /\ d.open >= 3 => ~Sc!OverShare(d.collection, ScoreLimits.collection, d, p)
<1>1. Sc!Worth(d) + p > 0 /\ d.open \in Nat /\ d.count \in Nat
  BY WorthTyped DEF DeskHeld
<1>2. ScoreLimits.perModel > 0 => d.count < ScoreLimits.perModel
  BY <1>1, LimitsTyped DEF Sc!PortfolioFit
<1>3. ASSUME d.open >= 3
      PROVE  ~Sc!OverShare(d.model, ScoreLimits.model, d, p) /\ ~Sc!OverShare(d.collection, ScoreLimits.collection, d, p)
  <2>1. ~(d.open < 3 \/ Sc!Worth(d) + p <= 0)
    BY <1>1, <1>3, WorthTyped
  <2>2. QED  BY <2>1 DEF Sc!PortfolioFit
<1>4. QED  BY <1>2, <1>3

LEMMA FitFalls ==
  ASSUME NEW d, DeskHeld(d), NEW p \in Nat \ {0}, Sc!PortfolioFit(d, p) > 0, DeskHeld(Sc!Bought(d, p)),
         Sc!Worth(Sc!Bought(d, p)) = Sc!Worth(d) + (IF d.known THEN 0 ELSE p)
  PROVE  Sc!PortfolioFit(Sc!Bought(d, p), p) <= Sc!PortfolioFit(d, p)
<1> DEFINE b == Sc!Bought(d, p)
           m == Sc!Room(d.model, ScoreLimits.model, d, p)
           c == Sc!Room(d.collection, ScoreLimits.collection, d, p)
           n == Sc!Room(b.model, ScoreLimits.model, b, p)
           k == Sc!Room(b.collection, ScoreLimits.collection, b, p)
<1>1. /\ Sc!Worth(d) \in Nat /\ d.model <= Sc!Worth(d) /\ d.collection <= Sc!Worth(d)
      /\ d.model \in Nat /\ d.collection \in Nat /\ d.open \in Nat /\ d.count \in Nat
  BY WorthTyped DEF DeskHeld
<1>2. Sc!PortfolioFit(b, p) \in 0..100 /\ Sc!PortfolioFit(d, p) \in 0..100
  BY FitTyped
<1>3. CASE d.open < 3
  <2>1. Sc!PortfolioFit(d, p) = 100
    BY <1>3 DEF Sc!PortfolioFit
  <2>2. QED  BY <1>2, <2>1
<1>4. CASE d.open >= 3
  <2>1. b.model = d.model + p /\ b.collection = d.collection + p /\ b.open = d.open + 1
    BY DEF Sc!Bought, DeskHeld
  <2>2. Sc!Worth(b) = Sc!Worth(d) + (IF d.known THEN 0 ELSE p)
    OBVIOUS
  <2>3. ~(d.open < 3 \/ Sc!Worth(d) + p <= 0) /\ ~(b.open < 3 \/ Sc!Worth(b) + p <= 0)
    BY <1>1, <1>4, <2>1, <2>2
  <2>4. m \in Int /\ c \in Int /\ n \in Int /\ k \in Int /\ n <= m /\ k <= c
    <3> HIDE DEF b
    <3>1. QED  BY <1>1, <2>1, <2>2, RoomShrinks, LimitsTyped, ZenonT(60)
  <2> DEFINE f == Sc!Larger(Sc!Smaller(m, c), 10)
             g == Sc!Larger(Sc!Smaller(n, k), 10)
  <2> HIDE DEF m, c, n, k, b
  <2>5. Sc!PortfolioFit(d, p) = f
    <3>1. Sc!PortfolioFit(d, p) \in {0, f}
      BY <1>1, <1>4, <2>3 DEF Sc!PortfolioFit, m, c
    <3>2. QED  BY <3>1
  <2>6. Sc!PortfolioFit(b, p) \in {0, g}
    BY <1>1, <1>4, <2>1, <2>3 DEF Sc!PortfolioFit, n, k
  <2>7. g <= f /\ f >= 10 /\ g \in Int /\ f \in Int
    BY <2>4 DEF Sc!Larger, Sc!Smaller
  <2> HIDE DEF f, g
  <2>8. Sc!PortfolioFit(b, p) <= Sc!PortfolioFit(d, p)
    BY <2>5, <2>6, <2>7
  <2>9. QED  BY <2>8 DEF b
<1>5. QED  BY <1>1, <1>3, <1>4

-----------------------------------------------------------------------------
(* The ranking *)

\* The score is the one built for this lot with some fit, and the desk is what
\* the batch has made of it since.
ScoreHolds ==
  part = "score" =>
    /\ y1 \in ScoreViews /\ DeskHeld(y2) /\ y4 \in {"settled", "scored", "ranked"}
    /\ y4 = "settled" => y3 = [fit |-> 0, edge |-> 0, quality |-> 0, total |-> 0]
    /\ y4 # "settled" => y3.fit \in 0..100 /\ y3 = Sc!BuildScore(y1, y3.fit)
    /\ y4 = "ranked" => Sc!PortfolioFit(y2, y1.cost) <= y3.fit
    /\ y2.last > 0 => ~Sc!OverShare(Sc!Undone(y2).model, ScoreLimits.model, Sc!Undone(y2), y2.last)

LEMMA CostOf == \A v \in ScoreViews : Measured(v) /\ v.cost \in Nat \ {0} /\ AsGood(v, v)
<1>1. SUFFICES ASSUME NEW v \in ScoreViews PROVE Measured(v) /\ v.cost \in Nat \ {0} /\ AsGood(v, v)
  OBVIOUS
<1>2. v \in Sc!View
  BY ScoreInputs
<1>3. Measured(v)
  BY <1>2 DEF Sc!View, Measured
<1>4. AsGood(v, v)
  BY <1>3 DEF AsGood, Measured
<1>5. QED  BY <1>3, <1>4 DEF Measured

LEMMA BuiltFit == \A v : \A fit : Sc!BuildScore(v, fit).fit = fit
BY DEF Sc!BuildScore

LEMMA ScoreStarts == RulesInit => ScoreHolds
<1>1. SUFFICES ASSUME RulesInit, part = "score" PROVE ScoreHolds
  BY DEF ScoreHolds
<1>2. y1 \in ScoreViews /\ y2 \in ScoreDesks /\ y4 = "settled" /\ y3 = [fit |-> 0, edge |-> 0, quality |-> 0, total |-> 0]
  BY <1>1 DEF RulesInit, Sc!Init
<1>3. DeskHeld(y2) /\ y2.last = 0
  BY <1>2, DesksHeld
<1>4. QED  BY <1>2, <1>3 DEF ScoreHolds

\* A lot of the batch bought ahead of this one.
LEMMA BatchStep ==
  ASSUME NEW d, DeskHeld(d), NEW p \in Nat \ {0}, d.open < MaxOpen, d.known => d.balance >= p, Sc!PortfolioFit(d, p) > 0
  PROVE  LET b == Sc!Bought(d, p)
         IN  /\ DeskHeld(b) /\ Sc!PortfolioFit(b, p) <= Sc!PortfolioFit(d, p)
             /\ b.last > 0 => ~Sc!OverShare(Sc!Undone(b).model, ScoreLimits.model, Sc!Undone(b), b.last)
<1> DEFINE b == Sc!Bought(d, p)
           u == Sc!Undone(b)
<1>1. DeskHeld(b) /\ Sc!Worth(b) = Sc!Worth(d) + (IF d.known THEN 0 ELSE p)
  BY BoughtHeld, FitAllows
<1>2. Sc!PortfolioFit(b, p) <= Sc!PortfolioFit(d, p)
  BY <1>1, FitFalls
<1>3. ASSUME b.last > 0
      PROVE  ~Sc!OverShare(u.model, ScoreLimits.model, u, b.last)
  <2>1. /\ b.last = (IF d.open < 3 THEN 0 ELSE p) /\ b.model = d.model + p /\ b.positions = d.positions + p
        /\ b.balance = d.balance - p /\ b.known = d.known
    BY DEF Sc!Bought, DeskHeld
  <2>2. d.open >= 3 /\ b.last = p
    BY <1>3, <2>1 DEF DeskHeld
  <2> HIDE DEF b
  <2>3. u.model = b.model - p /\ u.positions = b.positions - p /\ u.balance = b.balance + p /\ u.known = b.known
    BY <1>1, <2>2 DEF Sc!Undone, DeskHeld
  <2>4. d.model \in Nat /\ d.positions \in Nat /\ d.balance \in Int
    BY DEF DeskHeld
  <2> HIDE DEF u
  <2>5. u.model = d.model /\ u.positions = d.positions /\ u.balance = d.balance /\ u.known = d.known
    BY <2>1, <2>3, <2>4
  <2>6. Sc!Worth(u) = Sc!Worth(d)
    BY <2>5 DEF Sc!Worth
  <2>7. ~Sc!OverShare(d.model, ScoreLimits.model, d, p)
    BY <2>2, FitAllows
  <2>8. QED  BY <2>2, <2>5, <2>6, <2>7 DEF Sc!OverShare
<1>4. QED  BY <1>1, <1>2, <1>3

LEMMA ScoreSteps == ScoreHolds /\ [RulesNext]_<<advars, part, cells>> => ScoreHolds'
<1>1. SUFFICES ASSUME ScoreHolds, [RulesNext]_<<advars, part, cells>>, part' = "score" PROVE ScoreHolds'
  BY DEF ScoreHolds
<1>2. CASE UNCHANGED <<advars, part, cells>>
  BY <1>1, <1>2 DEF ScoreHolds, cells, DeskHeld
<1>3. CASE RulesNext
  <2>1. part = "score" /\ Sc!Next
    BY <1>1, <1>3 DEF RulesNext
  <2>2. /\ y1 \in ScoreViews /\ DeskHeld(y2) /\ y4 \in {"settled", "scored", "ranked"}
        /\ y4 # "settled" => y3.fit \in 0..100 /\ y3 = Sc!BuildScore(y1, y3.fit)
        /\ y4 = "ranked" => Sc!PortfolioFit(y2, y1.cost) <= y3.fit
        /\ y2.last > 0 => ~Sc!OverShare(Sc!Undone(y2).model, ScoreLimits.model, Sc!Undone(y2), y2.last)
    BY <1>1, <2>1 DEF ScoreHolds
  <2>3. y1.cost \in Nat \ {0}
    BY <2>2, CostOf
  <2>4. CASE Sc!Value
    <3>1. y4' = "scored" /\ y3' = Sc!BuildScore(y1, 100) /\ y1' = y1 /\ y2' = y2
      BY <2>4 DEF Sc!Value
    <3>2. y3'.fit = 100
      BY <3>1, BuiltFit
    <3>3. QED  BY <2>2, <3>1, <3>2 DEF ScoreHolds
  <2>5. CASE Sc!Rank
    <3>1. y4' = "ranked" /\ y3' = Sc!BuildScore(y1, Sc!PortfolioFit(y2, y1.cost)) /\ y1' = y1 /\ y2' = y2
      BY <2>5 DEF Sc!Rank
    <3>2. y3'.fit = Sc!PortfolioFit(y2, y1.cost)
      BY <3>1, BuiltFit
    <3>3. Sc!PortfolioFit(y2, y1.cost) \in 0..100
      BY <2>2, <2>3, FitTyped
    <3>4. QED  BY <2>2, <3>1, <3>2, <3>3 DEF ScoreHolds
  <2>6. CASE Sc!BuyAnother
    <3>1. /\ y4 = "ranked" /\ y2.open < MaxOpen /\ Sc!PortfolioFit(y2, y1.cost) > 0
          /\ y2.known => y2.balance >= y1.cost
          /\ y2' = Sc!Bought(y2, y1.cost) /\ y1' = y1 /\ y3' = y3 /\ y4' = y4
      BY <2>6 DEF Sc!BuyAnother
    <3>2. /\ DeskHeld(y2') /\ Sc!PortfolioFit(y2', y1.cost) <= Sc!PortfolioFit(y2, y1.cost)
          /\ y2'.last > 0 => ~Sc!OverShare(Sc!Undone(y2').model, ScoreLimits.model, Sc!Undone(y2'), y2'.last)
      BY <2>2, <2>3, <3>1, BatchStep
    <3>3. Sc!PortfolioFit(y2, y1.cost) \in Int /\ Sc!PortfolioFit(y2', y1.cost) \in Int /\ y3.fit \in Int
      BY <2>2, <2>3, <3>1, <3>2, FitTyped
    <3>4. Sc!PortfolioFit(y2', y1'.cost) <= y3'.fit
      BY <2>2, <3>1, <3>2, <3>3
    <3>5. QED  BY <2>2, <3>1, <3>2, <3>4 DEF ScoreHolds
  <2>7. QED  BY <2>1, <2>4, <2>5, <2>6 DEF Sc!Next
<1>4. QED  BY <1>1, <1>2, <1>3

LEMMA ScoreRanks ==
  ASSUME ScoreHolds, part = "score"
  PROVE  Sc!TypeOK /\ Sc!BetterRanksHigher /\ Sc!GuessesStayLow /\ Sc!BatchStaysSpread
<1>1. /\ y1 \in ScoreViews /\ DeskHeld(y2) /\ y4 \in {"settled", "scored", "ranked"}
      /\ y4 = "settled" => y3 = [fit |-> 0, edge |-> 0, quality |-> 0, total |-> 0]
      /\ y4 # "settled" => y3.fit \in 0..100 /\ y3 = Sc!BuildScore(y1, y3.fit)
      /\ y4 = "ranked" => Sc!PortfolioFit(y2, y1.cost) <= y3.fit
      /\ y2.last > 0 => ~Sc!OverShare(Sc!Undone(y2).model, ScoreLimits.model, Sc!Undone(y2), y2.last)
  BY DEF ScoreHolds
<1>2. Measured(y1) /\ AsGood(y1, y1)
  BY <1>1, CostOf
<1>3. y4 # "settled" => /\ y3.quality \in Nat /\ y3.quality <= 10000 /\ y3.total \in Nat /\ y3.total <= 10000
                        /\ Sc!Doubt(y1) = 12 => y3.total <= 1394
  <2>1. SUFFICES ASSUME y4 # "settled"
                 PROVE  /\ y3.quality \in Nat /\ y3.quality <= 10000 /\ y3.total \in Nat /\ y3.total <= 10000
                        /\ Sc!Doubt(y1) = 12 => y3.total <= 1394
    OBVIOUS
  <2>2. y3.fit \in 0..100 /\ y3 = Sc!BuildScore(y1, y3.fit)
    BY <1>1, <2>1
  <2> DEFINE fit == y3.fit
             built == Sc!BuildScore(y1, fit)
  <2>3. fit \in 0..100 /\ y3 = built
    BY <2>2
  <2> HIDE DEF fit, built
  <2>4. /\ built.quality \in Nat /\ built.quality <= 10000 /\ built.total \in Nat /\ built.total <= 10000
        /\ Sc!Doubt(y1) = 12 => built.total <= 1394
    BY <1>2, <2>3, ScoreUp, SMTT(30) DEF built
  <2>5. QED  BY <2>3, <2>4
<1>4. Sc!TypeOK
  <2>1. y3.fit \in 0..100 /\ {y3.quality, y3.total} \subseteq Nat /\ y3.quality <= 10000 /\ y3.total <= 10000
    <3>1. CASE y4 = "settled"
      <4>1. y3.fit = 0 /\ y3.quality = 0 /\ y3.total = 0
        BY <1>1, <3>1
      <4>2. QED  BY <4>1
    <3>2. CASE y4 # "settled"
      <4>1. y3.fit \in 0..100
        BY <1>1, <3>2
      <4>2. QED  BY <1>3, <3>2, <4>1
    <3>3. QED  BY <3>1, <3>2
  <2>2. y2.open \in 0..MaxOpen /\ y2.count <= y2.open
    BY <1>1 DEF DeskHeld
  <2>3. y1 \in Sc!View
    BY <1>1, ScoreAssumed DEF Sc!ScoreAssumption
  <2>4. y4 \in {"settled", "scored", "ranked"}
    BY <1>1
  <2>5. QED  BY <2>1, <2>2, <2>3, <2>4 DEF Sc!TypeOK
<1>5. Sc!BetterRanksHigher
  <2>1. SUFFICES ASSUME y4 # "settled", NEW f \in DOMAIN ScoreGains, NEW x \in ScoreGains[f], Sc!Gain(y1, f, x)
                 PROVE  LET better == Sc!BuildScore(Sc!Improved(y1, f, x), y3.fit)
                        IN  better.total >= y3.total /\ better.edge >= y3.edge
    BY DEF Sc!BetterRanksHigher
  <2>2. AsGood(y1, Sc!Improved(y1, f, x))
    BY <1>1, <2>1, ImprovedIsAsGood
  <2>3. y3.fit \in 0..100 /\ y3 = Sc!BuildScore(y1, y3.fit)
    BY <1>1, <2>1
  <2> DEFINE fit == y3.fit
  <2>4. Sc!BuildScore(y1, fit).edge <= Sc!BuildScore(Sc!Improved(y1, f, x), fit).edge
        /\ Sc!BuildScore(y1, fit).total <= Sc!BuildScore(Sc!Improved(y1, f, x), fit).total
    <3>1. fit \in 0..100
      BY <2>3
    <3> HIDE DEF fit
    <3>2. QED  BY <2>2, <3>1, ScoreUp, SMTT(30)
  <2>5. Sc!BuildScore(y1, fit) = y3
    BY <2>3
  <2> DEFINE better == Sc!BuildScore(Sc!Improved(y1, f, x), y3.fit)
  <2>6. y3.edge <= better.edge /\ y3.total <= better.total
    BY <2>4, <2>5
  <2> HIDE DEF better
  <2>7. better.total >= y3.total /\ better.edge >= y3.edge
    BY <2>6
  <2>8. QED  BY <2>7 DEF better
<1>6. Sc!GuessesStayLow
  <2>1. SUFFICES ASSUME y1.invented \/ y1.apart > 25 PROVE y3.total <= 1400
    BY DEF Sc!GuessesStayLow
  <2>2. Sc!Doubt(y1) = 12
    BY <2>1 DEF Sc!Doubt
  <2>3. CASE y4 = "settled"
    BY <1>1, <2>3
  <2>4. CASE y4 # "settled"
    BY <1>3, <2>2, <2>4
  <2>5. QED  BY <2>3, <2>4
<1>7. Sc!BatchStaysSpread
  BY <1>1 DEF Sc!BatchStaysSpread, DeskHeld
<1>8. QED  BY <1>4, <1>5, <1>6, <1>7

-----------------------------------------------------------------------------
(* Order statistics *)

LEMMA TapeCounts == ASSUME NEW S PROVE Ta!Cardinality(S) = Cardinality(S)
BY DEF Ta!Cardinality, Cardinality, Ta!IsFiniteSet, IsFiniteSet

LEMMA TapeMax == ASSUME NEW T PROVE Ta!Max(T) = Max(T)
BY DEF Ta!Max, Max

\* Numbers given at finitely many places.
Numbers(xs, I) == IsFiniteSet(I) /\ DOMAIN xs = I /\ \A i \in I : xs[i] \in Nat

Under(xs, v) == {i \in DOMAIN xs : xs[i] < v}
UpTo(xs, v)  == {i \in DOMAIN xs : xs[i] <= v}
IsNth(xs, k, v) ==
  v \in {xs[i] : i \in DOMAIN xs} /\ Cardinality(Under(xs, v)) < k /\ k <= Cardinality(UpTo(xs, v))

LEMMA Counting ==
  ASSUME NEW I, IsFiniteSet(I), NEW A, NEW B, A \subseteq B, B \subseteq I
  PROVE  IsFiniteSet(A) /\ IsFiniteSet(B) /\ Cardinality(A) \in Nat /\ Cardinality(B) \in Nat /\ Cardinality(A) <= Cardinality(B)
<1>1. IsFiniteSet(B) /\ IsFiniteSet(A)
  BY FS_Subset
<1>2. QED  BY <1>1, FS_CardinalityType, FS_Subset

LEMMA NthExists ==
  ASSUME NEW I, NEW xs, Numbers(xs, I), NEW k \in Nat, 1 <= k, k <= Cardinality(I)
  PROVE  IsNth(xs, k, Ta!Nth(xs, k)) /\ Ta!Nth(xs, k) \in Nat
<1>1. IsFiniteSet(I) /\ DOMAIN xs = I /\ \A i \in I : xs[i] \in Nat
  BY DEF Numbers
<1>2. \A v : /\ Cardinality(Under(xs, v)) \in Nat /\ Cardinality(UpTo(xs, v)) \in Nat
  BY <1>1, Counting DEF Under, UpTo
<1> DEFINE T == {v \in Nat : k <= Cardinality(UpTo(xs, v))}
<1>3. T # {}
  <2> DEFINE V == {xs[i] : i \in I}
  <2>1. IsFiniteSet(V) /\ V \subseteq Nat
    <3> DEFINE f == [i \in I |-> xs[i]]
    <3>1. f \in Surjection(I, V)
      BY DEF Surjection
    <3> HIDE DEF f
    <3>2. IsFiniteSet(V)
      BY <1>1, <3>1, FS_Surjection
    <3>3. QED  BY <1>1, <3>2
  <2>2. V # {}
    <3>1. I # {}
      <4>1. SUFFICES ASSUME I = {} PROVE FALSE
        OBVIOUS
      <4>2. Cardinality(I) = 0
        BY <4>1, FS_EmptySet
      <4>3. QED  BY <4>2
    <3>2. QED  BY <3>1
  <2>3. PICK m \in V : \A v \in V : v <= m
    BY <2>1, <2>2, FiniteGreatest
  <2>4. UpTo(xs, m) = I
    BY <1>1, <2>3 DEF UpTo
  <2>5. QED  BY <2>1, <2>4
<1>4. PICK m \in T : \A v \in T : m <= v
  BY <1>3, Least
<1>5. Cardinality(Under(xs, m)) < k
  <2>1. CASE m = 0
    <3>1. Under(xs, m) = {}
      BY <1>1, <2>1 DEF Under
    <3>2. QED  BY <3>1, FS_EmptySet
  <2>2. CASE m # 0
    <3>1. Under(xs, m) = UpTo(xs, m - 1)
      BY <1>1 DEF Under, UpTo
    <3>2. m - 1 \in Nat /\ m - 1 \notin T
      BY <1>4, <2>2
    <3>3. QED  BY <1>2, <3>1, <3>2
  <2>3. QED  BY <2>1, <2>2
<1>6. m \in {xs[i] : i \in I}
  <2>1. SUFFICES ASSUME m \notin {xs[i] : i \in I} PROVE FALSE
    OBVIOUS
  <2>2. Under(xs, m) = UpTo(xs, m)
    BY <1>1, <2>1 DEF Under, UpTo
  <2>3. QED  BY <1>2, <1>4, <1>5, <2>2
<1>7. IsNth(xs, k, m)
  BY <1>1, <1>4, <1>5, <1>6 DEF IsNth
<1>8. Ta!Nth(xs, k) = CHOOSE v \in {xs[i] : i \in DOMAIN xs} : Cardinality(Under(xs, v)) < k /\ k <= Cardinality(UpTo(xs, v))
  BY TapeCounts DEF Ta!Nth, Under, UpTo
<1>9. IsNth(xs, k, Ta!Nth(xs, k))
  BY <1>7, <1>8 DEF IsNth
<1>10. QED  BY <1>1, <1>9 DEF IsNth

\* What holds of every number, up to a factor and a margin, holds of the kth of them.
LEMMA NthUpTo ==
  ASSUME NEW I, NEW xs, NEW ys, Numbers(xs, I), Numbers(ys, I), NEW k \in Nat, 1 <= k, k <= Cardinality(I),
         NEW a \in Nat \ {0}, NEW b \in Nat \ {0}, NEW c \in Nat, \A i \in I : a * ys[i] <= b * xs[i] + c
  PROVE  a * Ta!Nth(ys, k) <= b * Ta!Nth(xs, k) + c
<1> DEFINE x == Ta!Nth(xs, k)
           y == Ta!Nth(ys, k)
<1>1. IsNth(xs, k, x) /\ x \in Nat /\ IsNth(ys, k, y) /\ y \in Nat
  BY NthExists
<1> HIDE DEF x, y
<1>2. SUFFICES ASSUME ~(a * y <= b * x + c) PROVE FALSE
  BY DEF x, y
<1>3. UpTo(xs, x) \subseteq Under(ys, y)
  <2>1. SUFFICES ASSUME NEW i \in I, xs[i] <= x PROVE ys[i] < y
    BY DEF UpTo, Under, Numbers
  <2>2. xs[i] \in Nat /\ ys[i] \in Nat
    BY DEF Numbers
  <2>3. b * xs[i] <= b * x /\ b * xs[i] \in Nat /\ b * x \in Nat
    BY <1>1, <2>1, <2>2, Products
  <2>4. a * ys[i] <= b * xs[i] + c
    OBVIOUS
  <2>5. a * ys[i] \in Nat /\ a * y \in Nat
    BY <1>1, <2>2
  <2>6. a * ys[i] < a * y
    BY <1>2, <2>3, <2>4, <2>5
  <2>7. SUFFICES ASSUME y <= ys[i] PROVE FALSE
    BY <1>1, <2>2
  <2>8. a * y <= a * ys[i]
    BY <1>1, <2>2, <2>7, Products
  <2>9. QED  BY <2>5, <2>6, <2>8
<1>4. Cardinality(UpTo(xs, x)) <= Cardinality(Under(ys, y))
      /\ Cardinality(UpTo(xs, x)) \in Nat /\ Cardinality(Under(ys, y)) \in Nat
  BY <1>3, Counting DEF Numbers, Under
<1>5. QED  BY <1>1, <1>4 DEF IsNth

LEMMA Halves ==
  ASSUME NEW n \in Nat
  PROVE  /\ n % 2 = 1 => n \div 2 + 1 \in Nat /\ 1 <= n \div 2 + 1 /\ n \div 2 + 1 <= n
         /\ n > 0 /\ n % 2 # 1 => /\ n \div 2 \in Nat /\ n \div 2 + 1 \in Nat
                                  /\ 1 <= n \div 2 /\ n \div 2 + 1 <= n
OBVIOUS

\* What holds of every number holds of the middle one, but for the rounding of two halves.
LEMMA MiddleUpTo ==
  ASSUME NEW I, NEW xs, NEW ys, Numbers(xs, I), Numbers(ys, I),
         NEW a \in Nat \ {0}, NEW b \in Nat \ {0}, NEW c \in Nat, \A i \in I : a * ys[i] <= b * xs[i] + c
  PROVE  /\ Ta!Median(xs) \in Nat /\ Ta!Median(ys) \in Nat
         /\ 2 * (a * Ta!Median(ys)) <= 2 * (b * Ta!Median(xs)) + b + 2 * c
<1> DEFINE n == Cardinality(I)
           x(k) == Ta!Nth(xs, k)
           y(k) == Ta!Nth(ys, k)
<1>1. n \in Nat
  BY FS_CardinalityType DEF Numbers
<1>2. \A k \in Nat : 1 <= k /\ k <= n => x(k) \in Nat /\ y(k) \in Nat /\ a * y(k) <= b * x(k) + c
  <2>1. SUFFICES ASSUME NEW k \in Nat, 1 <= k, k <= n
                 PROVE  x(k) \in Nat /\ y(k) \in Nat /\ a * y(k) <= b * x(k) + c
    OBVIOUS
  <2>2. x(k) \in Nat /\ y(k) \in Nat
    BY <2>1, NthExists
  <2>3. a * y(k) <= b * x(k) + c
    BY <2>1, NthUpTo
  <2>4. QED  BY <2>2, <2>3
<1>3. /\ DOMAIN xs = I /\ DOMAIN ys = I
  BY DEF Numbers
<1>4. /\ Ta!Median(xs) = IF n = 0 THEN 0 ELSE IF n % 2 = 1 THEN x(n \div 2 + 1) ELSE (x(n \div 2) + x(n \div 2 + 1)) \div 2
      /\ Ta!Median(ys) = IF n = 0 THEN 0 ELSE IF n % 2 = 1 THEN y(n \div 2 + 1) ELSE (y(n \div 2) + y(n \div 2 + 1)) \div 2
  BY <1>3, TapeCounts DEF Ta!Median
<1> HIDE DEF n, x, y
<1>5. CASE n = 0
  BY <1>4, <1>5
<1>6. CASE n % 2 = 1
  <2> DEFINE k == n \div 2 + 1
  <2>1. k \in Nat /\ 1 <= k /\ k <= n /\ n # 0
    BY <1>1, <1>6, Halves
  <2> HIDE DEF k
  <2>2. x(k) \in Nat /\ y(k) \in Nat /\ a * y(k) <= b * x(k) + c /\ a * y(k) \in Nat /\ b * x(k) \in Nat
    BY <1>2, <2>1
  <2>3. Ta!Median(xs) = x(k) /\ Ta!Median(ys) = y(k)
    BY <1>4, <1>6, <2>1 DEF k
  <2>4. QED  BY <2>2, <2>3
<1>7. CASE n # 0 /\ n % 2 # 1
  <2> DEFINE k == n \div 2
             p == x(k)
             q == x(k + 1)
             r == y(k)
             s == y(k + 1)
             u == (p + q) \div 2
             w == (r + s) \div 2
  <2>1. k \in Nat /\ k + 1 \in Nat /\ 1 <= k /\ k <= n /\ 1 <= k + 1 /\ k + 1 <= n
    BY <1>1, <1>7, Halves
  <2>2. Ta!Median(xs) = u /\ Ta!Median(ys) = w
    BY <1>4, <1>7
  <2> HIDE DEF k
  <2>3. p \in Nat /\ q \in Nat /\ r \in Nat /\ s \in Nat /\ a * r <= b * p + c /\ a * s <= b * q + c
    BY <1>2, <2>1
  <2> HIDE DEF p, q, r, s
  <2>4. u \in Nat /\ w \in Nat /\ 2 * w <= r + s /\ p + q <= 2 * u + 1
    BY <2>3
  <2> HIDE DEF u, w
  <2>5. a * (2 * w) <= a * (r + s) /\ b * (p + q) <= b * (2 * u + 1)
    <3>1. 2 * w \in Nat /\ r + s \in Nat /\ p + q \in Nat /\ 2 * u + 1 \in Nat
      BY <2>3, <2>4
    <3>2. QED  BY <2>4, <3>1, Products
  <2>6. a * (2 * w) = 2 * (a * w) /\ a * (r + s) = a * r + a * s
        /\ b * (p + q) = b * p + b * q /\ b * (2 * u + 1) = 2 * (b * u) + b
    BY <2>3, <2>4
  <2>7. {a * r, a * s, b * p, b * q, a * w, b * u} \subseteq Nat
    BY <2>3, <2>4
  <2>8. 2 * (a * w) <= 2 * (b * u) + b + 2 * c
    BY <2>3, <2>5, <2>6, <2>7
  <2>9. QED  BY <2>2, <2>4, <2>8
<1>8. QED  BY <1>5, <1>6, <1>7

LEMMA MiddleNat ==
  ASSUME NEW I, NEW xs, Numbers(xs, I)
  PROVE  Ta!Median(xs) \in Nat
<1>1. \A i \in I : 1 * xs[i] <= 1 * xs[i] + 0
  BY DEF Numbers
<1>2. QED  BY <1>1, MiddleUpTo

-----------------------------------------------------------------------------
(* The tape *)

LEMMA TapeAssumed ==
  /\ TapeGifts \subseteq [id : Nat, num : Nat]
  /\ Prices \subseteq Nat \ {0, 1} /\ Rates \subseteq Nat \ {0} /\ Gaps \subseteq Nat \ {0} /\ Window \in Nat
  /\ Crowds \subseteq [sales : Nat, models : Nat]
<1>1. Ta!TapeAssumption
  BY RulesAssumption
<1>2. QED  BY <1>1 DEF Ta!TapeAssumption

SaleRows == [gift : TapeGifts, price : Prices, ts : Nat]

\* A tape on which time passes between two rows, and quotes.
TapeHolds ==
  part = "tape" =>
    /\ y1 \in Nat /\ y2 \in Seq(SaleRows) /\ y3 \in Seq([usd : Rates, ts : Nat]) /\ y4 \in Crowds
    /\ \A i \in DOMAIN y2 : y2[i].ts <= y1
    /\ \A i, j \in DOMAIN y2 : i < j => y2[i].ts < y2[j].ts

LEMMA TapeStarts == RulesInit => TapeHolds
<1>1. SUFFICES ASSUME RulesInit, part = "tape" PROVE TapeHolds
  BY DEF TapeHolds
<1>2. y1 = 0 /\ y2 = <<>> /\ y3 = <<>> /\ y4 \in Crowds
  BY <1>1 DEF RulesInit, Ta!Init
<1>3. QED  BY <1>2 DEF TapeHolds

LEMMA TapeSteps == TapeHolds /\ [RulesNext]_<<advars, part, cells>> => TapeHolds'
<1>1. SUFFICES ASSUME TapeHolds, [RulesNext]_<<advars, part, cells>>, part' = "tape" PROVE TapeHolds'
  BY DEF TapeHolds
<1>2. CASE UNCHANGED <<advars, part, cells>>
  BY <1>1, <1>2 DEF TapeHolds, cells
<1>3. CASE RulesNext
  <2>1. part = "tape" /\ Ta!Next
    BY <1>1, <1>3 DEF RulesNext
  <2>2. /\ y1 \in Nat /\ y2 \in Seq(SaleRows) /\ y3 \in Seq([usd : Rates, ts : Nat]) /\ y4 \in Crowds
        /\ \A i \in DOMAIN y2 : y2[i].ts <= y1
        /\ \A i, j \in DOMAIN y2 : i < j => y2[i].ts < y2[j].ts
    BY <1>1, <2>1 DEF TapeHolds
  <2>2a. \A i \in DOMAIN y2 : y2[i] \in SaleRows
    BY <2>2, ElementOfSeq
  <2>3. ASSUME NEW g \in TapeGifts, NEW p \in Prices, NEW gap \in Gaps, Ta!Trade(g, p, gap) PROVE TapeHolds'
    <3> DEFINE row == [gift |-> g, price |-> p, ts |-> y1 + gap]
    <3>1. y1' = y1 + gap /\ y2' = Append(y2, row) /\ y3' = y3 /\ y4' = y4
      BY <2>3 DEF Ta!Trade
    <3>2. gap \in Nat /\ gap > 0
      BY TapeAssumed
    <3>3. row \in SaleRows /\ row.ts = y1 + gap
      BY <2>2, <3>2 DEF SaleRows
    <3> HIDE DEF row
    <3>4. /\ y2' \in Seq(SaleRows) /\ DOMAIN y2' = 1..(Len(y2) + 1) /\ y2'[Len(y2) + 1] = row
          /\ DOMAIN y2 = 1..Len(y2) /\ \A i \in 1..Len(y2) : y2'[i] = y2[i]
      BY <2>2, <3>1, <3>3
    <3>5. \A i \in 1..Len(y2) : y2[i].ts \in Nat
      BY <2>2, <2>2a, <3>4 DEF SaleRows
    <3>6. Len(y2) \in Nat
      BY <2>2
    <3>7. \A i \in DOMAIN y2' : y2'[i].ts <= y1'
      BY <2>2, <3>1, <3>2, <3>3, <3>4, <3>5, <3>6
    <3>8. \A i, j \in DOMAIN y2' : i < j => y2'[i].ts < y2'[j].ts
      <4>1. SUFFICES ASSUME NEW i \in DOMAIN y2', NEW j \in DOMAIN y2', i < j PROVE y2'[i].ts < y2'[j].ts
        OBVIOUS
      <4>2. i \in 1..Len(y2)
        BY <3>4, <3>6, <4>1
      <4>3. CASE j \in 1..Len(y2)
        BY <2>2, <3>4, <4>1, <4>2, <4>3
      <4>4. CASE j = Len(y2) + 1
        <5>1. y2[i].ts <= y1 /\ y2[i].ts \in Nat
          BY <2>2, <3>4, <3>5, <4>2
        <5>2. y2'[j].ts = y1 + gap /\ y2'[i] = y2[i]
          BY <3>3, <3>4, <4>2, <4>4
        <5>3. QED  BY <2>2, <3>2, <5>1, <5>2
      <4>5. QED  BY <3>4, <3>6, <4>3, <4>4
    <3>9. QED  BY <2>2, <3>1, <3>2, <3>4, <3>7, <3>8 DEF TapeHolds
  <2>4. ASSUME NEW usd \in Rates, Ta!Quote(usd) PROVE TapeHolds'
    <3>1. y1' = y1 + 1 /\ y2' = y2 /\ y3' = Append(y3, [usd |-> usd, ts |-> y1 + 1]) /\ y4' = y4
      BY <2>4 DEF Ta!Quote
    <3>2. y1' \in Nat /\ y3' \in Seq([usd : Rates, ts : Nat])
      BY <2>2, <3>1
    <3>3. \A i \in DOMAIN y2 : y2[i].ts \in Nat
      BY <2>2a DEF SaleRows
    <3>4. \A i \in DOMAIN y2 : y2[i].ts <= y1'
      BY <2>2, <3>1, <3>3
    <3>5. QED  BY <2>2, <3>1, <3>2, <3>4 DEF TapeHolds
  <2>5. QED  BY <2>1, <2>3, <2>4 DEF Ta!Next
<1>4. QED  BY <1>1, <1>2, <1>3

\* Rows as they are stored, and as they are once restated.
Rows(rows) == IsFiniteSet(DOMAIN rows) /\ \A i \in DOMAIN rows : rows[i] \in SaleRows
Likewise(rows, out) ==
  /\ DOMAIN out = DOMAIN rows
  /\ \A i \in DOMAIN rows :
       /\ out[i].ts = rows[i].ts /\ out[i].gift = rows[i].gift
       /\ out[i].price \in Nat \ {0}
       /\ 100 * out[i].price <= 105 * rows[i].price /\ 95 * rows[i].price <= 100 * out[i].price + 100

LEMMA RateNat ==
  ASSUME TapeHolds, part = "tape"
  PROVE  Ta!CurrentRate \in Nat /\ \A t \in Nat : Ta!RateOf(t) \in Nat
<1>1. y3 \in Seq([usd : Rates, ts : Nat]) /\ Len(y3) \in Nat /\ DOMAIN y3 = 1..Len(y3)
  BY DEF TapeHolds
<1>2. \A i \in DOMAIN y3 : y3[i].usd \in Nat
  <2>1. \A i \in DOMAIN y3 : y3[i] \in [usd : Rates, ts : Nat]
    BY <1>1, ElementOfSeq
  <2>2. QED  BY <2>1, TapeAssumed
<1>3. Ta!CurrentRate \in Nat
  <2>1. y3 # <<>> => Len(y3) \in DOMAIN y3
    BY <1>1
  <2>2. QED  BY <1>2, <2>1 DEF Ta!CurrentRate
<1>4. ASSUME NEW t \in Nat PROVE Ta!RateOf(t) \in Nat
  <2> DEFINE before == {i \in DOMAIN y3 : y3[i].ts <= t}
  <2>1. before \subseteq Nat /\ \A i \in before : i <= Len(y3)
    BY <1>1
  <2>2. Ta!RateOf(t) = IF before = {} \/ t - y3[Max(before)].ts > 2 THEN 0 ELSE y3[Max(before)].usd
    BY TapeMax DEF Ta!RateOf
  <2>3. before # {} => Max(before) \in DOMAIN y3
    <3>1. before \subseteq DOMAIN y3
      OBVIOUS
    <3> HIDE DEF before
    <3>2. QED  BY <1>1, <2>1, <3>1, MaxOf
  <2> HIDE DEF before
  <2>4. QED  BY <1>2, <2>2, <2>3
<1>5. QED  BY <1>3, <1>4

\* A print moves by no more than five percent, a unit of rounding aside.
LEMMA Restated ==
  ASSUME NEW p \in Prices, NEW x \in Int
  PROVE  LET q == (p * Ta!Clamped(x)) \div 1000
         IN  q \in Nat \ {0} /\ 100 * q <= 105 * p /\ 95 * p <= 100 * q + 100
<1> DEFINE f == Ta!Clamped(x)
           m == p * f
           q == m \div 1000
<1>1. p \in Nat /\ p >= 2
  BY TapeAssumed
<1>2. f \in Nat /\ 950 <= f /\ f <= 1050
  BY DEF Ta!Clamped, Ta!Smaller, Ta!Larger
<1> HIDE DEF f
<1>3. m \in Nat /\ p * 950 <= m /\ m <= p * 1050
  BY <1>1, <1>2, Products
<1> HIDE DEF m
<1>4. q \in Nat /\ 1000 * q <= m /\ m < 1000 * q + 1000
  BY <1>3
<1> HIDE DEF q
<1>5. q \in Nat \ {0} /\ 100 * q <= 105 * p /\ 95 * p <= 100 * q + 100
  BY <1>1, <1>3, <1>4
<1>6. QED  BY <1>5 DEF q, m, f

LEMMA Normalized ==
  ASSUME TapeHolds, part = "tape", NEW rows, Rows(rows)
  PROVE  Likewise(rows, Ta!NormalizeSales(rows))
<1> DEFINE out == Ta!NormalizeSales(rows)
           factor(i) == Ta!Clamped((1000 * Ta!RateOf(rows[i].ts)) \div Ta!CurrentRate)
           plain(i)  == Ta!CurrentRate = 0 \/ Ta!RateOf(rows[i].ts) = 0
<1>1. /\ DOMAIN out = DOMAIN rows
      /\ \A i \in DOMAIN rows :
           out[i] = IF plain(i) THEN rows[i] ELSE [rows[i] EXCEPT !.price = (@ * factor(i)) \div 1000]
  BY DEF Ta!NormalizeSales
<1> HIDE DEF out, plain
<1>2. SUFFICES ASSUME NEW i \in DOMAIN rows
               PROVE  /\ out[i].ts = rows[i].ts /\ out[i].gift = rows[i].gift
                      /\ out[i].price \in Nat \ {0}
                      /\ 100 * out[i].price <= 105 * rows[i].price /\ 95 * rows[i].price <= 100 * out[i].price + 100
  BY <1>1 DEF Likewise, out
<1>3. rows[i] \in SaleRows
  BY DEF Rows
<1>4. rows[i].price \in Prices /\ rows[i].price \in Nat \ {0} /\ rows[i].ts \in Nat
  BY <1>3, TapeAssumed DEF SaleRows
<1>5. CASE plain(i)
  <2>1. out[i] = rows[i]
    BY <1>1, <1>5
  <2>2. QED  BY <1>4, <2>1
<1>6. CASE ~plain(i)
  <2> DEFINE x == (1000 * Ta!RateOf(rows[i].ts)) \div Ta!CurrentRate
             q == (rows[i].price * Ta!Clamped(x)) \div 1000
  <2>1. x \in Int
    <3>1. Ta!RateOf(rows[i].ts) \in Nat /\ Ta!CurrentRate \in Nat \ {0}
      BY <1>4, <1>6, RateNat DEF plain
    <3>2. QED  BY <3>1
  <2>2. out[i] = [rows[i] EXCEPT !.price = q]
    BY <1>1, <1>6
  <2> HIDE DEF x
  <2>3. q \in Nat \ {0} /\ 100 * q <= 105 * rows[i].price /\ 95 * rows[i].price <= 100 * q + 100
    BY <1>4, <2>1, Restated
  <2> HIDE DEF q
  <2>4. out[i].ts = rows[i].ts /\ out[i].gift = rows[i].gift /\ out[i].price = q
    BY <1>3, <2>2 DEF SaleRows
  <2>5. QED  BY <2>3, <2>4
<1>7. QED  BY <1>5, <1>6

-----------------------------------------------------------------------------
(* What the statistics are read from *)

\* What is printed is what has an identity and falls into the window.
LEMMA Prints ==
  ASSUME NEW rows, Rows(rows), NEW out, Likewise(rows, out)
  PROVE  Ta!Printed(out) = {i \in DOMAIN rows : rows[i].ts >= y1 - Window /\ Ta!Physical(rows[i].gift) # 0}
<1>1. \A i \in DOMAIN rows : out[i].price > 0 /\ out[i].ts = rows[i].ts /\ out[i].gift = rows[i].gift
  BY DEF Likewise
<1>2. QED  BY <1>1 DEF Ta!Printed, Likewise

LEMMA LatestOf ==
  ASSUME NEW rows, Rows(rows), NEW out, Likewise(rows, out)
  PROVE  Ta!Latest(out) =
           {i \in Ta!Printed(out) :
              \A j \in Ta!Printed(out) : Ta!Physical(rows[j].gift) = Ta!Physical(rows[i].gift) => rows[j].ts <= rows[i].ts}
<1>1. Ta!Printed(out) \subseteq DOMAIN rows
  BY Prints
<1>2. \A i \in DOMAIN rows : out[i].ts = rows[i].ts /\ out[i].gift = rows[i].gift
  BY DEF Likewise
<1>3. QED  BY <1>1, <1>2 DEF Ta!Latest

LEMMA ItselfLikewise ==
  ASSUME NEW rows, Rows(rows)
  PROVE  Likewise(rows, rows)
<1>1. SUFFICES ASSUME NEW i \in DOMAIN rows
               PROVE  rows[i].price \in Nat \ {0} /\ 100 * rows[i].price <= 105 * rows[i].price
                      /\ 95 * rows[i].price <= 100 * rows[i].price + 100
  BY DEF Likewise
<1>2. rows[i].price \in Nat \ {0}
  BY TapeAssumed DEF Rows, SaleRows
<1>3. QED  BY <1>2

LEMMA TapeRows ==
  ASSUME TapeHolds, part = "tape"
  PROVE  /\ Rows(y2) /\ DOMAIN y2 \subseteq Nat
         /\ \A i \in DOMAIN y2 : y2[i].ts \in Nat /\ y2[i].gift \in TapeGifts /\ y2[i].ts <= y1
<1>1. y2 \in Seq(SaleRows) /\ DOMAIN y2 = 1..Len(y2) /\ Len(y2) \in Nat
  BY DEF TapeHolds
<1>2. IsFiniteSet(DOMAIN y2)
  BY <1>1, FS_Interval
<1>3. \A i \in DOMAIN y2 : y2[i] \in SaleRows
  BY <1>1, ElementOfSeq
<1>4. QED  BY <1>1, <1>2, <1>3 DEF Rows, SaleRows, TapeHolds

\* The prices a tape was read from, and the two medians of them.
PricesAre(rows, I) == Numbers(Ta!PricesOf(rows, I), I)

LEMMA PricesRead ==
  ASSUME NEW rows, IsFiniteSet(DOMAIN rows), \A i \in DOMAIN rows : rows[i].price \in Nat,
         NEW I, I \subseteq DOMAIN rows
  PROVE  PricesAre(rows, I) /\ \A i \in I : Ta!PricesOf(rows, I)[i] = rows[i].price
<1>1. IsFiniteSet(I)
  BY FS_Subset
<1>2. QED  BY <1>1 DEF PricesAre, Numbers, Ta!PricesOf

LEMMA MediansMild ==
  ASSUME NEW rows, Rows(rows), NEW out, Likewise(rows, out), NEW I, I \subseteq DOMAIN rows
  PROVE  LET raw == Ta!Median(Ta!PricesOf(rows, I))
             fx  == Ta!Median(Ta!PricesOf(out, I))
         IN  /\ raw \in Nat /\ fx \in Nat
             /\ 100 * fx >= 95 * raw - 150 /\ 100 * fx <= 105 * raw + 52
<1> DEFINE xs  == Ta!PricesOf(rows, I)
           ys  == Ta!PricesOf(out, I)
           raw == Ta!Median(xs)
           fx  == Ta!Median(ys)
<1>1. \A i \in DOMAIN rows : rows[i].price \in Nat
  BY TapeAssumed DEF Rows, SaleRows
<1>2. /\ \A i \in DOMAIN out : out[i].price \in Nat
      /\ IsFiniteSet(DOMAIN out) /\ DOMAIN out = DOMAIN rows /\ IsFiniteSet(DOMAIN rows)
  BY DEF Likewise, Rows
<1>3. /\ Numbers(xs, I) /\ Numbers(ys, I)
      /\ \A i \in I : xs[i] = rows[i].price /\ ys[i] = out[i].price
  BY <1>1, <1>2, PricesRead DEF PricesAre
<1>4. \A i \in I : 100 * ys[i] <= 105 * xs[i] + 0 /\ 95 * xs[i] <= 100 * ys[i] + 100
  <2>1. \A i \in I : 100 * out[i].price <= 105 * rows[i].price /\ 95 * rows[i].price <= 100 * out[i].price + 100
    BY DEF Likewise
  <2>2. \A i \in I : rows[i].price \in Nat
    BY <1>1
  <2> HIDE DEF xs, ys
  <2>3. QED  BY <1>3, <2>1, <2>2
<1> HIDE DEF xs, ys
<1>5. raw \in Nat /\ fx \in Nat /\ 2 * (100 * fx) <= 2 * (105 * raw) + 105 + 2 * 0
  BY <1>3, <1>4, MiddleUpTo
<1>6. 2 * (95 * raw) <= 2 * (100 * fx) + 100 + 2 * 100
  BY <1>3, <1>4, MiddleUpTo
<1> HIDE DEF raw, fx
<1>7. 100 * fx >= 95 * raw - 150 /\ 100 * fx <= 105 * raw + 52
  BY <1>5, <1>6
<1>8. QED  BY <1>5, <1>7 DEF raw, fx, xs, ys

LEMMA DaysPositive ==
  ASSUME TapeHolds, part = "tape"
  PROVE  Ta!EffectiveDays \in Nat \ {0}
<1>1. Ta!Coverage \in Int
  <2>1. y2 # <<>> => 1 \in DOMAIN y2
    BY DEF TapeHolds
  <2>2. y1 \in Nat
    BY DEF TapeHolds
  <2>3. QED  BY <2>1, <2>2, TapeRows DEF Ta!Coverage
<1>2. QED  BY <1>1, TapeAssumed DEF Ta!EffectiveDays, Ta!Larger, Ta!Smaller

\* The figures of a tape, one by one.
Week(rows) == {i \in Ta!Latest(rows) : rows[i].ts >= y1 - 168}

LEMMA Figures ==
  ASSUME NEW rows
  PROVE  LET l == Ta!Liquidity(rows)
             m == Ta!Median(Ta!PricesOf(rows, Ta!Latest(rows)))
         IN  /\ l.sales = Cardinality(Ta!Latest(rows)) /\ l.median = m
             /\ l.turnover = IF Ta!Latest(rows) = {} THEN 0
                             ELSE (1000 * Cardinality(Ta!Latest(rows))) \div Cardinality(Ta!Printed(rows))
             /\ l.mad = Ta!MedianAbsDev(Ta!PricesOf(rows, Ta!Latest(rows)), m)
             /\ l.median7 = IF Cardinality(Week(rows)) >= 3 THEN Ta!Median(Ta!PricesOf(rows, Week(rows))) ELSE m
             /\ l.velocity = (2400 * Cardinality(Ta!Latest(rows))) \div Ta!EffectiveDays
BY TapeCounts DEF Ta!Liquidity, Week

\* Rows in no more places than the tape has.
LEMMA Held ==
  ASSUME TapeHolds, part = "tape", NEW rows, Rows(rows), NEW out, Likewise(rows, out)
  PROVE  /\ Ta!Latest(out) \subseteq Ta!Printed(out) /\ Ta!Printed(out) \subseteq DOMAIN rows
         /\ IsFiniteSet(Ta!Latest(out)) /\ IsFiniteSet(Ta!Printed(out))
         /\ Cardinality(Ta!Latest(out)) \in Nat /\ Cardinality(Ta!Printed(out)) \in Nat
<1>1. Ta!Latest(out) \subseteq Ta!Printed(out) /\ Ta!Printed(out) \subseteq DOMAIN rows
  BY Prints, LatestOf
<1>2. IsFiniteSet(DOMAIN rows)
  BY DEF Rows
<1>3. QED  BY <1>1, <1>2, Counting

LEMMA PeersLend ==
  ASSUME TapeHolds, part = "tape"
  PROVE  Ta!PeersLendBounded
<1> DEFINE out == Ta!NormalizeSales(y2)
           l   == Ta!Liquidity(out)
<1>1. Likewise(y2, out) /\ Rows(y2)
  BY TapeRows, Normalized
<1> HIDE DEF out
<1>2. l.sales \in Nat /\ l.velocity \in Nat
  <2>1. Cardinality(Ta!Latest(out)) \in Nat
    BY <1>1, Held
  <2>2. QED  BY <2>1, Figures, DaysPositive
<1>3. Ta!PerModel \in Nat
  <2>1. y4.sales \in Nat /\ y4.models \in Nat
    BY TapeAssumed DEF TapeHolds
  <2>2. CASE y4.sales < 20 \/ y4.models < 4
    BY <2>2 DEF Ta!PerModel
  <2>3. CASE ~(y4.sales < 20 \/ y4.models < 4)
    <3>1. y4.models * Ta!EffectiveDays \in Nat \ {0}
      BY <2>1, <2>3, DaysPositive
    <3>2. 2400 * y4.sales \in Nat
      BY <2>1
    <3>3. QED  BY <2>3, <3>1, <3>2, Quotient DEF Ta!PerModel
  <2>4. QED  BY <2>2, <2>3
<1> DEFINE b == (l.sales * l.velocity + 6 * Ta!PerModel) \div (l.sales + 6)
<1>4. b \in Int
  <2>1. l.sales * l.velocity + 6 * Ta!PerModel \in Int /\ l.sales + 6 \in Nat \ {0}
    BY <1>2, <1>3
  <2>2. QED  BY <2>1, Quotient
<1>5. Ta!WithPeerSupport(l) = IF Ta!PerModel = 0 \/ l.velocity = 0 \/ l.sales < 2 THEN l.velocity
                              ELSE Ta!Larger(l.velocity, Ta!Smaller(b, 3 * l.velocity))
  BY DEF Ta!WithPeerSupport
<1> HIDE DEF b, l
<1>6. /\ Ta!WithPeerSupport(l) >= l.velocity /\ Ta!WithPeerSupport(l) <= 3 * l.velocity
      /\ l.sales < 2 => Ta!WithPeerSupport(l) = l.velocity
  BY <1>2, <1>4, <1>5 DEF Ta!Larger, Ta!Smaller
<1>7. QED  BY <1>6 DEF Ta!PeersLendBounded, l, out

LEMMA RatesMild ==
  ASSUME TapeHolds, part = "tape"
  PROVE  Ta!RateIsMild
<1> DEFINE out == Ta!NormalizeSales(y2)
           raw == Ta!Liquidity(y2)
           fx  == Ta!Liquidity(out)
<1>1. Likewise(y2, out) /\ Likewise(y2, y2) /\ Rows(y2)
  BY TapeRows, Normalized, ItselfLikewise
<1> HIDE DEF out
<1>2. Ta!Printed(out) = Ta!Printed(y2)
  BY <1>1, Prints
<1>3. Ta!Latest(out) = Ta!Latest(y2)
  BY <1>1, <1>2, LatestOf
<1>4. Week(out) = Week(y2) /\ Week(y2) \subseteq Ta!Latest(y2) /\ Ta!Latest(y2) \subseteq DOMAIN y2
  <2>1. Ta!Latest(y2) \subseteq DOMAIN y2
    BY <1>1, Held
  <2>2. \A i \in DOMAIN y2 : out[i].ts = y2[i].ts
    BY <1>1 DEF Likewise
  <2>3. QED  BY <1>3, <2>1, <2>2 DEF Week
<1> DEFINE I == Ta!Latest(y2)
           W == Week(y2)
           m(rows, J) == Ta!Median(Ta!PricesOf(rows, J))
<1>5. /\ raw.median = m(y2, I) /\ raw.median7 = IF Cardinality(W) >= 3 THEN m(y2, W) ELSE m(y2, I)
      /\ fx.median = m(out, I) /\ fx.median7 = IF Cardinality(W) >= 3 THEN m(out, W) ELSE m(out, I)
  BY <1>3, <1>4, Figures
<1>6. /\ I \subseteq DOMAIN y2 /\ W \subseteq DOMAIN y2
  BY <1>4
<1> HIDE DEF I, W
<1>7. \A J \in {I, W} : 100 * m(out, J) >= 95 * m(y2, J) - 150 /\ 100 * m(out, J) <= 105 * m(y2, J) + 52
  BY <1>1, <1>6, MediansMild
<1> HIDE DEF m, raw, fx
<1>8. /\ 100 * fx.median >= 95 * raw.median - 150 /\ 100 * fx.median <= 105 * raw.median + 52
      /\ 100 * fx.median7 >= 95 * raw.median7 - 150 /\ 100 * fx.median7 <= 105 * raw.median7 + 52
  BY <1>5, <1>7
<1>9. QED  BY <1>8 DEF Ta!RateIsMild, raw, fx, out

\* The newest sale of every gift, with and without the hops before it.
LEMMA HopsAside ==
  ASSUME TapeHolds, part = "tape", NEW out, Likewise(y2, out), NEW once, Likewise(Ta!Settled, once)
  PROVE  Ta!Latest(once) = Ta!Latest(out)
<1> DEFINE ph(i) == Ta!Physical(y2[i].gift)
           kept  == Ta!Settled
<1>1. Ta!Kept = {i \in DOMAIN y2 : ~\E j \in DOMAIN y2 : j > i /\ ph(j) = ph(i)}
  BY DEF Ta!Kept, Ta!Onward
<1>2. /\ DOMAIN kept = Ta!Kept /\ \A i \in Ta!Kept : kept[i] = y2[i]
  BY DEF Ta!Settled
<1>3. Rows(y2) /\ Rows(kept)
  <2>1. Rows(y2)
    BY TapeRows
  <2>2. IsFiniteSet(Ta!Kept)
    BY <1>1, <2>1, FS_Subset DEF Rows
  <2>3. QED  BY <1>1, <1>2, <2>1, <2>2 DEF Rows
<1> HIDE DEF kept
<1>4. Likewise(kept, once)
  BY DEF kept
<1>5. /\ Ta!Printed(out) = {i \in DOMAIN y2 : y2[i].ts >= y1 - Window /\ ph(i) # 0}
      /\ Ta!Printed(once) = {i \in Ta!Kept : y2[i].ts >= y1 - Window /\ ph(i) # 0}
  BY <1>2, <1>3, <1>4, Prints
<1>6. /\ Ta!Latest(out) = {i \in Ta!Printed(out) : \A j \in Ta!Printed(out) : ph(j) = ph(i) => y2[j].ts <= y2[i].ts}
      /\ Ta!Latest(once) = {i \in Ta!Printed(once) : \A j \in Ta!Printed(once) : ph(j) = ph(i) => y2[j].ts <= y2[i].ts}
  <2>1. Ta!Latest(out) = {i \in Ta!Printed(out) : \A j \in Ta!Printed(out) : ph(j) = ph(i) => y2[j].ts <= y2[i].ts}
    BY <1>3, LatestOf
  <2>2. Ta!Latest(once) = {i \in Ta!Printed(once) : \A j \in Ta!Printed(once) :
                             Ta!Physical(kept[j].gift) = Ta!Physical(kept[i].gift) => kept[j].ts <= kept[i].ts}
    BY <1>3, <1>4, LatestOf
  <2>3. QED  BY <1>2, <1>5, <2>1, <2>2
<1>7. /\ \A i, j \in DOMAIN y2 : i < j => y2[i].ts < y2[j].ts
      /\ \A i \in DOMAIN y2 : y2[i].ts \in Nat /\ i \in Nat
      /\ y1 - Window \in Int
  BY TapeRows, TapeAssumed DEF TapeHolds
<1> HIDE DEF ph
<1>8. ASSUME NEW i \in Ta!Latest(out) PROVE i \in Ta!Latest(once)
  <2>1. i \in Ta!Printed(out) /\ i \in DOMAIN y2 /\ y2[i].ts >= y1 - Window /\ ph(i) # 0
        /\ \A j \in Ta!Printed(out) : ph(j) = ph(i) => y2[j].ts <= y2[i].ts
    BY <1>5, <1>6, <1>8
  <2>2. ASSUME NEW j \in DOMAIN y2, j > i, ph(j) = ph(i) PROVE FALSE
    <3>1. y2[i].ts < y2[j].ts
      BY <1>7, <2>1, <2>2
    <3>2. j \in Ta!Printed(out)
      <4>1. y2[j].ts >= y1 - Window
        BY <1>7, <2>1, <3>1
      <4>2. QED  BY <1>5, <2>1, <2>2, <4>1
    <3>3. QED  BY <1>7, <2>1, <2>2, <3>1, <3>2
  <2>3. i \in Ta!Printed(once)
    BY <1>1, <1>5, <2>1, <2>2
  <2>4. Ta!Printed(once) \subseteq Ta!Printed(out)
    BY <1>1, <1>5
  <2>5. QED  BY <1>6, <2>1, <2>3, <2>4
<1>9. ASSUME NEW i \in Ta!Latest(once) PROVE i \in Ta!Latest(out)
  <2>1. i \in Ta!Kept /\ i \in DOMAIN y2 /\ i \in Ta!Printed(out)
    BY <1>1, <1>5, <1>6, <1>9
  <2>2. ASSUME NEW j \in Ta!Printed(out), ph(j) = ph(i) PROVE y2[j].ts <= y2[i].ts
    <3>1. j \in DOMAIN y2 /\ ~(j > i)
      BY <1>1, <1>5, <2>1, <2>2
    <3>2. QED  BY <1>7, <2>1, <3>1
  <2>3. QED  BY <1>6, <2>1, <2>2
<1>10. QED  BY <1>8, <1>9

LEMMA FlipsAside ==
  ASSUME TapeHolds, part = "tape"
  PROVE  Ta!FlipsMoveNothing
<1> DEFINE kept == Ta!Settled
           out  == Ta!NormalizeSales(y2)
           once == Ta!NormalizeSales(kept)
           full == Ta!Liquidity(out)
           less == Ta!Liquidity(once)
           I    == Ta!Latest(out)
<1>1. /\ Ta!Kept \subseteq DOMAIN y2 /\ DOMAIN kept = Ta!Kept /\ \A i \in Ta!Kept : kept[i] = y2[i]
  BY DEF Ta!Kept, Ta!Settled
<1>2. Rows(y2) /\ Rows(kept)
  <2>1. Rows(y2)
    BY TapeRows
  <2>2. IsFiniteSet(Ta!Kept)
    BY <1>1, <2>1, FS_Subset DEF Rows
  <2>3. QED  BY <1>1, <2>1, <2>2 DEF Rows
<1>3. \A i \in Ta!Kept : once[i] = out[i]
  BY <1>1 DEF Ta!NormalizeSales
<1>4. Likewise(y2, out) /\ Likewise(Ta!Settled, once)
  BY <1>2, Normalized
<1>5. Ta!Latest(once) = I /\ I \subseteq Ta!Kept
  <2>1. Ta!Latest(once) = I
    BY <1>4, HopsAside
  <2>2. Ta!Latest(once) \subseteq Ta!Kept
    BY <1>1, <1>2, <1>4, Held
  <2>3. QED  BY <2>1, <2>2
<1> HIDE DEF kept, out, once
<1>6. Week(once) = Week(out) /\ Week(out) \subseteq I
  BY <1>3, <1>5 DEF Week
<1>7. \A J \in SUBSET I : Ta!PricesOf(once, J) = Ta!PricesOf(out, J)
  BY <1>3, <1>5 DEF Ta!PricesOf
<1>8. full.velocity = less.velocity /\ full.median = less.median /\ full.mad = less.mad /\ full.median7 = less.median7
  BY <1>5, <1>6, <1>7, Figures
<1>9. ASSUME NEW i \in DOMAIN y2, Ta!Onward(i), Ta!Physical(y2[i].gift) # 0, y2[i].ts >= y1 - Window
      PROVE  full.turnover < 1000
  <2>1. i \in Ta!Printed(out) /\ i \notin I
    <3>1. i \in Ta!Printed(out)
      BY <1>2, <1>4, <1>9, Prints
    <3>2. i \notin Ta!Kept
      BY <1>9 DEF Ta!Kept
    <3>3. QED  BY <1>5, <3>1, <3>2
  <2> DEFINE n == Cardinality(I)
             m == Cardinality(Ta!Printed(out))
  <2>2. n \in Nat /\ m \in Nat /\ n < m
    <3>1. I \subseteq Ta!Printed(out) /\ IsFiniteSet(Ta!Printed(out)) /\ n \in Nat /\ m \in Nat
      BY <1>2, <1>4, Held
    <3>2. I \in SUBSET Ta!Printed(out) /\ I # Ta!Printed(out)
      BY <2>1, <3>1
    <3> HIDE DEF I
    <3>3. n <= m /\ n # m
      BY <3>1, <3>2, FS_Subset
    <3>4. QED  BY <3>1, <3>3
  <2>3. full.turnover = IF I = {} THEN 0 ELSE (1000 * n) \div m
    BY Figures
  <2> HIDE DEF n, m, full, I
  <2>4. (1000 * n) \div m < 1000
    <3> DEFINE q == (1000 * n) \div m
    <3>1. 1000 * n \in Nat /\ m \in Nat \ {0}
      BY <2>2
    <3>2. q \in Int /\ m * q <= 1000 * n
      BY <3>1, Quotient
    <3> HIDE DEF q
    <3>3. SUFFICES ASSUME q >= 1000 PROVE FALSE
      BY <3>2 DEF q
    <3>4. m * 1000 <= m * q /\ m * q \in Nat
      BY <3>1, <3>2, <3>3, Products
    <3>5. QED  BY <2>2, <3>2, <3>4
  <2>5. QED  BY <2>3, <2>4
<1> HIDE DEF full, less, I
<1>10. /\ full.velocity = less.velocity /\ full.median = less.median /\ full.mad = less.mad /\ full.median7 = less.median7
       /\ (\E i \in DOMAIN y2 : Ta!Onward(i) /\ Ta!Physical(y2[i].gift) # 0 /\ y2[i].ts >= y1 - Window)
            => full.turnover < 1000
  BY <1>8, <1>9
<1>11. QED  BY <1>10 DEF Ta!FlipsMoveNothing, full, less, out, once, kept

-----------------------------------------------------------------------------
(* The rules together *)

\* The better listing never loses: neither at the gates, where its improvement
\* may raise the bars it is held against, nor in the ranking; an unattended
\* purchase is a BUY, an invented price stays low, a batch stays spread.
THEOREM RulesBetterNeverLoses == RulesSpec => []BetterNeverLoses
<1>1. RulesInit => GatesJudged /\ ScoreHolds
  BY GatesInit, ScoreStarts
<1>2. GatesJudged /\ ScoreHolds /\ [RulesNext]_<<advars, part, cells>> => (GatesJudged /\ ScoreHolds)'
  BY GatesNext, ScoreSteps
<1>3. GatesJudged /\ ScoreHolds => BetterNeverLoses
  BY GatesJudgedHolds, ScoreRanks DEF BetterNeverLoses
<1>4. QED  BY <1>1, <1>2, <1>3, PTL DEF RulesSpec

\* A gift passed around is one sale, the speed a collection lends is bounded,
\* and the rate of today moves no median by more than five percent, on tapes of
\* any length.
THEOREM RulesTapeIsHonest == RulesSpec => []TapeIsHonest
<1>1. TapeHolds => TapeIsHonest
  BY FlipsAside, PeersLend, RatesMild DEF TapeIsHonest
<1>2. QED  BY <1>1, TapeStarts, TapeSteps, PTL DEF RulesSpec

=============================================================================
