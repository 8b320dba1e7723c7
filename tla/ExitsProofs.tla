---------------------------- MODULE ExitsProofs -----------------------------
(***************************************************************************)
(* Proofs about the valuation (Exits) and the advice it leads to (Advice). *)
(***************************************************************************)
EXTENDS MCRules, FiniteSetTheorems, WellFoundedInduction, SequenceTheorems, TLAPS

-----------------------------------------------------------------------------
(* What a pass over a valuation reads of it *)

Fields ==
  {"cost", "regime", "cross", "support", "valid", "reason", "competing", "liveDepth", "liveCount", "capped",
   "below", "undercuts", "aboveMarket", "fromCross", "unpriced", "walkaway", "venue", "liquidation", "basis",
   "divergence", "disagree", "crossDivergence", "invented", "crossNear", "crossBelow", "implausible",
   "fill", "patientFill", "exits", "weights", "history", "fair", "fast", "patient", "net", "edge", "near",
   "cheaper", "days", "patientDays"}

Given   == {"cost", "cross", "support"}

\* What resetDerived leaves of an earlier pass, in the order it is written again.
Blended == {"weights", "history"}
Priced  == {"fair", "fast"}
Laddered == {"patient"}
Settled == {"net", "edge", "near", "cheaper", "days", "patientDays"}
Reset   == Fields \ (Blended \cup Priced \cup Laddered \cup Settled)

Shape(v) == v = [f \in Fields |-> v[f]]

\* Two valuations that tell the same in the fields F.
Agree(v, w, F) == Shape(v) /\ Shape(w) /\ F \subseteq Fields /\ \A f \in F : v[f] = w[f]

LEMMA BlankShape == \A in, cm : Shape(Blank(in, cm))
BY DEF Blank, Shape, Fields

LEMMA Put ==
  ASSUME NEW v, NEW w, NEW F, NEW a \in Fields, NEW x, Agree(v, w, F)
  PROVE  Agree([v EXCEPT ![a] = x], [w EXCEPT ![a] = x], F \cup {a})
<1>1. DOMAIN v = Fields /\ DOMAIN w = Fields
  BY DEF Agree, Shape
<1>2. /\ [v EXCEPT ![a] = x] = [f \in Fields |-> IF f = a THEN x ELSE v[f]]
      /\ [w EXCEPT ![a] = x] = [f \in Fields |-> IF f = a THEN x ELSE w[f]]
  BY <1>1
<1>3. Shape([v EXCEPT ![a] = x]) /\ Shape([w EXCEPT ![a] = x])
  BY <1>2 DEF Shape
<1>4. QED  BY <1>2, <1>3 DEF Agree

LEMMA PutTwo ==
  ASSUME NEW v, NEW w, NEW F, NEW a \in Fields, NEW x, NEW b \in Fields, NEW y, Agree(v, w, F)
  PROVE  Agree([v EXCEPT ![a] = x, ![b] = y], [w EXCEPT ![a] = x, ![b] = y], F \cup {a, b})
<1>1. Agree([v EXCEPT ![a] = x], [w EXCEPT ![a] = x], F \cup {a})
  BY Put
<1>2. Agree([v EXCEPT ![a] = x, ![b] = y], [w EXCEPT ![a] = x, ![b] = y], (F \cup {a}) \cup {b})
  BY <1>1, Put
<1>3. F \cup {a, b} = (F \cup {a}) \cup {b}
  OBVIOUS
<1>4. QED  BY <1>2, <1>3

LEMMA PutFour ==
  ASSUME NEW v, NEW w, NEW F, NEW a \in Fields, NEW x, NEW b \in Fields, NEW y,
         NEW c \in Fields, NEW z, NEW d \in Fields, NEW u, Agree(v, w, F)
  PROVE  Agree([v EXCEPT ![a] = x, ![b] = y, ![c] = z, ![d] = u],
               [w EXCEPT ![a] = x, ![b] = y, ![c] = z, ![d] = u], F \cup {a, b, c, d})
<1>1. Agree([v EXCEPT ![a] = x, ![b] = y], [w EXCEPT ![a] = x, ![b] = y], F \cup {a, b})
  BY PutTwo
<1>2. Agree([v EXCEPT ![a] = x, ![b] = y, ![c] = z, ![d] = u],
            [w EXCEPT ![a] = x, ![b] = y, ![c] = z, ![d] = u], (F \cup {a, b}) \cup {c, d})
  BY <1>1, PutTwo
<1>3. F \cup {a, b, c, d} = (F \cup {a, b}) \cup {c, d}
  OBVIOUS
<1>4. QED  BY <1>2, <1>3

LEMMA ResetFields ==
  /\ Reset = {"cost", "regime", "cross", "support", "valid", "reason", "competing", "liveDepth", "liveCount", "capped",
              "below", "undercuts", "aboveMarket", "fromCross", "unpriced", "walkaway", "venue", "liquidation", "basis",
              "divergence", "disagree", "crossDivergence", "invented", "crossNear", "crossBelow", "implausible",
              "fill", "patientFill", "exits"}
  /\ Reset \subseteq Fields /\ Given \subseteq Reset
  /\ Blended \subseteq Fields /\ Priced \subseteq Fields /\ Laddered \subseteq Fields /\ Settled \subseteq Fields
BY DEF Reset, Fields, Given, Blended, Priced, Laddered, Settled

\* Less agrees too.
LEMMA Weaker ==
  ASSUME NEW v, NEW w, NEW F, NEW G, Agree(v, w, F), G \subseteq F
  PROVE  Agree(v, w, G)
BY DEF Agree

LEMMA ResetAgrees ==
  ASSUME NEW v, NEW w, Agree(v, w, Given)
  PROVE  Agree(ResetDerived(v), ResetDerived(w), Reset \ {"reason", "regime"})
<1>1. DOMAIN v = Fields /\ DOMAIN w = Fields
  BY DEF Agree, Shape
<1>2. Shape(ResetDerived(v)) /\ Shape(ResetDerived(w))
  BY <1>1, ZenonT(60) DEF ResetDerived, Shape
<1>3. v.cost = w.cost /\ v.cross = w.cross /\ v.support = w.support
  BY DEF Agree, Given
<1> DEFINE a == ResetDerived(v)
           b == ResetDerived(w)
<1>4. a.cost = b.cost /\ a.cross = b.cross /\ a.support = b.support
  BY <1>1, <1>3 DEF ResetDerived, Fields
<1>5. /\ a.valid = b.valid /\ a.competing = b.competing /\ a.liveDepth = b.liveDepth
      /\ a.liveCount = b.liveCount /\ a.capped = b.capped /\ a.below = b.below
      /\ a.undercuts = b.undercuts /\ a.aboveMarket = b.aboveMarket /\ a.fromCross = b.fromCross
      /\ a.unpriced = b.unpriced /\ a.walkaway = b.walkaway /\ a.venue = b.venue
  BY <1>1 DEF ResetDerived, Fields
<1>6. /\ a.liquidation = b.liquidation /\ a.basis = b.basis /\ a.divergence = b.divergence
      /\ a.disagree = b.disagree /\ a.crossDivergence = b.crossDivergence /\ a.invented = b.invented
      /\ a.crossNear = b.crossNear /\ a.crossBelow = b.crossBelow /\ a.implausible = b.implausible
      /\ a.fill = b.fill /\ a.patientFill = b.patientFill /\ a.exits = b.exits
  BY <1>1 DEF ResetDerived, Fields
<1> HIDE DEF a, b
<1>7. \A f \in Reset \ {"reason", "regime"} : a[f] = b[f]
  BY <1>4, <1>5, <1>6 DEF Reset, Fields, Blended, Priced, Laddered, Settled
<1>8. QED  BY <1>2, <1>7, ResetFields DEF Agree, a, b

LEMMA BookAgrees ==
  ASSUME NEW v, NEW w, NEW in, NEW F, Agree(v, w, F), Reset \subseteq F
  PROVE  Agree(ReadLocalBook(v, in), ReadLocalBook(w, in), F)
<1>1. CASE in.asks = <<>>
  BY <1>1 DEF ReadLocalBook
<1>2. CASE in.asks # <<>>
  <2> DEFINE trusted == ContiguousDepth(in.asks)
             median  == MedianFirst(in.asks, trusted)
             lid     == PerMille(in.asks[1], 1200)
             depth   == IF Len(in.asks) >= 2 THEN Lower(median, lid) ELSE 0
             capped  == Len(in.asks) >= 2 /\ (trusted < Lower(3, Len(in.asks)) \/ median > lid)
             Taken(u) == [u EXCEPT !.competing = in.asks[1], !.liveCount = trusted, !.liveDepth = depth, !.capped = capped]
  <2>1. ReadLocalBook(v, in) = Taken(v) /\ ReadLocalBook(w, in) = Taken(w)
    BY <1>2 DEF ReadLocalBook
  <2> HIDE DEF trusted, median, lid, depth, capped
  <2>2. {"competing", "liveCount", "liveDepth", "capped"} \subseteq Reset /\ Reset \subseteq Fields
    BY ResetFields
  <2>3. Agree(Taken(v), Taken(w), F \cup {"competing", "liveCount", "liveDepth", "capped"})
    BY <2>2, PutFour
  <2>4. QED  BY <2>1, <2>2, <2>3, Weaker
<1>3. QED  BY <1>1, <1>2

\* The two halves of ScreenCross.
Unsupported(u) == [u EXCEPT !.implausible = TRUE, !.support = 0, !.cross.support = 0]
Rid(u, low) == [u EXCEPT !.implausible = TRUE, !.cross = FillBuyerCosts(Screened(u.cross, low))]

LEMMA ScreenAgrees ==
  ASSUME NEW v, NEW w, NEW in, NEW F, Agree(v, w, F), Reset \subseteq F
  PROVE  Agree(ScreenCross(v, in), ScreenCross(w, in), F)
<1>1. /\ v.cross = w.cross /\ v.support = w.support /\ v.competing = w.competing /\ v.cost = w.cost
      /\ {"implausible", "support", "cross"} \subseteq F /\ F \subseteq Fields
  BY ResetFields DEF Agree
<1> DEFINE anchor    == ExecutableAnchor(v, in)
           low       == Cardinality({i \in DOMAIN v.cross.asks : 10 * v.cross.asks[i] < 4 * anchor})
           plausible == PlausibleCross(v.support, anchor)
           First(u)  == IF plausible THEN u ELSE Unsupported(u)
           Then(u)   == IF anchor <= 0 THEN u ELSE IF low = 0 THEN First(u) ELSE Rid(First(u), low)
<1>2. ScreenCross(v, in) = Then(v)
  BY DEF ScreenCross, Rid, Unsupported
<1>3. ScreenCross(w, in) = Then(w)
  <2>1. ExecutableAnchor(w, in) = anchor
    BY <1>1 DEF ExecutableAnchor
  <2>2. PlausibleCross(w.support, anchor) = plausible /\ w.cross.asks = v.cross.asks
    BY <1>1
  <2> HIDE DEF anchor
  <2>3. QED  BY <2>1, <2>2 DEF ScreenCross, Rid, Unsupported
<1> HIDE DEF anchor, low, plausible
<1>4. Agree(Unsupported(v), Unsupported(w), F)
  <2> DEFINE none == [v.cross EXCEPT !.support = 0]
             Part(u) == [u EXCEPT !.implausible = TRUE, !.support = 0]
             To(u) == [u EXCEPT !.implausible = TRUE, !.support = 0, !.cross = none]
  <2>1. Shape(v) /\ Shape(w) /\ DOMAIN v = Fields /\ DOMAIN w = Fields
    BY DEF Agree, Shape
  <2>2. Unsupported(v) = To(v) /\ Unsupported(w) = To(w)
    BY <1>1, <2>1 DEF Unsupported, Fields
  <2> HIDE DEF none
  <2>3. Agree(Part(v), Part(w), F \cup {"implausible", "support"})
    BY <1>1, PutTwo
  <2>4. Agree(To(v), To(w), (F \cup {"implausible", "support"}) \cup {"cross"})
    BY <1>1, <2>3, Put
  <2>5. QED  BY <2>2, <2>4, Weaker
<1>5. Agree(First(v), First(w), F)
  BY <1>4
<1>6. First(v).cross = First(w).cross
  BY <1>1, <1>5 DEF Agree
<1> HIDE DEF First
<1>7. Agree(Rid(First(v), low), Rid(First(w), low), F)
  <2> DEFINE x     == FillBuyerCosts(Screened(First(v).cross, low))
             To(u) == [u EXCEPT !.implausible = TRUE, !.cross = x]
  <2>1. Rid(First(v), low) = To(First(v)) /\ Rid(First(w), low) = To(First(w))
    BY <1>6 DEF Rid
  <2> HIDE DEF x
  <2>2. Agree(To(First(v)), To(First(w)), F \cup {"implausible", "cross"})
    BY <1>1, <1>5, PutTwo
  <2>3. QED  BY <2>1, <2>2, <1>1, Weaker
<1>8. QED  BY <1>2, <1>3, <1>5, <1>7

-----------------------------------------------------------------------------
(* What a stage writes *)

\* s tells the same as u except perhaps in the fields W.
Writes(u, s, W) == Agree(u, s, Fields \ W)

LEMMA Written ==
  ASSUME NEW v, NEW w, NEW s, NEW t, NEW F, NEW W, Agree(v, w, F), Writes(v, s, W), Writes(w, t, W),
         W \subseteq Fields, \A f \in W : s[f] = t[f]
  PROVE  Agree(s, t, F \cup W)
BY DEF Agree, Writes

LEMMA WalkawayWrites ==
  ASSUME NEW u, NEW in, Shape(u)
  PROVE  Writes(u, ReadWalkaway(u, in), {"below", "undercuts", "walkaway", "venue"})
<1>1. DOMAIN u = Fields
  BY DEF Shape
<1> DEFINE a == u.below + Below(in.asks \o u.cross.asks, u.cost)
           b == u.undercuts + Below(in.asks \o u.cross.asks, PerMille(u.cost, 950))
           best == TonnelEquivalent(u.cross.best)
           outside == best > 0 /\ (u.competing <= 0 \/ best < u.competing)
           c == IF outside THEN best ELSE u.competing
           d == IF outside THEN "venues" ELSE IF c > 0 THEN "Tonnel" ELSE "none"
<1>2. ReadWalkaway(u, in) = [u EXCEPT !.below = a, !.undercuts = b, !.walkaway = c, !.venue = d]
  BY <1>1 DEF ReadWalkaway, Fields
<1> HIDE DEF a, b, c, d
<1>3. QED  BY <1>1, <1>2 DEF Writes, Agree, Shape

LEMMA WalkawayAgrees ==
  ASSUME NEW v, NEW w, NEW in, NEW F, Agree(v, w, F), Reset \subseteq F
  PROVE  Agree(ReadWalkaway(v, in), ReadWalkaway(w, in), F)
<1> DEFINE W == {"below", "undercuts", "walkaway", "venue"}
           s == ReadWalkaway(v, in)
           t == ReadWalkaway(w, in)
<1>1. W \subseteq Reset /\ W \subseteq Fields
  BY ResetFields
<1>2. Writes(v, s, W) /\ Writes(w, t, W)
  BY WalkawayWrites DEF Agree
<1>3. DOMAIN v = Fields /\ DOMAIN w = Fields
  BY DEF Agree, Shape
<1>4. /\ v.below = w.below /\ v.undercuts = w.undercuts /\ v.cross = w.cross
      /\ v.cost = w.cost /\ v.competing = w.competing
  BY ResetFields DEF Agree
<1>5. s.below = t.below /\ s.undercuts = t.undercuts /\ s.walkaway = t.walkaway /\ s.venue = t.venue
  BY <1>3, <1>4 DEF ReadWalkaway, Fields
<1> HIDE DEF s, t
<1>6. Agree(s, t, F \cup W)
  BY <1>1, <1>2, <1>5, Written
<1>7. QED  BY <1>6, Weaker DEF s, t

LEMMA LiquidationWrites ==
  ASSUME NEW u, NEW in, Shape(u)
  PROVE  Writes(u, SetLiquidation(u, in), {"liquidation", "basis"})
<1>1. DOMAIN u = Fields
  BY DEF Shape
<1> DEFINE floor == IF u.walkaway > 0 THEN u.walkaway ELSE in.floor
           under == PerMille(floor, 1000 - Undercut)
           tape  == u.liveCount < 2 /\ in.median > 0 /\ in.median < under
           a == IF tape THEN in.median ELSE under
           b == IF tape THEN "history" ELSE IF u.venue = "venues" THEN "venues" ELSE "book"
<1>2. SetLiquidation(u, in) = IF floor <= 0 THEN u ELSE [u EXCEPT !.liquidation = a, !.basis = b]
  BY <1>1 DEF SetLiquidation, Fields
<1> HIDE DEF floor, a, b
<1>3. QED  BY <1>1, <1>2 DEF Writes, Agree, Shape

LEMMA LiquidationAgrees ==
  ASSUME NEW v, NEW w, NEW in, NEW F, Agree(v, w, F), Reset \subseteq F
  PROVE  Agree(SetLiquidation(v, in), SetLiquidation(w, in), F)
<1> DEFINE W == {"liquidation", "basis"}
           s == SetLiquidation(v, in)
           t == SetLiquidation(w, in)
<1>1. W \subseteq Reset /\ W \subseteq Fields
  BY ResetFields
<1>2. Writes(v, s, W) /\ Writes(w, t, W)
  BY LiquidationWrites DEF Agree
<1>3. DOMAIN v = Fields /\ DOMAIN w = Fields
  BY DEF Agree, Shape
<1>4. /\ v.walkaway = w.walkaway /\ v.liveCount = w.liveCount /\ v.venue = w.venue
      /\ v.liquidation = w.liquidation /\ v.basis = w.basis
  BY ResetFields DEF Agree
<1>5. s.liquidation = t.liquidation /\ s.basis = t.basis
  BY <1>3, <1>4 DEF SetLiquidation, Fields
<1> HIDE DEF s, t
<1>6. Agree(s, t, F \cup W)
  BY <1>1, <1>2, <1>5, Written
<1>7. QED  BY <1>6, Weaker DEF s, t

BlendFields == {"reason", "weights", "history", "crossDivergence"}
LEMMA BlendWrites ==
  ASSUME NEW u, NEW in, Shape(u)
  PROVE  Writes(u, BlendWeights(u, in), BlendFields)
<1>1. DOMAIN u = Fields
  BY DEF Shape
<1> DEFINE none == Weights(u, in) = NoWeights
           a == Weights(u, in)
           b == Shrunk(u, in)
           c == IF u.support > 0 /\ u.liveDepth > 0 THEN Apart(u.support, u.liveDepth) ELSE u.crossDivergence
<1>2. BlendWeights(u, in) = IF none THEN [u EXCEPT !.reason = "no support"]
                            ELSE [u EXCEPT !.weights = a, !.history = b, !.crossDivergence = c]
  BY <1>1 DEF BlendWeights, Fields
<1> HIDE DEF none, a, b, c
<1>3. QED  BY <1>1, <1>2 DEF Writes, Agree, Shape, BlendFields

LEMMA BlendAgrees ==
  ASSUME NEW v, NEW w, NEW in, NEW F, Agree(v, w, F), Reset \subseteq F
  PROVE  /\ Agree(BlendWeights(v, in), BlendWeights(w, in), F)
         /\ ~Rejected(BlendWeights(v, in)) => Agree(BlendWeights(v, in), BlendWeights(w, in), F \cup Blended)
<1> DEFINE s == BlendWeights(v, in)
           t == BlendWeights(w, in)
<1>1. /\ {"reason", "crossDivergence"} \subseteq F /\ BlendFields \subseteq Fields /\ "reason" \in Fields
      /\ Shape(v) /\ Shape(w) /\ DOMAIN v = Fields /\ DOMAIN w = Fields
  BY ResetFields DEF BlendFields, Fields, Agree, Shape
<1>2. Writes(v, s, BlendFields) /\ Writes(w, t, BlendFields)
  BY <1>1, BlendWrites
<1>3. /\ v.support = w.support /\ v.liveDepth = w.liveDepth /\ v.regime = w.regime
      /\ v.crossDivergence = w.crossDivergence
  BY ResetFields DEF Agree
<1>4. Weights(v, in) = Weights(w, in)
  BY <1>3 DEF Weights
<1>5. Shrunk(v, in) = Shrunk(w, in)
  BY <1>3, <1>4 DEF Shrunk
<1>6. CASE Weights(v, in) = NoWeights
  <2>1. s = [v EXCEPT !.reason = "no support"] /\ t = [w EXCEPT !.reason = "no support"]
    BY <1>4, <1>6 DEF BlendWeights
  <2> HIDE DEF s, t
  <2>2. Agree(s, t, F \cup {"reason"})
    BY <2>1, <1>1, Put
  <2>3. s.reason = "no support"
    BY <2>1, <1>1
  <2>4. QED  BY <2>2, <2>3, Weaker DEF Rejected, s, t
<1>7. CASE Weights(v, in) # NoWeights
  <2> DEFINE x == Weights(v, in)
             y == Shrunk(v, in)
             z == IF v.support > 0 /\ v.liveDepth > 0 THEN Apart(v.support, v.liveDepth) ELSE v.crossDivergence
  <2>1. /\ s = [v EXCEPT !.weights = x, !.history = y, !.crossDivergence = z]
        /\ t = [w EXCEPT !.weights = x, !.history = y, !.crossDivergence = z]
    BY <1>1, <1>3, <1>4, <1>5, <1>7 DEF BlendWeights, Fields
  <2> HIDE DEF s, t, x, y, z
  <2>2. s.reason = t.reason
    BY <2>1, <1>1, ResetFields DEF Agree, Fields
  <2>3. s.weights = t.weights /\ s.history = t.history /\ s.crossDivergence = t.crossDivergence
    BY <2>1, <1>1 DEF Fields
  <2>4. \A f \in BlendFields : s[f] = t[f]
    BY <2>2, <2>3 DEF BlendFields
  <2>5. Agree(s, t, F \cup BlendFields)
    BY <1>1, <1>2, <2>4, Written
  <2>6. QED  BY <2>5, Weaker DEF Blended, BlendFields, s, t
<1>8. QED  BY <1>6, <1>7

PriceFields == {"fair", "fast", "fromCross", "unpriced", "reason"}
Blend(u, in) ==
  Weighted(<< <<u.liveDepth, u.weights.live>>, <<u.history, u.weights.history>>,
              <<u.support, u.weights.cross>>, <<in.trait, u.weights.trait>> >>)

LEMMA PriceWrites ==
  ASSUME NEW u, NEW in, Shape(u)
  PROVE  Writes(u, PriceExits(u, in), PriceFields)
<1>1. DOMAIN u = Fields
  BY DEF Shape
<1> DEFINE blend  == Blend(u, in)
           over   == DepthCap(u) > 0 /\ blend > DepthCap(u)
           fair   == IF over THEN DepthCap(u) ELSE blend
           fast   == IF u.walkaway > 0 THEN u.liquidation ELSE Higher(fair, u.liquidation)
           abroad == over \/ (u.walkaway > 0 /\ u.basis = "venues")
           unpriced == in.premium /\ abroad /\ ~u.cross.comparable /\ ~HasTraitEvidence(in)
<1>2. PriceExits(u, in) =
        IF fast <= 0 THEN [u EXCEPT !.fair = fair, !.fast = fast, !.fromCross = over, !.reason = "no exit"]
        ELSE [u EXCEPT !.fair = fair, !.fast = fast, !.fromCross = abroad, !.unpriced = unpriced]
  BY DEF PriceExits, Blend
<1> HIDE DEF over, fair, fast, abroad, unpriced
<1>3. QED  BY <1>1, <1>2 DEF Writes, Agree, Shape, PriceFields

LEMMA PriceAgrees ==
  ASSUME NEW v, NEW w, NEW in, NEW F, Agree(v, w, F), Reset \cup Blended \subseteq F
  PROVE  Agree(PriceExits(v, in), PriceExits(w, in), F \cup Priced)
<1> DEFINE s == PriceExits(v, in)
           t == PriceExits(w, in)
<1>1. /\ PriceFields \subseteq F \cup Priced /\ F \cup Priced \subseteq F \cup PriceFields
      /\ PriceFields \subseteq Fields
      /\ Shape(v) /\ Shape(w) /\ DOMAIN v = Fields /\ DOMAIN w = Fields
  BY ResetFields DEF PriceFields, Priced, Fields, Agree, Shape
<1>2. Writes(v, s, PriceFields) /\ Writes(w, t, PriceFields)
  BY <1>1, PriceWrites
<1>3. /\ v.liveDepth = w.liveDepth /\ v.weights = w.weights /\ v.history = w.history
      /\ v.support = w.support /\ v.cross = w.cross /\ v.walkaway = w.walkaway
      /\ v.liquidation = w.liquidation /\ v.basis = w.basis
  BY ResetFields DEF Agree, Blended
<1>4. Blend(v, in) = Blend(w, in) /\ DepthCap(v) = DepthCap(w)
  BY <1>3 DEF Blend, DepthCap
<1> DEFINE blend  == Blend(v, in)
           over   == DepthCap(v) > 0 /\ blend > DepthCap(v)
           fair   == IF over THEN DepthCap(v) ELSE blend
           fast   == IF v.walkaway > 0 THEN v.liquidation ELSE Higher(fair, v.liquidation)
           abroad == over \/ (v.walkaway > 0 /\ v.basis = "venues")
           unpriced == in.premium /\ abroad /\ ~v.cross.comparable /\ ~HasTraitEvidence(in)
           none(u) == [u EXCEPT !.fair = fair, !.fast = fast, !.fromCross = over, !.reason = "no exit"]
           some(u) == [u EXCEPT !.fair = fair, !.fast = fast, !.fromCross = abroad, !.unpriced = unpriced]
<1>5. s = IF fast <= 0 THEN none(v) ELSE some(v)
  BY DEF PriceExits, Blend
<1>6. t = IF fast <= 0 THEN none(w) ELSE some(w)
  BY <1>3, <1>4 DEF PriceExits, Blend
<1>7. {"fair", "fast", "fromCross", "reason", "unpriced"} \subseteq Fields
  BY DEF Fields
<1> HIDE DEF blend, over, fair, fast, abroad, unpriced
<1>8. Agree(none(v), none(w), F \cup {"fair", "fast", "fromCross", "reason"})
  BY <1>7, PutFour
<1>9. Agree(some(v), some(w), F \cup {"fair", "fast", "fromCross", "unpriced"})
  BY <1>7, PutFour
<1>10. F \cup Priced \subseteq F \cup {"fair", "fast", "fromCross", "reason"}
       /\ F \cup Priced \subseteq F \cup {"fair", "fast", "fromCross", "unpriced"}
  BY DEF Priced
<1> HIDE DEF none, some, s, t
<1>11. Agree(s, t, F \cup Priced)
  BY <1>5, <1>6, <1>8, <1>9, <1>10, Weaker
<1>12. QED  BY <1>11 DEF s, t

ClampFields == {"divergence", "disagree", "invented", "fast", "fair", "liquidation", "aboveMarket"}
LEMMA ClampWrites ==
  ASSUME NEW u, NEW in, Shape(u)
  PROVE  Writes(u, ClampToHistory(u, in), ClampFields) /\ Writes(u, ClampOverpriced(u), ClampFields)
<1>1. DOMAIN u = Fields
  BY DEF Shape
<1>2. Writes(u, ClampToHistory(u, in), ClampFields)
  <2> DEFINE med  == RegimeReference(u.regime, in)
             band == PerMille(med, 1350)
             still == med <= 0 \/ in.distinct < 5 \/ u.fast <= band
             a == Apart(med, u.fast)
             b == Lower(u.fair, band)
             c == Lower(u.liquidation, band)
  <2>1. ClampToHistory(u, in) =
          IF still THEN u
          ELSE [u EXCEPT !.divergence = a, !.disagree = TRUE, !.invented = TRUE,
                     !.fast = band, !.fair = b, !.liquidation = c]
    BY <1>1 DEF ClampToHistory, Fields
  <2> HIDE DEF still, band, a, b, c
  <2>2. QED  BY <1>1, <2>1 DEF Writes, Agree, Shape, ClampFields
<1>3. Writes(u, ClampOverpriced(u), ClampFields)
  <2> DEFINE a == IF u.fast > u.cost THEN Higher(u.liquidation, u.cost) ELSE u.fast
             b == u.aboveMarket \/ (u.below >= 1 /\ u.fast <= u.cost)
  <2>1. ClampOverpriced(u) =
          IF u.weights.trait > 0 THEN u
          ELSE IF u.undercuts >= 3 THEN [u EXCEPT !.aboveMarket = TRUE, !.fast = a]
          ELSE [u EXCEPT !.aboveMarket = b]
    BY <1>1 DEF ClampOverpriced, Fields
  <2> HIDE DEF a, b
  <2>2. QED  BY <1>1, <2>1 DEF Writes, Agree, Shape, ClampFields
<1>4. QED  BY <1>2, <1>3

LEMMA ClampAgrees ==
  ASSUME NEW v, NEW w, NEW in, NEW F, Agree(v, w, F), Reset \cup Blended \cup Priced \subseteq F
  PROVE  /\ Agree(ClampToHistory(v, in), ClampToHistory(w, in), F)
         /\ Agree(ClampOverpriced(v), ClampOverpriced(w), F)
<1>1. /\ ClampFields \subseteq F /\ ClampFields \subseteq Fields
      /\ Shape(v) /\ Shape(w) /\ DOMAIN v = Fields /\ DOMAIN w = Fields
  BY ResetFields DEF ClampFields, Priced, Fields, Agree, Shape
<1>2. /\ v.regime = w.regime /\ v.fast = w.fast /\ v.fair = w.fair /\ v.liquidation = w.liquidation
      /\ v.divergence = w.divergence /\ v.disagree = w.disagree /\ v.invented = w.invented
      /\ v.aboveMarket = w.aboveMarket /\ v.cost = w.cost /\ v.undercuts = w.undercuts
      /\ v.below = w.below /\ v.weights = w.weights
  BY ResetFields DEF Agree, Blended, Priced
<1>3. Agree(ClampToHistory(v, in), ClampToHistory(w, in), F)
  <2> DEFINE s == ClampToHistory(v, in)
             t == ClampToHistory(w, in)
  <2>1. Writes(v, s, ClampFields) /\ Writes(w, t, ClampFields)
    BY <1>1, ClampWrites
  <2>2. s.divergence = t.divergence /\ s.disagree = t.disagree /\ s.invented = t.invented
    <3> DEFINE still == RegimeReference(v.regime, in) <= 0 \/ in.distinct < 5
                        \/ v.fast <= PerMille(RegimeReference(v.regime, in), 1350)
    <3>1. CASE still
      <4>1. s = v /\ t = w
        BY <1>2, <3>1 DEF ClampToHistory
      <4>2. QED  BY <1>2, <4>1
    <3>2. CASE ~still
      <4>1. /\ s.divergence = Apart(RegimeReference(v.regime, in), v.fast)
            /\ t.divergence = Apart(RegimeReference(w.regime, in), w.fast)
        BY <1>1, <1>2, <3>2 DEF ClampToHistory, Fields
      <4>2. s.disagree = TRUE /\ t.disagree = TRUE /\ s.invented = TRUE /\ t.invented = TRUE
        BY <1>1, <1>2, <3>2 DEF ClampToHistory, Fields
      <4>3. QED  BY <1>2, <4>1, <4>2
    <3>3. QED  BY <3>1, <3>2
  <2>3. s.fast = t.fast /\ s.fair = t.fair
    BY <1>1, <1>2 DEF ClampToHistory, Fields
  <2>4. s.liquidation = t.liquidation /\ s.aboveMarket = t.aboveMarket
    BY <1>1, <1>2 DEF ClampToHistory, Fields
  <2> HIDE DEF s, t
  <2>5. \A f \in ClampFields : s[f] = t[f]
    BY <2>2, <2>3, <2>4 DEF ClampFields
  <2>6. Agree(s, t, F \cup ClampFields)
    BY <1>1, <2>1, <2>5, Written
  <2>7. QED  BY <2>6, Weaker DEF s, t
<1>4. Agree(ClampOverpriced(v), ClampOverpriced(w), F)
  <2> DEFINE s == ClampOverpriced(v)
             t == ClampOverpriced(w)
  <2>1. Writes(v, s, ClampFields) /\ Writes(w, t, ClampFields)
    BY <1>1, ClampWrites
  <2>2. /\ s.divergence = t.divergence /\ s.disagree = t.disagree /\ s.invented = t.invented
        /\ s.fast = t.fast /\ s.fair = t.fair /\ s.liquidation = t.liquidation /\ s.aboveMarket = t.aboveMarket
    BY <1>1, <1>2 DEF ClampOverpriced, Fields
  <2> HIDE DEF s, t
  <2>3. \A f \in ClampFields : s[f] = t[f]
    BY <2>2 DEF ClampFields
  <2>4. Agree(s, t, F \cup ClampFields)
    BY <1>1, <2>1, <2>3, Written
  <2>5. QED  BY <2>4, Weaker DEF s, t
<1>5. QED  BY <1>3, <1>4

LEMMA LadderWrites ==
  ASSUME NEW u, NEW in, Shape(u)
  PROVE  Writes(u, BuildLadder(u, in), {"patient"})
<1>1. DOMAIN u = Fields
  BY DEF Shape
<1> DEFINE first  == Higher(u.fast, PerMille(u.fair, 1015))
           second == IF HasTraitEvidence(in) /\ in.comparable > 0
                THEN Higher(Higher(u.fast, u.fair), Lower(first, PerMille(in.comparable, 1000 - Undercut)))
                ELSE first
           third  == IF DepthCap(u) > 0 THEN Higher(u.fast, Lower(second, DepthCap(u))) ELSE second
<1>2. BuildLadder(u, in) = [u EXCEPT !.patient = third]
  BY DEF BuildLadder
<1> HIDE DEF third
<1>3. QED  BY <1>1, <1>2 DEF Writes, Agree, Shape

LEMMA LadderAgrees ==
  ASSUME NEW v, NEW w, NEW in, NEW F, Agree(v, w, F), Reset \cup Blended \cup Priced \subseteq F
  PROVE  Agree(BuildLadder(v, in), BuildLadder(w, in), F \cup Laddered)
<1> DEFINE s == BuildLadder(v, in)
           t == BuildLadder(w, in)
<1>1. /\ Laddered = {"patient"} /\ Laddered \subseteq Fields
      /\ Shape(v) /\ Shape(w) /\ DOMAIN v = Fields /\ DOMAIN w = Fields
  BY ResetFields DEF Laddered, Agree, Shape
<1>2. Writes(v, s, Laddered) /\ Writes(w, t, Laddered)
  BY <1>1, LadderWrites
<1>3. v.fast = w.fast /\ v.fair = w.fair /\ v.cross = w.cross
  BY ResetFields DEF Agree, Priced
<1>4. DepthCap(v) = DepthCap(w)
  BY <1>3 DEF DepthCap
<1>5. s.patient = t.patient
  BY <1>1, <1>3, <1>4 DEF BuildLadder
<1> HIDE DEF s, t
<1>6. Agree(s, t, F \cup Laddered)
  BY <1>1, <1>2, <1>5, Written
<1>7. QED  BY <1>6 DEF s, t

\* The counts and curves of settle, before the waits.
Counted(v, in) ==
  LET ladder  == MergedLadder(in, v.cross)
      ceiling == Higher(v.fair, v.patient)
  IN  [v EXCEPT
         !.net = v.fast - v.cost,
         !.edge = ((v.fast - v.cost) * 1000) \div v.cost,
         !.near = Within(in.asks, v.fast, PerMille(v.fast, 1050)),
         !.cheaper = Below(in.asks, v.fast),
         !.fill = FillCurve(ladder, v.fast),
         !.patientFill = FillCurve(ladder, v.patient),
         !.exits = [h \in 1..3 |-> ExecutableAt(ladder, v.liquidation, ceiling, in.velocity, <<1, 3, 7>>[h])]]

LEMMA SettleSteps ==
  \A u, in : Settle(u, in) =
    [ExpectedDays(Counted(CrossCompetition(MeasureDivergence(u, in)), in), in) EXCEPT !.valid = TRUE, !.reason = "none"]
BY DEF Settle, Counted

MeasureFields == {"divergence", "disagree"}
CompeteFields == {"crossNear", "crossBelow"}
CountFields == {"net", "edge", "near", "cheaper", "fill", "patientFill", "exits"}
DayFields == {"days", "patientDays"}
SettleFields == MeasureFields \cup CompeteFields \cup CountFields \cup DayFields \cup {"valid", "reason"}

LEMMA SettleSets ==
  /\ MeasureFields \subseteq Reset /\ CompeteFields \subseteq Reset
  /\ CountFields \subseteq Fields /\ DayFields \subseteq Fields
  /\ {"valid", "reason"} \subseteq Reset
  /\ Reset \cup Blended \cup Priced \cup Laddered \cup CountFields \cup DayFields = Fields
BY ResetFields DEF MeasureFields, CompeteFields, CountFields, DayFields, Fields, Blended, Priced, Laddered

LEMMA MeasureWrites ==
  ASSUME NEW u, NEW in, Shape(u)
  PROVE  Writes(u, MeasureDivergence(u, in), MeasureFields)
<1>1. DOMAIN u = Fields
  BY DEF Shape
<1> DEFINE anchor == IF u.fast > 0 THEN u.fast ELSE u.liveDepth
           d      == Higher(u.divergence, Apart(in.median, anchor))
           b      == u.disagree \/ d > 100
<1>2. MeasureDivergence(u, in) =
        IF in.median <= 0 \/ anchor <= 0 THEN u ELSE [u EXCEPT !.divergence = d, !.disagree = b]
  BY <1>1 DEF MeasureDivergence, Fields
<1> HIDE DEF anchor, d, b
<1>3. QED  BY <1>1, <1>2 DEF Writes, Agree, Shape, MeasureFields

LEMMA CompeteWrites ==
  ASSUME NEW u, Shape(u)
  PROVE  Writes(u, CrossCompetition(u), CompeteFields)
<1>1. DOMAIN u = Fields
  BY DEF Shape
<1> DEFINE level == [i \in DOMAIN u.cross.asks |-> TonnelEquivalent(u.cross.asks[i])]
           a == Within(level, u.fast, PerMille(u.fast, 1050))
           b == Below(level, u.fast)
<1>2. CrossCompetition(u) = [u EXCEPT !.crossNear  = a, !.crossBelow = b]
  BY DEF CrossCompetition
<1> HIDE DEF a, b
<1>3. QED  BY <1>1, <1>2 DEF Writes, Agree, Shape, CompeteFields

LEMMA CountWrites ==
  ASSUME NEW u, NEW in, Shape(u)
  PROVE  Writes(u, Counted(u, in), CountFields)
<1>1. DOMAIN u = Fields
  BY DEF Shape
<1> DEFINE ladder  == MergedLadder(in, u.cross)
           ceiling == Higher(u.fair, u.patient)
           a == u.fast - u.cost
           b == ((u.fast - u.cost) * 1000) \div u.cost
           c == Within(in.asks, u.fast, PerMille(u.fast, 1050))
           d == Below(in.asks, u.fast)
           e == FillCurve(ladder, u.fast)
           f == FillCurve(ladder, u.patient)
           g == [h \in 1..3 |-> ExecutableAt(ladder, u.liquidation, ceiling, in.velocity, <<1, 3, 7>>[h])]
<1>2. Counted(u, in) = [u EXCEPT !.net = a, !.edge = b, !.near = c, !.cheaper = d,
                                 !.fill = e, !.patientFill = f, !.exits = g]
  BY DEF Counted
<1> HIDE DEF a, b, c, d, e, f, g
<1>3. QED  BY <1>1, <1>2 DEF Writes, Agree, Shape, CountFields

LEMMA DayWrites ==
  ASSUME NEW u, NEW in, Shape(u)
  PROVE  Writes(u, ExpectedDays(u, in), DayFields)
<1>1. DOMAIN u = Fields
  BY DEF Shape
<1> DEFINE share   == IF in.samples < 5 THEN 250 ELSE Higher(in.share, 50)
           fast    == Days(u.fill.queue, in.velocity)
           patient == (Days(u.patientFill.queue, in.velocity) * 1000) \div share
           both    == IF SamePrice(u.patient, u.fast) THEN fast ELSE Higher(patient, fast)
<1>2. ExpectedDays(u, in) = IF in.velocity <= 0 THEN [u EXCEPT !.days = Never, !.patientDays = Never]
                            ELSE [u EXCEPT !.days = fast, !.patientDays = both]
  BY DEF ExpectedDays
<1> HIDE DEF fast, both
<1>3. QED  BY <1>1, <1>2 DEF Writes, Agree, Shape, DayFields

LEMMA MeasureAgrees ==
  ASSUME NEW v, NEW w, NEW in, NEW F, Agree(v, w, F), Reset \cup Priced \subseteq F
  PROVE  Agree(MeasureDivergence(v, in), MeasureDivergence(w, in), F)
<1> DEFINE s == MeasureDivergence(v, in)
           t == MeasureDivergence(w, in)
<1>1. /\ MeasureFields \subseteq F /\ MeasureFields \subseteq Fields
      /\ Shape(v) /\ Shape(w) /\ DOMAIN v = Fields /\ DOMAIN w = Fields
  BY ResetFields, SettleSets DEF Agree, Shape
<1>2. Writes(v, s, MeasureFields) /\ Writes(w, t, MeasureFields)
  BY <1>1, MeasureWrites
<1>3. v.fast = w.fast /\ v.liveDepth = w.liveDepth /\ v.divergence = w.divergence /\ v.disagree = w.disagree
  BY ResetFields DEF Agree, Priced
<1>4. s.divergence = t.divergence /\ s.disagree = t.disagree
  BY <1>1, <1>3 DEF MeasureDivergence, Fields
<1> HIDE DEF s, t
<1>5. Agree(s, t, F \cup MeasureFields)
  BY <1>1, <1>2, <1>4, Written DEF MeasureFields
<1>6. QED  BY <1>5, <1>1, Weaker DEF s, t

LEMMA CompeteAgrees ==
  ASSUME NEW v, NEW w, NEW F, Agree(v, w, F), Reset \cup Priced \subseteq F
  PROVE  Agree(CrossCompetition(v), CrossCompetition(w), F)
<1> DEFINE s == CrossCompetition(v)
           t == CrossCompetition(w)
<1>1. /\ CompeteFields \subseteq F /\ CompeteFields \subseteq Fields
      /\ Shape(v) /\ Shape(w) /\ DOMAIN v = Fields /\ DOMAIN w = Fields
  BY ResetFields, SettleSets DEF Agree, Shape
<1>2. Writes(v, s, CompeteFields) /\ Writes(w, t, CompeteFields)
  BY <1>1, CompeteWrites
<1>3. v.fast = w.fast /\ v.cross = w.cross
  BY ResetFields DEF Agree, Priced
<1>4. s.crossNear = t.crossNear /\ s.crossBelow = t.crossBelow
  BY <1>1, <1>3 DEF CrossCompetition, Fields
<1> HIDE DEF s, t
<1>5. Agree(s, t, F \cup CompeteFields)
  BY <1>1, <1>2, <1>4, Written DEF CompeteFields
<1>6. QED  BY <1>5, <1>1, Weaker DEF s, t

LEMMA CountAgrees ==
  ASSUME NEW v, NEW w, NEW in, NEW F, Agree(v, w, F), Reset \cup Priced \cup Laddered \subseteq F
  PROVE  Agree(Counted(v, in), Counted(w, in), F \cup CountFields)
<1> DEFINE s == Counted(v, in)
           t == Counted(w, in)
<1>1. /\ CountFields \subseteq Fields
      /\ Shape(v) /\ Shape(w) /\ DOMAIN v = Fields /\ DOMAIN w = Fields
  BY ResetFields, SettleSets DEF Agree, Shape
<1>2. Writes(v, s, CountFields) /\ Writes(w, t, CountFields)
  BY <1>1, CountWrites
<1>3. /\ v.fast = w.fast /\ v.fair = w.fair /\ v.patient = w.patient /\ v.cost = w.cost
      /\ v.cross = w.cross /\ v.liquidation = w.liquidation
  BY ResetFields DEF Agree, Priced, Laddered
<1>4. s.net = t.net /\ s.edge = t.edge /\ s.near = t.near /\ s.cheaper = t.cheaper
  BY <1>1, <1>3 DEF Counted, Fields
<1>5. s.fill = t.fill /\ s.patientFill = t.patientFill
  BY <1>1, <1>3 DEF Counted, Fields
<1>6. s.exits = t.exits
  BY <1>1, <1>3 DEF Counted, Fields
<1> HIDE DEF s, t
<1>7. QED  BY <1>1, <1>2, <1>4, <1>5, <1>6, Written DEF CountFields, s, t

LEMMA DayAgrees ==
  ASSUME NEW v, NEW w, NEW in, NEW F, Agree(v, w, F), Reset \cup Priced \cup Laddered \subseteq F
  PROVE  Agree(ExpectedDays(v, in), ExpectedDays(w, in), F \cup DayFields)
<1> DEFINE s == ExpectedDays(v, in)
           t == ExpectedDays(w, in)
<1>1. /\ DayFields \subseteq Fields
      /\ Shape(v) /\ Shape(w) /\ DOMAIN v = Fields /\ DOMAIN w = Fields
  BY ResetFields, SettleSets DEF Agree, Shape
<1>2. Writes(v, s, DayFields) /\ Writes(w, t, DayFields)
  BY <1>1, DayWrites
<1>3. v.fast = w.fast /\ v.patient = w.patient /\ v.fill = w.fill /\ v.patientFill = w.patientFill
  BY ResetFields DEF Agree, Priced, Laddered
<1>4. s.days = t.days /\ s.patientDays = t.patientDays
  BY <1>1, <1>3 DEF ExpectedDays, Fields
<1> HIDE DEF s, t
<1>5. QED  BY <1>1, <1>2, <1>4, Written DEF DayFields, s, t

LEMMA SettleAgrees ==
  ASSUME NEW v, NEW w, NEW in, NEW F, Agree(v, w, F), Reset \cup Blended \cup Priced \cup Laddered \subseteq F
  PROVE  Agree(Settle(v, in), Settle(w, in), Fields)
<1> DEFINE M(u) == MeasureDivergence(u, in)
           C(u) == CrossCompetition(M(u))
           N(u) == Counted(C(u), in)
           D(u) == ExpectedDays(N(u), in)
<1>1. Agree(M(v), M(w), F)
  BY MeasureAgrees
<1> HIDE DEF M
<1>2. Agree(C(v), C(w), F)
  BY <1>1, CompeteAgrees
<1> HIDE DEF C
<1>3. Agree(N(v), N(w), F \cup CountFields)
  BY <1>2, CountAgrees
<1> HIDE DEF N
<1>4. Agree(D(v), D(w), F \cup CountFields \cup DayFields)
  BY <1>3, DayAgrees
<1> HIDE DEF D
<1>5. Agree(D(v), D(w), Fields)
  BY <1>4, SettleSets, Weaker
<1>6. {"valid", "reason"} \subseteq Fields
  BY DEF Fields
<1>7. Agree([D(v) EXCEPT !.valid = TRUE, !.reason = "none"], [D(w) EXCEPT !.valid = TRUE, !.reason = "none"],
            Fields \cup {"valid", "reason"})
  BY <1>5, <1>6, PutTwo
<1>8. QED  BY <1>7, SettleSteps, Weaker DEF M, C, N, D

-----------------------------------------------------------------------------
(* A pass over a valuation *)

\* What recompute hands from stage to stage.
Fresh(u)      == [ResetDerived(u) EXCEPT !.reason = "none"]
Started(u, in) == [Fresh(u) EXCEPT !.regime = ReadRegime(in)]
Walked(u, in) == SetLiquidation(ReadWalkaway(ScreenCross(ReadLocalBook(Started(u, in), in), in), in), in)
Blending(u, in) == BlendWeights(Walked(u, in), in)
Pricing(u, in) == PriceExits(Blending(u, in), in)
Settling(u, in) == Settle(BuildLadder(ClampOverpriced(ClampToHistory(Pricing(u, in), in)), in), in)

LEMMA RecomputeSteps ==
  \A u, in : Recompute(u, in) =
    IF in.price <= 0 THEN [Fresh(u) EXCEPT !.reason = "no price"]
    ELSE IF Rejected(Blending(u, in)) THEN Blending(u, in)
    ELSE IF Rejected(Pricing(u, in)) THEN Pricing(u, in)
    ELSE Settling(u, in)
BY DEF Recompute, Fresh, Started, Walked, Blending, Pricing, Settling

LEMMA PassAgrees ==
  ASSUME NEW v, NEW w, NEW in, Agree(v, w, Given)
  PROVE  /\ Agree(Fresh(v), Fresh(w), Reset \ {"regime"})
         /\ Agree(Blending(v, in), Blending(w, in), Reset)
         /\ ~Rejected(Blending(v, in)) =>
              /\ Agree(Pricing(v, in), Pricing(w, in), Reset)
              /\ Agree(Settling(v, in), Settling(w, in), Fields)
<1>1. {"reason", "regime"} \subseteq Reset /\ Reset \subseteq Fields
  BY ResetFields
<1>2. Agree(Fresh(v), Fresh(w), Reset \ {"regime"})
  <2>1. Agree(Fresh(v), Fresh(w), (Reset \ {"reason", "regime"}) \cup {"reason"})
    BY <1>1, ResetAgrees, Put DEF Fresh
  <2>2. Reset \ {"regime"} \subseteq (Reset \ {"reason", "regime"}) \cup {"reason"}
    OBVIOUS
  <2>3. QED  BY <2>1, <2>2, Weaker
<1>3. Agree(Started(v, in), Started(w, in), Reset)
  <2> DEFINE x == ReadRegime(in)
  <2>1. Started(v, in) = [Fresh(v) EXCEPT !.regime = x] /\ Started(w, in) = [Fresh(w) EXCEPT !.regime = x]
    BY DEF Started
  <2> HIDE DEF x
  <2>2. Agree([Fresh(v) EXCEPT !.regime = x], [Fresh(w) EXCEPT !.regime = x], (Reset \ {"regime"}) \cup {"regime"})
    BY <1>1, <1>2, Put
  <2>3. Reset \subseteq (Reset \ {"regime"}) \cup {"regime"}
    OBVIOUS
  <2>4. QED  BY <2>1, <2>2, <2>3, Weaker
<1>4. Agree(Walked(v, in), Walked(w, in), Reset)
  <2> DEFINE A(u) == ReadLocalBook(Started(u, in), in)
             B(u) == ScreenCross(A(u), in)
             C(u) == ReadWalkaway(B(u), in)
  <2>1. Agree(A(v), A(w), Reset)
    BY <1>3, BookAgrees
  <2> HIDE DEF A
  <2>2. Agree(B(v), B(w), Reset)
    BY <2>1, ScreenAgrees
  <2> HIDE DEF B
  <2>3. Agree(C(v), C(w), Reset)
    BY <2>2, WalkawayAgrees
  <2> HIDE DEF C
  <2>4. Agree(SetLiquidation(C(v), in), SetLiquidation(C(w), in), Reset)
    BY <2>3, LiquidationAgrees
  <2>5. QED  BY <2>4 DEF Walked, A, B, C
<1>5. /\ Agree(Blending(v, in), Blending(w, in), Reset)
      /\ ~Rejected(Blending(v, in)) => Agree(Blending(v, in), Blending(w, in), Reset \cup Blended)
  BY <1>4, BlendAgrees DEF Blending
<1>6. ASSUME ~Rejected(Blending(v, in))
      PROVE  /\ Agree(Pricing(v, in), Pricing(w, in), Reset)
             /\ Agree(Settling(v, in), Settling(w, in), Fields)
  <2> DEFINE G == (Reset \cup Blended) \cup Priced
             A(u) == ClampToHistory(Pricing(u, in), in)
             B(u) == ClampOverpriced(A(u))
             C(u) == BuildLadder(B(u), in)
  <2>1. Agree(Pricing(v, in), Pricing(w, in), G)
    BY <1>5, <1>6, PriceAgrees DEF Pricing
  <2>2. Reset \cup Blended \cup Priced \subseteq G
    OBVIOUS
  <2>3. Agree(A(v), A(w), G)
    BY <2>1, <2>2, ClampAgrees
  <2> HIDE DEF A
  <2>4. Agree(B(v), B(w), G)
    BY <2>2, <2>3, ClampAgrees
  <2> HIDE DEF B
  <2>5. Agree(C(v), C(w), G \cup Laddered)
    BY <2>2, <2>4, LadderAgrees
  <2> HIDE DEF C
  <2>6. Agree(Settle(C(v), in), Settle(C(w), in), Fields)
    BY <2>2, <2>5, SettleAgrees
  <2>7. QED  BY <2>1, <2>6, Weaker DEF Settling, A, B, C
<1>7. QED  BY <1>2, <1>5, <1>6

-----------------------------------------------------------------------------
(* What a pass leaves alone *)

LEMMA Chain ==
  ASSUME NEW u, NEW s, NEW t, NEW F, Agree(u, s, F), Agree(s, t, F)
  PROVE  Agree(u, t, F)
BY DEF Agree

LEMMA Left ==
  ASSUME NEW u, NEW s, NEW t, NEW F, NEW W, Agree(u, s, F), Writes(s, t, W), F \cap W = {}
  PROVE  Agree(u, t, F)
BY DEF Agree, Writes

LEMMA ResetLeaves ==
  ASSUME NEW u, Shape(u)
  PROVE  Agree(u, Fresh(u), Given) /\ Fresh(u).valid = FALSE /\ Fresh(u).reason = "none"
<1>1. DOMAIN u = Fields
  BY DEF Shape
<1>2. DOMAIN ResetDerived(u) = Fields /\ Shape(ResetDerived(u))
  BY <1>1, ZenonT(60) DEF ResetDerived, Shape
<1>3. /\ ResetDerived(u).valid = FALSE /\ ResetDerived(u).cost = u.cost
      /\ ResetDerived(u).cross = u.cross /\ ResetDerived(u).support = u.support
  BY <1>1 DEF ResetDerived, Fields
<1> DEFINE s == ResetDerived(u)
<1> HIDE DEF s
<1>4. DOMAIN s = Fields /\ s.valid = FALSE /\ s.cost = u.cost /\ s.cross = u.cross /\ s.support = u.support
  BY <1>2, <1>3 DEF s
<1>5. Fresh(u) = [s EXCEPT !.reason = "none"]
  BY DEF Fresh, s
<1>6. QED  BY <1>4, <1>5 DEF Agree, Given, Fields, Shape

LEMMA BookWrites ==
  ASSUME NEW u, NEW in, Shape(u)
  PROVE  Writes(u, ReadLocalBook(u, in), {"competing", "liveCount", "liveDepth", "capped"})
<1>1. DOMAIN u = Fields
  BY DEF Shape
<1> DEFINE trusted == ContiguousDepth(in.asks)
           median  == MedianFirst(in.asks, trusted)
           lid     == PerMille(in.asks[1], 1200)
           a == IF Len(in.asks) >= 2 THEN Lower(median, lid) ELSE 0
           b == Len(in.asks) >= 2 /\ (trusted < Lower(3, Len(in.asks)) \/ median > lid)
<1>2. ReadLocalBook(u, in) =
        IF in.asks = <<>> THEN u
        ELSE [u EXCEPT !.competing = in.asks[1], !.liveCount = trusted, !.liveDepth = a, !.capped = b]
  BY DEF ReadLocalBook
<1> HIDE DEF trusted, a, b
<1>3. QED  BY <1>1, <1>2 DEF Writes, Agree, Shape

LEMMA ScreenWrites ==
  ASSUME NEW u, NEW in, Shape(u)
  PROVE  Writes(u, ScreenCross(u, in), {"implausible", "support", "cross"})
<1>1. DOMAIN u = Fields
  BY DEF Shape
<1> DEFINE anchor    == ExecutableAnchor(u, in)
           low       == Cardinality({i \in DOMAIN u.cross.asks : 10 * u.cross.asks[i] < 4 * anchor})
           plausible == PlausibleCross(u.support, anchor)
           none      == [u.cross EXCEPT !.support = 0]
           First(x)  == IF plausible THEN x ELSE Unsupported(x)
           w         == First(u)
           cm        == FillBuyerCosts(Screened(w.cross, low))
<1>2. ScreenCross(u, in) = IF anchor <= 0 THEN u ELSE IF low = 0 THEN w ELSE [w EXCEPT !.implausible = TRUE, !.cross = cm]
  BY DEF ScreenCross, Unsupported
<1>3. Unsupported(u) = [u EXCEPT !.implausible = TRUE, !.support = 0, !.cross = none]
  BY <1>1 DEF Unsupported, Fields
<1> HIDE DEF none
<1>4. DOMAIN w = Fields /\ Shape(w) /\ \A f \in Fields \ {"implausible", "support", "cross"} : w[f] = u[f]
  BY <1>1, <1>3 DEF Shape
<1> HIDE DEF anchor, low, w, cm
<1>5. QED  BY <1>1, <1>2, <1>4 DEF Writes, Agree, Shape

LEMMA NothingToScreen ==
  ASSUME NEW u, NEW in, u.cross = NoCross, u.support = 0
  PROVE  ScreenCross(u, in) = u
<1>1. u.cross.asks = <<>>
  BY DEF NoCross
<1>2. Cardinality({i \in DOMAIN u.cross.asks : 10 * u.cross.asks[i] < 4 * ExecutableAnchor(u, in)}) = 0
  <2>1. {i \in DOMAIN u.cross.asks : 10 * u.cross.asks[i] < 4 * ExecutableAnchor(u, in)} = {}
    BY <1>1
  <2>2. QED  BY <2>1, FS_EmptySet
<1>3. PlausibleCross(u.support, ExecutableAnchor(u, in))
  BY DEF PlausibleCross
<1>4. QED  BY <1>2, <1>3 DEF ScreenCross

\* A pass forgets neither what the lot costs nor, where there is none, that the
\* venues said nothing.
Lasting(u) == IF u.cross = NoCross /\ u.support = 0 THEN Given ELSE {"cost"}

LEMMA PassLeaves ==
  ASSUME NEW u, NEW in, Shape(u)
  PROVE  /\ Agree(Fresh(u), Blending(u, in), Lasting(u) \cup {"valid"})
         /\ Agree(Fresh(u), Pricing(u, in), Lasting(u) \cup {"valid"})
         /\ Agree(Fresh(u), Settling(u, in), Lasting(u))
<1> DEFINE K == Lasting(u) \cup {"valid"}
           f == Fresh(u)
<1>1. Lasting(u) \subseteq Given /\ K \subseteq Given \cup {"valid"} /\ Given \cup {"valid"} \subseteq Fields
      /\ K \subseteq Fields
  BY DEF Lasting, Given, Fields
<1>2. Shape(f) /\ f.cross = u.cross /\ f.support = u.support
  BY ResetLeaves DEF Agree, Given
<1>3. Agree(f, f, K)
  BY <1>1, <1>2 DEF Agree
<1> HIDE DEF f
<1> DEFINE a == [f EXCEPT !.regime = ReadRegime(in)]
           b == ReadLocalBook(a, in)
<1>4. Agree(f, a, Given \cup {"valid"})
  <2>1. DOMAIN f = Fields
    BY <1>2 DEF Shape
  <2> DEFINE x == ReadRegime(in)
  <2> HIDE DEF x
  <2>2. QED  BY <1>1, <1>2, <2>1 DEF Agree, Shape, Given, x
<1>5. Agree(f, b, Given \cup {"valid"})
  <2>1. Shape(a)
    BY <1>4 DEF Agree
  <2>2. Writes(a, b, {"competing", "liveCount", "liveDepth", "capped"})
    BY <2>1, BookWrites
  <2>3. (Given \cup {"valid"}) \cap {"competing", "liveCount", "liveDepth", "capped"} = {}
    BY DEF Given
  <2> HIDE DEF a, b
  <2>4. QED  BY <1>4, <2>2, <2>3, Left
<1> HIDE DEF a, b
<1> DEFINE c == ScreenCross(b, in)
<1>6. Agree(f, c, K)
  <2>1. CASE u.cross = NoCross /\ u.support = 0
    <3>1. b.cross = f.cross /\ b.support = f.support
      BY <1>5 DEF Agree, Given
    <3>2. c = b
      BY <1>2, <2>1, <3>1, NothingToScreen
    <3>3. QED  BY <1>5, <1>1, <3>2, Weaker
  <2>2. CASE ~(u.cross = NoCross /\ u.support = 0)
    <3>1. Shape(b)
      BY <1>5 DEF Agree
    <3>2. Writes(b, c, {"implausible", "support", "cross"})
      BY <3>1, ScreenWrites
    <3>3. K \cap {"implausible", "support", "cross"} = {}
      BY <2>2 DEF Lasting
    <3>4. Agree(f, b, K)
      BY <1>5, <1>1, Weaker
    <3> HIDE DEF c, K
    <3>5. QED  BY <3>2, <3>3, <3>4, Left
  <2>3. QED  BY <2>1, <2>2
<1> HIDE DEF c
<1> DEFINE d == ReadWalkaway(c, in)
           e == SetLiquidation(d, in)
           g == BlendWeights(e, in)
           h == PriceExits(g, in)
<1>7. Agree(f, d, K)
  <2>1. Writes(c, d, {"below", "undercuts", "walkaway", "venue"})
    BY <1>6, WalkawayWrites DEF Agree
  <2>2. K \cap {"below", "undercuts", "walkaway", "venue"} = {}
    BY <1>1 DEF Given
  <2> HIDE DEF d, K
  <2>3. QED  BY <1>6, <2>1, <2>2, Left
<1> HIDE DEF d
<1>8. Agree(f, e, K)
  <2>1. Writes(d, e, {"liquidation", "basis"})
    BY <1>7, LiquidationWrites DEF Agree
  <2>2. K \cap {"liquidation", "basis"} = {}
    BY <1>1 DEF Given
  <2> HIDE DEF e, K
  <2>3. QED  BY <1>7, <2>1, <2>2, Left
<1> HIDE DEF e
<1>9. Agree(f, g, K)
  <2>1. Writes(e, g, BlendFields)
    BY <1>8, BlendWrites DEF Agree
  <2>2. K \cap BlendFields = {}
    BY <1>1 DEF Given, BlendFields
  <2> HIDE DEF g, K
  <2>3. QED  BY <1>8, <2>1, <2>2, Left
<1> HIDE DEF g
<1>10. Agree(f, h, K)
  <2>1. Writes(g, h, PriceFields)
    BY <1>9, PriceWrites DEF Agree
  <2>2. K \cap PriceFields = {}
    BY <1>1 DEF Given, PriceFields
  <2> HIDE DEF h, K
  <2>3. QED  BY <1>9, <2>1, <2>2, Left
<1> HIDE DEF h
<1> DEFINE i == ClampToHistory(h, in)
           j == ClampOverpriced(i)
           k == BuildLadder(j, in)
           l == MeasureDivergence(k, in)
           m == CrossCompetition(l)
           n == Counted(m, in)
           o == ExpectedDays(n, in)
           p == [o EXCEPT !.valid = TRUE, !.reason = "none"]
<1>11. Agree(f, i, K) /\ Agree(f, j, K) /\ Agree(f, k, K)
  <2>1. K \cap ClampFields = {} /\ K \cap {"patient"} = {}
    BY <1>1 DEF Given, ClampFields
  <2>2. Writes(h, i, ClampFields)
    BY <1>10, ClampWrites DEF Agree
  <2> HIDE DEF i, K
  <2>3. Agree(f, i, K)
    BY <1>10, <2>1, <2>2, Left
  <2>4. Writes(i, j, ClampFields)
    BY <2>3, ClampWrites DEF Agree
  <2> HIDE DEF j
  <2>5. Agree(f, j, K)
    BY <2>1, <2>3, <2>4, Left
  <2>6. Writes(j, k, {"patient"})
    BY <2>5, LadderWrites DEF Agree
  <2> HIDE DEF k
  <2>7. Agree(f, k, K)
    BY <2>1, <2>5, <2>6, Left
  <2>8. QED  BY <2>3, <2>5, <2>7
<1> HIDE DEF k
<1>12. Agree(f, o, K)
  <2>1. K \cap MeasureFields = {} /\ K \cap CompeteFields = {} /\ K \cap CountFields = {} /\ K \cap DayFields = {}
    BY <1>1 DEF Given, MeasureFields, CompeteFields, CountFields, DayFields
  <2>2. Writes(k, l, MeasureFields)
    BY <1>11, MeasureWrites DEF Agree
  <2> HIDE DEF l, K
  <2>3. Agree(f, l, K)
    BY <1>11, <2>1, <2>2, Left
  <2>4. Writes(l, m, CompeteFields)
    BY <2>3, CompeteWrites DEF Agree
  <2> HIDE DEF m
  <2>5. Agree(f, m, K)
    BY <2>1, <2>3, <2>4, Left
  <2>6. Writes(m, n, CountFields)
    BY <2>5, CountWrites DEF Agree
  <2> HIDE DEF n
  <2>7. Agree(f, n, K)
    BY <2>1, <2>5, <2>6, Left
  <2>8. Writes(n, o, DayFields)
    BY <2>7, DayWrites DEF Agree
  <2> HIDE DEF o
  <2>9. QED  BY <2>1, <2>7, <2>8, Left
<1>13. Agree(f, p, Lasting(u))
  <2> HIDE DEF o
  <2>1. DOMAIN o = Fields /\ Shape(o)
    BY <1>12 DEF Agree, Shape
  <2>2. \A x \in Lasting(u) : x # "valid" /\ x # "reason"
    BY <1>1 DEF Given
  <2>3. Shape(p) /\ \A x \in Lasting(u) : p[x] = o[x]
    BY <1>1, <2>1, <2>2 DEF Shape
  <2>4. QED  BY <1>1, <1>12, <2>3 DEF Agree
<1>14. /\ g = Blending(u, in) /\ h = Pricing(u, in) /\ p = Settling(u, in)
  BY SettleSteps DEF Settling, Pricing, Blending, Walked, Started, a, b, c, d, e, f, g, h, i, j, k, l, m, n, o, p
<1>15. QED  BY <1>9, <1>10, <1>13, <1>14 DEF f

LEMMA SettledIsValid ==
  ASSUME NEW u, NEW in, Agree(Fresh(u), Settling(u, in), Lasting(u))
  PROVE  Settling(u, in).valid = TRUE /\ Settling(u, in).reason = "none"
<1> DEFINE x == BuildLadder(ClampOverpriced(ClampToHistory(Pricing(u, in), in)), in)
           o == ExpectedDays(Counted(CrossCompetition(MeasureDivergence(x, in)), in), in)
<1>1. Settling(u, in) = [o EXCEPT !.valid = TRUE, !.reason = "none"]
  BY SettleSteps DEF Settling
<1>2. DOMAIN Settling(u, in) = Fields
  BY DEF Agree, Shape
<1> HIDE DEF o
<1>3. DOMAIN o = Fields
  BY <1>1, <1>2
<1>4. QED  BY <1>1, <1>3 DEF Fields

\* What a pass returns: costs and silent venues as they were, and FALSE for
\* valid in every result but the last.
LEMMA PassReturns ==
  ASSUME NEW u, NEW in, Shape(u)
  PROVE  /\ Agree(u, Recompute(u, in), Lasting(u))
         /\ Recompute(u, in).valid \in BOOLEAN
<1>1. Agree(u, Fresh(u), Given) /\ Fresh(u).valid = FALSE
  BY ResetLeaves
<1>2. Agree(u, Fresh(u), Lasting(u))
  BY <1>1, Weaker DEF Lasting, Given
<1>3. CASE in.price <= 0
  <2> DEFINE f == Fresh(u)
             r == [f EXCEPT !.reason = "no price"]
  <2>1. Recompute(u, in) = r
    BY <1>3, RecomputeSteps
  <2>2. DOMAIN f = Fields /\ Shape(f) /\ f.valid = FALSE
    BY <1>1 DEF Agree, Shape
  <2> HIDE DEF f
  <2>3. Shape(r) /\ r.valid = FALSE /\ \A x \in Lasting(u) : r[x] = f[x]
    BY <2>2 DEF Shape, Lasting, Given, Fields
  <2>4. Agree(f, r, Lasting(u))
    BY <1>2, <2>2, <2>3 DEF Agree, f
  <2> HIDE DEF r
  <2>5. QED  BY <1>2, <2>1, <2>3, <2>4, Chain DEF f
<1>4. CASE ~(in.price <= 0) /\ Rejected(Blending(u, in))
  <2>1. Recompute(u, in) = Blending(u, in)
    BY <1>4, RecomputeSteps
  <2>2. Agree(Fresh(u), Blending(u, in), Lasting(u)) /\ Blending(u, in).valid = FALSE
    BY <1>1, PassLeaves, Weaker DEF Agree
  <2>3. QED  BY <1>2, <2>1, <2>2, Chain
<1>5. CASE ~(in.price <= 0) /\ ~Rejected(Blending(u, in)) /\ Rejected(Pricing(u, in))
  <2>1. Recompute(u, in) = Pricing(u, in)
    BY <1>5, RecomputeSteps
  <2>2. Agree(Fresh(u), Pricing(u, in), Lasting(u)) /\ Pricing(u, in).valid = FALSE
    BY <1>1, PassLeaves, Weaker DEF Agree
  <2>3. QED  BY <1>2, <2>1, <2>2, Chain
<1>6. CASE ~(in.price <= 0) /\ ~Rejected(Blending(u, in)) /\ ~Rejected(Pricing(u, in))
  <2>1. Recompute(u, in) = Settling(u, in)
    BY <1>6, RecomputeSteps
  <2>2. Agree(Fresh(u), Settling(u, in), Lasting(u))
    BY PassLeaves
  <2>3. Settling(u, in).valid = TRUE
    BY <2>2, SettledIsValid
  <2>4. QED  BY <1>2, <2>1, <2>2, <2>3, Chain
<1>7. QED  BY <1>3, <1>4, <1>5, <1>6

\* Two passes that know the same return the same.
LEMMA SamePass ==
  ASSUME NEW v, NEW w, NEW in, Agree(v, w, Given)
  PROVE  /\ Recompute(v, in).valid = Recompute(w, in).valid
         /\ Recompute(v, in).reason = Recompute(w, in).reason
         /\ Recompute(v, in).cross = Recompute(w, in).cross
         /\ Recompute(v, in).valid => Recompute(v, in) = Recompute(w, in)
<1>1. Shape(v) /\ Shape(w) /\ {"valid", "reason", "cross"} \subseteq Reset \ {"regime"}
  BY ResetFields DEF Agree
<1>2. Fresh(v).valid = FALSE
  BY <1>1, ResetLeaves
<1>3. CASE in.price <= 0
  <2> DEFINE s == [Fresh(v) EXCEPT !.reason = "no price"]
             t == [Fresh(w) EXCEPT !.reason = "no price"]
  <2>1. Recompute(v, in) = s /\ Recompute(w, in) = t
    BY <1>3, RecomputeSteps
  <2>2. "reason" \in Fields
    BY DEF Fields
  <2>3. Agree(s, t, (Reset \ {"regime"}) \cup {"reason"})
    BY PassAgrees, Put, <2>2
  <2>4. s.valid = FALSE
    <3>1. DOMAIN Fresh(v) = Fields
      BY PassAgrees DEF Agree, Shape
    <3>2. QED  BY <3>1, <1>2 DEF Fields
  <2> HIDE DEF s, t
  <2>5. QED  BY <1>1, <2>1, <2>3, <2>4 DEF Agree
<1>4. CASE ~(in.price <= 0) /\ Rejected(Blending(v, in))
  <2>1. Agree(Blending(v, in), Blending(w, in), Reset)
    BY PassAgrees
  <2>2. Rejected(Blending(w, in))
    BY <1>1, <1>4, <2>1 DEF Agree, Rejected
  <2>3. Recompute(v, in) = Blending(v, in) /\ Recompute(w, in) = Blending(w, in)
    BY <1>4, <2>2, RecomputeSteps
  <2>4. Blending(v, in).valid = FALSE
    BY <1>1, <1>2, PassLeaves DEF Agree
  <2>5. QED  BY <1>1, <2>1, <2>3, <2>4 DEF Agree
<1>5. CASE ~(in.price <= 0) /\ ~Rejected(Blending(v, in)) /\ Rejected(Pricing(v, in))
  <2>1. Agree(Blending(v, in), Blending(w, in), Reset) /\ Agree(Pricing(v, in), Pricing(w, in), Reset)
    BY <1>5, PassAgrees
  <2>2. ~Rejected(Blending(w, in)) /\ Rejected(Pricing(w, in))
    BY <1>1, <1>5, <2>1 DEF Agree, Rejected
  <2>3. Recompute(v, in) = Pricing(v, in) /\ Recompute(w, in) = Pricing(w, in)
    BY <1>5, <2>2, RecomputeSteps
  <2>4. Pricing(v, in).valid = FALSE
    BY <1>1, <1>2, PassLeaves DEF Agree
  <2>5. QED  BY <1>1, <2>1, <2>3, <2>4 DEF Agree
<1>6. CASE ~(in.price <= 0) /\ ~Rejected(Blending(v, in)) /\ ~Rejected(Pricing(v, in))
  <2>1. /\ Agree(Blending(v, in), Blending(w, in), Reset) /\ Agree(Pricing(v, in), Pricing(w, in), Reset)
        /\ Agree(Settling(v, in), Settling(w, in), Fields)
    BY <1>6, PassAgrees
  <2>2. ~Rejected(Blending(w, in)) /\ ~Rejected(Pricing(w, in))
    BY <1>1, <1>6, <2>1 DEF Agree, Rejected
  <2>3. Recompute(v, in) = Settling(v, in) /\ Recompute(w, in) = Settling(w, in)
    BY <1>6, <2>2, RecomputeSteps
  <2>4. Settling(v, in) = Settling(w, in)
    BY <2>1 DEF Agree, Shape
  <2>5. QED  BY <2>3, <2>4
<1>7. QED  BY <1>3, <1>4, <1>5, <1>6

\* The valuation a first pass makes of a lot.
First(in) == Recompute(Blank(in, NoCross), in)

LEMMA FirstPass ==
  ASSUME NEW in
  PROVE  /\ Shape(First(in)) /\ First(in).cross = NoCross /\ First(in).support = 0
         /\ First(in).cost = Blank(in, NoCross).cost
         /\ First(in).valid \in BOOLEAN
<1> DEFINE u == Blank(in, NoCross)
<1>1. Shape(u) /\ u.cross = NoCross /\ u.support = 0
  BY BlankShape DEF Blank, NoCross
<1> HIDE DEF u
<1>2. Agree(u, Recompute(u, in), Given) /\ Recompute(u, in).valid \in BOOLEAN
  BY <1>1, PassReturns DEF Lasting
<1>3. QED  BY <1>1, <1>2 DEF Agree, Given, First, u

Known(cm) == IF cm.support <= 0 THEN [NoCross EXCEPT !.unreachable = cm.unreachable] ELSE FillBuyerCosts(cm)

LEMMA SecondPass ==
  ASSUME NEW in, NEW answers
  PROVE  LET cm == CrossDepth(answers)
             s  == WithCrossDepth(First(in), cm, in)
             t  == Recompute(Blank(in, Known(cm)), in)
         IN  /\ s.valid = t.valid /\ s.reason = t.reason /\ s.cross = t.cross
             /\ s.valid => s = t
<1> DEFINE cm == CrossDepth(answers)
           v  == First(in)
           b  == Blank(in, Known(cm))
<1>1. /\ Shape(v) /\ DOMAIN v = Fields /\ v.cross = NoCross /\ v.support = 0 /\ v.cost = Blank(in, NoCross).cost
  BY FirstPass DEF Shape
<1>2. Shape(b) /\ b.cost = Blank(in, NoCross).cost /\ b.cross = Known(cm) /\ b.support = Known(cm).support
  BY BlankShape DEF Blank
<1> HIDE DEF v, b
<1>3. {"cost", "cross", "support"} \subseteq Fields /\ Given \subseteq Fields
  BY DEF Fields, Given
<1>4. CASE cm.support <= 0 /\ cm.unreachable = v.cross.unreachable
  <2>1. WithCrossDepth(v, cm, in) = v
    BY <1>4 DEF WithCrossDepth
  <2>2. Known(cm) = NoCross
    <3>2. cm.unreachable = NoCross.unreachable
      BY <1>1, <1>4
    <3> HIDE DEF cm
    <3>3. [NoCross EXCEPT !.unreachable = NoCross.unreachable] = NoCross
      BY DEF NoCross
    <3>4. QED  BY <1>4, <3>2, <3>3 DEF Known
  <2>3. Recompute(b, in) = v
    BY <2>2 DEF b, v, First
  <2>4. QED  BY <2>1, <2>3 DEF v, b
<1>5. CASE cm.support <= 0 /\ cm.unreachable # v.cross.unreachable
  <2> DEFINE n == [NoCross EXCEPT !.unreachable = cm.unreachable]
             u == [v EXCEPT !.cross = n]
  <2>1. [v EXCEPT !.cross.unreachable = cm.unreachable] = u
    BY <1>1 DEF Fields
  <2>2. WithCrossDepth(v, cm, in) = Recompute(u, in)
    BY <1>5, <2>1 DEF WithCrossDepth
  <2>3. Known(cm) = n /\ n.support = 0
    <3>1. n.support = 0
      BY DEF NoCross
    <3> HIDE DEF cm
    <3>2. QED  BY <1>5, <3>1 DEF Known
  <2> HIDE DEF n, cm
  <2>4. Shape(u) /\ u.cross = n /\ u.support = 0 /\ u.cost = b.cost
    BY <1>1, <1>2 DEF Shape, Fields
  <2>5. Agree(u, b, Given)
    BY <1>2, <1>3, <2>3, <2>4 DEF Agree, Given
  <2> HIDE DEF u
  <2>6. QED  BY <2>2, <2>5, SamePass DEF b, v, cm
<1>6. CASE ~(cm.support <= 0)
  <2> DEFINE n == FillBuyerCosts(cm)
             y == cm.support
             u == [v EXCEPT !.cross = n, !.support = y]
  <2>1. WithCrossDepth(v, cm, in) = Recompute(u, in)
    BY <1>6 DEF WithCrossDepth
  <2>2. n.support = y
    <3>1. CASE cm.asks = <<>>
      BY <3>1 DEF FillBuyerCosts
    <3>2. CASE cm.asks # <<>>
      <4>1. "support" \in DOMAIN cm
        BY DEF CrossDepth, NoCross
      <4> HIDE DEF cm
      <4>2. QED  BY <3>2, <4>1 DEF FillBuyerCosts
    <3>3. QED  BY <3>1, <3>2
  <2>3. Known(cm) = n
    BY <1>6 DEF Known
  <2> HIDE DEF n, y, cm
  <2>4. Shape(u) /\ u.cross = n /\ u.support = y /\ u.cost = b.cost
    BY <1>1, <1>2, ZenonT(60) DEF Shape, Fields
  <2>5. Agree(u, b, Given)
    BY <1>2, <1>3, <2>2, <2>3, <2>4 DEF Agree, Given
  <2> HIDE DEF u
  <2>6. QED  BY <2>1, <2>5, SamePass DEF b, v, cm, y
<1>7. QED  BY <1>4, <1>5, <1>6

-----------------------------------------------------------------------------
(* Numbers *)

LEMMA Least ==
  ASSUME NEW T, T \subseteq Nat, T # {}
  PROVE  \E x \in T : \A y \in T : x <= y
<1>1. PICK x \in T : \A y \in T : ~(<<y, x>> \in OpToRel(<, Nat))
  BY NatLessThanWellFounded, WFMin
<1>2. ASSUME NEW y \in T PROVE x <= y
  <2>1. ~(<<y, x>> \in OpToRel(<, Nat))
    BY <1>1
  <2>2. <<y, x>> \in Nat \X Nat
    OBVIOUS
  <2>3. ~(y < x)
    BY <2>1, <2>2, Zenon DEF OpToRel
  <2>4. QED  BY <2>3
<1>3. QED  BY <1>2

LEMMA Greatest ==
  ASSUME NEW T, T \subseteq Nat, T # {}, NEW b \in Nat, \A y \in T : y <= b
  PROVE  \E x \in T : \A y \in T : y <= x
<1> DEFINE U == {n \in 0..b : b - n \in T}
<1>1. U \subseteq Nat /\ U # {}
  <2>1. PICK y \in T : TRUE
    OBVIOUS
  <2>2. b - y \in U
    BY <2>1
  <2>3. QED  BY <2>2
<1>2. PICK n \in U : \A m \in U : n <= m
  <2> HIDE DEF U
  <2>1. QED  BY <1>1, Least
<1>3. ASSUME NEW y \in T PROVE y <= b - n
  <2>1. b - y \in U
    OBVIOUS
  <2>2. n <= b - y
    BY <1>2, <2>1
  <2>3. y \in Nat /\ n \in Nat
    OBVIOUS
  <2> HIDE DEF U
  <2>4. QED  BY <2>2, <2>3
<1>4. QED  BY <1>3, <1>2

LEMMA MaxOf ==
  ASSUME NEW T, T \subseteq Nat, T # {}, NEW b \in Nat, \A y \in T : y <= b
  PROVE  Max(T) \in T /\ \A y \in T : y <= Max(T)
<1>1. PICK x \in T : \A y \in T : y <= x
  BY Greatest
<1>2. \E z \in T : \A y \in T : z >= y
  BY <1>1
<1>3. Max(T) \in T /\ \A y \in T : Max(T) >= y
  BY <1>2 DEF Max
<1>4. QED  BY <1>3

LEMMA MinOf ==
  ASSUME NEW T, T \subseteq Nat, T # {}
  PROVE  Min(T) \in T /\ \A y \in T : Min(T) <= y
BY Least DEF Min

LEMMA PerMilleDown ==
  ASSUME NEW x \in Nat, NEW p \in 0..1000
  PROVE  PerMille(x, p) \in Nat /\ PerMille(x, p) <= x
<1>1. x * p \in Nat /\ x * p <= x * 1000
  <2>1. x * p + x * (1000 - p) = x * 1000
    OBVIOUS
  <2>2. x * (1000 - p) \in Nat /\ x * p \in Nat
    OBVIOUS
  <2>3. QED  BY <2>1, <2>2
<1>2. QED  BY <1>1 DEF PerMille

LEMMA PerMilleNat ==
  ASSUME NEW x \in Nat, NEW p \in Nat
  PROVE  PerMille(x, p) \in Nat
<1>1. x * p \in Nat
  OBVIOUS
<1>2. QED  BY <1>1 DEF PerMille

LEMMA Division ==
  ASSUME NEW x \in Nat, NEW y \in Nat \ {0}
  PROVE  x \div y \in Nat
OBVIOUS

LEMMA DivisionUp ==
  ASSUME NEW x \in Nat, NEW y \in Nat, NEW d \in Nat \ {0}, x <= y
  PROVE  x \div d <= y \div d
OBVIOUS

\* What a venue's buyer pays is worth more to the seller of the dearer offer.
LEMMA Equivalents ==
  ASSUME NEW x \in Nat, NEW y \in Nat, x <= y, 1000 * x >= 1000 + Fee
  PROVE  /\ TonnelEquivalent(x) \in Nat \ {0}
         /\ TonnelEquivalent(x) <= TonnelEquivalent(y)
<1>1. Fee \in Nat
  BY RatesAssumption
<1>2. 1000 + Fee \in Nat \ {0} /\ x > 0 /\ y > 0
  BY <1>1
<1>3. (x * 1000) \div (1000 + Fee) \in Nat \ {0}
  <2> DEFINE d == 1000 + Fee
             q == (x * 1000) \div d
  <2>1. d \in Nat \ {0} /\ x * 1000 >= d
    BY <1>1
  <2> HIDE DEF d
  <2>2. d \div d <= (x * 1000) \div d
    BY <2>1, DivisionUp
  <2>3. d \div d = 1 /\ q \in Nat
    BY <2>1, Division
  <2>4. QED  BY <2>2, <2>3 DEF d
<1>4. (x * 1000) \div (1000 + Fee) <= (y * 1000) \div (1000 + Fee)
  BY <1>2, DivisionUp
<1>5. QED  BY <1>2, <1>3, <1>4 DEF TonnelEquivalent

LEMMA FiniteGreatest ==
  ASSUME NEW T, T \subseteq Nat, IsFiniteSet(T), T # {}
  PROVE  \E x \in T : \A y \in T : y <= x
<1> DEFINE above(x) == {y \in T : y > x}
           sizes    == {Cardinality(above(x)) : x \in T}
<1>1. \A x \in T : IsFiniteSet(above(x)) /\ Cardinality(above(x)) \in Nat
  BY FS_Subset, FS_CardinalityType
<1>2. sizes \subseteq Nat /\ sizes # {}
  BY <1>1
<1>3. PICK c \in sizes : \A d \in sizes : c <= d
  <2> HIDE DEF sizes
  <2>1. QED  BY <1>2, Least
<1>4. PICK x \in T : c = Cardinality(above(x))
  BY <1>3
<1>5. ASSUME NEW y \in T, ~(y <= x)
      PROVE  FALSE
  <2>1. x \in Nat /\ y \in Nat /\ x < y
    BY <1>5
  <2>2. above(y) \in SUBSET above(x)
    <3>1. \A z \in T : z > y => z > x
      BY <2>1
    <3>2. QED  BY <3>1
  <2>3. y \in above(x) /\ y \notin above(y)
    BY <2>1
  <2>4. Cardinality(above(y)) \in sizes
    OBVIOUS
  <2>5. c <= Cardinality(above(y))
    BY <1>3, <2>4
  <2>6. IsFiniteSet(above(x)) /\ Cardinality(above(x)) \in Nat /\ Cardinality(above(y)) \in Nat
    BY <1>1
  <2> HIDE DEF above, sizes
  <2>7. above(x) # above(y)
    BY <2>3
  <2>8. Cardinality(above(y)) <= Cardinality(above(x)) /\ Cardinality(above(x)) # Cardinality(above(y))
    BY <2>2, <2>6, <2>7, FS_Subset
  <2>9. QED  BY <1>4, <2>5, <2>6, <2>8
<1>6. QED  BY <1>5

\* Offers in the order of their prices: the k-th smallest exists for every k.
LEMMA SortedOffers ==
  ASSUME NEW O, IsFiniteSet(O), \A o \in O : o.price \in Nat
  PROVE  /\ Cardinality(O) \in Nat
         /\ Sorted(O) \in [1..Cardinality(O) -> {o.price : o \in O}]
         /\ \A i, j \in 1..Cardinality(O) : i <= j => Sorted(O)[i] <= Sorted(O)[j]
<1> DEFINE N     == Cardinality(O)
           P     == {o.price : o \in O}
           lt(x) == {o \in O : o.price < x}
           le(x) == {o \in O : o.price <= x}
           Is(k, x) == Cardinality(lt(x)) < k /\ k <= Cardinality(le(x))
<1>1. N \in Nat /\ IsFiniteSet(P) /\ P \subseteq Nat
  <2>1. N \in Nat
    BY FS_CardinalityType
  <2>2. P \subseteq Nat
    OBVIOUS
  <2>3. [o \in O |-> o.price] \in Surjection(O, P)
    BY DEF Surjection
  <2> HIDE DEF P
  <2>4. IsFiniteSet(P)
    BY <2>3, FS_Surjection
  <2>5. QED  BY <2>1, <2>2, <2>4
<1>2. \A x : /\ IsFiniteSet(lt(x)) /\ Cardinality(lt(x)) \in Nat
             /\ IsFiniteSet(le(x)) /\ Cardinality(le(x)) \in Nat
  BY FS_Subset, FS_CardinalityType
<1>a. DOMAIN Sorted(O) = 1..N
  BY DEF Sorted
<1>b. \A k \in 1..N : Sorted(O)[k] = CHOOSE x \in P : Is(k, x)
  BY DEF Sorted
<1>c. Sorted(O) = [k \in 1..N |-> Sorted(O)[k]]
  <2> DEFINE e(k) == CHOOSE x \in P : Is(k, x)
  <2>1. Sorted(O) = [k \in 1..N |-> e(k)]
    BY DEF Sorted
  <2> HIDE DEF e
  <2>2. QED  BY <2>1
<1>d. \A x : (\A o \in O : o.price <= x) => le(x) = O
  OBVIOUS
<1>e. \A x, y \in P : y < x => le(y) \in SUBSET lt(x)
  OBVIOUS
<1>f. \A x \in P : lt(x) # {} => \E y \in P : y < x
  OBVIOUS
<1>g. \A x, y \in P : (\A z \in P : z < x => z <= y) => lt(x) \in SUBSET le(y)
  OBVIOUS
<1>h. \A o \in O : o.price \in P
  OBVIOUS
<1>i. O # {} => P # {}
  OBVIOUS
<1>j. (\A x : lt(x) \in SUBSET O) /\ (\A x : le(x) \in SUBSET O)
  OBVIOUS
<1> HIDE DEF P, lt, le
<1>3. ASSUME NEW k \in 1..N
      PROVE  \E x \in P : Is(k, x)
  <2> DEFINE T == {x \in P : k <= Cardinality(le(x))}
  <2>1. T \subseteq Nat /\ T # {}
    <3>1. O # {}
      BY <1>1, FS_EmptySet
    <3>2. PICK m \in P : \A y \in P : y <= m
      BY <1>1, <1>i, <3>1, FiniteGreatest
    <3>3. le(m) = O
      BY <1>d, <1>h, <3>2
    <3>4. m \in T
      BY <1>1, <3>2, <3>3
    <3>5. QED  BY <1>1, <3>4
  <2>2. PICK x \in T : \A y \in T : x <= y
    <3> HIDE DEF T
    <3>1. QED  BY <2>1, Least
  <2>3. ASSUME ~(Cardinality(lt(x)) < k)
        PROVE  FALSE
    <3> DEFINE Q == {y \in P : y < x}
    <3>1. lt(x) # {}
      <4>1. Cardinality(lt(x)) # 0
        BY <1>2, <2>3
      <4>2. QED  BY <4>1, FS_EmptySet
    <3>2. Q # {} /\ Q \subseteq Nat /\ IsFiniteSet(Q)
      <4>1. Q # {}
        BY <1>f, <2>2, <3>1
      <4>2. Q \in SUBSET P
        OBVIOUS
      <4>3. QED  BY <1>1, <4>1, <4>2, FS_Subset
    <3>3. PICK y \in Q : \A z \in Q : z <= y
      <4> HIDE DEF Q
      <4>1. QED  BY <3>2, FiniteGreatest
    <3>4. lt(x) \in SUBSET le(y)
      BY <1>g, <2>2, <3>3
    <3>5. Cardinality(lt(x)) <= Cardinality(le(y))
      BY <1>2, <3>4, FS_Subset
    <3>6. k <= Cardinality(le(y))
      <4>1. Cardinality(lt(x)) \in Nat /\ Cardinality(le(y)) \in Nat
        BY <1>2
      <4>2. QED  BY <4>1, <2>3, <3>5
    <3>7. y \in T /\ y < x
      BY <3>6
    <3>8. x \in Nat /\ y \in Nat
      BY <2>1, <2>2, <3>7
    <3>9. QED  BY <2>2, <3>7, <3>8
  <2>4. QED  BY <2>2, <2>3
<1>4. ASSUME NEW k \in 1..N
      PROVE  Sorted(O)[k] \in P /\ Is(k, Sorted(O)[k])
  <2>1. Sorted(O)[k] = CHOOSE x \in P : Is(k, x)
    BY <1>b
  <2> HIDE DEF Is
  <2>2. QED  BY <1>3, <2>1
<1>6. ASSUME NEW i \in 1..N, NEW j \in 1..N, i <= j, ~(Sorted(O)[i] <= Sorted(O)[j])
      PROVE  FALSE
  <2> DEFINE x == Sorted(O)[i]
             y == Sorted(O)[j]
  <2>1. x \in P /\ y \in P /\ Cardinality(lt(x)) < i /\ j <= Cardinality(le(y))
    BY <1>4
  <2>2. ~(x <= y)
    BY <1>6
  <2> HIDE DEF x, y
  <2>3a. y < x
    BY <1>1, <2>1, <2>2
  <2>3. le(y) \in SUBSET lt(x)
    BY <1>e, <2>1, <2>3a
  <2>4. Cardinality(le(y)) <= Cardinality(lt(x))
    BY <1>2, <2>3, FS_Subset
  <2>5. Cardinality(lt(x)) \in Nat /\ Cardinality(le(y)) \in Nat
    BY <1>2
  <2>6. QED  BY <2>5, <1>6, <2>1, <2>4
<1>7. Sorted(O) \in [1..N -> P]
  <2> HIDE DEF N, Is
  <2>1. QED  BY <1>4, <1>a, <1>c
<1>8. QED  BY <1>1, <1>6, <1>7 DEF P

-----------------------------------------------------------------------------
(* What the venues are worth *)

Dear(s) == s \in Seq(Nat) /\ \A i \in DOMAIN s : 1000 * s[i] >= 1000 + Fee
Ascending(s) == \A i, j \in DOMAIN s : i <= j => s[i] <= s[j]

\* A cross market the rest of the pipeline can be handed.
CrossOK(cm) ==
  /\ DOMAIN cm = {"support", "asks", "best", "depth", "comparable", "unreachable"}
  /\ cm.support \in Nat /\ cm.depth \in Nat
  /\ Dear(cm.asks) /\ Ascending(cm.asks)
  /\ cm.best = (IF cm.asks = <<>> THEN 0 ELSE cm.asks[1])

LEMMA LadderAsked ==
  ASSUME NEW venue, AnswerOK(venue)
  PROVE  Dear(AskLadder(venue).asks) /\ AskLadder(venue).scope \in {"exact", "backdrop", "model"}
<1> DEFINE rungs == <<"exact", "backdrop", "model">>
           stop  == {i \in 1..3 : rungs[i] = venue.fails \/ Len(venue[rungs[i]]) > 0}
<1>1. Dear(<<>>)
  BY DEF Dear
<1>2. \A i \in 1..3 : rungs[i] \in {"exact", "backdrop", "model"}
  OBVIOUS
<1>3. CASE stop = {}
  BY <1>1, <1>3 DEF AskLadder
<1>4. CASE stop # {}
  <2>1. Min(stop) \in 1..3
    <3>1. stop \subseteq Nat
      OBVIOUS
    <3>2. Min(stop) \in stop
      <4> HIDE DEF stop
      <4>1. QED  BY <1>4, <3>1, MinOf
    <3>3. QED  BY <3>2
  <2> DEFINE r == rungs[Min(stop)]
  <2>2. r \in {"exact", "backdrop", "model"}
    BY <1>2, <2>1
  <2>3. /\ AskLadder(venue).asks = (IF r = venue.fails THEN <<>> ELSE venue[r])
        /\ AskLadder(venue).scope = r
    BY <1>4 DEF AskLadder
  <2> HIDE DEF r
  <2>4. Dear(venue[r])
    BY <2>2 DEF Dear, AnswerOK
  <2>5. QED  BY <1>1, <2>2, <2>3, <2>4
<1>5. QED  BY <1>3, <1>4

LEMMA ReferenceNat ==
  ASSUME NEW asks \in Seq(Nat)
  PROVE  Reference(asks) \in Nat /\ (asks = <<>> => Reference(asks) = 0)
<1> DEFINE O == {[at |-> i, price |-> asks[i]] : i \in DOMAIN asks}
           x == Sorted(O)
<1>1. IsFiniteSet(O)
  <2>1. IsFiniteSet(DOMAIN asks)
    BY FS_Interval
  <2>2. [i \in DOMAIN asks |-> [at |-> i, price |-> asks[i]]] \in Surjection(DOMAIN asks, O)
    BY DEF Surjection
  <2> HIDE DEF O
  <2>3. QED  BY <2>1, <2>2, FS_Surjection
<1>2. \A o \in O : o.price \in Nat
  OBVIOUS
<1>3. {o.price : o \in O} \subseteq Nat
  BY <1>2
<1>4. asks = <<>> => Cardinality(O) = 0
  <2>1. asks = <<>> => O = {}
    OBVIOUS
  <2>2. QED  BY <2>1, FS_EmptySet
<1>5. Reference(asks) =
        CASE Len(x) < 2 -> 0
          [] Len(x) = 2 -> IF 10 * x[2] > 14 * x[1] THEN 0 ELSE x[1]
          [] OTHER      -> x[2]
  BY DEF Reference
<1> HIDE DEF O
<1>6. Cardinality(O) \in Nat /\ x \in [1..Cardinality(O) -> Nat]
  <2>1. /\ Cardinality(O) \in Nat
        /\ x \in [1..Cardinality(O) -> {o.price : o \in O}]
    BY <1>1, <1>2, SortedOffers
  <2> HIDE DEF x
  <2>2. QED  BY <1>3, <2>1
<1> HIDE DEF x
<1>7. x \in Seq(Nat) /\ Len(x) = Cardinality(O)
  BY <1>6
<1>8. QED  BY <1>4, <1>5, <1>7

LEMMA DepthOK ==
  ASSUME NEW answers \in [Venues -> Answers]
  PROVE  CrossOK(CrossDepth(answers))
<1> DEFINE quoted  == QuotesForGift(answers)
           silent  == Cardinality({q \in quoted : q.shelf.failed})
           heard   == {q \in quoted : Reference(q.shelf.asks) > 0}
           R       == {[venue |-> q.venue, price |-> Reference(q.shelf.asks)] : q \in heard}
           sold(q) == {[venue |-> q.venue, at |-> i, price |-> q.shelf.asks[i]] : i \in DOMAIN q.shelf.asks}
           O       == UNION {sold(q) : q \in heard}
           refs    == Sorted(R)
           asks    == Sorted(O)
           nearest == {q \in heard : q.shelf.asks[1] = asks[1]}
           first   == CHOOSE q \in nearest : \A r \in nearest : q.venue <= r.venue
<1>1. \A q \in quoted : Dear(q.shelf.asks)
  <2>1. \A n \in Venues : AnswerOK(answers[n])
    BY AnswersAssumption
  <2>2. \A n \in Venues : Dear(AskLadder(answers[n]).asks)
    BY <2>1, LadderAsked
  <2>3. QED  BY <2>2 DEF QuotesForGift
<1>2. IsFiniteSet(quoted)
  <2>1. [n \in Venues |-> [venue |-> n, shelf |-> AskLadder(answers[n])]] \in Surjection(Venues, quoted)
    BY DEF Surjection, QuotesForGift
  <2>2. QED  BY <2>1, VenuesAssumption, FS_Surjection
<1>3. silent \in Nat
  <2>1. {q \in quoted : q.shelf.failed} \in SUBSET quoted
    OBVIOUS
  <2>2. QED  BY <1>2, <2>1, FS_Subset, FS_CardinalityType
<1>4. IsFiniteSet(heard) /\ heard \subseteq quoted
  <2>1. heard \in SUBSET quoted
    OBVIOUS
  <2>2. QED  BY <1>2, <2>1, FS_Subset
<1>5. CASE heard = {}
  <2>1. CrossDepth(answers) = [NoCross EXCEPT !.unreachable = silent]
    BY <1>5 DEF CrossDepth
  <2> HIDE DEF silent
  <2> DEFINE x == [NoCross EXCEPT !.unreachable = silent]
  <2>2. /\ DOMAIN x = {"support", "asks", "best", "depth", "comparable", "unreachable"}
        /\ x.support = 0 /\ x.depth = 0 /\ x.asks = <<>> /\ x.best = 0
    BY DEF NoCross
  <2>3. Dear(<<>>) /\ Ascending(<<>>)
    BY DEF Dear, Ascending
  <2> HIDE DEF x
  <2>4. QED  BY <2>1, <2>2, <2>3, SMTT(60) DEF CrossOK, x
<1>6. CASE heard # {}
  <2> HIDE DEF quoted
  <2>1. \A q \in heard : Reference(q.shelf.asks) \in Nat \ {0}
    <3>1. ASSUME NEW q \in heard PROVE Reference(q.shelf.asks) \in Nat \ {0}
      <4>1. q.shelf.asks \in Seq(Nat) /\ Reference(q.shelf.asks) > 0
        BY <1>1 DEF Dear
      <4>2. QED  BY <4>1, ReferenceNat
    <3>2. QED  BY <3>1
  <2>2. IsFiniteSet(R) /\ R # {} /\ \A o \in R : o.price \in Nat
    <3>1. [q \in heard |-> [venue |-> q.venue, price |-> Reference(q.shelf.asks)]] \in Surjection(heard, R)
      BY DEF Surjection
    <3>2. \A o \in R : o.price \in Nat
      BY <2>1
    <3>a. R # {}
      <4>1. PICK q \in heard : TRUE
        BY <1>6
      <4>2. [venue |-> q.venue, price |-> Reference(q.shelf.asks)] \in R
        OBVIOUS
      <4>3. QED  BY <4>2
    <3> HIDE DEF heard, R
    <3>3. QED  BY <1>4, <3>1, <3>2, <3>a, FS_Surjection
  <2>3. IsFiniteSet(O)
    <3>1. \A q \in heard : IsFiniteSet(sold(q))
      <4>1. ASSUME NEW q \in heard PROVE IsFiniteSet(sold(q))
        <5>1. q.shelf.asks \in Seq(Nat)
          BY <1>1 DEF Dear
        <5>2. IsFiniteSet(DOMAIN q.shelf.asks)
          BY <5>1, FS_Interval
        <5>3. [i \in DOMAIN q.shelf.asks |-> [venue |-> q.venue, at |-> i, price |-> q.shelf.asks[i]]]
                \in Surjection(DOMAIN q.shelf.asks, sold(q))
          BY DEF Surjection
        <5> HIDE DEF sold
        <5>4. QED  BY <5>2, <5>3, FS_Surjection
      <4>2. QED  BY <4>1
    <3>2. [q \in heard |-> sold(q)] \in Surjection(heard, {sold(q) : q \in heard})
      <4> HIDE DEF sold, heard
      <4>1. QED  BY DEF Surjection
    <3>3. IsFiniteSet({sold(q) : q \in heard})
      <4> HIDE DEF sold, heard
      <4>1. QED  BY <1>4, <3>2, FS_Surjection
    <3>4. \A S \in {sold(q) : q \in heard} : IsFiniteSet(S)
      <4> HIDE DEF sold, heard
      <4>1. QED  BY <3>1
    <3> HIDE DEF sold, heard
    <3>5. QED  BY <3>3, <3>4, FS_UNION
  <2>4. \A o \in O : o.price \in Nat /\ 1000 * o.price >= 1000 + Fee
    <3>1. ASSUME NEW q \in heard, NEW i \in DOMAIN q.shelf.asks
          PROVE  q.shelf.asks[i] \in Nat /\ 1000 * q.shelf.asks[i] >= 1000 + Fee
      BY <1>1 DEF Dear
    <3>2. QED  BY <3>1
  <2>5. O # {}
    <3>1. PICK q \in heard : TRUE
      BY <1>6
    <3>2. q.shelf.asks \in Seq(Nat) /\ q.shelf.asks # <<>>
      <4>1. q.shelf.asks \in Seq(Nat)
        BY <1>1 DEF Dear
      <4>2. QED  BY <2>1, <4>1, ReferenceNat
    <3>3. 1 \in DOMAIN q.shelf.asks
      BY <3>2
    <3>4. sold(q) # {}
      BY <3>3
    <3> HIDE DEF sold, heard
    <3>5. QED  BY <3>4
  <2>6. /\ refs \in Seq(Nat) /\ Len(refs) \in Nat \ {0}
    <3> HIDE DEF R
    <3>1. Cardinality(R) \in Nat /\ refs \in [1..Cardinality(R) -> {o.price : o \in R}]
      BY <2>2, SortedOffers
    <3>2. Cardinality(R) # 0
      BY <2>2, FS_EmptySet
    <3>3. {o.price : o \in R} \subseteq Nat
      BY <2>2
    <3> HIDE DEF refs
    <3>4. refs \in [1..Cardinality(R) -> Nat]
      BY <3>1, <3>3
    <3>5. QED  BY <3>1, <3>2, <3>4
  <2>7. /\ asks \in Seq(Nat) /\ Len(asks) \in Nat \ {0} /\ Dear(asks) /\ Ascending(asks)
    <3> HIDE DEF O
    <3>1. /\ Cardinality(O) \in Nat /\ asks \in [1..Cardinality(O) -> {o.price : o \in O}]
          /\ \A i, j \in 1..Cardinality(O) : i <= j => asks[i] <= asks[j]
      BY <2>3, <2>4, SortedOffers
    <3>2. Cardinality(O) # 0
      BY <2>3, <2>5, FS_EmptySet
    <3>3. \A p \in {o.price : o \in O} : p \in Nat /\ 1000 * p >= 1000 + Fee
      BY <2>4
    <3> HIDE DEF asks
    <3>4. asks \in [1..Cardinality(O) -> Nat] /\ \A i \in 1..Cardinality(O) : 1000 * asks[i] >= 1000 + Fee
      BY <3>1, <3>3
    <3>5. asks \in Seq(Nat) /\ Len(asks) = Cardinality(O) /\ DOMAIN asks = 1..Cardinality(O)
      BY <3>1, <3>4, SMTT(60)
    <3>6. QED  BY <3>1, <3>2, <3>4, <3>5 DEF Dear, Ascending
  <2> DEFINE support == refs[Len(refs) \div 2 + 1]
             depth   == asks[Lower(3, Len(asks))]
             comparable == Comparable(first.shelf.scope)
  <2>8. CrossDepth(answers) =
          [support |-> support, asks |-> asks, best |-> asks[1], depth |-> depth,
           comparable |-> comparable, unreachable |-> silent]
    <3> HIDE DEF refs, asks, first, silent
    <3>1. QED  BY <1>6 DEF CrossDepth, quoted, refs, asks, first, silent
  <2>9. support \in Nat /\ depth \in Nat /\ asks[1] \in Nat /\ comparable \in BOOLEAN
    <3> HIDE DEF refs, asks, first
    <3>1. QED  BY <2>6, <2>7 DEF Lower, Comparable
  <2> HIDE DEF refs, asks, silent, support, depth, comparable
  <2>10. asks # <<>>
    BY <2>7
  <2>11. QED  BY <1>3, <2>7, <2>8, <2>9, <2>10 DEF CrossOK
<1>7. QED  BY <1>5, <1>6

-----------------------------------------------------------------------------
(* The exits in their order, from stage to stage *)

\* The cross market after the blanks of it are filled.
LEMMA FillOK ==
  ASSUME NEW cm, DOMAIN cm = {"support", "asks", "best", "depth", "comparable", "unreachable"},
         cm.support \in Nat, cm.depth \in Nat, Dear(cm.asks), Ascending(cm.asks),
         cm.best = 0 \/ (cm.asks # <<>> /\ cm.best = cm.asks[1])
  PROVE  CrossOK(FillBuyerCosts(cm)) /\ FillBuyerCosts(cm).support = cm.support /\ FillBuyerCosts(cm).asks = cm.asks
<1>1. CASE cm.asks = <<>>
  BY <1>1 DEF FillBuyerCosts, CrossOK
<1>2. CASE cm.asks # <<>>
  <2> DEFINE b == IF cm.best <= 0 THEN cm.asks[1] ELSE cm.best
             d == IF cm.depth <= 0 THEN cm.asks[Lower(3, Len(cm.asks))] ELSE cm.depth
             x == [cm EXCEPT !.best = b, !.depth = d]
  <2>1. FillBuyerCosts(cm) = x
    BY <1>2 DEF FillBuyerCosts
  <2>2. cm.asks \in Seq(Nat) /\ Len(cm.asks) \in Nat \ {0}
    BY <1>2 DEF Dear
  <2>3. d \in Nat
    BY <2>2 DEF Lower
  <2>4. b = cm.asks[1]
    BY <2>2
  <2> HIDE DEF b, d
  <2>5. /\ DOMAIN x = {"support", "asks", "best", "depth", "comparable", "unreachable"}
        /\ x.support = cm.support /\ x.depth = d /\ x.asks = cm.asks /\ x.best = b
    OBVIOUS
  <2> HIDE DEF x
  <2>6. QED  BY <1>2, <2>1, <2>3, <2>4, <2>5 DEF CrossOK
<1>3. QED  BY <1>1, <1>2

LEMMA WithoutOK ==
  ASSUME NEW s, Dear(s), Ascending(s), NEW n \in 0..Len(s)
  PROVE  Dear(Without(s, n)) /\ Ascending(Without(s, n))
<1>1. s \in Seq(Nat) /\ Len(s) \in Nat
  BY DEF Dear
<1>2. Without(s, n) = [i \in 1..(Len(s) - n) |-> s[i + n]]
  BY DEF Without
<1>3. \A i \in 1..(Len(s) - n) : i + n \in DOMAIN s /\ s[i + n] \in Nat
  BY <1>1
<1>4. Without(s, n) \in Seq(Nat) /\ DOMAIN Without(s, n) = 1..(Len(s) - n)
  BY <1>1, <1>2, <1>3
<1>5. Dear(Without(s, n))
  BY <1>2, <1>3, <1>4 DEF Dear
<1>6. Ascending(Without(s, n))
  BY <1>1, <1>2, <1>3, <1>4 DEF Ascending
<1>7. QED  BY <1>5, <1>6

\* Everybody on sale: the local book and the venues in Tonnel's money.
LEMMA LadderParts ==
  ASSUME NEW in, LotOK(in), NEW cm, CrossOK(cm)
  PROVE  LET L == MergedLadder(in, cm) IN
         /\ L \in Seq(Nat)
         /\ \A i \in DOMAIN L : \/ \E j \in DOMAIN in.asks : L[i] = in.asks[j]
                                \/ \E j \in DOMAIN cm.asks : L[i] = TonnelEquivalent(cm.asks[j])
         /\ \A j \in DOMAIN in.asks : \E i \in DOMAIN L : L[i] = in.asks[j]
         /\ \A j \in DOMAIN cm.asks : \E i \in DOMAIN L : L[i] = TonnelEquivalent(cm.asks[j])
<1> DEFINE A == in.asks
           T == [i \in DOMAIN cm.asks |-> TonnelEquivalent(cm.asks[i])]
           L == A \o T
<1>1. A \in Seq(Nat)
  BY DEF LotOK
<1>2. cm.asks \in Seq(Nat)
  BY DEF CrossOK, Dear
<1>3. \A j \in DOMAIN cm.asks : TonnelEquivalent(cm.asks[j]) \in Nat
  <2>1. ASSUME NEW j \in DOMAIN cm.asks PROVE TonnelEquivalent(cm.asks[j]) \in Nat
    <3>1. cm.asks[j] \in Nat /\ 1000 * cm.asks[j] >= 1000 + Fee
      BY <1>2 DEF CrossOK, Dear
    <3>2. QED  BY <3>1, Equivalents
  <2>2. QED  BY <2>1
<1>4. T \in Seq(Nat) /\ Len(T) = Len(cm.asks) /\ DOMAIN T = DOMAIN cm.asks
  BY <1>2, <1>3
<1>5. \A j \in DOMAIN cm.asks : T[j] = TonnelEquivalent(cm.asks[j])
  OBVIOUS
<1>6. MergedLadder(in, cm) = L
  BY DEF MergedLadder
<1> HIDE DEF A, T
<1>7. L \in Seq(Nat) /\ Len(L) = Len(A) + Len(T) /\ DOMAIN L = 1..Len(A) + Len(T)
  BY <1>1, <1>4, SMTT(60)
<1>8. \A i \in 1..Len(A) : L[i] = A[i]
  BY <1>1, <1>4
<1>9. \A j \in 1..Len(T) : L[Len(A) + j] = T[j]
  BY <1>1, <1>4
<1>10. \A i \in DOMAIN L : i \in 1..Len(A) \/ i - Len(A) \in 1..Len(T)
  BY <1>1, <1>4, <1>7
<1>11. \A i \in DOMAIN L : i \in Nat /\ Len(A) + (i - Len(A)) = i
  BY <1>1, <1>7
<1>12. DOMAIN A = 1..Len(A) /\ DOMAIN T = 1..Len(T) /\ Len(A) \in Nat /\ Len(T) \in Nat
  BY <1>1, <1>4
<1>13. \A i \in DOMAIN L : (\E j \in DOMAIN A : L[i] = A[j]) \/ (\E j \in DOMAIN T : L[i] = T[j])
  <2>1. ASSUME NEW i \in DOMAIN L
        PROVE  (\E j \in DOMAIN A : L[i] = A[j]) \/ (\E j \in DOMAIN T : L[i] = T[j])
    <3>1. CASE i \in 1..Len(A)
      BY <1>8, <1>12, <3>1
    <3>2. CASE i - Len(A) \in 1..Len(T)
      <4> HIDE DEF L
      <4>1. L[Len(A) + (i - Len(A))] = T[i - Len(A)]
        BY <1>9, <3>2
      <4>2. L[i] = T[i - Len(A)]
        BY <1>11, <4>1
      <4>3. QED  BY <1>12, <3>2, <4>2
    <3>3. QED  BY <1>10, <3>1, <3>2
  <2>2. QED  BY <2>1
<1>14. /\ \A j \in DOMAIN A : \E i \in DOMAIN L : L[i] = A[j]
       /\ \A j \in DOMAIN T : \E i \in DOMAIN L : L[i] = T[j]
  <2>1. \A j \in DOMAIN A : j \in DOMAIN L
    BY <1>7, <1>12
  <2>2. \A j \in DOMAIN T : Len(A) + j \in DOMAIN L
    BY <1>7, <1>12
  <2> HIDE DEF L
  <2>3. QED  BY <1>8, <1>9, <1>12, <2>1, <2>2
<1> HIDE DEF L
<1>15. \A i \in DOMAIN L : \/ \E j \in DOMAIN in.asks : L[i] = in.asks[j]
                           \/ \E j \in DOMAIN cm.asks : L[i] = TonnelEquivalent(cm.asks[j])
  BY <1>4, <1>5, <1>13 DEF A
<1>16. \A j \in DOMAIN in.asks : \E i \in DOMAIN L : L[i] = in.asks[j]
  BY <1>14 DEF A
<1>17. \A j \in DOMAIN cm.asks : \E i \in DOMAIN L : L[i] = TonnelEquivalent(cm.asks[j])
  BY <1>4, <1>5, <1>14
<1>18. L \in Seq(Nat)
  BY <1>7
<1>19. QED  BY <1>6, <1>15, <1>16, <1>17, <1>18

\* x is where the cheapest of a ladder stands; nothing when nobody is on it.
Fronts(x, ladder) ==
  /\ x \in Nat
  /\ \A i \in DOMAIN ladder : x <= ladder[i]
  /\ IF x = 0 THEN DOMAIN ladder = {} ELSE \E i \in DOMAIN ladder : ladder[i] = x

\* The price one would walk away at, before it is written down.
Away(competing, cm) ==
  LET best == TonnelEquivalent(cm.best)
  IN  IF best > 0 /\ (competing <= 0 \/ best < competing) THEN best ELSE competing

LEMMA AwayFronts ==
  ASSUME NEW in, LotOK(in), NEW cm, CrossOK(cm),
         NEW competing, competing = (IF in.asks = <<>> THEN 0 ELSE in.asks[1])
  PROVE  Fronts(Away(competing, cm), MergedLadder(in, cm))
<1> DEFINE L == MergedLadder(in, cm)
           best == TonnelEquivalent(cm.best)
<1>1. /\ L \in Seq(Nat)
      /\ \A i \in DOMAIN L : \/ \E j \in DOMAIN in.asks : L[i] = in.asks[j]
                             \/ \E j \in DOMAIN cm.asks : L[i] = TonnelEquivalent(cm.asks[j])
      /\ \A j \in DOMAIN in.asks : \E i \in DOMAIN L : L[i] = in.asks[j]
      /\ \A j \in DOMAIN cm.asks : \E i \in DOMAIN L : L[i] = TonnelEquivalent(cm.asks[j])
  BY LadderParts
<1>2. /\ in.asks \in Seq(Nat) /\ cm.asks \in Seq(Nat)
      /\ in.asks # <<>> => 1 \in DOMAIN in.asks
      /\ cm.asks # <<>> => 1 \in DOMAIN cm.asks
  BY DEF LotOK, CrossOK, Dear
<1>3. /\ in.asks = <<>> => competing = 0 /\ DOMAIN in.asks = {}
      /\ in.asks # <<>> => competing \in Nat \ {0} /\ competing = in.asks[1]
      /\ \A j \in DOMAIN in.asks : competing <= in.asks[j]
  <2>1. CASE in.asks = <<>>
    BY <2>1
  <2>2. CASE in.asks # <<>>
    <3>1. competing = in.asks[1] /\ in.asks[1] \in Nat /\ in.asks[1] > 0
      BY <1>2, <2>2, SMTT(60) DEF LotOK
    <3>2. \A j \in DOMAIN in.asks : 1 <= j => in.asks[1] <= in.asks[j]
      BY <1>2, <2>2 DEF LotOK
    <3>3. \A j \in DOMAIN in.asks : 1 <= j
      BY <1>2
    <3>4. QED  BY <2>2, <3>1, <3>2, <3>3
  <2>3. QED  BY <2>1, <2>2
<1>4. /\ cm.asks = <<>> => best = 0 /\ DOMAIN cm.asks = {}
      /\ cm.asks # <<>> => best \in Nat \ {0} /\ best = TonnelEquivalent(cm.asks[1])
      /\ \A j \in DOMAIN cm.asks : best <= TonnelEquivalent(cm.asks[j])
  <2>1. CASE cm.asks = <<>>
    BY <2>1 DEF CrossOK, TonnelEquivalent
  <2>2. CASE cm.asks # <<>>
    <3>1. cm.best = cm.asks[1] /\ cm.asks[1] \in Nat /\ 1000 * cm.asks[1] >= 1000 + Fee
      BY <1>2, <2>2 DEF CrossOK, Dear
    <3>2. ASSUME NEW j \in DOMAIN cm.asks PROVE best <= TonnelEquivalent(cm.asks[j])
      <4>1. cm.asks[j] \in Nat /\ cm.asks[1] <= cm.asks[j]
        BY <1>2, <2>2 DEF CrossOK, Ascending
      <4>2. QED  BY <3>1, <4>1, Equivalents
    <3>3. best \in Nat \ {0}
      BY <3>1, Equivalents
    <3>4. QED  BY <2>2, <3>1, <3>2, <3>3
  <2>3. QED  BY <2>1, <2>2
<1>5. /\ \A j \in DOMAIN in.asks : in.asks[j] \in Nat
      /\ \A i \in DOMAIN L : L[i] \in Nat
      /\ best \in Nat /\ competing \in Nat
  BY <1>1, <1>2, <1>3, <1>4, SMTT(60)
<1> DEFINE x == Away(competing, cm)
<1>6. x = IF best > 0 /\ (competing <= 0 \/ best < competing) THEN best ELSE competing
  BY DEF Away
<1> HIDE DEF L, best, x
<1>7. /\ x \in Nat
      /\ in.asks # <<>> => x <= competing
      /\ cm.asks # <<>> => x <= best
      /\ x = 0 => in.asks = <<>> /\ cm.asks = <<>>
      /\ x # 0 => (x = best /\ cm.asks # <<>>) \/ (x = competing /\ in.asks # <<>>)
  BY <1>3, <1>4, <1>5, <1>6
<1>8. ASSUME NEW i \in DOMAIN L PROVE x <= L[i]
  <2>1. CASE \E j \in DOMAIN in.asks : L[i] = in.asks[j]
    <3>1. PICK j \in DOMAIN in.asks : L[i] = in.asks[j]
      BY <2>1
    <3>2. competing <= L[i] /\ in.asks # <<>>
      BY <1>3, <3>1
    <3>3. QED  BY <1>5, <1>7, <3>2
  <2>2. CASE \E j \in DOMAIN cm.asks : L[i] = TonnelEquivalent(cm.asks[j])
    <3>1. PICK j \in DOMAIN cm.asks : L[i] = TonnelEquivalent(cm.asks[j])
      BY <2>2
    <3>2. best <= L[i] /\ cm.asks # <<>>
      BY <1>4, <3>1
    <3>3. QED  BY <1>5, <1>7, <3>2
  <2>3. QED  BY <1>1, <2>1, <2>2 DEF L
<1>9. x = 0 => DOMAIN L = {}
  BY <1>1, <1>3, <1>4, <1>7 DEF L
<1>10. x # 0 => \E i \in DOMAIN L : L[i] = x
  BY <1>1, <1>2, <1>3, <1>4, <1>7 DEF L
<1>11. QED  BY <1>7, <1>8, <1>9, <1>10 DEF Fronts, L, x

\* What every stage can rely on.
Base(u) == Shape(u) /\ u.cost \in Nat /\ CrossOK(u.cross) /\ u.support \in Nat

\* After the local book is read.
Booked(u, in) ==
  /\ Base(u)
  /\ u.competing = (IF in.asks = <<>> THEN 0 ELSE in.asks[1])
  /\ u.liveDepth \in Nat /\ u.liquidation = 0

LEMMA StartedOK ==
  ASSUME NEW u, NEW in, Base(u)
  PROVE  /\ Base(Started(u, in))
         /\ Started(u, in).competing = 0 /\ Started(u, in).liveDepth = 0 /\ Started(u, in).liquidation = 0
<1> DEFINE r == ResetDerived(u)
           f == Fresh(u)
           a == Started(u, in)
           x == ReadRegime(in)
<1>1. DOMAIN u = Fields
  BY DEF Base, Shape
<1>2. Shape(r) /\ DOMAIN r = Fields
  BY <1>1, ZenonT(60) DEF ResetDerived, Shape
<1>3. /\ r.cost = u.cost /\ r.cross = u.cross /\ r.support = u.support
      /\ r.competing = 0 /\ r.liveDepth = 0 /\ r.liquidation = 0
  BY <1>1 DEF ResetDerived, Fields
<1> HIDE DEF r
<1>4. f = [r EXCEPT !.reason = "none"]
  BY DEF Fresh, r
<1>5. Writes(r, f, {"reason"})
  BY <1>2, <1>4 DEF Writes, Agree, Shape
<1> HIDE DEF f
<1>6. DOMAIN f = Fields
  BY <1>5 DEF Writes, Agree, Shape
<1>7. a = [f EXCEPT !.regime = x]
  BY DEF Started, f
<1> HIDE DEF x
<1>8. Writes(f, a, {"regime"})
  BY <1>6, <1>7, <1>5 DEF Writes, Agree, Shape
<1> HIDE DEF a
<1>9. /\ Shape(a) /\ a.cost = r.cost /\ a.cross = r.cross /\ a.support = r.support
      /\ a.competing = r.competing /\ a.liveDepth = r.liveDepth /\ a.liquidation = r.liquidation
  BY <1>5, <1>8 DEF Writes, Agree, Fields
<1>10. QED  BY <1>3, <1>9 DEF Base, a

LEMMA MedianNat ==
  ASSUME NEW asks \in Seq(Nat), asks # <<>>
  PROVE  /\ ContiguousDepth(asks) \in 1..Len(asks)
         /\ MedianFirst(asks, ContiguousDepth(asks)) \in Nat
<1> DEFINE n     == Lower(3, Len(asks))
           holes == {i \in 2..n : asks[i] > PerMille(asks[i - 1], 1200)}
           t     == ContiguousDepth(asks)
<1>1. n \in 1..Len(asks)
  BY DEF Lower
<1>2. t = IF holes = {} THEN n ELSE Min(holes) - 1
  BY DEF ContiguousDepth
<1>3. t \in 1..Len(asks)
  <2>1. CASE holes = {}
    BY <1>1, <1>2, <2>1
  <2>2. CASE holes # {}
    <3>1. holes \subseteq 2..n /\ holes \subseteq Nat
      BY <1>1
    <3>2. Min(holes) \in holes
      <4> HIDE DEF holes, n
      <4>1. QED  BY <2>2, <3>1, MinOf
    <3>3. Min(holes) \in 2..n
      <4> HIDE DEF holes, n
      <4>1. QED  BY <3>1, <3>2
    <3>4. t = Min(holes) - 1
      <4> HIDE DEF holes, n, t
      <4>1. QED  BY <1>2, <2>2
    <3> HIDE DEF holes, t, n
    <3>5. Len(asks) \in Nat
      OBVIOUS
    <3>6. QED  BY <1>1, <3>3, <3>4, <3>5
  <2>3. QED  BY <2>1, <2>2
<1> HIDE DEF t
<1>4. CASE t % 2 = 1
  <2>1. t \div 2 + 1 \in 1..Len(asks)
    BY <1>3, <1>4
  <2>2. QED  BY <1>3, <1>4, <2>1 DEF MedianFirst, t
<1>5. CASE t % 2 # 1
  <2>1. t \div 2 + 1 \in 1..Len(asks) /\ t \div 2 \in 1..Len(asks)
    BY <1>3, <1>5
  <2>2. asks[t \div 2] \in Nat /\ asks[t \div 2 + 1] \in Nat
    BY <2>1
  <2>3. MedianFirst(asks, t) = (asks[t \div 2] + asks[t \div 2 + 1]) \div 2
    BY <1>5 DEF MedianFirst
  <2>4. QED  BY <1>3, <2>2, <2>3, SMTT(60) DEF t
<1>6. QED  BY <1>4, <1>5

LEMMA BookOK ==
  ASSUME NEW u, NEW in, LotOK(in), Base(u), u.competing = 0, u.liveDepth = 0, u.liquidation = 0
  PROVE  Booked(ReadLocalBook(u, in), in)
<1> DEFINE s == ReadLocalBook(u, in)
<1>1. DOMAIN u = Fields /\ Shape(u)
  BY DEF Base, Shape
<1>2. CASE in.asks = <<>>
  <2>1. s = u
    BY <1>2 DEF ReadLocalBook
  <2>2. QED  BY <1>2, <2>1 DEF Booked
<1>3. CASE in.asks # <<>>
  <2>1. Writes(u, s, {"competing", "liveCount", "liveDepth", "capped"})
    BY <1>1, BookWrites
  <2>2. /\ s.competing = in.asks[1]
        /\ s.liveDepth = IF Len(in.asks) >= 2
                         THEN Lower(MedianFirst(in.asks, ContiguousDepth(in.asks)), PerMille(in.asks[1], 1200)) ELSE 0
    BY <1>1, <1>3 DEF ReadLocalBook, Fields
  <2>3. in.asks \in Seq(Nat) /\ in.asks[1] \in Nat
    BY <1>3, SMTT(60) DEF LotOK
  <2>4. MedianFirst(in.asks, ContiguousDepth(in.asks)) \in Nat /\ PerMille(in.asks[1], 1200) \in Nat
    <3>1. MedianFirst(in.asks, ContiguousDepth(in.asks)) \in Nat
      BY <1>3, <2>3, MedianNat
    <3>2. PerMille(in.asks[1], 1200) \in Nat
      BY <2>3 DEF PerMille
    <3>3. QED  BY <3>1, <3>2
  <2> HIDE DEF s
  <2>5. s.liveDepth \in Nat
    BY <2>2, <2>4 DEF Lower
  <2>6. Shape(s) /\ s.cost = u.cost /\ s.cross = u.cross /\ s.support = u.support /\ s.liquidation = u.liquidation
    BY <2>1 DEF Writes, Agree, Fields
  <2>7. QED  BY <1>3, <2>2, <2>5, <2>6 DEF Booked, Base, s
<1>4. QED  BY <1>2, <1>3

LEMMA ScreenOK ==
  ASSUME NEW u, NEW in, Booked(u, in)
  PROVE  Booked(ScreenCross(u, in), in)
<1> DEFINE anchor    == ExecutableAnchor(u, in)
           X         == {i \in DOMAIN u.cross.asks : 10 * u.cross.asks[i] < 4 * anchor}
           low       == Cardinality(X)
           plausible == PlausibleCross(u.support, anchor)
           none      == [u.cross EXCEPT !.support = 0]
           w         == IF plausible THEN u ELSE [u EXCEPT !.implausible = TRUE, !.support = 0, !.cross = none]
           s         == ScreenCross(u, in)
           cm        == FillBuyerCosts(Screened(w.cross, low))
<1>1. DOMAIN u = Fields /\ Shape(u) /\ Base(u)
  BY DEF Booked, Base, Shape
<1>2. [u EXCEPT !.implausible = TRUE, !.support = 0, !.cross.support = 0] =
        [u EXCEPT !.implausible = TRUE, !.support = 0, !.cross = none]
  BY <1>1 DEF Fields
<1>3. s = IF anchor <= 0 THEN u ELSE IF low = 0 THEN w
          ELSE [w EXCEPT !.implausible = TRUE, !.cross = cm]
  BY <1>2 DEF ScreenCross
<1>4. low \in 0..Len(u.cross.asks)
  <2>1. u.cross.asks \in Seq(Nat)
    BY <1>1 DEF Base, CrossOK, Dear
  <2>2. X \in SUBSET (1..Len(u.cross.asks)) /\ Len(u.cross.asks) \in Nat
    BY <2>1
  <2> HIDE DEF X
  <2>3. IsFiniteSet(1..Len(u.cross.asks)) /\ Cardinality(1..Len(u.cross.asks)) = Len(u.cross.asks)
    <3> DEFINE n == Len(u.cross.asks)
    <3>1. n \in Nat
      BY <2>2
    <3> HIDE DEF n
    <3>2. IsFiniteSet(1..n) /\ Cardinality(1..n) = IF 1 > n THEN 0 ELSE n - 1 + 1
      BY <3>1, FS_Interval
    <3>3. QED  BY <3>1, <3>2 DEF n
  <2>4. IsFiniteSet(X) /\ Cardinality(X) <= Len(u.cross.asks)
    BY <2>2, <2>3, FS_Subset
  <2>5. QED  BY <2>2, <2>4, FS_CardinalityType
<1> HIDE DEF low, anchor, plausible
<1>5. /\ DOMAIN none = {"support", "asks", "best", "depth", "comparable", "unreachable"}
      /\ none.support = 0 /\ none.asks = u.cross.asks /\ none.best = u.cross.best /\ none.depth = u.cross.depth
  BY <1>1 DEF Base, CrossOK
<1>6. CrossOK(none)
  <2> HIDE DEF none
  <2>1. QED  BY <1>1, <1>5 DEF Base, CrossOK
<1> HIDE DEF none
<1>7. /\ DOMAIN w = Fields /\ Shape(w)
      /\ \A f \in Fields \ {"implausible", "support", "cross"} : w[f] = u[f]
      /\ CrossOK(w.cross) /\ w.support \in Nat /\ w.cross.asks = u.cross.asks
  <2>1. CASE plausible
    BY <1>1, <2>1 DEF Base
  <2>2. CASE ~plausible
    <3>1. w = [u EXCEPT !.implausible = TRUE, !.support = 0, !.cross = none]
      BY <2>2
    <3>2. DOMAIN w = Fields /\ Shape(w)
      BY <1>1, <3>1 DEF Shape
    <3>3. \A f \in Fields \ {"implausible", "support", "cross"} : w[f] = u[f]
      BY <1>1, <3>1
    <3>4. w.support = 0 /\ w.cross = none
      BY <1>1, <3>1 DEF Fields
    <3> HIDE DEF w
    <3>5. QED  BY <1>5, <1>6, <3>2, <3>3, <3>4
  <2>3. QED  BY <2>1, <2>2
<1> HIDE DEF w
<1>8. CrossOK(cm)
  <2> DEFINE y == Screened(w.cross, low)
             a == Without(w.cross.asks, low)
  <2>1. Dear(w.cross.asks) /\ Ascending(w.cross.asks) /\ DOMAIN w.cross = {"support", "asks", "best", "depth", "comparable", "unreachable"}
    BY <1>7 DEF CrossOK
  <2>2. Dear(a) /\ Ascending(a)
    BY <1>4, <1>7, <2>1, WithoutOK
  <2>3. y = [w.cross EXCEPT !.asks = a, !.best = 0, !.depth = 0]
    BY DEF Screened
  <2> HIDE DEF a
  <2>4. /\ DOMAIN y = {"support", "asks", "best", "depth", "comparable", "unreachable"}
        /\ y.support = w.cross.support /\ y.asks = a /\ y.best = 0 /\ y.depth = 0
    BY <2>1, <2>3
  <2>5. y.support \in Nat
    BY <1>7, <2>4 DEF CrossOK
  <2> HIDE DEF y
  <2>6. QED  BY <2>2, <2>4, <2>5, FillOK DEF y
<1> HIDE DEF cm
<1> DEFINE z == [w EXCEPT !.implausible = TRUE, !.cross = cm]
<1>9. /\ Shape(z) /\ z.cross = cm
      /\ \A f \in Fields \ {"implausible", "cross"} : z[f] = w[f]
  BY <1>7 DEF Shape, Fields
<1> HIDE DEF z
<1>10. Booked(u, in) /\ Booked(w, in) /\ Booked(z, in)
  <2>1. {"cost", "competing", "liveDepth", "liquidation"} \subseteq Fields \ {"implausible", "support", "cross"}
        /\ {"cost", "competing", "liveDepth", "liquidation", "support"} \subseteq Fields \ {"implausible", "cross"}
    BY DEF Fields
  <2>2. /\ w.cost = u.cost /\ w.competing = u.competing /\ w.liveDepth = u.liveDepth /\ w.liquidation = u.liquidation
        /\ z.cost = w.cost /\ z.competing = w.competing /\ z.liveDepth = w.liveDepth
        /\ z.liquidation = w.liquidation /\ z.support = w.support
    BY <1>7, <1>9, <2>1
  <2>3. QED  BY <1>7, <1>8, <1>9, <2>2 DEF Booked, Base
<1>11. QED  BY <1>3, <1>10 DEF z

\* Where the lot stands among the others, and what it fetches at once.
Located(u, in) ==
  /\ Base(u)
  /\ u.liveDepth \in Nat /\ u.liquidation \in Nat
  /\ Fronts(u.walkaway, MergedLadder(in, u.cross))
  /\ u.walkaway > 0 => u.liquidation <= u.walkaway

LEMMA WalkedOK ==
  ASSUME NEW u, NEW in, LotOK(in), Booked(u, in)
  PROVE  Located(SetLiquidation(ReadWalkaway(u, in), in), in)
<1> DEFINE d == ReadWalkaway(u, in)
           e == SetLiquidation(d, in)
<1>1. DOMAIN u = Fields /\ Shape(u) /\ Base(u)
  BY DEF Booked, Base, Shape
<1>2. Writes(u, d, {"below", "undercuts", "walkaway", "venue"})
  BY <1>1, WalkawayWrites
<1>3. d.walkaway = Away(u.competing, u.cross)
  BY <1>1 DEF ReadWalkaway, Away, Fields
<1> HIDE DEF d
<1>4. /\ Shape(d) /\ d.cost = u.cost /\ d.cross = u.cross /\ d.support = u.support
      /\ d.liveDepth = u.liveDepth /\ d.liquidation = u.liquidation
  BY <1>2 DEF Writes, Agree, Fields
<1>5. Fronts(d.walkaway, MergedLadder(in, d.cross))
  BY <1>1, <1>3, <1>4, AwayFronts DEF Booked, Base
<1>6. Writes(d, e, {"liquidation", "basis"})
  BY <1>4, LiquidationWrites
<1>7. DOMAIN d = Fields
  BY <1>4 DEF Shape
<1> DEFINE floor == IF d.walkaway > 0 THEN d.walkaway ELSE in.floor
           under == PerMille(floor, 1000 - Undercut)
           tape  == d.liveCount < 2 /\ in.median > 0 /\ in.median < under
<1>8. e.liquidation = IF floor <= 0 THEN d.liquidation ELSE IF tape THEN in.median ELSE under
  BY <1>7 DEF SetLiquidation, Fields
<1>9. in.floor \in Nat /\ in.median \in Nat /\ d.walkaway \in Nat
  BY <1>5 DEF LotOK, Fronts
<1>10. under \in Nat /\ under <= floor /\ floor \in Nat
  <2>1. 1000 - Undercut \in 0..1000
    BY RatesAssumption
  <2>2. floor \in Nat
    BY <1>9
  <2> DEFINE p == 1000 - Undercut
  <2> HIDE DEF floor, p
  <2>3. PerMille(floor, p) \in Nat /\ PerMille(floor, p) <= floor
    BY <2>1, <2>2, PerMilleDown, ZenonT(60) DEF p
  <2>4. QED  BY <2>2, <2>3 DEF p
<1>11. d.liquidation = 0
  BY <1>4 DEF Booked
<1> HIDE DEF e, under
<1>12. e.liquidation \in Nat /\ (d.walkaway > 0 => e.liquidation <= d.walkaway)
  BY <1>8, <1>9, <1>10, <1>11
<1>13. /\ Shape(e) /\ e.cost = d.cost /\ e.cross = d.cross /\ e.support = d.support
       /\ e.liveDepth = d.liveDepth /\ e.walkaway = d.walkaway
  BY <1>6 DEF Writes, Agree, Fields
<1>14. QED  BY <1>1, <1>4, <1>5, <1>12, <1>13 DEF Located, Base, Booked, d, e

LEMMA LocatedKept ==
  ASSUME NEW u, NEW s, NEW in, NEW W, Located(u, in), Writes(u, s, W),
         W \cap {"cost", "cross", "support", "liveDepth", "liquidation", "walkaway"} = {}
  PROVE  Located(s, in)
<1>1. {"cost", "cross", "support", "liveDepth", "liquidation", "walkaway"} \subseteq Fields \ W
  BY DEF Fields
<1>2. /\ Shape(s) /\ s.cost = u.cost /\ s.cross = u.cross /\ s.support = u.support
      /\ s.liveDepth = u.liveDepth /\ s.liquidation = u.liquidation /\ s.walkaway = u.walkaway
  BY <1>1 DEF Writes, Agree
<1>3. QED  BY <1>2 DEF Located, Base

LEMMA ReferenceTyped ==
  ASSUME NEW in, LotOK(in), NEW regime
  PROVE  RegimeReference(regime, in) \in Nat
<1>1. in.median \in Nat /\ in.median7 \in Nat
  BY DEF LotOK
<1>2. RecencyWeight(regime) \in 0..1000
  BY DEF RecencyWeight
<1> DEFINE r == RecencyWeight(regime)
           q == 1000 - r
<1>3. r \in Nat /\ q \in Nat
  BY <1>2
<1> HIDE DEF r, q
<1>4. in.median * q \in Nat /\ in.median7 * r \in Nat
  BY <1>1, <1>3
<1>5. PerMille(in.median, q) \in Nat /\ PerMille(in.median7, r) \in Nat
  BY <1>4 DEF PerMille
<1>6. QED  BY <1>1, <1>5 DEF RegimeReference, q, r

LEMMA WeightsTyped ==
  ASSUME NEW u, NEW in, LotOK(in), u.liveDepth \in Nat, u.support \in Nat
  PROVE  /\ Weights(u, in).live \in Nat /\ Weights(u, in).history \in Nat
         /\ Weights(u, in).cross \in Nat /\ Weights(u, in).trait \in Nat
         /\ Shrunk(u, in) \in Int
<1> DEFINE hw == IF in.median <= 0 THEN 0 ELSE HistoryWeight(in.distinct)
           tw == IF HasTraitEvidence(in) THEN 5 ELSE 0
           cw == IF u.support > 0 THEN 20 ELSE 0
           lw == IF u.liveDepth > 0 THEN Higher(0, 100 - hw - cw - tw) ELSE 0
           med == RegimeReference(u.regime, in)
<1>1. Weights(u, in) = [live |-> lw, history |-> hw, cross |-> cw, trait |-> tw]
  BY DEF Weights
<1>2. hw \in Nat /\ tw \in Nat /\ cw \in Nat
  BY DEF HistoryWeight
<1>3. lw \in Nat
  <2> HIDE DEF hw, tw, cw
  <2>1. QED  BY <1>2 DEF Higher
<1> HIDE DEF hw, tw, cw, lw
<1>4. med \in Nat
  BY ReferenceTyped
<1>5. Weights(u, in).history = hw
  BY <1>1
<1>6. Shrunk(u, in) = IF med > 0 /\ u.liveDepth > 0 THEN u.liveDepth + ((med - u.liveDepth) * hw) \div 40 ELSE med
  BY <1>5 DEF Shrunk
<1> HIDE DEF med
<1>7. (med - u.liveDepth) * hw \in Int
  BY <1>2, <1>4
<1>8. Shrunk(u, in) \in Int
  BY <1>4, <1>6, <1>7
<1>9. QED  BY <1>1, <1>2, <1>3, <1>8

LEMMA BlendOK ==
  ASSUME NEW u, NEW in, LotOK(in), Located(u, in), ~Rejected(BlendWeights(u, in))
  PROVE  LET g == BlendWeights(u, in) IN
         /\ Located(g, in) /\ g.history \in Int
         /\ g.weights.live \in Nat /\ g.weights.history \in Nat
         /\ g.weights.cross \in Nat /\ g.weights.trait \in Nat
<1> DEFINE g == BlendWeights(u, in)
<1>1. Shape(u) /\ DOMAIN u = Fields
  BY DEF Located, Base, Shape
<1>2. Located(g, in)
  <2>1. Writes(u, g, BlendFields)
    BY <1>1, BlendWrites
  <2>2. BlendFields \cap {"cost", "cross", "support", "liveDepth", "liquidation", "walkaway"} = {}
    BY DEF BlendFields
  <2> HIDE DEF g
  <2>3. QED  BY <2>1, <2>2, LocatedKept
<1>3. CASE Weights(u, in) = NoWeights
  <2>1. g = [u EXCEPT !.reason = "no support"]
    BY <1>3 DEF BlendWeights
  <2>2. g.reason = "no support"
    BY <1>1, <2>1 DEF Fields
  <2>3. QED  BY <2>2 DEF Rejected
<1>4. CASE Weights(u, in) # NoWeights
  <2>1. g.weights = Weights(u, in) /\ g.history = Shrunk(u, in)
    BY <1>1, <1>4 DEF BlendWeights, Fields
  <2>2. u.liveDepth \in Nat /\ u.support \in Nat
    BY DEF Located, Base
  <2> HIDE DEF g
  <2>3. QED  BY <1>2, <2>1, <2>2, WeightsTyped DEF g
<1>5. QED  BY <1>3, <1>4

LEMMA ProductNat ==
  ASSUME NEW a \in Int, NEW b \in Nat
  PROVE  LET w == IF a > 0 /\ b > 0 THEN b ELSE 0 IN w \in Nat /\ a * w \in Nat
<1>1. CASE a > 0 /\ b > 0
  <2>1. a \in Nat
    BY <1>1
  <2>2. a * b \in Nat
    BY <2>1
  <2>3. QED  BY <1>1, <2>2
<1>2. CASE ~(a > 0 /\ b > 0)
  BY <1>2
<1>3. QED  BY <1>1, <1>2

LEMMA WeightedNat ==
  ASSUME NEW a1 \in Int, NEW b1 \in Nat, NEW a2 \in Int, NEW b2 \in Nat,
         NEW a3 \in Int, NEW b3 \in Nat, NEW a4 \in Int, NEW b4 \in Nat
  PROVE  Weighted(<< <<a1, b1>>, <<a2, b2>>, <<a3, b3>>, <<a4, b4>> >>) \in Nat
<1> DEFINE w1 == IF a1 > 0 /\ b1 > 0 THEN b1 ELSE 0
           w2 == IF a2 > 0 /\ b2 > 0 THEN b2 ELSE 0
           w3 == IF a3 > 0 /\ b3 > 0 THEN b3 ELSE 0
           w4 == IF a4 > 0 /\ b4 > 0 THEN b4 ELSE 0
           total == w1 + w2 + w3 + w4
           priced == a1 * w1 + a2 * w2 + a3 * w3 + a4 * w4
<1>1. Weighted(<< <<a1, b1>>, <<a2, b2>>, <<a3, b3>>, <<a4, b4>> >>) = IF total = 0 THEN 0 ELSE priced \div total
  BY DEF Weighted
<1>2. w1 \in Nat /\ w2 \in Nat /\ w3 \in Nat /\ w4 \in Nat
  OBVIOUS
<1>3. a1 * w1 \in Nat /\ a2 * w2 \in Nat /\ a3 * w3 \in Nat /\ a4 * w4 \in Nat
  BY ProductNat
<1> HIDE DEF w1, w2, w3, w4
<1>4. total \in Nat /\ priced \in Nat
  <2> DEFINE x1 == a1 * w1
             x2 == a2 * w2
             x3 == a3 * w3
             x4 == a4 * w4
  <2>1. x1 \in Nat /\ x2 \in Nat /\ x3 \in Nat /\ x4 \in Nat
    BY <1>3
  <2>2. priced = x1 + x2 + x3 + x4
    OBVIOUS
  <2> HIDE DEF x1, x2, x3, x4
  <2>3. x1 + x2 + x3 + x4 \in Nat
    BY <2>1
  <2>4. QED  BY <1>2, <2>2, <2>3
<1> HIDE DEF total, priced
<1>5. QED  BY <1>1, <1>4, Division

LEMMA CapNat ==
  ASSUME NEW u, CrossOK(u.cross)
  PROVE  DepthCap(u) \in Nat
<1>1. u.cross.depth \in Nat /\ Fee \in Nat
  BY RatesAssumption DEF CrossOK
<1>2. u.cross.depth * 1000 \in Nat /\ 1000 + Fee \in Nat \ {0}
  BY <1>1
<1>3. (u.cross.depth * 1000) \div (1000 + Fee) \in Nat
  BY <1>2, Division
<1>4. QED  BY <1>1, <1>3 DEF DepthCap, TonnelEquivalent

\* The two exits, in their order and behind nobody.
Exiting(u, in) ==
  /\ Located(u, in)
  /\ u.fair \in Nat /\ u.fast \in Nat
  /\ u.liquidation <= u.fast
  /\ u.walkaway > 0 => u.fast <= u.walkaway
  /\ DepthCap(u) > 0 => u.fair <= DepthCap(u)

LEMMA PriceOK ==
  ASSUME NEW u, NEW in, LotOK(in), Located(u, in), u.history \in Int,
         u.weights.live \in Nat, u.weights.history \in Nat, u.weights.cross \in Nat, u.weights.trait \in Nat
  PROVE  Exiting(PriceExits(u, in), in)
<1> DEFINE h     == PriceExits(u, in)
           blend == Blend(u, in)
           cap   == DepthCap(u)
           over  == cap > 0 /\ blend > cap
           fair  == IF over THEN cap ELSE blend
           fast  == IF u.walkaway > 0 THEN u.liquidation ELSE Higher(fair, u.liquidation)
<1>1. /\ Shape(u) /\ DOMAIN u = Fields /\ u.liveDepth \in Int /\ u.support \in Int /\ in.trait \in Int
      /\ CrossOK(u.cross) /\ u.liquidation \in Nat /\ u.walkaway \in Nat
      /\ u.walkaway > 0 => u.liquidation <= u.walkaway
  BY DEF Located, Base, Shape, LotOK, Fronts
<1>2. blend \in Nat
  BY <1>1, WeightedNat DEF Blend
<1>3. cap \in Nat
  BY <1>1, CapNat
<1>4. h.fair = fair /\ h.fast = fast
  BY <1>1 DEF PriceExits, Blend, Fields
<1>5. Located(h, in) /\ h.cross = u.cross /\ h.liquidation = u.liquidation /\ h.walkaway = u.walkaway
  <2>1. Writes(u, h, PriceFields)
    BY <1>1, PriceWrites
  <2>2. PriceFields \cap {"cost", "cross", "support", "liveDepth", "liquidation", "walkaway"} = {}
    BY DEF PriceFields
  <2> HIDE DEF h
  <2>3. Located(h, in)
    BY <2>1, <2>2, LocatedKept
  <2>4. QED  BY <2>1, <2>3 DEF Writes, Agree, PriceFields, Fields
<1>6. DepthCap(h) = cap
  BY <1>5 DEF DepthCap
<1> HIDE DEF h, blend, cap
<1>7. /\ fair \in Nat /\ fast \in Nat /\ u.liquidation <= fast
      /\ u.walkaway > 0 => fast <= u.walkaway
      /\ cap > 0 => fair <= cap
  BY <1>1, <1>2, <1>3 DEF Higher
<1> HIDE DEF fair, fast
<1>8. QED  BY <1>4, <1>5, <1>6, <1>7 DEF Exiting, h

LEMMA ClampHistoryOK ==
  ASSUME NEW u, NEW in, LotOK(in), Exiting(u, in)
  PROVE  Exiting(ClampToHistory(u, in), in)
<1> DEFINE s    == ClampToHistory(u, in)
           med  == RegimeReference(u.regime, in)
           band == PerMille(med, 1350)
           still == med <= 0 \/ in.distinct < 5 \/ u.fast <= band
<1>1. CASE still
  BY <1>1 DEF ClampToHistory
<1>2. CASE ~still
  <2>1. Shape(u) /\ DOMAIN u = Fields
    BY DEF Exiting, Located, Base, Shape
  <2>2. med \in Nat
    BY ReferenceTyped
  <2>3. band \in Nat
    <3> HIDE DEF med
    <3>1. QED  BY <2>2 DEF PerMille
  <2>4. s.fast = band /\ s.fair = Lower(u.fair, band) /\ s.liquidation = Lower(u.liquidation, band)
    BY <1>2, <2>1 DEF ClampToHistory, Fields
  <2>5. Writes(u, s, ClampFields)
    BY <2>1, ClampWrites
  <2>6. u.fast \in Nat /\ ~(u.fast <= band)
    BY <1>2 DEF Exiting
  <2> HIDE DEF s, band
  <2>7. /\ Shape(s) /\ s.cost = u.cost /\ s.cross = u.cross /\ s.support = u.support
        /\ s.liveDepth = u.liveDepth /\ s.walkaway = u.walkaway
    BY <2>5 DEF Writes, Agree, ClampFields, Fields
  <2>8. /\ u.fair \in Nat /\ u.liquidation \in Nat /\ u.walkaway \in Nat /\ DepthCap(u) \in Nat
        /\ u.walkaway > 0 => u.fast <= u.walkaway
        /\ DepthCap(u) > 0 => u.fair <= DepthCap(u)
    BY CapNat DEF Exiting, Located, Base, Fronts
  <2>9. DepthCap(s) = DepthCap(u)
    BY <2>7 DEF DepthCap
  <2>10. /\ s.fair \in Nat /\ s.fast \in Nat /\ s.liquidation \in Nat /\ s.liquidation <= s.fast
         /\ s.walkaway > 0 => s.fast <= s.walkaway /\ s.liquidation <= s.walkaway
         /\ DepthCap(s) > 0 => s.fair <= DepthCap(s)
    BY <2>3, <2>4, <2>6, <2>7, <2>8, <2>9 DEF Lower
  <2>11. QED  BY <2>7, <2>10 DEF Exiting, Located, Base, s
<1>3. QED  BY <1>1, <1>2

LEMMA ClampOverpricedOK ==
  ASSUME NEW u, NEW in, Exiting(u, in)
  PROVE  Exiting(ClampOverpriced(u), in)
<1> DEFINE s == ClampOverpriced(u)
<1>1. Shape(u) /\ DOMAIN u = Fields
  BY DEF Exiting, Located, Base, Shape
<1>2. s.fast = u.fast \/ (u.fast > u.cost /\ s.fast = Higher(u.liquidation, u.cost))
  BY <1>1 DEF ClampOverpriced, Fields
<1>3. s.fair = u.fair /\ s.liquidation = u.liquidation
  BY <1>1 DEF ClampOverpriced, Fields
<1>4. Writes(u, s, ClampFields)
  BY <1>1, ClampWrites
<1> HIDE DEF s
<1>5. /\ Shape(s) /\ s.cost = u.cost /\ s.cross = u.cross /\ s.support = u.support
      /\ s.liveDepth = u.liveDepth /\ s.walkaway = u.walkaway
  BY <1>4 DEF Writes, Agree, ClampFields, Fields
<1>6. /\ u.fair \in Nat /\ u.fast \in Nat /\ u.liquidation \in Nat /\ u.walkaway \in Nat /\ u.cost \in Nat
      /\ u.liquidation <= u.fast
      /\ u.walkaway > 0 => u.fast <= u.walkaway
  BY DEF Exiting, Located, Base, Fronts
<1>7. DepthCap(s) = DepthCap(u)
  BY <1>5 DEF DepthCap
<1>8. /\ s.fast \in Nat /\ s.liquidation <= s.fast
      /\ s.walkaway > 0 => s.fast <= s.walkaway
  BY <1>2, <1>3, <1>5, <1>6 DEF Higher
<1>9. QED  BY <1>3, <1>5, <1>7, <1>8 DEF Exiting, Located, Base, s

\* The patient price is above both.
Ranked(u, in) == Exiting(u, in) /\ u.patient \in Nat /\ u.fast <= u.patient /\ u.fair <= u.patient

LEMMA LadderOK ==
  ASSUME NEW u, NEW in, LotOK(in), Exiting(u, in)
  PROVE  Ranked(BuildLadder(u, in), in)
<1> DEFINE k      == BuildLadder(u, in)
           more   == PerMille(u.fair, 1015)
           under  == PerMille(in.comparable, 1000 - Undercut)
           cap    == DepthCap(u)
           first  == Higher(u.fast, more)
           second == IF HasTraitEvidence(in) /\ in.comparable > 0
                     THEN Higher(Higher(u.fast, u.fair), Lower(first, under)) ELSE first
           third  == IF cap > 0 THEN Higher(u.fast, Lower(second, cap)) ELSE second
<1>1. Shape(u) /\ DOMAIN u = Fields /\ CrossOK(u.cross)
  BY DEF Exiting, Located, Base, Shape
<1>2. k.patient = third
  BY <1>1 DEF BuildLadder, Fields
<1>3. Writes(u, k, {"patient"})
  BY <1>1, LadderWrites
<1> HIDE DEF k
<1>4. /\ u.fair \in Nat /\ u.fast \in Nat /\ cap \in Nat
      /\ cap > 0 => u.fair <= cap
  BY <1>1, CapNat DEF Exiting
<1>5. more \in Nat /\ u.fair <= more
  BY <1>4 DEF PerMille
<1>6. under \in Nat
  <2>1. in.comparable \in Nat
    BY DEF LotOK
  <2> DEFINE p == 1000 - Undercut
  <2>2. p \in 0..1000
    BY RatesAssumption
  <2> HIDE DEF p
  <2>3. PerMille(in.comparable, p) \in Nat
    BY <2>1, <2>2, PerMilleDown
  <2>4. QED  BY <2>3 DEF p
<1> HIDE DEF more, under, cap
<1>7. first \in Nat /\ u.fast <= first /\ u.fair <= first
  BY <1>4, <1>5 DEF Higher
<1> HIDE DEF first
<1>8. second \in Nat /\ u.fast <= second /\ u.fair <= second
  BY <1>4, <1>6, <1>7 DEF Higher, Lower
<1> HIDE DEF second
<1>9. third \in Nat /\ u.fast <= third /\ u.fair <= third
  BY <1>4, <1>8 DEF Higher, Lower
<1> HIDE DEF third
<1>10. /\ Shape(k) /\ k.cost = u.cost /\ k.cross = u.cross /\ k.support = u.support
       /\ k.liveDepth = u.liveDepth /\ k.walkaway = u.walkaway
       /\ k.fair = u.fair /\ k.fast = u.fast /\ k.liquidation = u.liquidation
  BY <1>3 DEF Writes, Agree, Fields
<1>11. DepthCap(k) = DepthCap(u)
  BY <1>10 DEF DepthCap
<1>12. Exiting(k, in)
  BY <1>10, <1>11 DEF Exiting, Located, Base
<1>13. QED  BY <1>2, <1>9, <1>10, <1>12 DEF Ranked, k

LEMMA Counts ==
  ASSUME NEW s \in Seq(Nat), NEW x \in Nat, NEW y \in Nat
  PROVE  Below(s, x) \in Nat /\ Within(s, x, y) \in Nat
<1> DEFINE n == Len(s)
           A == {i \in DOMAIN s : s[i] < x}
           B == {i \in DOMAIN s : s[i] >= x /\ s[i] <= y}
<1>1. n \in Nat /\ DOMAIN s = 1..n
  OBVIOUS
<1>2. A \in SUBSET (1..n) /\ B \in SUBSET (1..n)
  BY <1>1
<1>3. Below(s, x) = Cardinality(A) /\ Within(s, x, y) = Cardinality(B)
  BY DEF Below, Within
<1> HIDE DEF A, B, n
<1>4. IsFiniteSet(1..n)
  BY <1>1, FS_Interval
<1>5. IsFiniteSet(A) /\ IsFiniteSet(B)
  BY <1>2, <1>4, FS_Subset
<1>6. QED  BY <1>3, <1>5, FS_CardinalityType

\* Nobody is counted below the cheapest.
LEMMA NobodyBelow ==
  ASSUME NEW s \in Seq(Nat), NEW x \in Nat, \A i \in DOMAIN s : x <= s[i]
  PROVE  Below(s, x) = 0
<1> DEFINE A == {i \in DOMAIN s : s[i] < x}
<1>1. \A i \in DOMAIN s : s[i] \in Nat
  OBVIOUS
<1>2. A = {}
  BY <1>1
<1> HIDE DEF A
<1>3. Cardinality(A) = 0
  BY <1>2, FS_EmptySet
<1>4. QED  BY <1>3 DEF Below, A

LEMMA QueueNat ==
  ASSUME NEW s \in Seq(Nat), NEW x \in Nat
  PROVE  FillCurve(s, x).queue \in Nat
<1> DEFINE a == Below(s, x + 1)
           b == Within(s, x + 1, PerMille(x, 1050))
<1>1. PerMille(x, 1050) \in Nat
  BY DEF PerMille
<1>2. a \in Nat /\ b \in Nat
  <2> DEFINE y == x + 1
             z == PerMille(x, 1050)
  <2>1. y \in Nat /\ z \in Nat
    BY <1>1
  <2> HIDE DEF y, z
  <2>2. Below(s, y) \in Nat /\ Within(s, y, z) \in Nat
    BY <2>1, Counts
  <2>3. QED  BY <2>2 DEF y, z
<1>3. FillCurve(s, x) = IF x <= 0 THEN NoCurve ELSE [cheaper |-> a, under |-> b, queue |-> a + (b + 1) \div 2]
  BY DEF FillCurve
<1> HIDE DEF a, b
<1>4. QED  BY <1>2, <1>3 DEF NoCurve

\* What sells within the shorter wait sells within the longer one.
LEMMA WaitsPay ==
  ASSUME NEW s \in Seq(Nat), NEW floor \in Nat, NEW ceiling \in Nat, NEW velocity \in Nat,
         NEW d \in Nat, NEW e \in Nat, d <= e
  PROVE  /\ ExecutableAt(s, floor, ceiling, velocity, d) \in Nat
         /\ ExecutableAt(s, floor, ceiling, velocity, d) <= ExecutableAt(s, floor, ceiling, velocity, e)
<1> DEFINE p         == 1000 - Undercut
           under(i)  == PerMille(s[i], p)
           cuts      == {under(i) : i \in DOMAIN s}
           prices    == {floor, ceiling} \cup cuts
           fits(h)   == {x \in prices : x >= floor /\ (ceiling > 0 => x <= ceiling)
                                        /\ Likely(h, FillCurve(s, x).queue, velocity)}
           pays(h)   == fits(h) \cup {0}
<1>1. \A h : ExecutableAt(s, floor, ceiling, velocity, h) = IF velocity <= 0 \/ floor <= 0 THEN 0 ELSE Max(pays(h))
  BY DEF ExecutableAt
<1>2. IsFiniteSet(DOMAIN s)
  <2> DEFINE n == Len(s)
  <2>1. n \in Nat /\ DOMAIN s = 1..n
    OBVIOUS
  <2> HIDE DEF n
  <2>2. QED  BY <2>1, FS_Interval
<1>3. \A i \in DOMAIN s : under(i) \in Nat
  <2>1. p \in 0..1000
    BY RatesAssumption
  <2> HIDE DEF p
  <2>2. TAKE i \in DOMAIN s
  <2> DEFINE x == s[i]
  <2>3. x \in Nat
    OBVIOUS
  <2> HIDE DEF x
  <2>4. PerMille(x, p) \in Nat
    BY <2>1, <2>3, PerMilleDown
  <2>5. QED  BY <2>4 DEF x
<1>4. IsFiniteSet(cuts) /\ cuts \subseteq Nat
  <2>1. cuts \subseteq Nat
    BY <1>3
  <2>2. [i \in DOMAIN s |-> under(i)] \in Surjection(DOMAIN s, cuts)
    BY DEF Surjection
  <2> HIDE DEF cuts, under
  <2>3. QED  BY <1>2, <2>1, <2>2, FS_Surjection
<1> HIDE DEF cuts
<1>5. IsFiniteSet(prices) /\ prices \subseteq Nat
  <2>1. IsFiniteSet({floor, ceiling})
    <3>1. IsFiniteSet({floor}) /\ IsFiniteSet({ceiling})
      BY FS_Singleton
    <3>2. IsFiniteSet({floor} \cup {ceiling})
      BY <3>1, FS_Union
    <3>3. {floor, ceiling} = {floor} \cup {ceiling}
      OBVIOUS
    <3>4. QED  BY <3>2, <3>3
  <2>2. QED  BY <1>4, <2>1, FS_Union
<1> HIDE DEF prices
<1>6. \A h : pays(h) \subseteq Nat /\ pays(h) # {} /\ IsFiniteSet(pays(h))
  <2> TAKE h
  <2>1. fits(h) \subseteq prices
    OBVIOUS
  <2>2. IsFiniteSet(fits(h)) /\ fits(h) \subseteq Nat
    <3> HIDE DEF fits
    <3>1. QED  BY <1>5, <2>1, FS_Subset
  <2> HIDE DEF fits
  <2>3. IsFiniteSet({0})
    BY FS_Singleton
  <2>4. IsFiniteSet(fits(h) \cup {0})
    BY <2>2, <2>3, FS_Union
  <2>5. QED  BY <2>2, <2>4
<1>7. fits(d) \subseteq fits(e)
  <2>1. ASSUME NEW x \in prices, Likely(d, FillCurve(s, x).queue, velocity)
        PROVE  Likely(e, FillCurve(s, x).queue, velocity)
    <3> DEFINE q == FillCurve(s, x).queue
    <3>1. q \in Nat
      BY <1>5, QueueNat
    <3> HIDE DEF q
    <3>2. 10 * velocity * d <= 10 * velocity * e
      OBVIOUS
    <3>3. EvenOdds(q) \in Nat
      BY <3>1 DEF EvenOdds
    <3>4. 10 * velocity * d \in Nat /\ 10 * velocity * e \in Nat
      OBVIOUS
    <3> DEFINE m == 10 * velocity * d
               n == 10 * velocity * e
    <3>5. velocity > 0 /\ q <= 40 /\ m >= EvenOdds(q)
      BY <2>1 DEF Likely, q
    <3>6. m \in Nat /\ n \in Nat /\ m <= n
      BY <3>2, <3>4
    <3> HIDE DEF m, n
    <3>7. n >= EvenOdds(q)
      BY <3>3, <3>5, <3>6
    <3>8. QED  BY <3>5, <3>7 DEF Likely, n, q
  <2>2. QED  BY <2>1
<1> HIDE DEF fits
<1>8. \A h : Max(pays(h)) \in pays(h) /\ \A x \in pays(h) : x <= Max(pays(h))
  <2> TAKE h
  <2> DEFINE T == pays(h)
  <2>1. T \subseteq Nat /\ T # {} /\ IsFiniteSet(T)
    BY <1>6
  <2> HIDE DEF T
  <2>2. PICK b \in T : \A y \in T : y <= b
    BY <2>1, FiniteGreatest
  <2>3. b \in Nat
    BY <2>1
  <2>4. Max(T) \in T /\ \A y \in T : y <= Max(T)
    BY <2>1, <2>2, <2>3, MaxOf
  <2>5. QED  BY <2>4 DEF T
<1>9. pays(d) \subseteq pays(e)
  BY <1>7
<1>10. Max(pays(d)) \in Nat /\ Max(pays(d)) <= Max(pays(e))
  BY <1>6, <1>8, <1>9
<1>11. CASE velocity <= 0 \/ floor <= 0
  <2>1. ExecutableAt(s, floor, ceiling, velocity, d) = 0 /\ ExecutableAt(s, floor, ceiling, velocity, e) = 0
    BY <1>1, <1>11
  <2>2. QED  BY <2>1
<1>12. CASE ~(velocity <= 0 \/ floor <= 0)
  <2>1. /\ ExecutableAt(s, floor, ceiling, velocity, d) = Max(pays(d))
        /\ ExecutableAt(s, floor, ceiling, velocity, e) = Max(pays(e))
    BY <1>1, <1>12
  <2>2. QED  BY <1>10, <2>1
<1>13. QED  BY <1>11, <1>12

\* A valuation one may act on.
Trusted(v, in) ==
  /\ v.fast \in Nat /\ Fronts(v.walkaway, MergedLadder(in, v.cross))
  /\ v.walkaway > 0 =>
       /\ \A i \in DOMAIN MergedLadder(in, v.cross) : v.fast <= MergedLadder(in, v.cross)[i]
       /\ v.crossBelow = 0 /\ v.cheaper = 0
  /\ v.liquidation <= v.fast /\ v.fast <= v.patient /\ v.fair <= v.patient
  /\ v.days <= v.patientDays
  /\ v.exits[1] <= v.exits[2] /\ v.exits[2] <= v.exits[3]

LEMMA DaysOrdered ==
  ASSUME NEW u, NEW in, LotOK(in), DOMAIN u = Fields,
         u.fill.queue \in Nat, u.patientFill.queue \in Nat
  PROVE  ExpectedDays(u, in).days <= ExpectedDays(u, in).patientDays
<1> DEFINE s       == ExpectedDays(u, in)
           share   == IF in.samples < 5 THEN 250 ELSE Higher(in.share, 50)
           fast    == Days(u.fill.queue, in.velocity)
           slow    == Days(u.patientFill.queue, in.velocity)
           patient == (slow * 1000) \div share
<1>1. in.velocity \in Nat /\ in.samples \in Nat /\ in.share \in Nat
  BY DEF LotOK
<1>2. CASE in.velocity <= 0
  <2>1. s.days = Never /\ s.patientDays = Never
    BY <1>2 DEF ExpectedDays, Fields
  <2> HIDE DEF s
  <2>2. QED  BY <2>1 DEF Never, s
<1>3. CASE ~(in.velocity <= 0)
  <2>1. s.days = fast /\ s.patientDays = IF SamePrice(u.patient, u.fast) THEN fast ELSE Higher(patient, fast)
    BY <1>3 DEF ExpectedDays, Fields
  <2>2. share \in Nat \ {0}
    BY <1>1 DEF Higher
  <2>3. fast \in Nat /\ slow \in Nat
    BY <1>1, <1>3, SMTT(60) DEF Days
  <2>4. patient \in Nat
    <3> DEFINE x == slow * 1000
    <3>1. x \in Nat
      BY <2>3
    <3> HIDE DEF x, share
    <3>2. x \div share \in Nat
      BY <2>2, <3>1, Division
    <3>3. QED  BY <3>2 DEF x
  <2> HIDE DEF s, patient, fast
  <2>5. QED  BY <2>1, <2>3, <2>4 DEF Higher, s
<1>4. QED  BY <1>2, <1>3

LEMMA SettleOK ==
  ASSUME NEW u, NEW in, LotOK(in), Ranked(u, in)
  PROVE  Trusted(Settle(u, in), in)
<1> DEFINE l == MeasureDivergence(u, in)
           m == CrossCompetition(l)
           n == Counted(m, in)
           o == ExpectedDays(n, in)
           p == [o EXCEPT !.valid = TRUE, !.reason = "none"]
           L == MergedLadder(in, u.cross)
           level == [i \in DOMAIN u.cross.asks |-> TonnelEquivalent(u.cross.asks[i])]
           ceiling == Higher(u.fair, u.patient)
<1>1. /\ Shape(u) /\ CrossOK(u.cross) /\ Fronts(u.walkaway, L)
      /\ u.fast \in Nat /\ u.fair \in Nat /\ u.patient \in Nat /\ u.liquidation \in Nat /\ u.walkaway \in Nat
      /\ u.liquidation <= u.fast /\ u.fast <= u.patient /\ u.fair <= u.patient
      /\ u.walkaway > 0 => u.fast <= u.walkaway
  BY DEF Ranked, Exiting, Located, Base, Fronts
<1> DEFINE Kept == {"cross", "fast", "fair", "patient", "liquidation", "walkaway"}
<1>2. Writes(u, l, MeasureFields)
  BY <1>1, MeasureWrites
<1> HIDE DEF l
<1>3. Shape(l) /\ \A f \in Kept : l[f] = u[f]
  BY <1>2 DEF Writes, Agree, MeasureFields, Fields
<1>4. Writes(l, m, CompeteFields)
  BY <1>3, CompeteWrites
<1>5. m.crossBelow = Below(level, u.fast)
  <2>1. DOMAIN l = Fields
    BY <1>3 DEF Shape
  <2>2. l.cross = u.cross /\ l.fast = u.fast
    BY <1>3
  <2>3. QED  BY <2>1, <2>2 DEF CrossCompetition, Fields
<1> HIDE DEF m
<1>6. Shape(m) /\ \A f \in Kept : m[f] = u[f]
  BY <1>3, <1>4 DEF Writes, Agree, CompeteFields, Fields
<1>7. Writes(m, n, CountFields)
  BY <1>6, CountWrites
<1>8. /\ n.cheaper = Below(in.asks, u.fast)
      /\ n.fill = FillCurve(L, u.fast) /\ n.patientFill = FillCurve(L, u.patient)
      /\ n.exits = [h \in 1..3 |-> ExecutableAt(L, u.liquidation, ceiling, in.velocity, <<1, 3, 7>>[h])]
  <2>1. DOMAIN m = Fields
    BY <1>6 DEF Shape
  <2>2. m.cross = u.cross /\ m.fast = u.fast /\ m.patient = u.patient /\ m.fair = u.fair /\ m.liquidation = u.liquidation
    BY <1>6
  <2>3. QED  BY <2>1, <2>2 DEF Counted, Fields
<1> HIDE DEF n
<1>9. Shape(n) /\ n.crossBelow = m.crossBelow /\ \A f \in Kept : n[f] = u[f]
  BY <1>6, <1>7 DEF Writes, Agree, CountFields, Fields
<1>10. Writes(n, o, DayFields)
  BY <1>9, DayWrites
<1>11. L \in Seq(Nat) /\ in.asks \in Seq(Nat) /\ in.velocity \in Nat
  BY <1>1, LadderParts DEF LotOK
<1>12. o.days <= o.patientDays
  <2>1. n.fill.queue \in Nat /\ n.patientFill.queue \in Nat
    <3> HIDE DEF L
    <3>1. QED  BY <1>1, <1>8, <1>11, QueueNat
  <2>2. QED  BY <1>9, <2>1, DaysOrdered DEF Shape
<1> HIDE DEF o
<1>13. /\ Shape(o) /\ o.crossBelow = n.crossBelow /\ o.cheaper = n.cheaper /\ o.exits = n.exits
       /\ \A f \in Kept : o[f] = u[f]
  BY <1>9, <1>10 DEF Writes, Agree, DayFields, Fields
<1>14. /\ p.crossBelow = Below(level, u.fast) /\ p.cheaper = Below(in.asks, u.fast)
       /\ p.days <= p.patientDays /\ p.exits = n.exits
       /\ \A f \in Kept : p[f] = u[f]
  <2>1. DOMAIN o = Fields
    BY <1>13 DEF Shape
  <2>2. \A f \in Fields \ {"valid", "reason"} : p[f] = o[f]
    BY <2>1
  <2> HIDE DEF p
  <2>3. /\ Kept \subseteq Fields \ {"valid", "reason"}
        /\ {"crossBelow", "cheaper", "days", "patientDays", "exits"} \subseteq Fields \ {"valid", "reason"}
    BY DEF Fields
  <2> HIDE DEF Kept
  <2>4. \A f \in Kept : p[f] = u[f]
    BY <1>13, <2>2, <2>3
  <2>5. /\ p.crossBelow = o.crossBelow /\ p.cheaper = o.cheaper /\ p.days = o.days
        /\ p.patientDays = o.patientDays /\ p.exits = o.exits
    BY <2>2, <2>3
  <2> HIDE DEF level
  <2>6. QED  BY <1>5, <1>8, <1>9, <1>12, <1>13, <2>4, <2>5
<1>15. Settle(u, in) = p
  BY SettleSteps DEF l, m, n, o
<1> HIDE DEF p, L
<1>16. /\ p.cross = u.cross /\ p.fast = u.fast /\ p.fair = u.fair /\ p.patient = u.patient
       /\ p.liquidation = u.liquidation /\ p.walkaway = u.walkaway
  BY <1>14
<1>17. ASSUME u.walkaway > 0
       PROVE  /\ \A i \in DOMAIN L : u.fast <= L[i]
              /\ p.crossBelow = 0 /\ p.cheaper = 0
  <2>1. \A i \in DOMAIN L : L[i] \in Nat /\ u.walkaway <= L[i]
    BY <1>1, <1>11 DEF Fronts
  <2>2. \A i \in DOMAIN L : u.fast <= L[i]
    BY <1>1, <1>17, <2>1
  <2>3. /\ \A j \in DOMAIN in.asks : \E i \in DOMAIN L : L[i] = in.asks[j]
        /\ \A j \in DOMAIN u.cross.asks : \E i \in DOMAIN L : L[i] = TonnelEquivalent(u.cross.asks[j])
    BY <1>1, LadderParts DEF L
  <2>4. Below(in.asks, u.fast) = 0
    <3>1. \A j \in DOMAIN in.asks : u.fast <= in.asks[j]
      BY <2>2, <2>3
    <3>2. QED  BY <1>1, <1>11, <3>1, NobodyBelow
  <2>5. Below(level, u.fast) = 0
    <3>1. \A j \in DOMAIN u.cross.asks : u.fast <= TonnelEquivalent(u.cross.asks[j])
                                         /\ TonnelEquivalent(u.cross.asks[j]) \in Nat
      BY <2>1, <2>2, <2>3
    <3>2. u.cross.asks \in Seq(Nat)
      BY <1>1 DEF CrossOK, Dear
    <3>3. level \in Seq(Nat) /\ DOMAIN level = DOMAIN u.cross.asks
      BY <3>1, <3>2
    <3>4. \A j \in DOMAIN level : u.fast <= level[j]
      BY <3>1
    <3> HIDE DEF level
    <3>5. QED  BY <1>1, <3>3, <3>4, NobodyBelow
  <2>6. QED  BY <1>14, <2>2, <2>4, <2>5
<1>18. p.exits[1] <= p.exits[2] /\ p.exits[2] <= p.exits[3]
  <2>1. ceiling \in Nat
    BY <1>1 DEF Higher
  <2> HIDE DEF ceiling
  <2>2. /\ p.exits[1] = ExecutableAt(L, u.liquidation, ceiling, in.velocity, 1)
        /\ p.exits[2] = ExecutableAt(L, u.liquidation, ceiling, in.velocity, 3)
        /\ p.exits[3] = ExecutableAt(L, u.liquidation, ceiling, in.velocity, 7)
    BY <1>8, <1>14
  <2> DEFINE x(d) == ExecutableAt(L, u.liquidation, ceiling, in.velocity, d)
  <2>3. ASSUME NEW d \in Nat, NEW e \in Nat, d <= e
        PROVE  x(d) <= x(e)
    <3> DEFINE y == u.liquidation
               z == in.velocity
    <3>1. y \in Nat /\ z \in Nat
      BY <1>1, <1>11
    <3> HIDE DEF y, z
    <3>2. ExecutableAt(L, y, ceiling, z, d) <= ExecutableAt(L, y, ceiling, z, e)
      BY <1>11, <2>1, <2>3, <3>1, WaitsPay
    <3>3. QED  BY <3>2 DEF y, z
  <2>4. p.exits[1] = x(1) /\ p.exits[2] = x(3) /\ p.exits[3] = x(7)
    BY <2>2
  <2> HIDE DEF x
  <2>5. x(1) <= x(3) /\ x(3) <= x(7)
    BY <2>3
  <2>6. QED  BY <2>4, <2>5
<1>19. p.days <= p.patientDays
  BY <1>14
<1>20. Trusted(p, in)
  BY <1>1, <1>16, <1>17, <1>18, <1>19 DEF Trusted, L
<1>21. QED  BY <1>15, <1>20

LEMMA PassOK ==
  ASSUME NEW u, NEW in, LotOK(in), Base(u), Recompute(u, in).valid
  PROVE  Trusted(Recompute(u, in), in)
<1> DEFINE a == Started(u, in)
           b == ReadLocalBook(a, in)
           c == ScreenCross(b, in)
           g == Blending(u, in)
           h == Pricing(u, in)
<1>1. Shape(u)
  BY DEF Base
<1>2. Agree(u, Fresh(u), Given) /\ Fresh(u).valid = FALSE
  BY <1>1, ResetLeaves
<1>3. ~(in.price <= 0)
  <2>1. SUFFICES ASSUME in.price <= 0
                 PROVE  FALSE
    OBVIOUS
  <2> DEFINE f == Fresh(u)
             r == [f EXCEPT !.reason = "no price"]
  <2>2. Recompute(u, in) = r
    BY <2>1, RecomputeSteps
  <2>3. DOMAIN f = Fields /\ f.valid = FALSE
    BY <1>2 DEF Agree, Shape
  <2> HIDE DEF f
  <2>4. r.valid = FALSE
    BY <2>3 DEF Fields
  <2>5. QED  BY <2>2, <2>4
<1>4. g.valid = FALSE /\ h.valid = FALSE
  BY <1>1, <1>2, PassLeaves, Weaker DEF Agree
<1>5. ~Rejected(g) /\ ~Rejected(h)
  BY <1>3, <1>4, RecomputeSteps
<1>6. Recompute(u, in) = Settling(u, in)
  BY <1>3, <1>5, RecomputeSteps
<1>7. Base(a) /\ a.competing = 0 /\ a.liveDepth = 0 /\ a.liquidation = 0
  BY StartedOK
<1> HIDE DEF a
<1>8. Booked(b, in)
  BY <1>7, BookOK
<1> HIDE DEF b
<1>9. Booked(c, in)
  BY <1>8, ScreenOK
<1> HIDE DEF c
<1>10. Walked(u, in) = SetLiquidation(ReadWalkaway(c, in), in)
  BY DEF Walked, a, b, c
<1>11. Located(Walked(u, in), in)
  BY <1>9, <1>10, WalkedOK
<1>12. g = BlendWeights(Walked(u, in), in)
  BY DEF Blending
<1> HIDE DEF g
<1>13. /\ Located(g, in) /\ g.history \in Int
       /\ g.weights.live \in Nat /\ g.weights.history \in Nat
       /\ g.weights.cross \in Nat /\ g.weights.trait \in Nat
  BY <1>5, <1>11, <1>12, BlendOK
<1>14. h = PriceExits(g, in)
  BY DEF Pricing, g
<1> HIDE DEF h
<1>15. Exiting(h, in)
  BY <1>13, <1>14, PriceOK
<1>16. Ranked(BuildLadder(ClampOverpriced(ClampToHistory(h, in)), in), in)
  BY <1>15, ClampHistoryOK, ClampOverpricedOK, LadderOK
<1>17. QED  BY <1>6, <1>16, SettleOK DEF Settling, h

LEMMA BlankOK ==
  ASSUME NEW in, LotOK(in), NEW cm, CrossOK(cm)
  PROVE  Base(Blank(in, cm))
<1> DEFINE u == Blank(in, cm)
           c == IF in.paid > 0 THEN in.paid ELSE PerMille(in.price, 1000 + Fee)
<1>1. Shape(u) /\ u.cost = c /\ u.cross = cm /\ u.support = cm.support
  BY BlankShape DEF Blank
<1>2. c \in Nat
  <2> DEFINE x == in.price
             y == 1000 + Fee
  <2>1. x \in Nat /\ y \in Nat /\ in.paid \in Nat
    BY RatesAssumption DEF LotOK
  <2> HIDE DEF x, y
  <2>2. PerMille(x, y) \in Nat
    BY <2>1, PerMilleNat
  <2>3. QED  BY <2>1, <2>2 DEF x, y
<1> HIDE DEF u, c
<1>3. QED  BY <1>1, <1>2 DEF Base, CrossOK, u

LEMMA NobodyAsked == ASSUME NEW n PROVE CrossOK([NoCross EXCEPT !.unreachable = n])
<1> DEFINE cm == [NoCross EXCEPT !.unreachable = n]
<1>1. /\ DOMAIN cm = {"support", "asks", "best", "depth", "comparable", "unreachable"}
      /\ cm.support = 0 /\ cm.depth = 0 /\ cm.best = 0 /\ cm.asks = <<>>
  BY DEF NoCross
<1> HIDE DEF cm
<1>2. Dear(cm.asks) /\ Ascending(cm.asks)
  BY <1>1 DEF Dear, Ascending
<1>3. CrossOK(cm)
  BY <1>1, <1>2 DEF CrossOK
<1>4. QED  BY <1>3 DEF cm

LEMMA KnownOK ==
  ASSUME NEW answers \in [Venues -> Answers]
  PROVE  CrossOK(Known(CrossDepth(answers)))
<1> DEFINE cm == CrossDepth(answers)
<1>1. CrossOK(cm)
  BY DepthOK
<1> HIDE DEF cm
<1>2. CrossOK([NoCross EXCEPT !.unreachable = cm.unreachable])
  BY NobodyAsked
<1>3. CrossOK(FillBuyerCosts(cm))
  BY <1>1, FillOK DEF CrossOK
<1>4. CrossOK(Known(cm))
  BY <1>2, <1>3 DEF Known
<1>5. QED  BY <1>4 DEF cm

LEMMA FirstOK ==
  ASSUME NEW in, LotOK(in), First(in).valid
  PROVE  Trusted(First(in), in)
<1>1. CrossOK(NoCross)
  <2>1. [NoCross EXCEPT !.unreachable = NoCross.unreachable] = NoCross
    BY DEF NoCross
  <2>2. QED  BY <2>1, NobodyAsked
<1>2. Base(Blank(in, NoCross))
  BY <1>1, BlankOK
<1>3. QED  BY <1>2, PassOK DEF First

\* The second pass prices as one pass over what the venues said.
LEMMA SecondOK ==
  ASSUME NEW in, LotOK(in), NEW answers \in [Venues -> Answers],
         WithCrossDepth(First(in), CrossDepth(answers), in).valid
  PROVE  Trusted(WithCrossDepth(First(in), CrossDepth(answers), in), in)
<1> DEFINE s == WithCrossDepth(First(in), CrossDepth(answers), in)
           b == Blank(in, Known(CrossDepth(answers)))
<1>1. s.valid = Recompute(b, in).valid /\ (s.valid => s = Recompute(b, in))
  BY SecondPass
<1>2. Base(b)
  BY KnownOK, BlankOK
<1> HIDE DEF s, b
<1>3. Trusted(Recompute(b, in), in)
  BY <1>1, <1>2, PassOK DEF s
<1>4. QED  BY <1>1, <1>3 DEF s

-----------------------------------------------------------------------------
(* The specification *)

\* What a valuation is at every stage, a function of the lot and the answers,
\* and what was said of it. At stage "none" the other parts of MCRules run.
Valued ==
  /\ stage \in {"none", "new", "priced", "crossed"}
  /\ stage = "none"    => val.valid = FALSE
  /\ stage # "none"    => lot \in Lots
  /\ stage = "new"     => val = Blank(lot, NoCross)
  /\ stage = "priced"  => val = First(lot)
  /\ stage = "crossed" => /\ quotes \in [Venues -> Answers]
                          /\ val = WithCrossDepth(First(lot), CrossDepth(quotes), lot)

LEMMA ValuedInit == Init => Valued
BY DEF Init, Valued

LEMMA ValuedNext == Valued /\ Next => Valued'
<1> SUFFICES ASSUME Valued, Next
             PROVE  Valued'
  OBVIOUS
<1>1. CASE Evaluate
  BY <1>1 DEF Valued, Evaluate, First
<1>2. ASSUME NEW answers \in [Venues -> Answers], AskVenues(answers)
      PROVE  Valued'
  BY <1>2 DEF Valued, AskVenues
<1>3. QED  BY <1>1, <1>2 DEF Next

LEMMA ValuedKept == Valued /\ UNCHANGED vars => Valued'
BY DEF Valued, vars

LEMMA ValuedIsFresh == Valued => SecondPassIsFresh
<1> SUFFICES ASSUME Valued, stage = "crossed"
             PROVE  LET once == Recompute(Blank(lot, Known(CrossDepth(quotes))), lot)
                    IN  /\ val.valid = once.valid /\ val.reason = once.reason
                        /\ val.cross = once.cross
                        /\ val.valid => Read(val) = Read(once)
  BY DEF SecondPassIsFresh, Known
<1>1. val = WithCrossDepth(First(lot), CrossDepth(quotes), lot)
  BY DEF Valued
<1>2. QED  BY <1>1, SecondPass

LEMMA ValuedIsTrusted == Valued /\ val.valid => Trusted(val, lot)
<1> SUFFICES ASSUME Valued, val.valid
             PROVE  Trusted(val, lot)
  OBVIOUS
<1>1. CASE stage = "none"
  BY <1>1 DEF Valued
<1>2. CASE stage # "none"
  <2>1. LotOK(lot)
    BY <1>2, LotsAssumption DEF Valued
  <2>2. CASE stage = "new"
    BY <2>2 DEF Valued, Blank
  <2>3. CASE stage = "priced"
    BY <2>1, <2>3, FirstOK DEF Valued
  <2>4. CASE stage = "crossed"
    BY <2>1, <2>4, SecondOK DEF Valued
  <2>5. QED  BY <1>2, <2>2, <2>3, <2>4 DEF Valued
<1>3. QED  BY <1>1, <1>2

LEMMA TrustedHolds ==
  ASSUME val.valid => Trusted(val, lot)
  PROVE  NothingStandsCheaper /\ LadderIsOrdered
BY DEF Trusted, NothingStandsCheaper, LadderIsOrdered

\* A second pass over a valuation tells what one pass with the venues known from
\* the start tells, for every lot, every number of venues and every answer.
THEOREM FreshPass == Spec => []SecondPassIsFresh
<1>1. Init => Valued
  BY ValuedInit
<1>2. Valued /\ [Next]_vars => Valued'
  BY ValuedNext, ValuedKept
<1>3. Valued => SecondPassIsFresh
  BY ValuedIsFresh
<1>4. QED  BY <1>1, <1>2, <1>3, PTL DEF Spec

\* Nobody the valuation believes in stands below the fast exit, and rungs, waits
\* and horizons are in order, after the first pass and after the second.
THEOREM ExitsOrdered == Spec => [](NothingStandsCheaper /\ LadderIsOrdered)
<1>1. Valued /\ [Next]_vars => Valued'
  BY ValuedNext, ValuedKept
<1>2. Valued => NothingStandsCheaper /\ LadderIsOrdered
  BY ValuedIsTrusted, TrustedHolds
<1>3. QED  BY <1>1, <1>2, ValuedInit, PTL DEF Spec

-----------------------------------------------------------------------------
(* The advice *)

NothingSaid == [said |-> NoAdvice, answer |-> "none"]
Advised ==
  \/ advice = NothingSaid
  \/ /\ stage = "crossed" /\ advice.said # NoAdvice
     /\ \E listed \in Asks, chance \in Chances, pressure, armed \in BOOLEAN :
          /\ advice.said = AdvisePosition(val, lot, listed, chance, pressure)
          /\ advice.answer = CheckUndercut(val, lot, quotes, advice.said, armed)

LEMMA AdviceSaid ==
  ASSUME NEW v, NEW in, NEW listed, NEW chance, NEW pressure
  PROVE  LET ad == AdvisePosition(v, in, listed, chance, pressure) IN
         /\ ad # NoAdvice
         /\ ad.listed = listed
         /\ ad.action = "RELIST" =>
              /\ v.valid
              /\ Decide(v, IF listed > 0 THEN listed ELSE in.price, listed, in.floor,
                        MaxExitDays > 0 /\ v.days > MaxExitDays, pressure, DeadCapital(v, in, chance)) = "RELIST"
<1> DEFINE ad       == AdvisePosition(v, in, listed, chance, pressure)
           ask      == IF listed > 0 THEN listed ELSE in.price
           slow     == MaxExitDays > 0 /\ v.days > MaxExitDays
           guarded  == ~v.disagree /\ ContradictsMarket(ask, v.fast, in.floor, v.support)
           decided  == Decide(v, ask, listed, in.floor, slow, pressure, DeadCapital(v, in, chance))
           doubted  == v.crossDivergence > CrossDivergenceLimit /\ ~guarded /\ decided \in {"HOLD", "RELIST"}
           action   == IF doubted THEN "REVIEW" ELSE decided
           cheapest == v.walkaway > 0 /\ ask > 0 /\ ask <= v.walkaway
           elsewhere == CountCheaperElsewhere(v, ask)
<1>1. ad = IF in.paid <= 0 THEN [NoAdvice EXCEPT !.action = "SET COST", !.listed = listed]
           ELSE IF ~v.valid THEN [NoAdvice EXCEPT !.action = "REVIEW", !.listed = listed]
           ELSE [action |-> action, guarded |-> guarded, cheapest |-> cheapest,
                 elsewhere |-> elsewhere, listed |-> listed]
  BY DEF AdvisePosition
<1>2. decided \in {"REVIEW", "HOLD", "EXIT", "RELIST"}
  BY DEF Decide
<1> HIDE DEF ad, ask, slow, guarded, decided, cheapest, elsewhere
<1>3. NoAdvice.action = "none"
  BY DEF NoAdvice
<1>4. CASE in.paid <= 0
  <2>1. ad.action = "SET COST" /\ ad.listed = listed
    BY <1>1, <1>4 DEF NoAdvice
  <2>2. QED  BY <1>3, <2>1 DEF ad
<1>5. CASE ~(in.paid <= 0) /\ ~v.valid
  <2>1. ad.action = "REVIEW" /\ ad.listed = listed
    BY <1>1, <1>5 DEF NoAdvice
  <2>2. QED  BY <1>3, <2>1 DEF ad
<1>6. CASE ~(in.paid <= 0) /\ v.valid
  <2>1. ad.action = action /\ ad.listed = listed
    BY <1>1, <1>6
  <2>2. action \in {"REVIEW", "HOLD", "EXIT", "RELIST"} /\ (action = "RELIST" => decided = "RELIST")
    BY <1>2
  <2> HIDE DEF action
  <2>3. QED  BY <1>3, <1>6, <2>1, <2>2 DEF ad, decided, ask, slow
<1>7. QED  BY <1>4, <1>5, <1>6

LEMMA AdviceValuedNext == Valued /\ AdviceNext => Valued'
<1> SUFFICES ASSUME Valued, AdviceNext
             PROVE  Valued'
  OBVIOUS
<1>1. CASE Price
  BY <1>1, ValuedNext DEF Price
<1>2. ASSUME NEW listed \in Asks, NEW chance \in Chances, NEW pressure \in BOOLEAN, NEW armed \in BOOLEAN,
             Advise(listed, chance, pressure, armed)
      PROVE  Valued'
  BY <1>2, ValuedKept DEF Advise
<1>3. QED  BY <1>1, <1>2 DEF AdviceNext

LEMMA AdvisedNext == Valued /\ Advised /\ AdviceNext => Advised'
<1> SUFFICES ASSUME Valued, Advised, AdviceNext
             PROVE  Advised'
  OBVIOUS
<1>1. CASE Price
  <2>1. stage # "crossed" /\ advice' = advice
    BY <1>1 DEF Price, Next, Evaluate, AskVenues
  <2>2. QED  BY <2>1 DEF Advised, NothingSaid
<1>2. ASSUME NEW listed \in Asks, NEW chance \in Chances, NEW pressure \in BOOLEAN, NEW armed \in BOOLEAN,
             Advise(listed, chance, pressure, armed)
      PROVE  Advised'
  <2> DEFINE ad == AdvisePosition(val, lot, listed, chance, pressure)
             an == CheckUndercut(val, lot, quotes, ad, armed)
  <2>1. /\ stage = "crossed" /\ UNCHANGED <<lot, quotes, val, stage>>
        /\ advice' = [said |-> ad, answer |-> an]
    BY <1>2 DEF Advise, vars
  <2>2. ad # NoAdvice
    BY AdviceSaid
  <2>3. advice'.said = ad /\ advice'.answer = CheckUndercut(val, lot, quotes, ad, armed)
    <3> HIDE DEF ad
    <3>1. QED  BY <2>1
  <2>4. /\ stage' = "crossed" /\ advice'.said # NoAdvice
        /\ advice'.said = AdvisePosition(val', lot', listed, chance, pressure)
        /\ advice'.answer = CheckUndercut(val', lot', quotes', advice'.said, armed)
    BY <2>1, <2>2, <2>3
  <2>5. QED  BY <2>4 DEF Advised
<1>3. QED  BY <1>1, <1>2 DEF AdviceNext

LEMMA AdvisedKept == Advised /\ UNCHANGED advars => Advised'
BY DEF Advised, advars, vars

LEMMA AdvisedIsSafe == Valued /\ Advised => AdviceIsSafe
<1> SUFFICES ASSUME Valued, Advised
             PROVE  AnswerIsSafe /\ CutPassesSomebody
  BY DEF AdviceIsSafe
<1> DEFINE L == MergedLadder(lot, val.cross)
<1>1. CASE advice = NothingSaid
  <2>1. advice.answer = "none" /\ advice.said.action = "none"
    BY <1>1 DEF NothingSaid, NoAdvice
  <2>2. QED  BY <2>1 DEF AnswerIsSafe, CutPassesSomebody
<1>2. ASSUME NEW listed \in Asks, NEW chance \in Chances, NEW pressure \in BOOLEAN, NEW armed \in BOOLEAN,
             stage = "crossed",
             advice.said = AdvisePosition(val, lot, listed, chance, pressure),
             advice.answer = CheckUndercut(val, lot, quotes, advice.said, armed)
      PROVE  AnswerIsSafe /\ CutPassesSomebody
  <2>1. listed \in Nat
    BY AsksAssumption
  <2>2. val.valid => Trusted(val, lot)
    BY ValuedIsTrusted
  <2>3. AnswerIsSafe
    <3>1. SUFFICES ASSUME advice.answer = "repriced"
                   PROVE  /\ 1000 * val.fast >= lot.paid * (1000 + MinMarkup)
                          /\ 100 * Higher(val.fast - advice.said.listed, advice.said.listed - val.fast)
                               <= 15 * advice.said.listed
                          /\ \A i \in DOMAIN L : val.fast <= L[i]
      BY DEF AnswerIsSafe
    <3>2. Reprices(val, lot, advice.said)
      BY <1>2, <3>1 DEF CheckUndercut
    <3>3. /\ val.valid /\ 1000 * val.fast >= lot.paid * (1000 + MinMarkup)
          /\ 100 * Higher(val.fast - advice.said.listed, advice.said.listed - val.fast) <= 15 * advice.said.listed
      BY <3>2 DEF Reprices, SafeChange
    <3>4. \A i \in DOMAIN L : val.fast <= L[i]
      <4>1. Fronts(val.walkaway, L) /\ (val.walkaway > 0 => \A i \in DOMAIN L : val.fast <= L[i])
        BY <2>2, <3>3 DEF Trusted
      <4> HIDE DEF L
      <4>2. CASE val.walkaway = 0
        BY <4>1, <4>2 DEF Fronts
      <4>3. CASE val.walkaway # 0
        BY <4>1, <4>3 DEF Fronts
      <4>4. QED  BY <4>2, <4>3
    <3>5. QED  BY <3>3, <3>4
  <2>4. CutPassesSomebody
    <3>1. SUFFICES ASSUME advice.said.action = "RELIST", val.fast < advice.said.listed, val.walkaway > 0
                   PROVE  \E i \in DOMAIN L : L[i] < advice.said.listed
      BY DEF CutPassesSomebody
    <3> DEFINE ask == IF listed > 0 THEN listed ELSE lot.price
               cheapest == val.walkaway > 0 /\ ask > 0 /\ ask <= val.walkaway
    <3>2. /\ advice.said.listed = listed /\ val.valid
          /\ Decide(val, ask, listed, lot.floor, MaxExitDays > 0 /\ val.days > MaxExitDays, pressure,
                    DeadCapital(val, lot, chance)) = "RELIST"
      BY <1>2, <3>1, AdviceSaid
    <3>3. ~(cheapest /\ listed > 0 /\ listed > val.fast)
      BY <3>2 DEF Decide
    <3>4. val.fast \in Nat /\ Fronts(val.walkaway, L)
      BY <2>2, <3>2 DEF Trusted
    <3>5. val.walkaway < listed
      BY <2>1, <3>1, <3>2, <3>3, <3>4 DEF Fronts
    <3>6. PICK i \in DOMAIN L : L[i] = val.walkaway
      <4> HIDE DEF L
      <4>1. QED  BY <3>1, <3>4 DEF Fronts
    <3>7. QED  BY <3>2, <3>5, <3>6
  <2>5. QED  BY <2>3, <2>4
<1>3. QED  BY <1>1, <1>2 DEF Advised

\* The advice about a position, and the answer given unasked, for every ask, every
\* chance of a sale and every balance.
THEOREM AdviceHolds == AdviceSpec => []AdviceIsSafe
<1>1. AdviceInit => Valued /\ Advised
  BY ValuedInit DEF AdviceInit, Advised, NothingSaid
<1>2. Valued /\ Advised /\ [AdviceNext]_advars => (Valued /\ Advised)'
  BY AdviceValuedNext, AdvisedNext, AdvisedKept, ValuedKept DEF advars
<1>3. Valued /\ Advised => AdviceIsSafe
  BY AdvisedIsSafe
<1>4. QED  BY <1>1, <1>2, <1>3, PTL DEF AdviceSpec

-----------------------------------------------------------------------------
(* The same beside the other rules *)

LEMMA RulesInvInit == RulesInit => Valued /\ Advised
<1> SUFFICES ASSUME RulesInit
             PROVE  Valued /\ Advised
  OBVIOUS
<1>1. CASE AdviceInit
  BY <1>1, ValuedInit DEF AdviceInit, Advised, NothingSaid
<1>2. CASE AtRest
  BY <1>2 DEF AtRest, Valued, Advised, NothingSaid
<1>3. QED  BY <1>1, <1>2 DEF RulesInit

LEMMA RulesInvNext == Valued /\ Advised /\ [RulesNext]_<<advars, part, cells>> => (Valued /\ Advised)'
<1> SUFFICES ASSUME Valued, Advised, [RulesNext]_<<advars, part, cells>>
             PROVE  Valued' /\ Advised'
  OBVIOUS
<1>1. CASE AdviceNext
  BY <1>1, AdviceValuedNext, AdvisedNext
<1>2. CASE UNCHANGED advars
  BY <1>2, ValuedKept, AdvisedKept DEF advars
<1>3. QED  BY <1>1, <1>2 DEF RulesNext

\* A second pass tells the same, beside the other rules.
THEOREM RulesFreshPass == RulesSpec => []SecondPassIsFresh
<1>1. Valued => SecondPassIsFresh
  BY ValuedIsFresh
<1>2. QED  BY <1>1, RulesInvInit, RulesInvNext, PTL DEF RulesSpec

\* The exits hold, beside the other rules.
THEOREM RulesExitsHold == RulesSpec => []ExitsHold
<1>1. Valued => ExitsHold
  BY ValuedIsTrusted, TrustedHolds DEF ExitsHold
<1>2. QED  BY <1>1, RulesInvInit, RulesInvNext, PTL DEF RulesSpec

\* The advice is safe, beside the other rules.
THEOREM RulesAdviceIsSafe == RulesSpec => []AdviceIsSafe
<1>1. Valued /\ Advised => AdviceIsSafe
  BY AdvisedIsSafe
<1>2. QED  BY <1>1, RulesInvInit, RulesInvNext, PTL DEF RulesSpec

=============================================================================
