------------------------------ MODULE MCRules -------------------------------
(***************************************************************************)
(* The arithmetic the desk decides with, each on its own inputs: a listing *)
(* or a position through valuation and advice (Exits, Advice, in their own *)
(* variables), a judged listing through the gates (Gates), a tape of       *)
(* trades and quotes (Tape), a valuation through its score (Score), the    *)
(* last three in the cells y1 to y4.                                       *)
(***************************************************************************)
EXTENDS Advice

CONSTANTS
  GateSig, GateAuto, MaxExit, GateViews, GateGains,             \* Gates
  ScoreViews, ScoreGains, ScoreDesks, ScoreLimits, MaxOpen,     \* Score
  TapeGifts, Prices, Rates, Gaps, Window, Crowds, MaxPrints, MaxQuotes     \* Tape

VARIABLES part, y1, y2, y3, y4

cells == <<y1, y2, y3, y4>>

-----------------------------------------------------------------------------
(* Listings (paid = 0) and positions: prices against books and venues on     *)
(* both sides of them, books with and without a hole, tapes thin, calm,      *)
(* falling and rising, venues from silent to deep.                           *)

Books == {<<>>, <<480>>, <<520>>, <<520, 530, 540>>, <<460, 470, 480>>, <<520, 900, 1000>>, <<700, 720, 750>>}
Tapes == {[median |-> 0,   median7 |-> 0,   distinct |-> 0,  velocity |-> 0],
          [median |-> 380, median7 |-> 380, distinct |-> 3,  velocity |-> 21],
          [median |-> 500, median7 |-> 500, distinct |-> 12, velocity |-> 86],
          [median |-> 600, median7 |-> 500, distinct |-> 24, velocity |-> 240],
          [median |-> 700, median7 |-> 700, distinct |-> 12, velocity |-> 240],
          [median |-> 400, median7 |-> 440, distinct |-> 9,  velocity |-> 64]}
Traits == {[trait |-> 0, samples |-> 0, share |-> 0, comparable |-> 0],
           [trait |-> 640, samples |-> 6, share |-> 300, comparable |-> 610]}

MCLots ==
  {[price |-> c[1], paid |-> c[2], asks |-> b, floor |-> f, premium |-> TRUE,
    median |-> t.median, median7 |-> t.median7, distinct |-> t.distinct, velocity |-> t.velocity,
    trait |-> a.trait, samples |-> a.samples, share |-> a.share, comparable |-> a.comparable]
   : c \in {<<0, 0>>, <<500, 0>>, <<450, 450>>, <<500, 500>>}, b \in Books, f \in {0, 500}, t \in Tapes, a \in Traits}

Shelf(e, b, m, fails) == [exact |-> e, backdrop |-> b, model |-> m, fails |-> fails]
MCAnswers == {Shelf(<<>>, <<>>, <<>>, "none"), Shelf(<<>>, <<>>, <<470, 475>>, "backdrop"),
              Shelf(<<>>, <<>>, <<560, 580, 600>>, "none"), Shelf(<<>>, <<>>, <<450>>, "none"),
              Shelf(<<>>, <<505, 520>>, <<430, 440>>, "none"), Shelf(<<490, 980>>, <<>>, <<>>, "none"),
              Shelf(<<>>, <<>>, <<100, 510, 520>>, "none")}
MCAsks == {0, 470, 520, 560, 620}

-----------------------------------------------------------------------------
(* A listing that clears every gate, and every listing that differs from it  *)
(* in at most two respects.                                                  *)

MCGateSig == [minPrice |-> 100, maxPrice |-> 2000, minEdge |-> 45, minNet |-> 25, maxExitDays |-> 400,
          minVelocity |-> 50, minSales |-> 6, maxMAD |-> 350, minTrend |-> 900]
MCGateAuto == [minEdge |-> 60, minVelocity |-> 100, minSales |-> 10, minTurnover |-> 600, maxMAD |-> 250,
           minTrend |-> 950, maxDataAge |-> 5, maxMove |-> 30]

Good == [kind |-> "plain", ours |-> FALSE, already |-> FALSE, price |-> 500, median |-> 600, valid |-> TRUE,
         roomKnown |-> TRUE, room |-> 1000, cost |-> 500, edge |-> 100, riskEdge |-> 75, net |-> 50,
         median24 |-> FALSE, median72 |-> TRUE, median7 |-> TRUE, aboveMarket |-> FALSE,
         velocity |-> 120, sales |-> 14, mad |-> 200, trend |-> 1000, turnover |-> 700,
         confidence |-> 500, invented |-> FALSE, implausible |-> FALSE, unreachable |-> 0, score |-> 40,
         warm |-> TRUE, shadow |-> FALSE, calibrated |-> TRUE, arrived |-> 0, arrivedBelow |-> 0, cheapest |-> 0, disagree |-> FALSE,
         crossDivergence |-> 40, unpriced |-> FALSE, days |-> 150, age |-> 1, rateValid |-> TRUE, move |-> 5,
         depth |-> 3, capped |-> FALSE, peers |-> 0, muted |-> FALSE, cooling |-> FALSE]

\* What may be different about a listing.
Odd == [kind |-> {"bundle"}, ours |-> {TRUE}, already |-> {TRUE}, price |-> {50, 3000}, valid |-> {FALSE},
        roomKnown |-> {FALSE}, room |-> {450}, cost |-> {350, 800, 900}, edge |-> {0, 130}, riskEdge |-> {40, 50, 58, 85},
        net |-> {20}, median24 |-> {TRUE}, median72 |-> {FALSE}, median7 |-> {FALSE}, aboveMarket |-> {TRUE},
        velocity |-> {0, 60, 80, 95, 210}, sales |-> {4, 7, 9}, mad |-> {300, 400}, trend |-> {880, 940, 955},
        turnover |-> {400, 550}, confidence |-> {200}, invented |-> {TRUE}, implausible |-> {TRUE}, unreachable |-> {1},
        score |-> {5}, warm |-> {FALSE}, shadow |-> {TRUE}, calibrated |-> {FALSE}, arrived |-> {2, 3}, arrivedBelow |-> {2}, cheapest |-> {450, 550},
        disagree |-> {TRUE}, crossDivergence |-> {200}, unpriced |-> {TRUE}, days |-> {900}, age |-> {9},
        rateValid |-> {FALSE}, move |-> {50}, depth |-> {0, 1}, capped |-> {TRUE}, peers |-> {3}, muted |-> {TRUE},
        cooling |-> {TRUE}]

\* A model without trades has no statistics, a risk-adjusted edge never exceeds
\* the raw one, and what fills in a day fills in three.
Real(v) ==
  LET w == [v EXCEPT !.riskEdge = IF @ > v.edge THEN v.edge ELSE @, !.median72 = (@ /\ v.median7) \/ v.median24,
                     !.median7 = @ \/ v.median24,
                     !.arrived = IF v.arrivedBelow > @ THEN v.arrivedBelow ELSE IF v.cheapest > 0 /\ @ = 0 THEN 1 ELSE @]
  IN  IF v.velocity > 0 THEN w
      ELSE [w EXCEPT !.sales = 0, !.median = 0, !.turnover = 0, !.mad = 0, !.trend = 1000,
                     !.median24 = FALSE, !.median72 = FALSE, !.median7 = FALSE]

Oddities == UNION {{<<f, x>> : x \in Odd[f]} : f \in DOMAIN Odd}
MCGateViews == {Real([Good EXCEPT ![a[1]] = a[2], ![b[1]] = b[2]]) : a \in Oddities, b \in Oddities}

MCGateGains == [cost |-> {300, 350, 500, 800}, edge |-> {110, 130}, riskEdge |-> {50, 58, 75, 85},
            velocity |-> {80, 95, 120, 210}, sales |-> {7, 9, 14}, turnover |-> {550, 700},
            trend |-> {940, 955, 1000}, mad |-> {200, 300}]

-----------------------------------------------------------------------------
(* A valuation that scores well, and every one that differs from it in at    *)
(* most two respects.                                                        *)

ScoreGood == [cost |-> 500, proceeds |-> 540, days |-> 150, near |-> 0, crossNear |-> 0, mad |-> 20, sales |-> 14, distinct |-> 10,
              peers |-> 60, perModel |-> 12, turnover |-> 70, trend |-> 100, traits |-> 0, fx |-> TRUE, lag |-> 0, jump |-> FALSE,
              fromCross |-> FALSE, capped |-> FALSE, competing |-> TRUE, depth |-> 3, tight |-> FALSE,
              unreachable |-> 0, support |-> 520, venues |-> 2, divergence |-> 4, below |-> 0, velocity |-> 120, ticket |-> 1000,
              invented |-> FALSE, apart |-> 4, disagree |-> FALSE]
ScoreOdd == [cost |-> {300, 530, 560}, proceeds |-> {510, 700}, days |-> {20, 700, 1000000}, near |-> {2, 12}, crossNear |-> {1, 3, 5}, mad |-> {60, 100},
             sales |-> {30}, distinct |-> {0, 2, 40}, peers |-> {0, 400}, perModel |-> {0}, turnover |-> {20, 130}, trend |-> {70, 120}, traits |-> {15, 90},
             fx |-> {FALSE}, lag |-> {-12, 15}, jump |-> {TRUE}, fromCross |-> {TRUE}, capped |-> {TRUE}, competing |-> {FALSE}, depth |-> {0, 1},
             tight |-> {TRUE}, unreachable |-> {1, 2}, support |-> {0}, venues |-> {1}, divergence |-> {30, 80}, below |-> {1}, velocity |-> {0, 30, 900},
             ticket |-> {0, 20000}, invented |-> {TRUE}, apart |-> {15, 60}, disagree |-> {TRUE}]
MCScoreGains == [cost |-> {300, 450, 500}, proceeds |-> {540, 700}, days |-> {20, 150, 700}, near |-> {0, 2}, crossNear |-> {0, 1, 3}, mad |-> {20, 60},
               sales |-> {14, 30}, distinct |-> {2, 10, 40}, peers |-> {60, 400}, turnover |-> {70, 130}, trend |-> {100, 120},
               lag |-> {-12, 0}, depth |-> {1, 3}, venues |-> {2}, divergence |-> {4, 30}, below |-> {0}, velocity |-> {120, 900},
               ticket |-> {0, 1000}, apart |-> {4, 15},
               invented |-> {FALSE}, disagree |-> {FALSE}, jump |-> {FALSE}]
\* A book without anyone in it has no depth and no gaps; no tape, no prints.
ScoreReal(v) ==
  LET w == [v EXCEPT !.depth = IF v.competing THEN @ ELSE 0, !.capped = @ /\ v.competing, !.tight = @ \/ ~v.competing,
                     !.sales = IF @ < v.distinct THEN v.distinct ELSE @, !.disagree = @ \/ v.apart > 10,
                     !.support = IF v.unreachable = 2 THEN 0 ELSE @]
  IN  IF v.velocity > 0 THEN w ELSE [w EXCEPT !.sales = 0, !.distinct = 0, !.turnover = 0, !.mad = 0, !.trend = 100]
ScoreOddities == UNION {{<<f, x>> : x \in ScoreOdd[f]} : f \in DOMAIN ScoreOdd}
MCScoreViews == {ScoreReal([ScoreGood EXCEPT ![a[1]] = a[2], ![b[1]] = b[2]]) : a \in ScoreOddities, b \in ScoreOddities}
Desk(o, c, m, n, p, b) ==
  [open |-> o, count |-> c, model |-> m, collection |-> n, positions |-> p, known |-> b >= 0,
   balance |-> IF b < 0 THEN 0 ELSE b, last |-> 0]

\* Empty; one of the model held; balance not known; full of the collection; small.
MCScoreDesks == {Desk(0, 0, 0, 0, 0, 2000), Desk(4, 1, 500, 1000, 2000, 4000), Desk(4, 0, 0, 500, 3000, -1),
               Desk(3, 0, 0, 3500, 5000, 2000), Desk(4, 0, 0, 0, 1000, 1200)}
MCScoreLimits == [perModel |-> 2, model |-> 15, collection |-> 30]

-----------------------------------------------------------------------------
(* Two gifts, a row without a number and one without any identity;           *)
(* collections below and above the size that lends support.                  *)
MCTapeGifts == {[id |-> 11, num |-> 1], [id |-> 12, num |-> 2], [id |-> 3, num |-> 0], [id |-> 0, num |-> 0]}
MCCrowds == {[sales |-> 12, models |-> 3], [sales |-> 30, models |-> 5], [sales |-> 900, models |-> 4]}

-----------------------------------------------------------------------------
Ga == INSTANCE Gates WITH
  Sig <- GateSig, Auto <- GateAuto, Views <- GateViews, Gains <- GateGains, view <- y1, decision <- y2

Ta == INSTANCE Tape WITH Gifts <- TapeGifts, now <- y1, sales <- y2, quotes <- y3, crowd <- y4

Sc == INSTANCE Score WITH
  Views <- ScoreViews, Gains <- ScoreGains, Desks <- ScoreDesks, Limits <- ScoreLimits,
  view <- y1, desk <- y2, score <- y3, stage <- y4

ASSUME RulesAssumption == Ga!GatesAssumption /\ Ta!TapeAssumption /\ Sc!ScoreAssumption

\* What Exits and Advice hold while another part runs: nothing valued.
AtRest ==
  /\ lot = [paid |-> 0] /\ quotes = <<>> /\ val = [valid |-> FALSE] /\ stage = "none"
  /\ advice = [said |-> NoAdvice, answer |-> "none"]

RulesInit ==
  \/ part = "advice" /\ AdviceInit /\ y1 = 0 /\ y2 = 0 /\ y3 = 0 /\ y4 = 0
  \/ part = "gates" /\ AtRest /\ Ga!Init /\ y3 = 0 /\ y4 = 0
  \/ part = "tape" /\ AtRest /\ Ta!Init
  \/ part = "score" /\ AtRest /\ Sc!Init

RulesNext ==
  /\ part' = part
  /\ \/ part = "advice" /\ AdviceNext /\ UNCHANGED cells
     \/ /\ UNCHANGED advars
        /\ \/ part = "gates" /\ Ga!Next /\ UNCHANGED <<y3, y4>>
           \/ part = "tape" /\ Ta!Next
           \/ part = "score" /\ Sc!Next

RulesSpec == RulesInit /\ [][RulesNext]_<<advars, part, cells>>

-----------------------------------------------------------------------------
\* Nobody the valuation believes in stands below the fast exit, and the ladder
\* is ordered (NothingStandsCheaper and LadderIsOrdered of Exits).
ExitsHold == NothingStandsCheaper /\ LadderIsOrdered

\* Unattended or advised, a lower ask is safe and passes somebody (AnswerIsSafe
\* and CutPassesSomebody of Advice).
AdviceIsSafe == AnswerIsSafe /\ CutPassesSomebody

\* The better listing never loses at the gates nor in the ranking, what is
\* bought unattended is what its card calls a BUY, an invented price stays low,
\* and a batch never concentrates the desk (BetterNeverLoses and AutoIsABuy of
\* Gates; BetterRanksHigher, GuessesStayLow and BatchStaysSpread of Score).
BetterNeverLoses ==
  /\ part = "gates" => Ga!BetterNeverLoses /\ Ga!AutoIsABuy
  /\ part = "score" => Sc!TypeOK /\ Sc!BetterRanksHigher /\ Sc!GuessesStayLow /\ Sc!BatchStaysSpread

\* A gift passed around is one sale, lent speed is bounded, and today's rate
\* moves a print by no more than five percent (Tape).
TapeIsHonest == part = "tape" => Ta!FlipsMoveNothing /\ Ta!PeersLendBounded /\ Ta!RateIsMild
=============================================================================
