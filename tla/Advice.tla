------------------------------- MODULE Advice -------------------------------
(***************************************************************************)
(* What the desk says about a gift it owns (internal/app/portfolio.go,     *)
(* advisePosition) and what it does about it unasked when somebody stands  *)
(* cheaper (checkUndercut of internal/app/pollers.go). Both read one       *)
(* valuation of Exits, made for the position: its price and its cost are   *)
(* what was paid, the book is the book without our own gifts.              *)
(***************************************************************************)
EXTENDS Exits

CONSTANTS
  Asks,        \* list_price of the position, 0 when it is not on sale
  Chances,     \* In24h, In72h or In7d, per mille, whichever productivity reads
  MaxExitDays, \* Limits.MaxExitDays, in hundredths of a day
  MinMarkup    \* Limits.MinMarkup, per mille

ASSUME AsksAssumption == Asks \subseteq Nat

VARIABLE advice

advars == <<vars, advice>>

CrossDivergenceLimit == 150
NoAdvice == [action |-> "none", guarded |-> FALSE, cheapest |-> FALSE, elsewhere |-> 0, listed |-> 0]

CountCheaperElsewhere(v, ask) ==
  Cardinality({i \in DOMAIN v.cross.asks :
                 TonnelEquivalent(v.cross.asks[i]) > 0 /\ TonnelEquivalent(v.cross.asks[i]) < ask})

ContradictsMarket(ask, target, floor, external) ==
  /\ ask > 0 /\ target > 0 /\ floor > 0 /\ external > 0
  /\ 100 * target < 97 * floor
  /\ 100 * external >= 99 * ask

\* The nearest horizon with even odds, else a week.
Horizon(v, in) ==
  IF Likely(1, v.fill.queue, in.velocity) THEN 1 ELSE IF Likely(3, v.fill.queue, in.velocity) THEN 3 ELSE 7
PossibleChance(v, in, chance) ==
  (chance >= 500) <=> Likely(Horizon(v, in), v.fill.queue, in.velocity)

\* Productivity below half a percent per GRAM a day; net * chance / horizon / cost.
DeadCapital(v, in, chance) == 200 * v.net * chance < 1000 * Horizon(v, in) * v.cost

\* The branches of advisePosition in their order.
Decide(v, ask, listed, floor, slow, pressure, dead) ==
  LET cheapest == v.walkaway > 0 /\ ask > 0 /\ ask <= v.walkaway
      against  == ContradictsMarket(ask, v.fast, floor, v.support)
  IN  IF v.disagree THEN "REVIEW"
      ELSE IF against THEN "HOLD"
      ELSE IF v.net < 0 THEN "EXIT"
      ELSE IF slow THEN IF pressure THEN "EXIT" ELSE "HOLD"
      ELSE IF dead THEN "EXIT"
      ELSE IF cheapest /\ listed > 0 /\ listed > v.fast THEN "HOLD"
      ELSE IF listed <= 0 \/ Apart(listed, v.fast) >= 20 THEN "RELIST"
      ELSE "HOLD"

AdvisePosition(v, in, listed, chance, pressure) ==
  LET ask      == IF listed > 0 THEN listed ELSE in.price
      slow     == MaxExitDays > 0 /\ v.days > MaxExitDays
      guarded  == ~v.disagree /\ ContradictsMarket(ask, v.fast, in.floor, v.support)
      decided  == Decide(v, ask, listed, in.floor, slow, pressure, DeadCapital(v, in, chance))
      doubted  == v.crossDivergence > CrossDivergenceLimit /\ ~guarded /\ decided \in {"HOLD", "RELIST"}
  IN  IF in.paid <= 0 THEN [NoAdvice EXCEPT !.action = "SET COST", !.listed = listed]
      ELSE IF ~v.valid THEN [NoAdvice EXCEPT !.action = "REVIEW", !.listed = listed]
      ELSE [action    |-> IF doubted THEN "REVIEW" ELSE decided,
            guarded   |-> guarded,
            cheapest  |-> v.walkaway > 0 /\ ask > 0 /\ ask <= v.walkaway,
            elsewhere |-> CountCheaperElsewhere(v, ask),
            listed    |-> listed]

-----------------------------------------------------------------------------
(* checkUndercut: the answer to a cheaper offer; armed stands for the three  *)
(* switches and for no reprice in the last six hours.                        *)

\* The cheapest offer of the live book and of the venues, before any screening.
Competitor(in, answers) ==
  LET local == IF in.asks = <<>> THEN 0 ELSE in.asks[1]
      ext   == TonnelEquivalent(CrossDepth(answers).best)
  IN  IF ext > 0 /\ (local <= 0 \/ ext < local) THEN ext ELSE local

Undercutted(in, answers, listed) ==
  listed > 0 /\ Competitor(in, answers) > 0 /\ Competitor(in, answers) < listed

SafeChange(listed, target) == Apart(target, listed) >= 20 /\ 100 * Higher(target - listed, listed - target) <= 15 * listed

\* Slip: what was paid is compared without the markup.
Slip_Reprices(v, in, ad) ==
  /\ v.valid /\ ad.action = "RELIST" /\ ~v.disagree /\ v.crossDivergence <= CrossDivergenceLimit
  /\ v.fast >= in.paid
  /\ SafeChange(ad.listed, v.fast)

Reprices(v, in, ad) ==
  /\ v.valid /\ ad.action = "RELIST" /\ ~v.disagree /\ v.crossDivergence <= CrossDivergenceLimit
  /\ 1000 * v.fast >= in.paid * (1000 + MinMarkup)
  /\ SafeChange(ad.listed, v.fast)

CheckUndercut(v, in, answers, ad, armed) ==
  IF ~Undercutted(in, answers, ad.listed) THEN "quiet"
  ELSE IF armed /\ in.paid > 0 /\ Reprices(v, in, ad) THEN "repriced"
  ELSE "told"

-----------------------------------------------------------------------------

AdviceInit == Init /\ advice = [said |-> NoAdvice, answer |-> "none"]

Price == Next /\ UNCHANGED advice

\* One look at a listed or unlisted position, with the balance above or below the reserve.
Advise(listed, chance, pressure, armed) ==
  /\ stage = "crossed" /\ advice.said = NoAdvice
  /\ lot.paid = lot.price              \* a position, not a listing
  /\ val.valid => PossibleChance(val, lot, chance)
  /\ LET ad == AdvisePosition(val, lot, listed, chance, pressure)
     IN  advice' = [said |-> ad, answer |-> CheckUndercut(val, lot, quotes, ad, armed)]
  /\ UNCHANGED vars

AdviceNext ==
  \/ Price
  \/ \E listed \in Asks, chance \in Chances, pressure, armed \in BOOLEAN : Advise(listed, chance, pressure, armed)

AdviceSpec == AdviceInit /\ [][AdviceNext]_advars

-----------------------------------------------------------------------------
(* Properties *)

Actions == {"none", "SET COST", "REVIEW", "HOLD", "EXIT", "RELIST"}
AdviceTypeOK ==
  /\ TypeOK
  /\ advice.said.action \in Actions /\ advice.said.guarded \in BOOLEAN
  /\ advice.answer \in {"none", "quiet", "told", "repriced"}

\* While somebody is on sale next to us, a lower ask is only recommended to get
\* in front of an offer the valuation believes to be cheaper than ours: what
\* the screen, the clamps and the second pass left standing (AlreadyCheapest,
\* portfolio.go:41, against the ladder the exits were built on).
CutPassesSomebody ==
  (advice.said.action = "RELIST" /\ val.fast < advice.said.listed /\ val.walkaway > 0) =>
    \E i \in DOMAIN MergedLadder(lot, val.cross) : MergedLadder(lot, val.cross)[i] < advice.said.listed

\* An unattended reprice earns the markup on what was paid, moves between 2 %
\* and 15 %, and whoever the desk believes cheaper than the old ask is behind
\* the new one: an answer to an undercut really gets in front (checkUndercut).
AnswerIsSafe ==
  advice.answer = "repriced" =>
    /\ 1000 * val.fast >= lot.paid * (1000 + MinMarkup)
    /\ 100 * Higher(val.fast - advice.said.listed, advice.said.listed - val.fast) <= 15 * advice.said.listed
    /\ \A i \in DOMAIN MergedLadder(lot, val.cross) : val.fast <= MergedLadder(lot, val.cross)[i]

\* "safe undercut response" (pollers.go:985): an answer never raises the ask.
AnswerIsACut == advice.answer = "repriced" => val.fast < advice.said.listed

=============================================================================
