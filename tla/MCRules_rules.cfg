SPECIFICATION RulesSpec
CONSTANTS
  Lots <- MCLots
  Venues = {1, 2}
  Answers <- MCAnswers
  Fee = 5
  Undercut = 10
  Asks <- MCAsks
  Chances = {5, 300, 700}
  MaxExitDays = 500
  MinMarkup = 30
  GateSig <- MCGateSig
  GateAuto <- MCGateAuto
  MaxExit = 500
  GateViews <- MCGateViews
  GateGains <- MCGateGains
  ScoreViews <- MCScoreViews
  ScoreGains <- MCScoreGains
  ScoreDesks <- MCScoreDesks
  ScoreLimits <- MCScoreLimits
  MaxOpen = 6
  TapeGifts <- MCTapeGifts
  Prices = {400, 600}
  Rates = {100, 130}
  Gaps = {1, 170}
  Window = 336
  Crowds <- MCCrowds
  MaxPrints = 3
  MaxQuotes = 2
CHECK_DEADLOCK FALSE
INVARIANTS
  SecondPassIsFresh
  ExitsHold
  AdviceIsSafe
  BetterNeverLoses
  TapeIsHonest
