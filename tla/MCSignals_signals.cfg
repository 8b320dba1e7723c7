SPECIFICATION SignalsSpec
CONSTANTS
  gift1 = gift1
  gift2 = gift2
  model1 = model1
  model2 = model2
  Gifts = {gift1, gift2}
  Models = {model1, model2}
  ModelOf <- TwoModels
  Prices = {3, 4}
  QueueSize = 1
  BatchMax = 2
  Slice = 1
  Cooldown = 1
  MaxTime = 2
  MaxMoves = 3
  Taps = {"t1", "t2"}
  Asks = {0, 4, 6}
  SigPrice = 5
  LotMoves = 2
CHECK_DEADLOCK FALSE
INVARIANTS
  PaidWithinCard
PROPERTIES
  
  EveryTapAnswered
