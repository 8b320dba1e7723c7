SPECIFICATION FairSpec
CONSTANTS
  g1 = g1
  g2 = g2
  g3 = g3
  w1 = w1
  w2 = w2
  Gifts = {g1}
  Workers = {w1, w2}
  Nobody = Nobody
  NoGift = NoGift
  Asks = {1, 2}
  Fee = 1
  Routes = 2
  MaxTicket = 2
  DailyBudget = 4
  MaxOpenPositions = 2
  MaxDay = 2
  Faults = {}
  Hiding = {"ambiguous"}
INVARIANTS
  EveryPurchaseBooked
  UnattendedWithinTicket
PROPERTIES
  EveryCallReturns
  
