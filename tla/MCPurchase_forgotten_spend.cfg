SPECIFICATION Spec
CONSTANTS
  g1 = g1
  g2 = g2
  g3 = g3
  w1 = w1
  w2 = w2
  Gifts = {g1}
  Workers = {w1, w2}
  Nobody = Nobody
  NoGift = NoGift
  Asks = {1}
  Fee = 1
  Routes = 1
  MaxTicket = 3
  DailyBudget = 3
  MaxOpenPositions = 2
  MaxDay = 1
  Faults = {"crash"}
  Hiding = {"ambiguous", "lost"}
SYMMETRY Symmetric
CHECK_DEADLOCK FALSE
INVARIANTS
  BudgetRemembersPurchases
