SPECIFICATION DeskSpec
CONSTANTS
  Parts = {"switches", "settings", "history", "books", "venues", "miniapp", "relist", "watchers"}
  Callers = {"c1", "c2"}
  Amounts = {0, 1}
  ExitDays = {7}
  ShadowDefault = TRUE
  Operated = {"armed", "shadow", "limits"}
  Overlapping = {"armed"}
  WritesFail = TRUE
  MaxStreak = 3
  Time <- Short
  FaultsOf <- Few
  Pairs = {"p1", "p2"}
  Creds = {"a1", "a2"}
  FromEnv = "env"
  Collections = {1, 2, 3}
  Batch = 2
  Window = 4
  Lookback = 8
  Attributes = 12
  Epoch = 10
  MaxTrades = 1
  Readers = {"r1", "r2"}
  Slots = 3
  TTL = 2
  MaxMoves = 2
  Calls = {"k1", "k2"}
  Models = {"m1", "m2"}
  Session = TRUE
  Pasted = TRUE
  MaxTokens = 3
  Asks = {1, 2, 3}
  Floor = 2
  Quiet = 2
  Waits <- ShortWaits
  Rivals = {4, 5, 6}
CHECK_DEADLOCK FALSE
INVARIANTS
  RestartKeepsChoices
  ThreeFailuresDisarm
  
  
  CacheHolds
  
  
PROPERTIES
  FreshTokenKept
  OpensOnlyWhenConfirmed
