SPECIFICATION BlockSpec
CONSTANTS
  stats = stats
  feed = feed
  buy = buy
  N = 1
  Gated = {stats, feed}
  Writers = {}
  Probe = stats
  Retries = 1
  RestAfter = 2
  Rests <- ShortRests
  Pauses <- ShortPauses
  ProbeEvery = 1
  Hold = 2
  NoticeEvery = 4
  FrugalEvery = 0
INVARIANTS
  AllClearAnswersNotice
  CoolingHolds
  RestIsEarned
PROPERTIES
  DeskComesBack
  RoutesInOrder
