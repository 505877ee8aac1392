\* Every day in order; and days of lost answers, overlapping attempts, early taps.
CONSTANTS
  None = None  home = home  away = away
  Locs = {home, away}
  TravelTime <- MCTravelTime
  Days <- MCDays
  Slots = {1, 2}
SPECIFICATION FairSpec
INVARIANTS
  LastSeenCatchesUp JumpsAreFlagged FlagIsEarnedInOrder
PROPERTIES LastSeenNeverRegresses EveryBatchSettles
CHECK_DEADLOCK FALSE
