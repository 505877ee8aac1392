\* Taps and syncs that take turns; and everything at once, under fairness.
CONSTANTS
  MaxTaps = 3
  Conditions <- MCConditions
SPECIFICATION FairSpec
INVARIANTS ScreenSettles PillSettles  
PROPERTIES EveryTapSettles
