\* Two shifts, two employers, under fairness.
CONSTANTS
  Employers = {m1, m2}
  Personal = Personal
  MaxShifts = 2
  Conditions <- Evenings
SPECIFICATION FairSpec
INVARIANTS AssignedIsRecorded
PROPERTIES ScreensNeverGoBack HistoryCatchesUp
