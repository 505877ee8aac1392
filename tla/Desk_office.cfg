\* Two employers, two days, two overlapping ranges.
CONSTANTS
  a = a  b = b  None = None  Failed = Failed
  Employers = {a, b}
  Members = {m}
  Days = {1, 2}
  Ranges <- MCRanges
  Week <- MCWeek
  Amounts = {0, 1}
  Conditions <- Offices
SPECIFICATION Spec
INVARIANTS NothingCrossesEmployers ExportHasEverySave PagesShowTheServer
