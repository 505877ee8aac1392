\* Days of six units, two of them on screen.
CONSTANTS
  Open = Open
  Day <- MCDay
  from = 1
  to = 2
  Stories <- Weeks
SPECIFICATION PaySpec
CONSTRAINT InTheirOrder
INVARIANTS RowsListWhatTheyPay EveryCentIsShared WeekShowsEveryShift
CHECK_DEADLOCK FALSE
