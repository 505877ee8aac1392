\* A phone that two workers share, under fairness.
CONSTANTS
  Workers = {A, B}
  Nobody = Nobody
  Conditions <- HandOvers
SPECIFICATION FairSpec
INVARIANTS ClockIsTheWorkers
PROPERTIES  HoursOutliveADialog 
