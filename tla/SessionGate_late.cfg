\* A request that outlives its session: whose profile is shown?
CONSTANTS
  Workers = {A, B}
  Nobody = Nobody
  Conditions <- LateAnswer
SPECIFICATION Spec
INVARIANTS MeIsTheWorkers
