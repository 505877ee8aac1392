\* Two handlers at once over the taps of one phone, every tap retried at will.
CONSTANTS
  None = None  u1 = u1  u2 = u2  acme = acme  bistro = bistro
  site = site  edge = edge  far = far
  Users = {u1}
  Employers = {}
  Locs = {site}
  Near <- MCNear
  Keys = {"a", "A", "b", "B"}
  Slots = {1, 2}
  Events <- RetryEvents
  MaxClockSkew = 1
  MaxQueuedAge = 2
  MaxNow = 3
SPECIFICATION Spec
INVARIANTS TypeOK OneOpenShift BackdatedIffLate SuccessMeansRecorded
PROPERTIES ConflictMeansUnrecorded ImplementsShiftLedger
