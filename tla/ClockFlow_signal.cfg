\* Only the signal fails: is a shift lost?
CONSTANTS
  MaxTaps = 4
  Conditions <- BadSignal
SPECIFICATION Spec
INVARIANTS SignalCostsNoShift
