SPECIFICATION Spec
CONSTANTS
  Events = {1, 2}
  Messages = {m1}
  Workers = {w1, w2}
  None = None
  MaxAttempts = 2
  MaxCrashes = 1
  MaxOverruns = 0
  MaxLosses = 1
INVARIANTS MessageTellsTheOutcome NoNeedlessCopies
PROPERTIES ImplementsAtLeastOnce
CHECK_DEADLOCK FALSE
