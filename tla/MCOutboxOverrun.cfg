SPECIFICATION Spec
CONSTANTS
  Events = {1}
  Messages = {m1}
  Workers = {w1, w2}
  None = None
  MaxAttempts = 2
  MaxCrashes = 1
  MaxOverruns = 1
  MaxLosses = 0
INVARIANTS DeadLettersAreEarned
PROPERTIES EventuallySettled
CHECK_DEADLOCK FALSE
