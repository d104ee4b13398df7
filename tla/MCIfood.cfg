SPECIFICATION Spec
CONSTANTS
  MaxEvents = 3
  Codes = {"PLACED", "CONFIRMED", "CANCELLED", "CANCELLATION_REQUEST_FAILED"}
  Modes = {"MANUAL", "IMMEDIATE"}
  MaxAttempts = 2
  MaxChanges = 2
  Worker = {w1, w2}
  NoOne = NoOne
  MaxSends = 2
  MaxCrashes = 1
  MaxOverruns = 1
  Budget = 3
SYMMETRY Interchangeable
ACTION_CONSTRAINT Bounds
INVARIANTS
  NothingSentTwice
  OrderFollowsIfood
PROPERTIES
  NothingGoesBack
CHECK_DEADLOCK FALSE
