CONSTANTS
  near = near
  far = far
  s1 = s1
  s2 = s2
  p1 = p1
  p2 = p2
  None = None
  Couriers = {near, far}
  Slots = {s1, s2}
  Positions = {p1, p2}
  SlotOf <- MCSlotOf
  Occurrences = {s2}
  AutoApproved = {s2}
  Regulars = {near}
  Overlaps <- MCOverlaps
  Reach <- MCReach
  Waves = 2
  Quiet = {p2}
SPECIFICATION Spec
INVARIANTS NoDoubleBooking ShownPlaceCanBeTaken
PROPERTIES ActiveShiftGoesOn SearchEnds
CHECK_DEADLOCK FALSE
