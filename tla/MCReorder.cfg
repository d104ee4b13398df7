SPECIFICATION Spec
CONSTANTS
  Deliveries = {d1, d2}
  Ifood = {}
  Couriers = {c1}
  Offers = {}
  Routes = {r1}
  Incidents = {}
  Payouts = {1}
  RepeatedIds = TRUE
  NoOne = NoOne
  MaxVersion = 7
SYMMETRY Symmetry
INVARIANTS PickupsComeFirst
CHECK_DEADLOCK FALSE
