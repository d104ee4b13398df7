SPECIFICATION Spec
CONSTANTS
  Deliveries = {d1, d2}
  Ifood = {d2}
  Couriers = {c1}
  Offers = {}
  Routes = {r1}
  Incidents = {}
  Payouts = {1}
  RepeatedIds = FALSE
  NoOne = NoOne
  MaxVersion = 7
SYMMETRY Symmetry
INVARIANTS ReadyRouteCanStart
CHECK_DEADLOCK FALSE
