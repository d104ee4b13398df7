SPECIFICATION Spec
CONSTANTS
  Deliveries = {d1, d2}
  Ifood = {d2}
  Couriers = {c1, c2}
  Offers = {o1, o2}
  Routes = {}
  Incidents = {}
  Payouts = {1, 2}
  RepeatedIds = FALSE
  NoOne = NoOne
  MaxVersion = 6
SYMMETRY Symmetry
INVARIANTS WinnerHoldsDelivery PaidForTheWork
CHECK_DEADLOCK FALSE
