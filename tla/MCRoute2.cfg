SPECIFICATION Spec
CONSTANTS
  Deliveries = {d1, d2, d3}
  Ifood = {d2}
  Couriers = {c1}
  Offers = {o1}
  Routes = {r1}
  Incidents = {i1}
  Payouts = {1}
  RepeatedIds = FALSE
  NoOne = NoOne
  MaxVersion = 7
SYMMETRY Symmetry
ACTION_CONSTRAINTS TwoSizes IncidentsOfFailures LongestPath
INVARIANTS HistoryIsTheStory RoutedOutsideMarketplace StopsTellTheTruth RoutesAdvance ReturnsAreTracked
PROPERTIES ImplementsLifecycle
CHECK_DEADLOCK FALSE
