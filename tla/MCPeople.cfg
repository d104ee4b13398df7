SPECIFICATION Spec
CONSTANTS
  r1 = r1
  r2 = r2
  q1 = q1
  d1 = d1
  d2 = d2
  m1 = m1
  m2 = m2
  s1 = s1
  s2 = s2
  b1 = b1
  MaxSessions = 3
  Request <- MCRequest
  Requirement <- MCRequirement
  MaxDocuments = 3
  Dispute <- MCDispute
  Person <- MCPerson
  Linked <- MCLinked
  Block <- MCBlock
  Blocker <- MCBlocker
  MaxRides = 10
  Decimals = 100
  Doubles = 128
  Charge = {"SUBSCRIPTION", "EXTRA"}
  Subscription = "SUBSCRIPTION"
  DelinquentAfter = 2
  Graces = {0, 3}
  Dues = {0}
  MaxDay = 4
SYMMETRY Interchangeable
ACTION_CONSTRAINT Bounds
INVARIANTS
  OneHeirPerLogin
  StandingAgrees
  
PROPERTIES
  DecisionsStand
  BlockIsEarned
CHECK_DEADLOCK FALSE
