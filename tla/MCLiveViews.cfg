CONSTANTS
  None = None
  a = a
  b = b
  Deliveries = {a, b}
  Opens = 0
  Closes = 4
  MaxTime = 4
  MaxPoints = 2
  Named = {a}
  Staff = Staff
  Parcel = {p1}
  Link = {l1, l2}
  Viewer = {v1, v2}
  Publication = {q1}
  Occurrence = {e1, e2}
  c1 = c1
  c2 = c2
  c3 = c3
  h1 = h1
  h2 = h2
  Profile = {c1, c2, c3}
  Phone = {h1, h2}
  PhoneOf <- MCPhoneOf
  Order = {o1, o2}
  Browser = {b1}
  Live = {s1, s2}
  Studio = {t1, t2}
  Quota = 2
SPECIFICATION Spec
ACTION_CONSTRAINT Bounds
INVARIANTS CustomersSeeTheirOwnStage FollowersGetTheirOwn StreamKeysAreAccounted
PROPERTIES LastPositionNeverGoesBack PresenceEnds StreamsEnd
CHECK_DEADLOCK FALSE
