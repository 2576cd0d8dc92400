SPECIFICATION Spec
CONSTANTS
  f1 = f1
  f2 = f2
  e1 = e1
  e2 = e2
  e3 = e3
  p1 = p1
  p2 = p2
  r1 = r1
  r2 = r2
  k1 = k1
  k2 = k2
  Family = {f1, f2}
  Email = {e1, e2, e3}
  Person = {p1, p2}
  Workshop = {k1, k2}
  Profile = {"child", "adult"}
  Choice = {"yes", "no"}
  Request = {r1, r2}
  Ask <- Asks
  Offer <- Offers
  MaxRank = 2
  MaxAttempts = 2
  MaxHead = 2
  Initial <- Worlds
  None = None
SYMMETRY Symmetry
CHECK_DEADLOCK FALSE
INVARIANT TypeOK
PROPERTIES
  SeatsKept
  GrantedWhenWritten
  ReplacedWhole
  OwnPeopleOnly
