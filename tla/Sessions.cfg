SPECIFICATION SessionsSpec
CONSTANTS
  k1 = k1
  s1 = s1
  s2 = s2
  r1 = r1
  r2 = r2
  e1 = e1
  Link = {k1}
  Session = {s1, s2}
  Request = {r1, r2}
  Email = {e1}
  LinkLife = 1
  Idle <- PolicyIdle
  Absolute <- PolicyAbsolute
  MaxTime = 5
  None = None
SYMMETRY Symmetry
INVARIANTS
  SessionsTypeOK
  LinkRedeemedOnce
  LogoutIsFinal
  IdleEnds
