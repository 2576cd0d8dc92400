SPECIFICATION Spec
CONSTANTS
  f1 = f1
  f2 = f2
  p1 = p1
  p2 = p2
  m1 = m1
  m2 = m2
  m3 = m3
  n1 = n1
  n2 = n2
  t1 = t1
  t2 = t2
  Family = {f1, f2}
  Person = {p1, p2}
  Email = {m1, m2, m3}
  Name = {n1, n2}
  Trait = {t1, t2}
  None = None
  MaxSeq = 5
SYMMETRY Symmetry
CHECK_DEADLOCK FALSE
INVARIANTS
  MapsAgree
  CommittedSound
PROPERTY
  FamilyForLife
