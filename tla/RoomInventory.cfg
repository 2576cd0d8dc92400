SPECIFICATION RoomsSpec
CONSTANTS
  b1 = b1
  b2 = b2
  r1 = r1
  r2 = r2
  d1 = d1
  d2 = d2
  Building = {b1, b2}
  Room = {r1, r2}
  Bed = {d1, d2}
  n1 = n1
  n2 = n2
  Number = {n1, n2}
  BedLabel = {A}
  A = A
  NoLabel = NoLabel
  Apartment = Apartment
  Standard = Standard
  Absent = Absent
SYMMETRY Symmetry
INVARIANTS
  TypeOK
  NothingDangles
  NumbersUnique
