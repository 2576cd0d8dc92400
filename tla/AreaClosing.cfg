SPECIFICATION Spec
CONSTANTS
  x = x
  y = y
  warn = warn
  r1 = r1
  r2 = r2
  Plan = {x, y}
  Advisory = {warn}
  Domain <- Domains
  Initial <- Calm
  Batch <- Batches
  Request = {r1, r2}
  MaxLog = 3
  Empty = Empty
SYMMETRY Symmetry
CHECK_DEADLOCK FALSE
INVARIANTS
  FactsFollowLog
  ShownIsRecorded
PROPERTY ClosedAsReviewed
