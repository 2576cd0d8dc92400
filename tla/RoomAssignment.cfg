SPECIFICATION Spec
CONSTANTS
  Family = {1, 2, 3}
  Room = {1, 2, 3}
  Person = {1, 2, 3, 4, 5}
  Place = {1, 2, 3, 4, 5, 6}
  Capability = {101}
  Sizes = {0, 1, 2, 3}
  Deciding = {1, 3}
  Inputs <- SomeInputs
  ExactFit = 10
  NearFit = 4
  OrphanBed <- OrphanPenalty
  Scarce <- ScarcePenalty
  None = None
CHECK_DEADLOCK FALSE
INVARIANTS
  EvaluationsFresh
  NobodyForgotten
  UnplacedForAReason
