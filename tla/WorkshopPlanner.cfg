SPECIFICATION Spec
CONSTANTS
  Workshop = {1, 2, 3}
  Person = {1, 2}
  Slot = {1, 2}
  Space = {1, 2}
  MaxRank = 2
  Worlds <- TwoKinds
  None = None
INVARIANTS
  TypeOK
  ProgrammeSound
  RulesKept
  NobodyPassedOver
CHECK_DEADLOCK FALSE
