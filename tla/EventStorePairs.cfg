SPECIFICATION FairSpec
CONSTANTS
  o1 = o1
  o2 = o2
  o3 = o3
  f1 = f1
  f2 = f2
  OrganiserRequests = {o1, o2}
  FamilyRequests = {f1}
  Draft <- MCDraft
  Batches <- Pairs
  Folds <- PersonFolds
  MaxAttempts = 2
  None = None
INVARIANTS
  TypeOK
  RowsInOrder
  AcknowledgedAsReviewed
  NoBatchCutShort
  ConflictMeansContention
PROPERTY
  EveryRequestAnswered
