SPECIFICATION FairSpec
CONSTANTS
  Folds <- ConflictFolds
  Slots = {1, 2}
  MaxGroups = 3
  MaxMade = 3
  MaxElsewhere = 1
  MaxDoubts = 2
INVARIANTS
  CommittedIsPrefix
  ExactlyOnceUnlessInDoubt
PROPERTY
  ImmediateIsSaved
