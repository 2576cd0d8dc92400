CONSTANTS
  s1 = s1
  s2 = s2
  None = None
  Slot <- TwoSlots
  MaxMade = 2
  MaxVersion = 1
  MaxDoubts = 2
SPECIFICATION FairSpec
INVARIANT SavedUnlessOverlapped
INVARIANT AddedOnce
PROPERTY ReplacesWhatWasShown
PROPERTY PageComesBack
