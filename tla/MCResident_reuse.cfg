CONSTANTS
  Texts <- ChainTexts
  Roots <- ChainRoots
  Modes = {"file", "round", "session"}
  MaxId = 6
  StaleSlack <- SlackScaled
SPECIFICATION Spec
INVARIANTS
  TypeOK
  ReuseIsScratch
  RewindSparesKept
  PrefixHoldsUntilEmptied
