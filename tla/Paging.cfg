CONSTANTS
  Ids = {1, 2, 3, 4}
  TypeOf <- MCTypeOf
  Worlds <- MCWorlds
  Traits <- MCTraits
  Dues = {2, 8}
  Questions <- MCQuestions
  Limits = {0, 7}
  DefaultLimit = 1
  MaxLimit = 2
  IdsPerFetch = 2
  None = None
  MaxChanges = 2
  MaxFailures = 1
SPECIFICATION FairSpec
INVARIANTS
  NothingSkipped
  NothingElse
  HitsAreLive
PROPERTY EveryReadEnds
CHECK_DEADLOCK FALSE
