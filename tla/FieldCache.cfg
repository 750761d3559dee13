CONSTANTS
  Ops = {1, 2, 3}
  Entries = {11, 12, 13}
  Nil = 0
  MaxMeta = 1
SPECIFICATION FairSpec
ACTION_CONSTRAINT InOrder
INVARIANTS
  OneFetchPerEntry
  NoTornRead
  RefreshIsSeen
PROPERTY EveryCallAnswered
CHECK_DEADLOCK FALSE
