SPECIFICATION FairSpec
CONSTANTS
  Launches = {asked, served}
  asked = asked
  served = served
  Lines <- MCLines
  Environments <- MCEnvironments
  Stores <- MCStores
  Recognized <- MCAccepted
  MaxChanges = 1
CHECK_DEADLOCK FALSE
INVARIANTS
  StatusForetells
  NoWritePastTheFloor
PROPERTY EveryStartEnds
