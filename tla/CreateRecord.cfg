CONSTANTS
  Calls = {c1, c2}
  Inputs <- MCInputs
  Me = "me"
  Owners = {"me", "someone"}
  Currencies = {"EUR", "USD"}
  Stages = {"s1", "s2"}
  Orders = {1, 2}
  Pipelines = {"p0", "p1"}
  HomePipeline = "p0"
  HomeStage = "s1"
  Blank = Blank
  Nobody = Nobody
  MaxEdits = 1
SPECIFICATION FairSpec
INVARIANTS
  OneIdentity
  RehearsalForetells
PROPERTY EveryCallEnds
CHECK_DEADLOCK FALSE
