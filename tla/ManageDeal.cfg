SPECIFICATION Spec
CONSTANTS
  Sessions = {s1, s2}
  Inputs <- MCInputs
  Starts <- MCStarts
  Titles = {"a", "b"}
  Stages = {"s1", "s2"}
  Reasons = {"old", "price"}
  NoVersion = NoVersion
  MaxEdits = 1
SYMMETRY Symmetry
CHECK_DEADLOCK FALSE
INVARIANTS
  RejectionsAreRaces
  DeletedOnce
  NoUncalledForWrite
PROPERTIES
  WritesStayNarrow
