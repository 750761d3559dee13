CONSTANTS
  Sessions = {s1, s2}
  NoVersion = NoVersion
  TooLong = {"long"}
  Characters <- MCCharacters
  People <- MCPeople
  MaxEdits = 1
  Inputs <- MCInputs
  Starts <- MCStarts
  Edits <- MCEdits
SYMMETRY Symmetry
SPECIFICATION RecordSpec
INVARIANTS
  NoopIsTrue
  ShapesAreTaken
  NoUncalledForWrite
  RehearsalNamesTheWrite
PROPERTY NoUnnamedLoss
CHECK_DEADLOCK FALSE
