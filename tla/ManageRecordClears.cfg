CONSTANTS
  Sessions = {s1}
  NoVersion = NoVersion
  TooLong = {"long"}
  Characters <- MCCharacters
  People <- MCPeople
  MaxEdits = 0
  Inputs <- ClearingInputs
  Starts <- MCStarts
  Edits <- MCEdits
SPECIFICATION RecordSpec
INVARIANT RehearsalNamesTheWrite
CHECK_DEADLOCK FALSE
