CONSTANTS
  PRs = {p1, p2}
  Items <- MCItems
  ListOf <- MCListOf
  Paths <- MCPaths
  Parent <- MCParent
  Listed = {"x", "y"}
  First <- MCFirst
  Changes <- MCChanges
  Drafts <- MCDrafts
  OldLists = {"tools"}
  MaxTags = 1
SPECIFICATION Spec
INVARIANTS
  BreaksAreNamed
  QuietChangesAreSafe
  AFixIsEnough
  NotesTellAll
SYMMETRY Symmetry
CHECK_DEADLOCK FALSE
