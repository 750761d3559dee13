CONSTANTS
  title = title
  name = name
  cf = cf
  a = a
  b = b
  Blank = Blank
  NoVersion = NoVersion
  BaseFields = {title, name}
  CustomFields = {cf}
  Derived = {name}
  Values = {Blank, a, b}
  Names = {"title", "name"}
  NameOf <- MCNameOf
  Sessions = {s, t}
  Inputs <- MCInputs
  Starts <- MCStarts
  MaxTime = 1
  MaxEdits = 1
SYMMETRY Symmetry
SPECIFICATION Spec
INVARIANTS
  NoUnnamedOverwrite
  VersionCatchesEdits
  ReportIsExact
  RetryFindsItDone
CHECK_DEADLOCK FALSE
