CONSTANTS
  n1 = n1
  n2 = n2
  n9 = n9
  Null = Null
  Strings <- MCStrings
  Ids = {n1, n2, n9}
  Keys = {"k1", "k2", "k3", "title"}
  lower <- MCLower
  digits <- MCDigits
  Metas <- MCMetas
  Records <- MCRecords
  Writes <- MCWrites
SPECIFICATION CodecSpec
INVARIANTS
  EncodeIsOrderFree
  EchoStoresTheSame
  ReadIsComplete
CHECK_DEADLOCK FALSE
