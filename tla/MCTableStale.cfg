SPECIFICATION TSpec
CONSTANTS
  in1 = in1
  in2 = in2
  ev1 = ev1
  rec1 = rec1
  tt1 = tt1
  tt2 = tt2
  tt3 = tt3
  tt4 = tt4
  m0 = m0
  m1 = m1
  c1 = c1
  Streams = {tt1, tt2, tt3}
  Modules = {m0, m1}
  Configs = {c1}
  Null = Null
  Kind <- TriggeredKinds
  ModuleId <- TwoPorts
  MaxRedundant = 3
  MaxLookup = 2
  MaxWindows = 0
  OpCodes = {"INSERT", "INSERT_CONSTANT"}
  MaxOperations = 0
  OperationArgs <- Arguments
  Forwarded <- KeepsSource
  Filter <- Filters
  Serial = {m0}
  Fast = {m1}
INVARIANTS
  AppliedRowsDisjoint
CHECK_DEADLOCK FALSE
