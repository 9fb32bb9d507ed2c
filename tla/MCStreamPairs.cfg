SPECIFICATION Spec
CONSTANTS
  in1 = in1
  in2 = in2
  ev1 = ev1
  rec1 = rec1
  tt1 = tt1
  tt2 = tt2
  m0 = m0
  m1 = m1
  m2 = m2
  c1 = c1
  c2 = c2
  Streams = {in1, in2, ev1, tt1, tt2}
  Modules = {m0, m1}
  Configs = {c1}
  Null = Null
  Kind <- ApplicationKind
  ModuleId <- Ports
  MaxRedundant = 2
  MaxLookup = 1
  MaxWindows = 1
INVARIANTS
  TypeOK
  PairsInverse
  PairsSplit
  LookupWithinLimit
PROPERTIES
  AppliedFrozen
  DestroyStreamLeavesNoPointer
CHECK_DEADLOCK FALSE
