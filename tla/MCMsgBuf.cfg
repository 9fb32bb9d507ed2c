SPECIFICATION Spec
CONSTANTS
  p1 = p1
  p2 = p2
  n1 = n1
  n2 = n2
  Granularity = 4
  MemorySize = 32
  BufferCount = 2
  Procs <- Users
  Owns <- OneEach
  Names <- AllNames
  Layouts <- AllLayouts
  WordBits = 1
  Kinds <- UsersCalls
  MaxCalls = 3
  MaxFrames = 1
INVARIANTS
  LocksAsCalled
  OverwrittenConserved
  ReadIsOfItsBuffer
  BuffersApart
PROPERTIES
  CallsReturn
CHECK_DEADLOCK FALSE
