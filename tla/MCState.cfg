SPECIFICATION Spec
CONSTANTS
  c1 = c1
  c2 = c2
  None = None
  Torn = Torn
  Configs <- TwoConfigs
  Uses <- BothAndOne
  ExpectedIds <- TwoConfigsOrNone
  StateWrites = {"DESYNC", "RESTART", "INIT"}
  MaxCalls = 2
  MaxStateWrites = 3
INVARIANTS
  AppliedIsWritten
  EnabledIsWritten
  IdentifiedIsWritten
PROPERTIES
  RestartResumesModules
  CallsEnd
  ImplementsLife
CHECK_DEADLOCK FALSE
