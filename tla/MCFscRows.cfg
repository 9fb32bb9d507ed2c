SPECIFICATION Spec
CONSTANTS
  out1 = out1
  in1 = in1
  Events = {out1}
  Windows = {in1}
  CycleTimes = {12, 24, 36}
  Periods = {12, 24, 36}
  Times = {0, 5, 10, 12, 24, 30}
  TICK = 2
  EgressDelay = 3
  OpenDelay = 2
  CloseDelay = 1
  UINT16_T_MAX = 5
  NOP_DELTA_CYCLE = 4
  ANZ_MIN_TICKS = 2
  UINT32 = 64
  MAX_EVENTS = 5
  MaxEntries = 3
INVARIANTS
  CommandsApart
  EntriesComplete
  RowsFit
  RowsOnTime
CHECK_DEADLOCK FALSE
