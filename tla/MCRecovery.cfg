SPECIFICATION Spec
CONSTANTS
  r1 = r1
  r2 = r2
  b1 = b1
  Rules = {r1, r2}
  Bases = {b1}
  Timeouts = {0, 2, 5}
  recovery_ticks_per_sec = 4
  MSEC_PER_SEC = 7
  WordMod = 16
  SeqMod = 2
  MaxSets = 2
PROPERTIES
  TimeoutIsDue
  SilentTimesOut
