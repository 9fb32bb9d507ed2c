SPECIFICATION Spec
CONSTANTS
  r1 = r1
  r2 = r2
  u1 = u1
  Rules = {r1, r2}
  Readers = {u1}
  Poll = Poll
  Tick = Tick
  None = None
  FieldMax = 2
  WordMax = 3
  max_diag_retry = 2
  clear_on_read = TRUE
INVARIANTS
  FlagsReachRecovery
  FlagsReachReader
  CountsAddUp
  PollingGoesOn
SYMMETRY RuleSymmetry
