\* No packet is stale: all PSNs lie within one window.
SPECIFICATION Spec
CONSTANTS
  Row = {qa, qb}
  MAX_PSN_WINDOW = 8
  STRIDE = 2
  STRIDES = 2
  PSNS = {0, 1, 3}
  QLEN = 1
INVARIANT ReadIsFresh
PROPERTY AtomicUpdates  ResetTakesEffect
CHECK_DEADLOCK FALSE
