\* The connection runs past the wrap of the PSN (16 values).
SPECIFICATION Spec
CONSTANTS
  MAX_PSN_WINDOW = 8
  LIMIT = 20
  BITMAP = 2
  REACH = 3
INVARIANT NoLostAck
CHECK_DEADLOCK FALSE
