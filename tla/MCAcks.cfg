\* NAK packets arrive in order, none is lost.
SPECIFICATION MCSpec
CONSTANTS
  MAX_PSN_WINDOW = 16
  STRIDE = 2
  STRIDES = 2
  N = 6
  QLEN = 1
  POLL_IN_GAP = FALSE
  REPORTED <- MCReported
  SENT = 8
  ENDS = {2, 5, 8}
  NAK_LOSS = FALSE
INVARIANT LocalAckSound WindowSound 
PROPERTY BaseMonotone
CHECK_DEADLOCK FALSE
