\* Both requests in flight together, or the second waiting for the window; one
\* report of the peer is queued at a time.
SPECIFICATION Spec
CONSTANTS
  LOADS <- MCLoads
  MAX_PSN_WINDOW = 3
  MAX_SEND_WR = 4
  INIT_RETRY = 1
  CAP = 1
  ACKS = 1
  RPSN = {}
INVARIANT CountNeverUnderflows TimerArmed RetransmitHolds OutstandingBounded
 
CHECK_DEADLOCK FALSE
