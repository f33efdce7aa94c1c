\* The queue pair also receives.
SPECIFICATION DuplexSpec
CONSTANTS
  LOADS <- MCDuplex
  MAX_PSN_WINDOW = 4
  MAX_SEND_WR = 4
  INIT_RETRY = 1
  CAP = 1
  ACKS = 1
  RPSN = {1, 3}
INVARIANT RetransmitHolds
CHECK_DEADLOCK FALSE
