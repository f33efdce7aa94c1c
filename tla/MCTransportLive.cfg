\* Lost packets of one request hold up the requests after it.
SPECIFICATION FairSpec
CONSTANTS
  LOADS <- MCLive
  MAX_PSN_WINDOW = 4
  MAX_SEND_WR = 4
  INIT_RETRY = 1
  CAP = 1
  ACKS = 1
  RPSN = {}
PROPERTY SignaledCompletes
CHECK_DEADLOCK FALSE
