\* The Last packet of a message arrives again after its completion.
SPECIFICATION CompleteSpec
CONSTANTS
  LOADS <- MCTwoSends
  LATE = TRUE
  CAP = 1
  MAX_PSN_WINDOW = 8
  MAX_SEND_WR = 4
  SENDS <- MCSends
  RECVS <- MCRecvs
  CAPACITY = 2
  PEERS <- MCPeers
  INDEX = {1, 2}
  KEYS = {0}
  POSTS <- MCPosts
INVARIANT RecvOnce
CHECK_DEADLOCK FALSE
