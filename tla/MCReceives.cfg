\* Three workloads, with window reports of the hardware at any point; capacity 2:
\* post_send is refused when two operations wait.
SPECIFICATION MCSpec
CONSTANTS
  LOADS <- MCLoads
  LATE = FALSE
  CAP = 1
  MAX_PSN_WINDOW = 8
  MAX_SEND_WR = 4
  SENDS <- MCSends
  RECVS <- MCRecvs
  CAPACITY = 2
  PEERS <- MCPeers
  INDEX = {1, 2}
  KEYS = {0}
  POSTS <- MCPosts
INVARIANT ReceivesConserved DeliverySound RecvPairing ReadSound RecvPosted   NoMissedMatch
CHECK_DEADLOCK FALSE
