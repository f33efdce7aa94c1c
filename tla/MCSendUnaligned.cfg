\* A request that starts inside a packet and goes on behind its end.
SPECIFICATION MCSpec
CONSTANTS
  d1 = d1
  d2 = d2
  Desc <- MCDesc
  BUF_SIZE = 4
  READ_BLOCK = 2
  MAX_BATCH = 2
  w1 = w1
  w2 = w2
  WORKERS = {w1, w2}
  PMTU = 2
  CHUNK_SIZE = 4
  BATCH = 2
  RING = 1
  LOADS <- MCUnaligned
INVARIANT PsnsApart
CHECK_DEADLOCK FALSE
