CONSTANTS
    Val = {v1, v2}
    BUF_SIZE = 4
    WRITE_BLOCK = 2
    QDEPTH = 2
SPECIFICATION Spec
INVARIANTS PopIntegrity WholeMessages LandsOnFreeSlot TailBehindShadow
PROPERTY PopsContinue
CHECK_DEADLOCK FALSE
