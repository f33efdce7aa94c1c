SPECIFICATION Spec
CONSTANTS
  LOADS <- MCLoads
  PAGE_SIZE = 3
  MAX_MR_CNT = 3
  PGT_LEN = 4
  BURST = 2
  BUILDS = {"debug", "release"}
  N_TESTING = 2
  FAULTS = {"alloc", "netdev", "register"}
  CONTEXTS = {1}
INVARIANT TranslationSound PinnedExactly AllOrNothing UnloadTouchesLiveElse
PROPERTY RegistrationReturns
CHECK_DEADLOCK FALSE
