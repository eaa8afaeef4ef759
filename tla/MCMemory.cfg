SPECIFICATION Spec
CONSTANTS
  Process = {p1, p2}
  KTHREAD_NUM = 0
  MemSize <- MCMemSize
  PgCnt <- MCPgCnt
  PT_ENTRIES = 8
  USER_START_PAGE = 1
  USER_PAGES = 13
  BITMAP_PAGES = 3
  NO_PROCESS = NO_PROCESS
INVARIANTS
  NoPageShared
  PoolsExact
  AddressesReserved
  FailsOnlyWhenExhausted
PROPERTIES
  MappingsStable
