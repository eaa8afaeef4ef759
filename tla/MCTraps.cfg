SPECIFICATION FairSpec
CONSTANTS
  Vector <- MCVector
  ENTRY_BASE <- MC_ENTRY_BASE
  TSS_ADDR <- MC_TSS_ADDR
  WILD <- MC_WILD
  TOP = 56
  ENTRY_WORDS = 2
  PROC_WORDS = 3
  MALLOC_WORDS = 3
  PID = 4
  USER_ESP = 5000
  Line <- MCLine
INVARIANTS
  TrapsLand
  NothingInService
  MisplacedOnlyWhenEarly
PROPERTIES
  TrapsTransparent
  ProcessStarts
