SPECIFICATION FairSpec
CONSTANTS
  idle = idle
  c1 = c1
  k1 = k1
  NULL = NULL
  Thread <- OneReader
  Consumer = {c1}
  PRIO_NUM = 2
  MAX_THREAD_NUM = 3
  BUF_SIZE = 3
  Byte <- MCByte
  ZERO <- CHAR_INVISIBLE
  ScanByte <- MCScanByte
  MAX_KEYS = 4
INVARIANTS
  NoCharLost
  SleeperNamed
  InOrder
  NoReaderAsleep
PROPERTIES
  ImplementsKernel
  AllRead
