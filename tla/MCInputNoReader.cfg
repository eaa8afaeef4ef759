SPECIFICATION Spec
CONSTANTS
  idle = idle
  c1 = c1
  k1 = k1
  NULL = NULL
  Thread <- NoReader
  Consumer = {}
  PRIO_NUM = 2
  MAX_THREAD_NUM = 3
  BUF_SIZE = 3
  Byte <- MCByte
  ZERO <- CHAR_INVISIBLE
  ScanByte <- MCScanByteOne
  MAX_KEYS = 4
INVARIANTS
  SomeThreadRunnable
