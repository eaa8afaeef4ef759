SPECIFICATION FairSpec
CONSTANTS
  idle = idle
  k1 = k1
  k2 = k2
  p1 = p1
  NULL = NULL
  Thread <- MCThreadLive
  KThread <- MCKThreadLive
  Process <- MCProcess
  KTHREAD_PRIO = 0
  PRIO_NUM = 2
  MAX_THREAD_NUM = 3
PROPERTIES
  PrintsForEver
  NoStarvation
  InterruptsComeBack
