SPECIFICATION Spec
CONSTANTS
  idle = idle
  k1 = k1
  k2 = k2
  p1 = p1
  NULL = NULL
  Thread <- MCThread
  KThread <- MCKThread
  Process <- MCProcess
  KTHREAD_PRIO = 0
  PRIO_NUM = 2
  MAX_THREAD_NUM = 4
INVARIANTS
  MutualExclusion
  SemaphoreExact
  NoLostWakeup
  NeverFaults
  HolderAccurate
PROPERTIES
  ImplementsKernel
