SPECIFICATION Spec
CONSTANTS
  idle = idle
  a = a
  b = b
  NULL = NULL
  Thread <- MCThread
  PRIO_NUM = 3
  MAX_THREAD_NUM = 2
INVARIANTS
  SchedulerConsistent
  NoMissedPreemption
  SavedContextLive
  AddressSpaceOfRunning
  PidTable
PROPERTIES
  DispatchMostUrgent
