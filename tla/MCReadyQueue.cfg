SPECIFICATION RqSpec
CONSTANTS
  bit_num = 3
  Count = {1}
  NULL = NULL
  idle = idle
  t1 = t1
  t2 = t2
  Thread <- MCThread
PROPERTIES
  ImplementsRunQueues
