SPECIFICATION Spec
CONSTANTS
  bit_num = 10
  Count = {1, 3}
PROPERTIES
  ImplementsBitSet
  ScanReturns
