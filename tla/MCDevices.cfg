SPECIFICATION MCSpec
CONSTANTS
  Key <- MCKey
  MAX_EVENTS = 4
  COLS = 2
  ROWS = 2
  NL <- MC_NL
  BS <- MC_BS
  BLANK <- MC_BLANK
  Printer = {k1, p1}
  Locked = {k1}
  NOBODY = NOBODY
  BYTE = 3
  Num <- MCNum
  Text <- MCText
  MAX_CHARS = 3
INVARIANTS
  StatusFollowsKeys
  PrintsWhatWasTyped
  SoloExact
  CursorHeals
PROPERTIES
  DigitsExact
