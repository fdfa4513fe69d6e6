\* Two handlers and resets.
CONSTANTS
  Streams    = {s1, s2}
  None       = none
  Events     = {"reset"}
  WantCap    = 1
  MaxFrame   = 1
  Window     = 1
  MaxData    = 1
  MaxWrites  = 0
  MaxControl = 0
SPECIFICATION Spec
INVARIANT ServeNeverBlocks
CHECK_DEADLOCK FALSE
