\* Two handlers, nothing reset, frames in two parts, a connection that ends.
CONSTANTS
  Streams    = {s1, s2}
  None       = none
  Events     = {"connError"}
  WantCap    = 1
  MaxFrame   = 1
  Window     = 1
  MaxData    = 2
  MaxWrites  = 0
  MaxControl = 0
SPECIFICATION GrantingSpec
PROPERTIES ImplementsResponses HandlersReturn
CHECK_DEADLOCK FALSE
