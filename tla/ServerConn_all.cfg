\* One handler, all that a client does, frames in two parts.
CONSTANTS
  Streams    = {s1}
  None       = none
  Events     = {"body", "reset", "streamError", "connError", "settings", "ping", "leave"}
  WantCap    = 1
  MaxFrame   = 2
  Window     = 1
  MaxData    = 2
  MaxWrites  = 1
  MaxControl = 1
SPECIFICATION FairSpec
INVARIANTS TypeOK NoPanic WritesAccounted
PROPERTY EndReleasesHandlers
CHECK_DEADLOCK FALSE
