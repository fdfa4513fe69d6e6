SPECIFICATION FairSpec
CONSTANTS
  s1 = s1
  s2 = s2
  Streams = {s1, s2}
  Window = 2
  Events = {"overrun", "pad", "reset", "expect", "close", "quit", "respond", "end"}
  Lengths <- Declares
  MaxEvents = 1
  MaxPad = 1
  MaxBody <- Bounds
  NetCap = 1
INVARIANTS TypeOK StreamAccounted ConnAccounted WindowsAgree
CHECK_DEADLOCK FALSE
PROPERTIES ImplementsBodies ReadsReturn UploadsFinish
