SPECIFICATION FairSpec
CONSTANTS
  MaxStream = 3
  AdvMaxStreams = 1
INVARIANTS TypeOK LimitKept GoAwayFollows
PROPERTIES KeepsPromise ConnectionEnds EndReleasesAll
CHECK_DEADLOCK FALSE
