\* Two requests, a page that comes and goes, room for two handles.
CONSTANTS
  Requests  = {r1, r2}
  PageLen   = 2
  PartLen   = 1
  TextLen   = 1
  ChunkLen  = 1
  MaxChunks = 3
  FdLimit   = 2
  Pages     = {"ok", "missing", "unstatable", "torn"}
SPECIFICATION Spec
SYMMETRY Symmetry
INVARIANTS TypeOK ErrorBodyIsPage HtmlTypeOn404 LocalNotFoundAnswered OneLeakPerRequest
CHECK_DEADLOCK FALSE
