\* Windows of three bits, -4..3: every size, increment and wrap is reached.
CONSTANTS
  Streams   = {s1, s2}
  MaxWindow = 3
  Default   = 2
  MaxFrame  = 2
  MaxData   = 3
SPECIFICATION Spec
SYMMETRY Symmetry
INVARIANTS TypeOK NoOverdraft
PROPERTY ImplementsWindows
CHECK_DEADLOCK FALSE
