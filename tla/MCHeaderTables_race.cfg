SPECIFICATION Spec
CONSTANTS
  Static <- Known
  Fields <- Sent
  Length <- Lengths
  TableSize = 3
  Sizes = {0, 2, 4}
  MaxFields = 4
  MaxSettings = 2
  WhileEncoding = TRUE
INVARIANT EncoderOwned
CHECK_DEADLOCK FALSE
