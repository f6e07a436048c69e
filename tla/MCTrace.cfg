CONSTANTS
  ROM_SIZE = 3
  RAM_BASE = 4
  RAM_SIZE = 2
  Padding <- MCPadding
  VECTOR_BYTES = 2
  ADDRESSES = 8
  Erased = 9
  Images <- MCImages
  Unknown = Unknown
  HALF = 3
  MIN_ENTRIES = 2
  ROUNDS = 4
SPECIFICATION Spec
INVARIANTS TypeOK NothingForgotten TraceIsClosure ResultIsFixpoint EntriesHonoured
PROPERTIES ResolveEnds
CHECK_DEADLOCK FALSE
