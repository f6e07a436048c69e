CONSTANTS
  BASE = 3
  OFFS = 4
  PAGE_BYTES = 3
  PAGE_COUNT = 3
  StatusCmds = {1, 2}
  DUMMIES = 1
  FF = FF
  STATUS_READY = STATUS_READY
  MaxSent = 7
SPECIFICATION Spec
INVARIANTS TypeOK StateFollowsBytes
PROPERTIES ImplementsChip
