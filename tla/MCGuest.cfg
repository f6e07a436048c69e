CONSTANTS
  DIV = 4
  TOP = 4
  WRAP = 64
  Never = Never
  Addr <- MCAddr
  Handler = 6
  MaxCycles = 110
  MaxFrames = 40
  Programs <- GuestPrograms
  CHUNK = 2
  SLICE = 4
  HarnessTick = FALSE
  Preload = 1
  Outside = 11
  Unknown = Unknown
  Wanted = 2
  TickMod = 4
  KEY_COLS = 2
  Host <- MCHost
  Escape = "escape"
  key_of <- MCKeyOf
SPECIFICATION GuestSpec
INVARIANTS DelayLasts KeysFollowTheHost
PROPERTIES BothWaitsEnd
CHECK_DEADLOCK FALSE
