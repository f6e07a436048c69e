CONSTANTS
  DIV = 2
  TOP = 2
  WRAP = 32
  Never = Never
  Addr <- MCAddr
  Handler = 5
  MaxCycles = 12
  MaxFrames = 40
  Programs <- GapPrograms
  CHUNK = 2
  SLICE = 3
  HarnessTick = TRUE
  Preload = 1
  Outside = 7
  Unknown = Unknown
  TickMod = 2
  Wanted = 1
SPECIFICATION FairMachineSpec
PROPERTY NotTakenGoesOn
CHECK_DEADLOCK FALSE
