CONSTANTS
  DIV = 2
  TOP = 2
  WRAP = 32
  Never = Never
  Addr <- MCAddr
  Handler = 5
  MaxCycles = 12
  MaxFrames = 40
  Programs <- MCPrograms
  CHUNK = 3
  SLICE = 3
  HarnessTick = TRUE
  Preload = 1
  Outside = 7
  Unknown = Unknown
  TickMod = 2
  Wanted = 1
SPECIFICATION MCSpec
INVARIANTS BudgetKept
PROPERTIES ImplementsCpu BackEdgesPolled CyRunReturns
CHECK_DEADLOCK FALSE
