CONSTANTS
  BITS <- MCBits
  NIB = 4
  CCRBIT <- MCCcr
  MEM = 16
  Hooked <- MCHooked
  Registers <- MCRegisters
  Cells <- MCCells
  Programs <- MCPrograms
SPECIFICATION Spec
INVARIANT CarryOut
CHECK_DEADLOCK FALSE
