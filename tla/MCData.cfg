CONSTANTS
  BITS <- MCBits
  NIB = 4
  CCRBIT <- MCCcr
  MEM = 16
  Hooked <- MCHooked
  Registers <- MCRegisters
  Cells <- MCCells
  Programs <- MCPrograms
SPECIFICATION Spec
INVARIANTS ResultsExact Restores OverflowIsSigned ComparisonsDecide LimbsRight
CHECK_DEADLOCK FALSE
