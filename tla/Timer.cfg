CONSTANTS
  DIV = 2
  TOP = 2
  WRAP = 6
  Never = Never
  Addr = {main, isr}
  Handler = isr
  MaxCycles = 13
  MaxFrames = 2
SPECIFICATION Spec
INVARIANTS TypeOK DeadlineExact TickShowsOverflow OneTickPerArming InterruptedUnmasked
PROPERTIES ClearTakes OvfSticky TickConsumedByPoll

