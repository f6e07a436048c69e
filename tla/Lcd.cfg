CONSTANTS
  LEVELS = 2
  STRIDE = 2
  LCD_H = 2
  INDEXES = 4
  R_X = 2
  R_Y = 3
  R_DATA = 1
  Values = {0, 1, 3, 6}
  MaxRun = 3
SPECIFICATION Spec
INVARIANTS RunIsShown
PROPERTIES OneRowAtATime
