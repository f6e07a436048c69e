CONSTANTS
  Images <- MCImages
SPECIFICATION Spec
INVARIANTS BodyTypeOK EmitTotal TransfersAgree PrefixLong EntriesSeeded
PROPERTIES SweepEnds FramesRestore
CHECK_DEADLOCK FALSE
