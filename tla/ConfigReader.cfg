\* The run stops when the settings are read.
SPECIFICATION ConfigSpec
CONSTANTS
  LINE_SIZE = 8
  LengthMax = 6
  LineMax = 3
  UNINIT = UNINIT
  NONE = NONE
  THROWS = THROWS
CHECK_DEADLOCK FALSE
INVARIANTS
  SettingsAsWritten
  TerminatedByMissingValue
