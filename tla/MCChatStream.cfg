SPECIFICATION FairSpec
CONSTANTS
  MaxLines = 3
  Window = 1
INVARIANTS
  NoSilentEnd
  NoGap
  ErrorIsJust
PROPERTIES
  WindsDown
CHECK_DEADLOCK FALSE
