SPECIFICATION FairSpec
CONSTANTS
  MaxFaults = 1
  MaxLosses = 1
  Conn = {c1, c2}
  none = none
INVARIANTS
  SinkIsHonest
PROPERTIES
  AudioComesBack
  QuitWithdrawsSink
CHECK_DEADLOCK FALSE
