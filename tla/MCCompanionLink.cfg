SPECIFICATION MCFairSpec
CONSTANTS
  p1 = p1
  p2 = p2
  t1 = t1
  t2 = t2
  Pin <- MCPin
  noPin = noPin
  Saver = {"web"}
  MaxRotations = 1
  Thread <- MCThread
  nothing = nothing
  MaxMoves = 1
  Modulus = 3
  MaxPresses = 1
  MaxFaults = 1
  MaxEvents = 2
INVARIANTS
  ActionOnce
  AnswerGoesToAsker
  ShownIsPosted
PROPERTIES
  SnapshotsInOrder
  CompanionReturns
CHECK_DEADLOCK FALSE
