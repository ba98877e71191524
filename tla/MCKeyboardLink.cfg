SPECIFICATION MCFairSpec
CONSTANTS
  fn = fn
  nav = nav
  back = back
  plain = plain
  Key <- MCKey
  FnKey = fn
  NavKey = nav
  ReturnKey = back
  Chord = chordUsage
  ChordKeys <- MCChordKeys
  ModeKeys <- MCModeKeys
  DigitKeys = {nav}
  QueueDepth = 2
  MacroDepth = 1
  MaxConnections = 2
  PasskeyDigits = 1
  MaxFaults = 1
  MaxTurns = 1
  MaxStrokes = 3
  MaxCommands = 1
  MaxEvents = 4
  MaxAside = 1
INVARIANTS
  LastReportIsHeld
  ReadyIsReal
PROPERTIES
  LocalKeysStayLocal
  KeyUpArrives
  LinkStaysOfUse
CHECK_DEADLOCK FALSE
