SPECIFICATION MCSpec
CONSTANTS
  PreferredRate = "hz24000"
  NoSignalFrameLimit = 3
  SequenceModulus = 4
  QueueDepth = 2
  G0QueueDepth = 1
INVARIANTS RecordingIsSafe AgreementAtRest
PROPERTIES RecordingSteps ImplementsSwitch RecordingEnds
