CONSTANTS
    CommandDepth = 2
    Faults = {"burst", "commit", "power", "lock"}
    RestartLimit = 2
    PinDigits = 1
    TextLimit = 1
    Digits = {0, 1}
    MaxProfiles = 1
    MaxNetworks = 1
    QueueSlots = 1
    MaxEvents = 9
    MaxProneEvents = 7
    CodexLines = {1, 8}
    UiFaults = {"preempt", "contents"}
    Sectors = 1
    Written = {"wifi", "nimble_bond"}
    HoldPolls = 2
    DisplayChoices = 2
    DefaultDisplay = 1
    Chords = {"off", "fn"}
    DefaultChord = "off"
    SettingsDepth = 1
SPECIFICATION MCSpec
INVARIANTS CompletionIsEarned ScanStepHasScan ScreenIsTrue SecretsStayApart SettingsSurvive WipeIsHonest
PROPERTIES VerifyEnds
