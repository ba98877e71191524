CONSTANTS
    Networks = {"home", "work", "typo"}
    Good = {"home", "work"}
    Factory <- HomeFactory
    TimeoutTicks = 2
    AttemptLimit = 2
    MailboxSlots = 7
    Faults = {"flash", "scan"}
    CallLimit = 2
    LossLimit = 1
    BootLimit = 1
    NoCreds = NoCreds
SPECIFICATION MCSpec
INVARIANTS SavedIsTrusted
PROPERTIES StationSettles
