CONSTANTS
    Texts = {"blank", "keys"}
    BlankText = "blank"
    MaxProfiles = 2
    MaxSequence = 4
    Legacy <- OldProfile
    Faults = {"flash", "check", "read", "nvs", "memory"}
    Pages = {p1, p2}
    InFlight = 1
    MaxRevision = 3
SPECIFICATION MCSpec
INVARIANTS ActiveIsOne PutReplacesWhatWasRead CatalogIsSafe
PROPERTIES ImplementsDurable
