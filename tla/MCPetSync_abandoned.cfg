CONSTANTS
    Cat = Cat
    Dog = Dog
    Bird = Bird
    Bundles <- Pets
    NoBundle = NoBundle
    Length <- Lengths
    Capacity = 2
    Ids = {1, 2, 3, 4, 5}
    Faults = {"flash", "nvs", "power", "wait", "link"}
    FaultLimit = 1
    SelectionLimit = 1
    InboxLimit = 2
SPECIFICATION SyncSpec
PROPERTY InterruptedUploadIsResumed
