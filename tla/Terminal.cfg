SPECIFICATION FairSpec
CONSTANTS
    CommandBytes = 4
    CommandSlots = 2
    Issued = {"Paste", "Scroll", "Resize", "Copy"}
    MaxCommands = 3
    InputBytes = 2
    InputSlots = 1
    OutputSlots = 1
    OutputBudget = 2
    SliceBudget = 1
    EffectSlots = 1
    MaxOutput = 2
    MaxTraffic = 3
INVARIANTS
    CommandsKeepTheirOrder
    InputIsDeliveredInOrder
    BytesAreAccounted
PROPERTIES
    RequestsAreAnswered
    ShutdownEnds
CHECK_DEADLOCK FALSE
