SPECIFICATION Spec
CONSTANTS
    Root = root0
    Members = {child}
    Foreign = {}
    ZombieGroupRefuses = FALSE
    MaxStops = 2
INVARIANTS
    AStopRetriesTheCleanup
CHECK_DEADLOCK FALSE
