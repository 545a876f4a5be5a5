SPECIFICATION Spec
CONSTANTS
    Root = root0
    Members = {child, other}
    Foreign = {other}
    ZombieGroupRefuses = TRUE
    MaxStops = 3
INVARIANTS
    ConfirmedMeansGone
    GivenUpOnlyAfterKill
    ReleasedMeansGone
PROPERTIES
    ReapedLast
    NoSignalAfterwards
    SharedDeadlineIsKept
    KeepsTheSeam
    StopIsAnswered
CHECK_DEADLOCK FALSE
