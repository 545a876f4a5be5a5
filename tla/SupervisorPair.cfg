SPECIFICATION Spec
CONSTANTS
    N = 2
    Kind <- PairKind
    Policy <- PairPolicy
    MaxRestarts <- PairRestarts
    OnUnhealthy <- NoProcess
    Readiness <- NoPolicy
    StartupTimeout <- NoProcess
    Liveness <- NoPolicy
    Autostart <- PairAutostart
    Profiles = {0}
    Enabled <- AllEnabled
    Depends <- PairDepends
    Label <- BaseLabels
    Requests <- PairRequests
    MaxRuns = 2
INVARIANTS
    TypeOK
    OneRunAlive
    AuthorityIsBounded
PROPERTIES
    ShutdownIsFinal
    StopSuppressesRestart
    RunsAreIdentified
