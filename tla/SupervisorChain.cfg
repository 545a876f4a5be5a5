SPECIFICATION Spec
CONSTANTS
    N = 3
    Kind <- ChainKind
    Policy <- ChainPolicy
    MaxRestarts <- ChainRestarts
    OnUnhealthy <- NoProcess
    Readiness <- NoPolicy
    StartupTimeout <- NoProcess
    Liveness <- NoPolicy
    Autostart <- ChainAutostart
    Profiles = {0}
    Enabled <- AllEnabled
    Depends <- ChainDepends
    Label <- BaseLabels
    Requests <- ChainRequests
    MaxRuns = 1
INVARIANTS
    ShutdownIsWaitingForSomeone
    DependentsStopFirst
CHECK_DEADLOCK FALSE
