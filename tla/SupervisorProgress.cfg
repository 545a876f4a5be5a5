SPECIFICATION FairSpec
CONSTANTS
    N = 2
    Kind <- ProgressKind
    Policy <- ProgressPolicy
    MaxRestarts <- ProgressRestarts
    OnUnhealthy <- NoProcess
    Readiness <- ProgressReadiness
    StartupTimeout <- ProgressTimeout
    Liveness <- NoPolicy
    Autostart <- ProgressAutostart
    Profiles = {0}
    Enabled <- AllEnabled
    Depends <- ProgressDepends
    Label <- BaseLabels
    Requests <- ProgressRequests
    MaxRuns = 1
PROPERTIES
    ShutdownCompletes
    StoppingSettles
    SatisfiedWaiterStarts
