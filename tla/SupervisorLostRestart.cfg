SPECIFICATION Spec
CONSTANTS
    N = 1
    Kind <- OnlyServices
    Policy <- NeverRestarted
    MaxRestarts <- NoRestarts
    OnUnhealthy <- NoProcess
    Readiness <- NoPolicy
    StartupTimeout <- NoProcess
    Liveness <- NoPolicy
    Autostart <- NoAutostart
    Profiles = {0}
    Enabled <- AllEnabled
    Depends <- BaseDependencies
    Label <- BaseLabels
    Requests <- RestartRequests
    MaxRuns = 2
PROPERTIES
    RestartIsNotLost
