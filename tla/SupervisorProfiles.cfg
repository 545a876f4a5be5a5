SPECIFICATION Spec
CONSTANTS
    N = 2
    Kind <- ProfilesKind
    Policy <- ProfilesPolicy
    MaxRestarts <- ProfilesRestarts
    OnUnhealthy <- ProfilesOnUnhealthy
    Readiness <- ProfilesReadiness
    StartupTimeout <- ProfilesTimeout
    Liveness <- ProfilesLiveness
    Autostart <- ProfilesAutostart
    Profiles = {0, 1}
    Enabled <- ProfilesEnabled
    Depends <- ProfilesDepends
    Label <- BaseLabels
    Requests <- ProfilesRequests
    MaxRuns = 2
INVARIANTS
    HealthFollowsTheRun
PROPERTIES
    AdmittedWhenSatisfied
    ProfileReachesEveryRun
