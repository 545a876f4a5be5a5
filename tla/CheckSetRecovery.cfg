SPECIFICATION Spec
CONSTANTS
    probe = probe
    log = log
    Probes <- MCProbes
    Logs <- MCLogs
    SuccessThreshold <- MCSuccess
    FailureThreshold <- MCFailure
    MaxAttempts = 3
INVARIANTS
    RecoveryClearsFailure
CHECK_DEADLOCK FALSE
