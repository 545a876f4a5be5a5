SPECIFICATION Spec
CONSTANTS
    P = 2
    Pty = {1, 2}
    Accepts = {1}
    Tracks = {}
    HasProfiles = TRUE
    Inputs = {"/", "p", "text"}
    BatchLimit = 1
    MaxRuns = 1
    MaxResizes = 0
PROPERTIES
    TypingStaysInTheSearch
CHECK_DEADLOCK FALSE
