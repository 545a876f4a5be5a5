SPECIFICATION Spec
INVARIANTS
    ChecksAreCounted
    TerminalIsObserved
    OrderedInputArrives
    HistoryIsSound
    PagesAreSound
    SearchIsIncremental
    ConfigurationIsSound
PROPERTIES
    ChecksMoveAsExpected
    InputIsForTheSelectedProcess
    LeavingCopyClears
    LargestHistoryGoesFirst
    PausedPageStays
    MatchIsShown
CHECK_DEADLOCK FALSE
