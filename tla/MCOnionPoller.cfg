SPECIFICATION FairSpec
CONSTANTS
    enable = enable
    disable = disable
    Enables = {enable}
    Disables = {disable}
    Timeout = 2
\* The loop was left, or nothing is left to do.
CHECK_DEADLOCK FALSE
INVARIANTS
    TypeOK
    NoUseAfterDispose
    OneCommandAtATime
    PollsBounded
    ReportedOnce
PROPERTIES
    ReportTellsNetwork
    ImplementsSwitch
    BreakSoonCollects
    EveryCallReports
    EveryConnFreed
