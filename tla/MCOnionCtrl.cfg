SPECIFICATION FairSpec
CONSTANTS
    MaxCmds = 3
    MaxEvents = 1
    Timeouts = TRUE
\* Nothing is left to do after the last command.
CHECK_DEADLOCK FALSE
INVARIANTS
    TypeOK
    ReplyAttribution
    OneOutcome
    NothingLeftBehind
PROPERTIES
    CommandsReport
    CloseInCallbackFrees
