SPECIFICATION Spec
CONSTANTS
    MaxCmds = 1
    MaxEvents = 1
    Timeouts = FALSE
\* Nothing is left to do after the last command.
CHECK_DEADLOCK FALSE
INVARIANTS
    CompletionSignalledOnce
