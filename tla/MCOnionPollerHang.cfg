SPECIFICATION LoopSpec
CONSTANTS
    enable = enable
    disable = disable
    Enables = {enable}
    Disables = {}
    Timeout = 2
\* The loop was left, or nothing is left to do.
CHECK_DEADLOCK FALSE
PROPERTIES
    TimeoutNotifies
