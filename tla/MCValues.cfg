SPECIFICATION Spec
CONSTANTS
    Object <- MCObject
    Nesting = 2
    Keys <- MCKeys
    Values <- MCObjects
    MaxEntries = 3
    Ports <- MCPorts
    Tails <- MCTails
    Beginnings <- MCBeginnings
    Symbols <- MCSymbols
    Others <- MCOthers
    MaxSymbols = 5
\* The Dict is full, or the reply is read.
CHECK_DEADLOCK FALSE
INVARIANTS
    DictTypeOK
    DictIsMap
    RepliesRead
