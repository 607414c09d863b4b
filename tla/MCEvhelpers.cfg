SPECIFICATION FairSpec
CONSTANTS
    PeerBytes = 3
    RequestBytes = 2
\* The program ends.
CHECK_DEADLOCK FALSE
INVARIANTS
    TypeOK
    Exchanged
    NoNullOutput
PROPERTIES
    BreakSoonCollects
    ExchangeEnds
