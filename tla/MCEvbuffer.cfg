SPECIFICATION Spec
CONSTANTS
    Bytes <- MCBytes
    Shorts <- MCShorts
    MaxChunk = 3
    MaxBytes = 5
INVARIANTS
    TypeOK
    Conserved
    CopyoutExact
PROPERTIES
    ReadlnExact
