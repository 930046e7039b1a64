\* Empty files to four chunks, two slots: answers cross, a straggler holds the
\* others up, every answer can be lost once.
SPECIFICATION FairSpec
CONSTANTS
    MaxChunks = 4
    Slots = 2
    MaxRetries = 2
    MaxPauses = 1
    MaxCancels = 2
INVARIANTS
    NodeIsWhole
    ClaimsAccounted
    HandleFound
PROPERTIES
    Terminates
CHECK_DEADLOCK FALSE
