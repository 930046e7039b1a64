\* Three chunks over two slots, run twice: the second run resumes a prefix.
SPECIFICATION FairSpec
CONSTANTS
    TotalChunks = 3
    Slots = 2
    MaxRetries = 2
    GlobFinds = FALSE
    SmartProxy = TRUE
    MaxRuns = 2
    MaxPauses = 1
    MaxCancels = 1
PROPERTIES
    Terminates
CHECK_DEADLOCK FALSE
