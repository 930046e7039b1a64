\* Four chunks, two slots: chunks finish out of order behind a straggler, and
\* the second run resumes every prefix, torn tail and stray temp file, with the
\* RAM saver on or off in each.
SPECIFICATION Spec
CONSTANTS
    TotalChunks = 4
    Slots = 2
    MaxRetries = 2
    GlobFinds = TRUE
    SmartProxy = TRUE
    MaxRuns = 2
    MaxPauses = 1
    MaxCancels = 2
INVARIANTS
    TypeOK
    FileIsPrefix
    MacFollowsFile
    ClaimsAccounted
    ClaimWindow
    NoLostWakeup
    CompleteIsWhole
    CleanRunConsumes
PROPERTIES
    WholeChunksKept
    PauseHolds
    ImplementsOrderedFile
CHECK_DEADLOCK FALSE
