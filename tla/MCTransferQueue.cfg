\* Interleavings of requests, tasks and database calls, over a crash.
SPECIFICATION Spec
CONSTANTS
    Id = {i1, i2}
    Link = {a, b}
    MaxSlots = 1
    MaxCrashes = 1
    MaxRequests = 4
    MaxCopies = 2
    CommonName = CommonName
    Nothing = Nothing
    Mixed = Mixed
INVARIANTS
    OneEntryPerLink
    NeverLaunchedTwice
    QueueSurvives
    OneWriterPerFile
    DoneIsWhole
PROPERTIES
    DoneFileKept
SYMMETRY Symmetry
CHECK_DEADLOCK FALSE
