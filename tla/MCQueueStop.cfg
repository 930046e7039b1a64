\* A stop-all takes a file for an earlier DELETE.
SPECIFICATION Spec
CONSTANTS
    Id = {i1, i2}
    Link = {a, b}
    MaxSlots = 1
    MaxCrashes = 0
    MaxRequests = 4
    MaxCopies = 2
    CommonName = CommonName
    Nothing = Nothing
    Mixed = Mixed
PROPERTIES
    StopKeepsPartial
SYMMETRY Symmetry
CHECK_DEADLOCK FALSE
