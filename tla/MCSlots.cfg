\* Queue: two transfers, three requests.
\* Semaphore: four transfers, limits on both sides of the number of waiters, and 0,
\* which the constructor and set_limit raise to 1; the Condition of Python 3.12.
SPECIFICATION FairEachSpec
CONSTANTS
    Id = {i1, i2}
    Link = {a, b}
    MaxSlots = 1
    MaxCrashes = 0
    MaxRequests = 3
    MaxCopies = 2
    CommonName = CommonName
    Nothing = Nothing
    Mixed = Mixed
    Task = {t1, t2, t3, t4}
    Limits = {0, 2, 3}
    PassOn = FALSE
INVARIANTS
    PermitsAccounted
    WakeupsAccounted
PROPERTIES
    CancelEnds
    WaiterServed
CHECK_DEADLOCK FALSE
