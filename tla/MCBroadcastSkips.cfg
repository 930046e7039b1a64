\* A tab that leaves and one behind it; one broadcast of one change.
SPECIFICATION TabSpec
CONSTANTS
    Tab = {t1, t2, t3}
    Caller = {c1}
    MaxVersions = 1
INVARIANTS
    TabsAlwaysTold
CHECK_DEADLOCK FALSE
