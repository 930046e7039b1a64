\* The smallest queue in which a wakeup can be lost: one transfer holds the only
\* permit, two wait.
SPECIFICATION SlotSpec
CONSTANTS
    Task = {t1, t2, t3}
    Limits = {1}
    PassOn = FALSE
INVARIANTS
    NoStrandedWaiter
CHECK_DEADLOCK FALSE
