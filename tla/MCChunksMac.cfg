\* The multiplier every download gets, on files around the first chunk it changes.
SPECIFICATION Spec
CONSTANTS
    KB = 1
    Multis = {1, 20}
    DEFAULT_SIZE_MULTI = 20
    FileSizes = {3584, 4608, 4609, 6000}
    Existing = {0}
INVARIANTS
    DefaultVerifies
CHECK_DEADLOCK FALSE
