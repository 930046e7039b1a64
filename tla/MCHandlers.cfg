\* Chunks: one byte stands for a kilobyte, with sizes on both sides of every
\* boundary of the geometric phase, of the first flat chunks and of a 20 MB one.
\* Accounts: two, with two passwords, and two requests at a time, five in all.
\* Tabs: one to leave, one it moves up past the loop, one more; two broadcasts at
\* a time of three changes.
SPECIFICATION EachSpec
CONSTANTS
    KB = 1
    Multis = {1, 2, 20}
    DEFAULT_SIZE_MULTI = 20
    FileSizes = {0, 1, 127, 128, 129, 384, 2687, 2688, 2689, 3583, 3584, 3585, 4607, 4608, 4609, 5632, 6000, 24063, 24064, 24065, 30000}
    Existing = {0, 127, 128, 500, 3584, 4608, 5000, 24064, 40000}
    Handle = {h1, h2, h3, h4}
    Outside = Outside
    Blank = Blank
    VideoSizes = {0, 1, 15, 16, 17, 31, 33, 40}
    RangeNumbers = {0, 1, 14, 15, 16, 17, 30, 32, 39, 50}
    CHUNK_READ_SIZE = 20
    Email = {e1, e2}
    Password = {p1, p2}
    Op = {o1, o2}
    None = None
    MaxRequests = 5
    MaxRestarts = 1
    Tab = {t1, t2, t3}
    Caller = {c1, c2}
    MaxVersions = 3
INVARIANTS
    ChunksTile
    ResumeAtBoundary
    TreeComplete
    RangeServed
    KeysAgree
    AccountsReadable
    TabsTold
CHECK_DEADLOCK FALSE
