\* Transfer: two proxies and two workers, each answered 509 while the other streams
\* or switches; one ban runs out and one list is swapped in.
\* Request: two proxies; enough retries to leave, come back and run out.
SPECIFICATION FairEachSpec
CONSTANTS
    Proxy = {p1, p2}
    None = None
    Worker = {w1, w2}
    MaxRetries = 2
    MaxRefreshes = 2
    MaxTransferRefreshes = 1
    MaxLifts = 1
    MaxRequestRetries = 4
INVARIANTS
    ClientsClosed
    NotBackToLeft
PROPERTIES
    StartsOnOpen
    Terminates
    NeverBackTo509
    RequestEnds
CHECK_DEADLOCK FALSE
