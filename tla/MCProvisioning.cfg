\* A device with its worker and its GUI thread; once a relay misses a call or the
\* process ends, anywhere.
SPECIFICATION FairSpec
CONSTANTS
    r1 = r1
    r2 = r2
    Urls <- TwoRelays
    Device = {d1}
    Thread = {worker, gui}
    Worker = worker
    MaxDraws = 8
    MaxFaults = 1
INVARIANTS TypeOK PublishedUsable ListedReachable
PROPERTIES EventuallyProvisioned
CHECK_DEADLOCK FALSE
