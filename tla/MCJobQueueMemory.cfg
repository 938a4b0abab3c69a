\* The in-memory store: one replica, three requests for two permits, a crash.
CONSTANTS
    n1 = n1  n2 = n2  r1 = r1  r2 = r2  r3 = r3  None = None
    Nodes = {n1}
    Requests = {r1, r2, r3}
    Home <- MCHomeOne
    Permits = 2
    JobTimeout = 1
    Durable = FALSE
    MaxTime = 1
    MaxFaults = 0
    MaxCrashes = 1
SPECIFICATION FairSpec
INVARIANTS GaugeNeverUndercounts TimedOutIsPending
INVARIANT CompensatedAtMostOnce
PROPERTIES JobResolved GateSpec
\* Every request ends and the clock stops at its bound.
CHECK_DEADLOCK FALSE
