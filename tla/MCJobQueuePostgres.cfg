\* The shared store: two replicas, one request each, one crash, one failed call.
CONSTANTS
    n1 = n1  n2 = n2  r1 = r1  r2 = r2  r3 = r3  None = None
    Nodes = {n1, n2}
    Requests = {r1, r2}
    Home <- MCHomeTwo
    Permits = 1
    JobTimeout = 1
    Durable = TRUE
    MaxTime = 1
    MaxFaults = 1
    MaxCrashes = 1
SPECIFICATION FairSpec
INVARIANTS CompensatedOnlyOverdue OrphansNeedInterruptions
PROPERTIES CompletedBeforeSweepIsSafe DispatchedIsPickedUp
\* Every request ends and the clock stops at its bound.
CHECK_DEADLOCK FALSE
