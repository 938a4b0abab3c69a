\* The in-memory store, no fault and no crash: a request that
\* completes while the watcher holds it in a snapshot.
CONSTANTS
    n1 = n1  n2 = n2  r1 = r1  r2 = r2  r3 = r3  None = None
    Nodes = {n1}
    Requests = {r1, r2, r3}
    Home <- MCHomeOne
    Permits = 2
    JobTimeout = 1
    Durable = FALSE
    MaxTime = 1
    MaxFaults = 0
    MaxCrashes = 0
SPECIFICATION FairSpec
PROPERTY CompletedNeverCompensated
CHECK_DEADLOCK FALSE
