\* Four calls on two requests, by a node with or without a chain; one RPC
\* fails and two calls are dropped.  A cost above the amount is tried as well.
CONSTANTS
    Calls = {1, 2, 3, 4}
    Requests = {r1, r2}
    Amounts = {2}
    Costs = {1, 3}
    MaxFaults = 1
    MaxDrops = 2
    None = None

SPECIFICATION FairSpec

ACTION_CONSTRAINT CallsInOrder

INVARIANTS
    NonceRaceNeedsDrop
    LedgerIsOnChain
    DivergenceNeedsFailures

PROPERTIES
    EscrowSpec
    EveryCallReturns

\* The adapter rests when every call has returned.
CHECK_DEADLOCK FALSE
