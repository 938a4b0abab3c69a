\* Two settlements of the node, its registration and a client that uses the contract by itself,
\* one escrow of the client; a third account refuses transfers; an
\* RPC fails and a task is dropped.
CONSTANTS
    Accounts = {wallet, client, miser}
    Rejecting = {miser}
    Wallet = wallet
    Client = client
    Tasks = {1, 2, 3}
    Registrars = {3}
    Requests = {1, 2, 3}
    Values = {0, 2}
    Timeout = 1
    MaxEscrows = 3
    MaxTime = 1
    MaxFaults = 1
    MaxDrops = 1
    Zero = Zero

SPECIFICATION FairSpec

ACTION_CONSTRAINT Bounds

INVARIANTS
    Conservation
    LockedAtMostOnce
    LostLockWasRaced

PROPERTIES
    EscrowSpec
    SettlementEnds

\* The chain rests when every settlement has ended.
CHECK_DEADLOCK FALSE
