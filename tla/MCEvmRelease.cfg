\* One settlement, nothing fails: release_funds returns Ok and nobody is paid.
CONSTANTS
    Accounts = {wallet, client}
    Rejecting = {}
    Wallet = wallet
    Client = client
    Tasks = {1}
    Registrars = {}
    Requests = {1}
    Values = {2}
    Timeout = 1
    MaxEscrows = 1
    MaxTime = 0
    MaxFaults = 0
    MaxDrops = 0
    Zero = Zero

SPECIFICATION FairSpec

PROPERTY ReleaseReachesNode

\* The chain rests when every settlement has ended.
CHECK_DEADLOCK FALSE
