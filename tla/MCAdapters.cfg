\* Two settlements from one wallet that can pay for one of them at a time, and a
\* client with a request of its own; an RPC fails or a transaction is lost; the
\* clock passes the default expiry of what is locked at time 0, not a longer one.  Two requests and a root
\* to anchor, with two coins.  Two answers to settle, with one failure.
CONSTANTS
    Wallets = {wallet, client}
    Requests = {r1, r2, r3}
    NodeKeys = {key}
    Amounts = {2}
    Timeouts = {0, 1}
    DefaultTimeout = 0
    Latencies = {5000}
    Roots = {root}
    Funds = 2
    MaxTime = 1
    Nil = Nil
    Tasks = {r1, r2}
    Wallet = wallet
    NodeKey = key
    Client = client
    MaxFaults = 1
    MaxDrops = 1

    SuiTasks = {"r1", "r2", "root"}
    Anchored = {"root"}
    Price = 2
    Balances <- MCBalances
    GasBudget <- MCGasBudget
    MaxSuiFaults = 1

    Paid = {q1, q2}
    Configs <- MCConfigs
    Wants <- MCWants
    Unsaid = Unsaid
    NoReceipt = NoReceipt
    NoTx = NoTx
    MadeUp = MadeUp
    MaxPayFaults = 1
    MaxPayHangups = 1

SPECIFICATION MCSpec

SYMMETRY Symmetry

INVARIANTS
    Solvent
    LeaderboardIsEarned
    ReleaseFailsOnlyLate
    SuiEscrowsAreRight
    ReceiptsAreTrue

PROPERTY EscrowSpec

\* The chain rests when every settlement has ended.
CHECK_DEADLOCK FALSE
