\* One node and one that listens to it, for six intervals in which one thing goes
\* wrong; one request for bids to two nodes, with room for one bid at a time; four
\* jobs of two callers for one slot and a queue of one; up to five proofs of a node and one
\* of another (a tree of five has a leaf without a path), with two restarts: the store may
\* start without its file, and then with it again.
CONSTANTS
    p1 = p1
    Listeners = {p1}
    Offers = {"a", "b"}
    Down = "down"
    CacheTTL = 2
    PeerTTL = 3
    MaxTime = 6
    MaxFaults = 1

    Asks = {1}
    Budget <- MCBudget
    Private = {1}
    Bidders = {n1, n2}
    Engines <- MCEngines
    Loads <- MCLoads
    CollectorCap = 1
    MaxLosses = 1
    MaxHangups = 1

    Callers = {1, 2}
    Jobs = {"i", "j", "k", "l"}
    NoJob = "none"
    MaxConcurrent = 1
    MaxQueue = 1

    Conversations <- MCConversations
    MaxContextTokens = 10
    AnswerLength = 3
    ChannelCap = 1
    MaxMishaps = 1

    id1 = id1  id2 = id2  id3 = id3  id4 = id4  id5 = id5  id6 = id6
    Nodes = {"self", p1}
    Self = "self"
    Ids <- MCIds
    NodeOf <- MCNodeOf
    Signed = {id1, id3, id6}
    Recorders = {"x"}
    QueueCap = 1
    ZeroRoot = ZeroRoot
    MaxFlushFailures = 1
    MaxMisreads = 1
    MaxRestarts = 2

SPECIFICATION MCSpec

INVARIANTS
    RegistryIsFresh
    MarketAnswers
    SchedulerCounts
    AnswersAreRight
    ProofsAreKept

PROPERTY WorkEnds

\* The intervals, the requests, the jobs and the proofs come to an end.
CHECK_DEADLOCK FALSE
