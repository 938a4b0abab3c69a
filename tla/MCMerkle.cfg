\* A store made with the id its proofs carry.
CONSTANTS
    id1 = id1  id2 = id2  id3 = id3  id4 = id4  id5 = id5  id6 = id6  p1 = p1
    Nodes = {"self", p1}
    Self = "self"
    Ids <- MCIds
    NodeOf <- MCNodeOf
    Signed = {id1, id3, id6}
    Recorders = {"x"}
    QueueCap = 1
    ZeroRoot = ZeroRoot
    MaxFlushFailures = 0
    MaxMisreads = 0
    MaxRestarts = 0

SPECIFICATION MCReputationSpec

INVARIANT EveryPathVerifies

\* The tasks stop when every proof is recorded.
CHECK_DEADLOCK FALSE
