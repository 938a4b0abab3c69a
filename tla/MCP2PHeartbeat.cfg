\* A request comes, then two other events: the event loop asks the swarm task,
\* which waits for the event loop.
CONSTANTS
    Requests = {1}
    Nodes = {n1, n2}
    ModelNodes = {n1}
    Tokens = {"a", "b"}
    Answers <- MCAnswers
    EventCap = 1
    ChunkCap = 1
    MaxFaults = 0
    MaxDrops = 0
    MaxOthers = 2

SPECIFICATION FairSpec

PROPERTY HeartbeatGoesOn

\* The network rests when every request has been answered.
CHECK_DEADLOCK FALSE
