\* One request between two nodes, the target on the topic of the model as well.
\* Channels hold one item, and one thing goes wrong or two events come in between.
CONSTANTS
    Requests = {1}
    Nodes = {n1, n2}
    ModelNodes = {n1}
    Tokens = {"a", "b"}
    Answers <- MCAnswers
    EventCap = 1
    ChunkCap = 1
    MaxFaults = 1
    MaxDrops = 1
    MaxOthers = 2

SPECIFICATION FairSpec

ACTION_CONSTRAINT Bounds

INVARIANTS
    CompleteIsGenerated
    CollectorsCoverHandlers

PROPERTIES
    ExecutedOnce
    HandlersEnd
    ExecutionsEnd

\* The network rests when every request has been answered.
CHECK_DEADLOCK FALSE
