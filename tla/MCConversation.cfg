\* Three turns of two sessions, in each of the stores; the file store gives both
\* sessions one file.  A history holds three messages, so that a turn is cut in two; an
\* access fails or the node restarts; entries expire.
\* Two short messages fit the token budget, the long answer does not.
CONSTANTS
    Requests = {1, 2, 3}
    Sessions = {s1, s2}
    FileName <- MCFileName
    Backends = {"memory", "local", "redis"}
    MaxMsgs = 3
    Bytes <- MCBytes
    Budget = 12
    TTL = 1
    MaxTime = 2
    MaxFaults = 1
    MaxCrashes = 1
    Nil = Nil

    Chats = {"c1", "c2"}
    SessionKeys = {"k1", "k2"}
    Writers = {w1, w2}
    None = None
    MaxTurns = 3
    MaxLapses = 1
    MaxReboots = 1

    Lengths = {0, 1024, 2048, 2052}
    Limits = {600, 1024}
    MaxSpoken = 4
    MaxMisfires = 1

    Putters = {p1, p2, p3}
    Contents = {x, y}
    Media = {"local", "memory", "ipfs", "walrus"}
    MaxBlobFaults = 1

SPECIFICATION MCSpec

SYMMETRY Symmetry

ACTION_CONSTRAINTS
    Bounds
    OneMishap

INVARIANTS
    PromptsAreRight
    SessionsAreUsable
    BlobsReadBack

PROPERTY HistoryOnlyGrows

\* The node rests when every request has been answered.
CHECK_DEADLOCK FALSE
