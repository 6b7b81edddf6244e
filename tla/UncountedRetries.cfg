SPECIFICATION FairSpec
CONSTANTS
    k1 = k1  k2 = k2
    NoDoc = NoDoc
    NoChunk = NoChunk
    Doc = {d1}
    Sectioned = {}
    Job = {j1}
    Chunk = {c1, c2, c3}
    Worker = {w1}
    Client = {k1}
    MaxAttempts = 2
    Concurrency = 1
    RedisEnabled = FALSE
    MaxVersion = 1
    MaxCrashes = 0
    Faults = {"mark"}
    Ops <- EditorOnly
    Timely = TRUE
PROPERTY EveryJobEnds
