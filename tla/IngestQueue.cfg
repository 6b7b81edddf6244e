SPECIFICATION Spec
CONSTANTS
    k1 = k1  k2 = k2
    NoDoc = NoDoc
    NoChunk = NoChunk
    Doc = {d1}
    Sectioned = {}
    Job = {j1}
    Chunk = {c1, c2, c3}
    Worker = {w1}
    Client = {k1, k2}
    MaxAttempts = 2
    Concurrency = 2
    RedisEnabled = TRUE
    MaxVersion = 2
    MaxCrashes = 1
    Faults = {"load", "mark", "skip", "build", "commit", "embed", "upsert", "finish", "fail",
              "maintain", "redis", "vectors"}
    Ops <- EditorAndDeleter
    Timely = TRUE
SYMMETRY Symmetry
INVARIANTS TypeOK PointsHaveRows RunningIsReclaimable ReadyIsIndexed
