SPECIFICATION Spec
CONSTANTS
    k1 = k1  k2 = k2
    NoDoc = NoDoc
    NoChunk = NoChunk
    Doc = {d1}
    Sectioned = {}
    Job = {j1, j2}
    Chunk = {c1, c2, c3}
    Worker = {w1, w2}
    Client = {k1}
    MaxAttempts = 2
    Concurrency = 1
    RedisEnabled = TRUE
    MaxVersion = 1
    MaxCrashes = 0
    Faults = {}
    Timely = TRUE
    Ops <- EditorOnly
INVARIANT ReadyIsIndexed
