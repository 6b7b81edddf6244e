SPECIFICATION Spec
CONSTANTS
    Chunk <- Chunks
    Row <- RowOf
    Document = {"d1", "d2"}
    Product = {"p1", "p2"}
    Version = {"v1", "v2"}
    None = "none"
    Scope <- Scopes
    TopK = 2
    CandidateLimit = 3
    TopN = 2
    RrfK = 2
    MaxSub = 1
    MaxAnswer = 2
    Scale = 12
    Cap = 1
    Budget = 4
    HeadingTokens = 1
    LabelTokens = 1
INVARIANTS
    ContextWithinBudget
CHECK_DEADLOCK FALSE
