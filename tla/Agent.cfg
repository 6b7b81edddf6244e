SPECIFICATION FairSpec
CONSTANTS
    search = search
    provision = provision
    deploy = deploy
    Unknown = unknown
    Tool <- Tools
    Spec_of <- Specs
    HighNeedsApproval = TRUE
    DenyHigh = FALSE
    MaxIterations = 3
    MaxCalls = 2
    MaxAsked = 3
    Modes = {"loop", "reject", "ask", "bare"}
INVARIANTS
    TypeOK
    NoUnsanctionedRun
    HighRiskAudited
    RunAtMostOnce
    RepliesComplete
PROPERTIES
    HonoursContract
    TurnEnds
CHECK_DEADLOCK FALSE
