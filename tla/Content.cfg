SPECIFICATION Spec
CONSTANTS
    MaxLines = 4
    MaxTokens = 2
    ParentMaxTokens = 5
INVARIANTS
    BlocksCited
    ChunksComplete
    TablesSearched
    ParentHoldsChild
CHECK_DEADLOCK FALSE
