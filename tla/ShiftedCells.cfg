SPECIFICATION Spec
CONSTANTS
    MaxLines = 2
    MaxTokens = 2
    ParentMaxTokens = 5
INVARIANTS
    ValuesUnderTheirColumn
CHECK_DEADLOCK FALSE
