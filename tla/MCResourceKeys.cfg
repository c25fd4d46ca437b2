SPECIFICATION Spec
CONSTANTS
    Letters <- MCLetters
    MaxLength = 4
INVARIANTS
    OverlapIsNesting
CHECK_DEADLOCK FALSE
