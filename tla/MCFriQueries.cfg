SPECIFICATION Spec
CONSTANTS
    NumOracles = 2
    NumQueries = 3
    FieldOrder = 9
    FieldBits = 4
    None = None
    Shape <- MCShape
INVARIANTS
    AcceptsOpenings
    CircuitAccepts
    CompressionIsLossless
CHECK_DEADLOCK FALSE
