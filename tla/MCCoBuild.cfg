SPECIFICATION Spec
CONSTANTS
    D = 2
    NumQueryRounds = 28
    RateBits = 3
    CapHeight = 4
    ArityBits = 4
    FinalPolyBits = 5
    MaxBits = 20
    NumPublicInputs = 94
    GoalBits = 18
    None = None
    CredType <- MCCredType
    GateType <- MCGateType
    Facts <- MCFacts
INVARIANTS
    SearchIsExact
    OneShape
    BlindingCovers
    OneIterationSuffices
PROPERTY Termination
CHECK_DEADLOCK FALSE
