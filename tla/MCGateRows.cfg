SPECIFICATION Spec
CONSTANTS
    P = 13
    Generator = 2
    W = 7
    WordBits = 2
    LimbBits = 1
    LogMaxAddends = 1
    SpongeWidth = 3
    SwapWidth = 1
    HalfNFullRounds = 2
    NPartialRounds = 2
    AllRoundConstants <- MCAllRoundConstants
    MdsMatrixCirc <- MCMdsMatrixCirc
    MdsMatrixDiag <- MCMdsMatrixDiag
    FastPartialFirstRoundConstant <- MCFastPartialFirstRoundConstant
    FastPartialRoundConstants <- MCFastPartialRoundConstants
    FastPartialRoundVs <- MCFastPartialRoundVs
    FastPartialRoundWHats <- MCFastPartialRoundWHats
    FastPartialRoundInitialMatrix <- MCFastPartialRoundInitialMatrix
    Instances <- MCInstances
INVARIANTS
    GeneratedRowsHold
    RowsMeanWhatTheyCompute
CHECK_DEADLOCK FALSE
