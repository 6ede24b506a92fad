SPECIFICATION Spec
CONSTANTS
    Radix = 32
    LimbBits = 4
    MaxNumAddends = 4
    BaseOrder = 149
    ScalarOrder = 139
    CurveA = 146
    CurveB = 23
    Generator <- MCGenerator
    DigitBits = 1
    WindowsPerLimb = 2
    FixedStart = 41
    WindowedStart = 19
    Blind = {11, 39, 69}
    Digest <- MCDigest
    SecretKey <- MCSecretKey
    Nonce <- MCNonce
    Alteration = {"none", "r", "s", "s0", "key", "point"}
INVARIANTS
    ResultsAreMultiples
    VerdictIsNative
PROPERTY
    StuckExactlyAtExceptions
CHECK_DEADLOCK FALSE
