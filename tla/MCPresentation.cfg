CONSTANTS
    i1 = i1
    i2 = i2
    v1 = v1
    v2 = v2
    z = z
    h1 = h1
    h2 = h2
    tA = tA
    tB = tB
    look = look
    j1 = j1
    Issuer = {i1, i2}
    Value = {v1, v2}
    EmptyMarker = EmptyMarker
    Leaf = {z, h1, h2}
    ZeroLeaf = z
    Digest <- MCDigest
    NumMax = 2
    FieldOrder = 9
    LevelBound = 3
    Type = {tA, tB}
    RDel = RDel
    Lookalike = {look}
    DummyCircuit = look
    Payload = {j1}
    Claims <- MCClaims
    Nonce = {0, 1}
    DelId = {d1, d2}
    NoProof = NoProof
    NoGrant = NoGrant
    NoList = NoList
    Inherit = Inherit
    BitmapLen = 3
    Signable <- MCSignable
    Attempt <- MCNoAttempt
    ForgedStatement <- MCForged
    DummyStatement <- MCDummy
    MaxPres = 1
    MaxPartition = 1
    PresAttempt <- MCNoPresAttempt
SYMMETRY MCSymmetry
SPECIFICATION PresLibrarySpec
INVARIANTS
    PresTypeOK
    GuardIsExact
    HandoverOpens
    RedactedStaysHidden
    HolderCanPresent
CHECK_DEADLOCK FALSE
