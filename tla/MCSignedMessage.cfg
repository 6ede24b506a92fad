CONSTANTS
    Quarter = 1
    BlockBytes = 4
    LengthBytes = 2
    MaxDecoded = 6
    Alphabet <- MCAlphabet
    Dot = 10
    Header <- MCHeader
    Payload <- MCPayload
    OtherHeader <- MCOtherHeader
    Junk = {0, 1, 8}
    None = None
SPECIFICATION Spec
INVARIANTS
    SignedTextIsRead
    CredentialCanBeProved
CHECK_DEADLOCK FALSE
