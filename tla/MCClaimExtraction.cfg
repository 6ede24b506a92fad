CONSTANTS
    Byte <- MCByte
    KeyList <- MCKeyLists
    GivenValue <- MCGiven
    MaxValueLen = 12
    IssMaxLen = 4
    IatMaxLen = 4
    IssValue <- MCIss
    IatValue <- MCIat
    Coord <- MCCoord
    Legacy <- MCLegacy
    None = None
SPECIFICATION Spec
INVARIANTS
    ListOpensBase
    AcceptedCanBeProved
    ReadingsAreMembers
    ReloadIsIdentity
CHECK_DEADLOCK FALSE
