SPECIFICATION Spec
CONSTANTS
    RATE = 3
    D = 2
    HashLen = 2
    NumChallenges = 2
    NumQueries = 3
    None = None
    Refused = Refused
    CommitCap <- MCCommitCap
    FriBeta <- MCFriBeta
    Params <- MCParams
INVARIANTS
    ChallengesAgree
    ChallengesBind
    AdmittedIsSent
    ChallengesFresh
CHECK_DEADLOCK FALSE
