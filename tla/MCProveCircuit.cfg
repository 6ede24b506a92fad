SPECIFICATION Spec
CONSTANTS
    P = 769
    Generator = 11
    W = 11
    UnusedSelector = 768
    Instances <- MCInstances
    RandomValues <- MCRandomValues
    Zetas <- MCZetas
INVARIANTS
    SatisfiedIsProved
    ProvedIsSatisfied
CHECK_DEADLOCK FALSE
