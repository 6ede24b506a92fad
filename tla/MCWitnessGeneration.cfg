SPECIFICATION Spec
CONSTANTS
    Target <- MCTarget
    P <- MCP
    Circuit <- MCCircuit
INVARIANTS
    PartitionIsConnectivity
    NoLostWakeup
    FinishedHolds
PROPERTIES
    Solves
    Termination
CHECK_DEADLOCK FALSE
