SPECIFICATION Spec
CONSTANTS
    Target <- MCTarget
    P <- MCP
    Circuit <- MCBlinded
INVARIANT BlindersSampledWhenProving
CHECK_DEADLOCK FALSE
