CONSTANTS
    a = a
    b = b
    c = c
    ghost = ghost
    None = None
    Name <- MCName
    Configured <- MCConfigured
    DepLists <- MCDepLists
SPECIFICATION Spec
CHECK_DEADLOCK FALSE
INVARIANTS
    TypeOK
    ClosureInv
    FilterInv
PROPERTIES
    StepsForward
    Implements
