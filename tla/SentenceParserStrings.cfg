CONSTANTS
    MaxLine = 3
    MaxNest = 2
    Styles = {"touching"}
SPECIFICATION Spec
CHECK_DEADLOCK FALSE
INVARIANT DelimitersInStringsPruned
