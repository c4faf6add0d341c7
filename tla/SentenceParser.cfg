CONSTANTS
    MaxLine = 4
    MaxNest = 2
    Styles = {"plain", "any"}
SPECIFICATION Spec
CHECK_DEADLOCK FALSE
INVARIANTS TypeOK NestingKept FlatLinesExact FlatFilesRead
