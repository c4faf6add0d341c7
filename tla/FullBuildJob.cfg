CONSTANT MaxRetry = 1
SPECIFICATION Spec
CHECK_DEADLOCK FALSE
INVARIANTS
    TypeOK
    HonestSuccess
    RightTrees
    CleanReference
    DataKept
    PartialDataPosted
PROPERTIES
    Ends
