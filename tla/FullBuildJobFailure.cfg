CONSTANT MaxRetry = 1
SPECIFICATION Spec
CHECK_DEADLOCK FALSE
INVARIANTS
    FailureRemembered
