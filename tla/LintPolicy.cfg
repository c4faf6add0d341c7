CONSTANTS
    Matcher = {m1, m2}
SPECIFICATION Spec
CHECK_DEADLOCK FALSE
INVARIANTS
    TypeOK
    MostSpecificSuffices
    OverridesPermissible
