CONSTANTS
    Container = {"section", "module"}
    Styles = {"both"}
    MaxDepth = 3
    MaxObligation = 2
SPECIFICATION Spec
CHECK_DEADLOCK FALSE
INVARIANTS
    NestedProofsAccounted
