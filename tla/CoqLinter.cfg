CONSTANTS
    Container = {"section", "module"}
    Styles = {"nested", "program", "any"}
    MaxDepth = 3
    MaxObligation = 2
SPECIFICATION Spec
CHECK_DEADLOCK FALSE
INVARIANTS
    TypeOK
    StacksAgree
    TracksNesting
