CONSTANTS
    Builder = {b1, b2}
    TargetNames <- MCTargetNames
    Categories <- MCCategories
    Exclusions <- MCExclusions
    MaxEdit = 1
SPECIFICATION Spec
SYMMETRY Symmetry
CHECK_DEADLOCK FALSE
INVARIANTS
    TypeOK
    FoundIsKept
    Complete
    SomeoneGoesOn
    EmptyHasOwner
