CONSTANTS
    f = f
    g = g
    o = o
    d = d
    e = e
    w = w
    x = x
    m = m
    NoPath = NoPath
    Coq = {f, g}
    Other = {o}
    Dir = {d, e, w, x}
    CoqDir = {x}
    Missing = {m}
    Below <- MCBelow
    Parts <- MCParts
    Mentions <- MCMentions
    Texts <- MCTexts
    Commands <- MCCommands
SPECIFICATION Spec
CHECK_DEADLOCK FALSE
INVARIANTS TypeOK StatusIsHonest VerdictIsLocal TargetsAccounted GivesUpWhenStrict
