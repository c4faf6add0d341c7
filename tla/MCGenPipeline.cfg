CONSTANTS
    fmci = fmci
    nova = nova
    bhv = bhv
    other = other
    Absent = Absent
    NoMR = NoMR
    Name <- MCConfigured
    Configured <- MCConfigured
    DepLists <- MCDepLists
    Deps <- MCDeps
    Vendored = {nova}
    MainBranch <- MCMainBranch
    RepoSeq <- MCRepoSeq
    FmCi = fmci
    Project <- MCProject
    Branch <- MCBranch
    Commit <- MCCommit
    Anc <- MCAnc
    Remotes <- MCRemotes
    Triggers <- MCTriggers
    MaxPush = 1
SPECIFICATION Spec
CHECK_DEADLOCK FALSE
INVARIANTS
    TypeOK
    TriggerPinned
    RefIsAncestor
    OnlyTheMRDiffers
    FullBuildSound
    FullBuildNeeded
    PanicHasReason
PROPERTIES
    Terminates
