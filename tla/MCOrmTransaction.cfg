SPECIFICATION Spec
CONSTANTS
    Handle = {h1, h2, h3}
    Write = {w1, w2}
    None = None
    MaxSavepoint = 2
INVARIANTS
    TypeOK
    IInv
    RolledBackNeverDurable
    RootOutcomeTruthful
    DurableOnlyAfterRootCommit
    ClosedRootReleasesConnection
PROPERTY
    OrphansAreInert
CHECK_DEADLOCK FALSE
