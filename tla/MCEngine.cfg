SPECIFICATION Spec
CONSTANTS
    Requests = {r1, r2, r3}
    Ctxs = {c1, c2}
    Routes = {"/a"}
    LastRoute = "/a"
    NoCtx = NoCtx
    None = None
SYMMETRY Symmetry
CHECK_DEADLOCK FALSE
INVARIANTS
    Exclusive
    OwnState
    PooledClean
    ItemsNotShared
PROPERTIES
    EscapeIsFinal
    OwnershipSpec
