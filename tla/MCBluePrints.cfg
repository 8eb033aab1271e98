SPECIFICATION Spec
CONSTANTS
    BPs = {"root", "a", "b"}
    Root = "root"
    Methods <- TwoMethods
    Paths = {"x"}
    Sizes = {1, 3}
    MaxOps = 3
    NoBP = NoBP
CHECK_DEADLOCK FALSE
INVARIANTS
    AllInserted
    MiddlewareKept
    ToolboxFound
    ChainAsRegistered
