SPECIFICATION Spec
CONSTANTS
    BPs = {"root", "a"}
    Root = "root"
    Methods <- OneMethod
    Paths = {"x"}
    Sizes = {1, 3}
    MaxOps = 4
    NoBP = NoBP
CHECK_DEADLOCK FALSE
INVARIANTS
    InterceptorsCallable
