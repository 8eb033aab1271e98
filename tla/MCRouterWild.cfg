SPECIFICATION FairSpec
CONSTANTS
    Routes <- WildRoutes
    Paths <- WildPaths
    MaxRoutes = 4
CHECK_DEADLOCK FALSE
INVARIANTS
    TypeOK
    HitIsRight
    Reachable
    LookupPanics
PROPERTIES
    Returns
