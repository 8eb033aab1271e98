SPECIFICATION Spec
CONSTANTS
    Routes <- StaticRoutes
    Paths <- StaticRoutes
    MaxRoutes = 4
CHECK_DEADLOCK FALSE
INVARIANTS
    StaticHitIsRight
    InsertPanics
