SPECIFICATION FairSpec
CONSTANTS
    IndexMod = 9
    MaxGroup = 3
    MaxNext = 3
    Codes = {204, 500}
    NoBody = {204}
CONSTRAINT CallsBound
INVARIANTS
    TypeOK
    OnceInOrder
    CurrentBluePrint
    AllHandlersRan
    AbortStops
    StatusDelivered
    GZipLosesOnlyOutside
PROPERTIES
    Terminates
