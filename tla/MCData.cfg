SPECIFICATION DataSpec
CONSTANTS
    Structs <- MCStructs
    Num <- MCNum
    NaNs = {}
    Runes <- MCRunes
    Matches = {}
    BadPatterns = {}
    Methods = {}
    Custom = {}
    Strings <- MCStrings
    Literals <- MCLiterals
    Widths = {8, 16}
    Defaults <- MCDefaults
    Keys = {"a", "b"}
    ParamLists <- MCParamLists
    Requests <- MCRequests
    MaxCalls = 3
INVARIANTS
    ReadingsSound
    DataIsComplete
    PartialOnlyAfterError
PROPERTIES
    DecodedOnce
CHECK_DEADLOCK FALSE
