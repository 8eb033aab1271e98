SPECIFICATION Spec
CONSTANTS
    Structs <- MCStructs
    Num <- MCNum
    NaNs = {"NaN"}
    Runes <- MCRunes
    Matches <- MCMatches
    BadPatterns <- MCBadPatterns
    Methods = {"f"}
    Custom = {"my_rule", "email"}
INVARIANTS
    FirstRefusal
    ComparisonsAgree
    OppositesExclude
    ParamsAsWritten
    PanicsOnly
