SPECIFICATION Spec
CONSTANTS
    IndexMod = 16
    MaxGroup = 2
    MaxNext = 1
    Codes = {204, 500}
    NoBody = {204}
INVARIANTS
    NoBodyWhenForbidden
