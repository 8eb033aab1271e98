SPECIFICATION Spec
CONSTANTS
    Structs <- MCStructs
    Forms <- MCForms
    Uploads <- MCUploads
    Texts = {"", "1", "2", "x"}
    Bad = {"x"}
    Methods = {"t"}
    ArrayLen = 2
INVARIANTS
    BoundOnSuccess
    MultipartBound
    PanicsKnown
