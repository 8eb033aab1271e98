SPECIFICATION Spec
CONSTANTS
    Savers = {s1, s2, s3}
    Limit = 2
    Roots = {"present", "missing", "unusable"}
INVARIANTS
    TypeOK
PROPERTIES
    NeverNamesTaken
    NamingEndsProcess
CHECK_DEADLOCK FALSE
