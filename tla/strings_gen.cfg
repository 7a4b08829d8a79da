CONSTANTS
    Str = {s1, s2, s3}
    Content <- C1234
    Hash <- HashC
    MemErrMsg = memerrmsg
    None = none
    MinSize = 8
    MaxSize = 8
    ShrinkFails = {"inc", "gen"}
SYMMETRY Symmetry
SPECIFICATION Spec

PROPERTIES RemoveFinds
