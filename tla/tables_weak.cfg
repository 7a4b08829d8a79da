CONSTANTS
    IntKey = {1, 2, 8, 9}
    ObjKey = {k1}
    Hash <- HashOf1
    Value = {v, w}
    Nil = nil
    NoKey = nokey
    MaxInteger = 9
    MaxASize = 9
    LimForLast = 4
    MaxVicinity = 1
    ShrinkClears = TRUE
SYMMETRY Symmetry
SPECIFICATION Spec
INVARIANTS NoDanglingValue
