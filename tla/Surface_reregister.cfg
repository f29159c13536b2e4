SPECIFICATION Spec
CONSTANTS
    Keys = {k1}
    Contexts = {c1, c2}
    NoKey = NoKey
PROPERTY DmaBufNeverInvalid
CHECK_DEADLOCK FALSE
