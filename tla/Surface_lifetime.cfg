SPECIFICATION Spec
CONSTANTS
    Keys = {k1,k2,k3}
    Contexts = {c1, c2}
    NoKey = NoKey
SYMMETRY Symmetry
INVARIANTS TypeOK DmaBufUnregisteredFirst
PROPERTIES DestroyedDmaBufNotSubmitted InternalNeverInvalid
CHECK_DEADLOCK FALSE
