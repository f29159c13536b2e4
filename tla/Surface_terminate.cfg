SPECIFICATION Spec
CONSTANTS
    Keys = {k1}
    Contexts = {c1, c2}
    NoKey = NoKey
INVARIANT UnregisteredFirstAtTerminate
CHECK_DEADLOCK FALSE
