SPECIFICATION Spec
CONSTANTS
    MaxSlots = 2
    MaxVersion = 5
    Entries = {e1, e2, e3, e4}
    NoEntry = NoEntry
    NoKey = NoKey
SYMMETRY Symmetry
INVARIANTS TypeOK LiveIdResolves KeptKeyNeverAliases
PROPERTIES ImplementsNames
CHECK_DEADLOCK FALSE
