SPECIFICATION Spec
CONSTANTS
    Keys <- TwoWordKeys
    Values = {v1, v2}
    Entries = {e1, e2}
    Readers = {r}
    NrSlots = 2
    NrTags = 2
    NoEntry = NoEntry
    MaxWrites = 3
INVARIANTS PresentKeysAreFound WalksAreSafe
PROPERTIES ImplementsTable
SYMMETRY Symmetry
