SPECIFICATION Spec
CONSTANTS
    Keys <- OneWordKeys
    Values = {v1, v2}
    Entries = {e1, e2}
    Readers = {r}
    NrSlots = 2
    NrTags = 1
    NoEntry = NoEntry
    MaxWrites = 4
INVARIANTS HitsAreValidItems
SYMMETRY Symmetry
