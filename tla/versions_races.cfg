SPECIFICATION Spec
CONSTANTS
    Requests = {r1, r2}
    Contents = {k1}
    MaxVersion = 2
    Edited = {"logic"}
    None = None
SYMMETRY Symmetry
INVARIANTS RecordsAreWhole
PROPERTIES RecordsAreFinal
