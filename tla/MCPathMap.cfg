CONSTANTS
    a = a
    b = b
    Names <- MCNames
    MaxDepth = 3
    MaxInode = 4
SPECIFICATION Spec
INVARIANTS TypeOK HalvesInverse
PROPERTIES NoRecycling TreesMoveWhole ImplementsTable
