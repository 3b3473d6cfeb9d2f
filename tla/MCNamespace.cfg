CONSTANTS
    t1 = t1
    t2 = t2
    Tasks <- MCTasks
    Names <- MCNames
    Spellings <- MCSpellings
    Nfc <- MCNfc
    MaxDepth = 2
    MaxOps = 3
    MaxRemote = 1
    Gaps = {}
SPECIFICATION Spec
SYMMETRY Sym
INVARIANTS TypeOK ListedResolves VisibleAsNamed
PROPERTIES NoClobber
CHECK_DEADLOCK FALSE
