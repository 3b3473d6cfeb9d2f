CONSTANTS
    d = d
    e = e
    f = f
    x = x
    y = y
    h1 = h1
    r1 = r1
    r2 = r2
    NoFile = NoFile
    Names <- TwoNames
    MaxDepth = 2
    Files <- MCFiles
    Home <- OneFolder
    Handles <- MCHandles
    Renames <- TwoRenames
    MaxMoves = 2
    Races <- AllRaces
SPECIFICATION Spec
INVARIANTS TypeOK ReleaseNamesItsFile NamesAgree
SYMMETRY RenameSymmetry
CHECK_DEADLOCK FALSE
