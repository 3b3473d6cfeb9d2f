CONSTANTS
    d = d
    e = e
    f = f
    x = x
    y = y
    h1 = h1
    r1 = r1
    r2 = r2
    NoFile = NoFile
    Names <- ThreeNames
    MaxDepth = 2
    Files <- MCFiles
    Home <- TwoFolders
    Handles <- MCHandles
    Renames <- OneRename
    MaxMoves = 3
    Races <- FsyncRace
SPECIFICATION Spec
INVARIANTS UploadsItsOwn
