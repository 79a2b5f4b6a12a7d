\* A GET racing a PUT of the same key.
CONSTANTS
    p1 = p1
    p2 = p2
    RootDir = RootDir
    None = None
    Procs <- MCProcs
    Keys <- MCKeys
    Dirs <- MCDirs
    Root <- RootDir
    Parent <- MCParent
    Blocks <- MCBlocks
    Bodies <- MCBodies
    MaxBody = 2
    MaxPuts = 2
    SerialScope = "dir"
    CrashEnabled = FALSE
    NoKey <- None
SPECIFICATION Spec
INVARIANT GetBodyIsCompleteVersion
