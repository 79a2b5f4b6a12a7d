\* Writers serialised per directory, crashes allowed: the store refines KVStore.
CONSTANTS
    p1 = p1
    p2 = p2
    RootDir = RootDir
    None = None
    Procs <- MCProcs
    Keys <- MCKeys
    Dirs <- MCDirs
    Root <- RootDir
    Parent <- MCParent
    Blocks <- MCBlocks
    Bodies <- MCBodies
    MaxBody = 2
    MaxPuts = 2
    SerialScope = "dir"
    CrashEnabled = TRUE
    NoKey <- None
SPECIFICATION Spec
INVARIANT TypeOK
PROPERTY KVRefinement
