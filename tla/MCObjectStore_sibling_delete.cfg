\* Writers serialised per key only: a DELETE of a sibling key removes the directory under a running PUT.
CONSTANTS
    p1 = p1
    p2 = p2
    RootDir = RootDir
    None = None
    Procs <- MCProcs
    Keys <- MCSiblingKeys
    Dirs <- MCDirs
    Root <- RootDir
    Parent <- MCSiblingParent
    Blocks <- MCBlocks
    Bodies <- MCBodies
    MaxBody = 2
    MaxPuts = 2
    SerialScope = "key"
    CrashEnabled = FALSE
    NoKey <- None
SPECIFICATION Spec
PROPERTY KVRefinement
