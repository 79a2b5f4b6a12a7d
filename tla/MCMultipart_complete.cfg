\* Parts uploaded concurrently, crashes, then one completion or abort: the object is the concatenation and staging is emptied.
CONSTANTS
    p1 = p1
    p2 = p2
    RootDir = RootDir
    None = None
    ZeroByte = ZeroByte
    Procs <- MPProcs
    Keys <- MPKeys
    Dirs = {}
    Root <- RootDir
    Parent <- MPParent
    Blocks <- MPBlocks
    Bodies <- MPBodies
    MaxBody = 2
    MaxPuts = 0
    SerialScope = "none"
    CrashEnabled = TRUE
    NoKey <- None
    UploadKey = "k"
    PartNums <- MPPartNums
    ClientRetries = FALSE
    Zero <- ZeroByte
SPECIFICATION MPSpec
INVARIANT MPTypeOK AssembledIsConcatenation StagingClearedWhenConcluded
