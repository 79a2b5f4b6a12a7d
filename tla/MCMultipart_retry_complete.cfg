\* A client re-sends CompleteMultipartUpload (its first answer was lost): the object must stay the concatenation of the parts.
CONSTANTS
    p1 = p1
    p2 = p2
    RootDir = RootDir
    None = None
    ZeroByte = ZeroByte
    Procs <- MPProcs
    Keys <- MPKeys
    Dirs = {}
    Root <- RootDir
    Parent <- MPParent
    Blocks <- MPBlocks
    Bodies <- MPBodies
    MaxBody = 2
    MaxPuts = 0
    SerialScope = "none"
    CrashEnabled = FALSE
    NoKey <- None
    UploadKey = "k"
    PartNums <- MPPartNums
    ClientRetries = TRUE
    Zero <- ZeroByte
SPECIFICATION MPSpec
INVARIANT AssembledIsConcatenation
