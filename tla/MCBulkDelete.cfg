CONSTANTS
    StoreRoot = "data"
    BucketNames = {"b1", "b3", "_staging"}
    NameCharsOK = {"b1", "b2", "b3", "_staging"}
    ForbiddenChar = {"a$"}
    KeyLists <- MCKeyLists
    InitFiles <- MCFiles
    InitDirs <- MCDirs
SPECIFICATION Spec
PROPERTY DeletesStayInBucket
