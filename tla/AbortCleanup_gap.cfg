\* Aborting an upload whose parts have a short gap above part 10 leaves later parts staged.
CONSTANTS
    MaxPart = 13
SPECIFICATION Spec
INVARIANT AbortRemovesAllParts
CHECK_DEADLOCK FALSE
