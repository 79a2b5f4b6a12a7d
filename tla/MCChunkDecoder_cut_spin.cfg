\* Bodies cut short: a cut inside a chunk leaves copy_fixed_bytes spinning.
CONSTANTS
    CRByte = CRByte
    LFByte = LFByte
    NULByte = NULByte
    CR <- CRByte
    LF <- LFByte
    NUL <- NULByte
    HdrBuf = 6
    DataBuf = 3
    UsizeMod = 256
    Requests <- MCCut
SPECIFICATION Spec
PROPERTY DecoderTerminates
