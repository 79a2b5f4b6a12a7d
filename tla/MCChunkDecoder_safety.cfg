\* Every whole, cut and plain body: the decoder succeeds exactly on bodies
\* that reached the last chunk, and then writes the payload.
CONSTANTS
    CRByte = CRByte
    LFByte = LFByte
    NULByte = NULByte
    CR <- CRByte
    LF <- LFByte
    NUL <- NULByte
    HdrBuf = 6
    DataBuf = 3
    UsizeMod = 256
    Requests <- MCSafetyRequests
SPECIFICATION Spec
INVARIANT TypeOK DecodeMatchesEncoding
PROPERTY CompleteBodyEnds
