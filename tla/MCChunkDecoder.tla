-------------------------- MODULE MCChunkDecoder --------------------------
(* Request shapes for ChunkDecoder.  Payloads are chunks of one or two   *)
(* bytes over {a, b}, at most two chunks; the framing is the one the AWS *)
(* SDKs send for SigV4 streaming ("<hex>;chunk-signature=<sig>" lines,   *)
(* shortened to ";s") or plain "<hex>" lines.  A cut request is a prefix *)
(* of its framing: the body stream ends there cleanly, as it does at the *)
(* 5 GiB limit of data.open or at a content-length that disagrees with  *)
(* the chunk sizes.                                                      *)
EXTENDS ChunkDecoder

CONSTANTS CRByte, LFByte, NULByte

MCChunks == BoundedSeq({"a", "b"}, 2) \ {<<>>}
MCBodies == BoundedSeq(MCChunks, 2)
SizeChar == <<"1", "2">>

Line(tok, ext) == tok \o (IF ext THEN <<";", "s">> ELSE <<>>) \o <<CRByte, LFByte>>
ChunkLines(cs, ext) ==
    FlattenSeq([i \in 1..Len(cs) |-> Line(<<SizeChar[Len(cs[i])]>>, ext) \o cs[i] \o <<CRByte, LFByte>>])
Encoding(cs, ext) == ChunkLines(cs, ext) \o Line(<<"0">>, ext) \o <<CRByte, LFByte>>
\* Success is due once the size token "0" of the last line is delimited.
OkFrom(cs, ext) == Len(ChunkLines(cs, ext)) + (IF ext THEN 2 ELSE 3)

SigV4(cs, ext) == [te |-> "none", cl |-> Len(Encoding(cs, ext)), dcl |-> Len(FlattenSeq(cs))]
TEChunked == [te |-> "Chunked", cl |-> -1, dcl |-> -1]

Framed(cs, ext, n, h) ==
    [hdrs |-> h, bytes |-> SubSeq(Encoding(cs, ext), 1, n),
     payload |-> FlattenSeq(cs), okFrom |-> OkFrom(cs, ext)]

\* Plain bodies: a content-length alone, or with a decoded length equal to it.
MCRaw ==
    { [hdrs |-> h, bytes |-> p, payload |-> p, okFrom |-> 0] :
        p \in BoundedSeq({"a", "b"}, 3),
        h \in {[te |-> "none", cl |-> 3, dcl |-> -1], [te |-> "none", cl |-> 3, dcl |-> 3]} }

\* Whole framed bodies, under either framing signal.
MCWhole ==
    UNION { { Framed(cs, ext, Len(Encoding(cs, ext)), h) : h \in {SigV4(cs, ext), TEChunked} } :
            cs \in MCBodies, ext \in BOOLEAN }

\* Every prefix of a SigV4 framed body.
MCCut ==
    UNION { { Framed(cs, ext, n, SigV4(cs, ext)) : n \in 0..Len(Encoding(cs, ext)) } :
            cs \in MCBodies, ext \in BOOLEAN }

MCSafetyRequests == MCRaw \cup MCWhole \cup MCCut
=============================================================================
