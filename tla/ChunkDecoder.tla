--------------------------- MODULE ChunkDecoder ---------------------------
(***************************************************************************)
(* The request-body decoder of src/chunk_to_raw.rs (copy_chunk_to_raw) and *)
(* the mode detection of the ChunkedEncoding guard (request_guards.rs).    *)
(*                                                                         *)
(* The decoder reads through an UndoReader, a reader with pushback.  The   *)
(* model keeps one sequence `src`: the bytes a read would return next,     *)
(* pushed-back bytes first.  Whatever the reader's internal buffering, a   *)
(* read returns a non-empty prefix of `src` no longer than the caller's    *)
(* buffer, or nothing when `src` is empty; `unread` prepends to `src`.     *)
(* Buffer sizes (512 for headers, 4096 for data) are the constants HdrBuf  *)
(* and DataBuf.  A panic and an Err both end the handler with a 500: the   *)
(* model has one outcome "failed" for both.                                *)
(***************************************************************************)
EXTENDS Integers, Sequences, SequencesExt, FiniteSets, FiniteSetsExt

CONSTANTS
    HdrBuf,      \* read_chunk_header's buffer, [0u8; 512]
    DataBuf,     \* copy_fixed_bytes' and copy_direct's buffer, [0u8; 4096]
    UsizeMod,    \* 2^64 in the code: `size as usize` of a negative i64 wraps
    Requests,    \* request shapes: [hdrs, bytes, payload, okFrom]
    CR, LF, NUL  \* the bytes 0x0d, 0x0a and 0x00

VARIABLES
    req,         \* the request being decoded (history: never changes)
    chunked,     \* the mode ChunkedEncoding chose
    src,         \* bytes still to be read, pushed-back bytes first
    out,         \* bytes written to the staging file
    pc,          \* "hdr" | "copy" | "skip" | "raw" | "done" | "failed"
    chunk,       \* the size of the chunk being copied
    remaining,   \* copy_fixed_bytes' remaining
    total        \* the byte count copy_chunk_to_raw returns

vars == <<req, chunked, src, out, pc, chunk, remaining, total>>

HexDigit == [d \in {"0","1","2","3","4","5","6","7","8","9","a","b","c","d","e","f",
                    "A","B","C","D","E","F"} |->
                CASE d = "0" -> 0  [] d = "1" -> 1  [] d = "2" -> 2  [] d = "3" -> 3
                  [] d = "4" -> 4  [] d = "5" -> 5  [] d = "6" -> 6  [] d = "7" -> 7
                  [] d = "8" -> 8  [] d = "9" -> 9
                  [] d \in {"a", "A"} -> 10 [] d \in {"b", "B"} -> 11
                  [] d \in {"c", "C"} -> 12 [] d \in {"d", "D"} -> 13
                  [] d \in {"e", "E"} -> 14 [] d \in {"f", "F"} -> 15]

(* i64::from_str_radix(s, 16): an optional sign, then one or more hex     *)
(* digits; a leading '-' negates.                                          *)
Digits(tok) == IF tok /= <<>> /\ Head(tok) \in {"+", "-"} THEN Tail(tok) ELSE tok
Parses(tok) == Digits(tok) /= <<>> /\ \A i \in 1..Len(Digits(tok)) : Digits(tok)[i] \in DOMAIN HexDigit
HexValue(tok) ==
    LET mag == FoldLeft(LAMBDA acc, d : acc * 16 + HexDigit[d], 0, Digits(tok))
    IN  IF tok /= <<>> /\ Head(tok) = "-" THEN -mag ELSE mag

(* header.split(";").next(): the bytes before the first ';'.              *)
SizeToken(h) ==
    LET semis == SelectInSeq(h, LAMBDA b : b = ";")
    IN  IF semis = 0 THEN h ELSE SubSeq(h, 1, semis - 1)

(* ChunkedEncoding: Transfer-Encoding "chunked" in any letter case, or    *)
(* both lengths present (-1: header absent) and content-length > decoded  *)
(* length.                                                                 *)
ChunkedSpellings == {"chunked", "Chunked", "CHUNKED"}
IsChunked(h) ==
    \/ h.te \in ChunkedSpellings
    \/ h.cl >= 0 /\ h.dcl >= 0 /\ h.cl > h.dcl

Init ==
    /\ req \in Requests
    /\ chunked = IsChunked(req.hdrs)
    /\ src = req.bytes
    /\ out = <<>>
    /\ pc = IF chunked THEN "hdr" ELSE "raw"
    /\ chunk = 0
    /\ remaining = 0
    /\ total = 0

(* The size line has been read and `src` holds what follows it: parse the *)
(* size; 0 ends the loop, a bad number is an Err, any other value is cast  *)
(* to usize and copied.                                                    *)
AcceptHeader(h, rest) ==
    \E tok \in {SizeToken(h)} :
    /\ src' = rest
    /\ IF ~Parses(tok) THEN pc' = "failed" /\ UNCHANGED <<chunk, remaining>>
       ELSE IF HexValue(tok) = 0 THEN pc' = "done" /\ UNCHANGED <<chunk, remaining>>
       ELSE /\ pc' = "copy"
            /\ chunk' = HexValue(tok) % UsizeMod
            /\ remaining' = HexValue(tok) % UsizeMod

(* try_read_full: reads until the buffer of n bytes is full or a read    *)
(* returns 0, so it returns min(n, bytes left) whatever the read sizes.   *)
TryReadFull(n) == Min({n, Len(src)})

(* read_chunk_header: try_read_full fills a zeroed 512-byte buffer, which *)
(* falls short only at end of stream.  The first CR LF among the bytes     *)
(* read ends the header and the WHOLE rest of the buffer is unread, its    *)
(* zero padding included.  With no CR LF, a buffer starting "0;" is the    *)
(* final header.  rr = 0 underflows `rr - 1`, which panics.                *)
ReadHeader ==
    LET rr   == TryReadFull(HdrBuf)
        buf  == SubSeq(src, 1, rr) \o [i \in 1..(HdrBuf - rr) |-> NUL]
        rest == SubSeq(src, rr + 1, Len(src))
        crlf == {i \in 1..(rr - 1) : buf[i] = CR /\ buf[i + 1] = LF}
    IN
    /\ pc = "hdr"
    /\ IF rr = 0 THEN pc' = "failed" /\ UNCHANGED <<src, chunk, remaining>>
       ELSE IF crlf /= {}
       THEN AcceptHeader(SubSeq(buf, 1, Min(crlf) - 1),
                         SubSeq(buf, Min(crlf) + 2, HdrBuf) \o rest)
       ELSE IF buf[1] = "0" /\ buf[2] = ";"
       THEN AcceptHeader(SubSeq(buf, 1, rr), rest)
       ELSE pc' = "failed" /\ UNCHANGED <<src, chunk, remaining>>
    /\ UNCHANGED <<req, chunked, out, total>>

(* Mutant: an overread is dropped instead of unread.                     *)
CopyFixedDropOverread ==
    /\ pc = "copy"
    /\ \/ /\ src = <<>>
          /\ UNCHANGED vars
       \/ \E r \in 1..Min({DataBuf, Len(src)}) :
             LET w == Min({r, remaining}) IN
             /\ out' = out \o SubSeq(src, 1, w)
             /\ src' = SubSeq(src, r + 1, Len(src))
             /\ remaining' = remaining - w
             /\ pc' = IF remaining - w = 0 THEN "skip" ELSE "copy"
             /\ UNCHANGED <<req, chunked, chunk, total>>

(* Mutant: the whole read is written, not capped at `remaining`.        *)
CopyFixedNoCap ==
    /\ pc = "copy"
    /\ \/ /\ src = <<>>
          /\ UNCHANGED vars
       \/ \E r \in 1..Min({DataBuf, Len(src)}) :
             /\ out' = out \o SubSeq(src, 1, r)
             /\ src' = SubSeq(src, r + 1, Len(src))
             /\ remaining' = remaining - r
             /\ pc' = IF remaining - r <= 0 THEN "skip" ELSE "copy"
             /\ UNCHANGED <<req, chunked, chunk, total>>

(* copy_fixed_bytes, one iteration: read up to DataBuf bytes, unread what *)
(* exceeds `remaining`, write the rest.  A read of 0 bytes at end of       *)
(* stream changes nothing and the loop goes round again.                   *)
CopyFixed ==
    /\ pc = "copy"
    /\ \/ /\ src = <<>>
          /\ UNCHANGED vars
       \/ \E r \in 1..Min({DataBuf, Len(src)}) :
             LET w == Min({r, remaining}) IN
             /\ out' = out \o SubSeq(src, 1, w)
             /\ src' = SubSeq(src, w + 1, Len(src))
             /\ remaining' = remaining - w
             /\ pc' = IF remaining - w = 0 THEN "skip" ELSE "copy"
             /\ UNCHANGED <<req, chunked, chunk, total>>

(* skip_n_bytes(input, 2): drop two bytes, whatever they are, or panic at *)
(* end of stream; then the loop adds the chunk to the total.               *)
SkipCrLf ==
    /\ pc = "skip"
    /\ IF Len(src) >= 2
       THEN /\ src' = SubSeq(src, 3, Len(src))
            /\ total' = total + chunk
            /\ pc' = "hdr"
       ELSE /\ pc' = "failed"
            /\ UNCHANGED <<src, total>>
    /\ UNCHANGED <<req, chunked, out, chunk, remaining>>

(* Mutant: a 0-byte read does not end copy_direct (the break is missing). *)
CopyDirectNoEof ==
    /\ pc = "raw"
    /\ IF src = <<>>
       THEN UNCHANGED <<src, out, total, pc>>
       ELSE \E r \in 1..Min({DataBuf, Len(src)}) :
               /\ out' = out \o SubSeq(src, 1, r)
               /\ src' = SubSeq(src, r + 1, Len(src))
               /\ total' = total + r
               /\ UNCHANGED pc
    /\ UNCHANGED <<req, chunked, chunk, remaining>>

(* copy_direct, one iteration: copy what one read returns; 0 ends it.     *)
CopyDirect ==
    /\ pc = "raw"
    /\ IF src = <<>>
       THEN pc' = "done" /\ UNCHANGED <<src, out, total>>
       ELSE \E r \in 1..Min({DataBuf, Len(src)}) :
               /\ out' = out \o SubSeq(src, 1, r)
               /\ src' = SubSeq(src, r + 1, Len(src))
               /\ total' = total + r
               /\ UNCHANGED pc
    /\ UNCHANGED <<req, chunked, chunk, remaining>>

Halted == pc \in {"done", "failed"} /\ UNCHANGED vars

Next == ReadHeader \/ CopyFixed \/ SkipCrLf \/ CopyDirect \/ Halted

(* The decoder is one task whose reads of a fully sent body complete.     *)
Spec == Init /\ [][Next]_vars /\ WF_vars(Next)

-----------------------------------------------------------------------------
TypeOK ==
    /\ req.bytes \in Seq(STRING \cup {CR, LF, NUL}) /\ req.okFrom \in Nat
    /\ chunked \in BOOLEAN
    /\ pc \in {"hdr", "copy", "skip", "raw", "done", "failed"}
    /\ chunk \in 0..(UsizeMod - 1) /\ remaining \in 0..chunk
    /\ total \in Nat

(* Failure semantics of copy_chunk_to_raw against the body the client     *)
(* framed: the decoder reports success exactly when the body reached the  *)
(* size-0 chunk (req.okFrom bytes), and then the bytes it wrote and the   *)
(* count it returns are the payload, whatever the pushback and the zero   *)
(* padding of the header buffer did on the way.                           *)
DecodeMatchesEncoding ==
    /\ pc = "done" => /\ Len(req.bytes) >= req.okFrom
                      /\ out = req.payload
                      /\ total = Len(req.payload)
    /\ pc = "failed" => Len(req.bytes) < req.okFrom

(* Every PUT body ends in success or an error: copy_fixed_bytes never     *)
(* keeps the handler spinning.                                             *)
DecoderTerminates == <>(pc \in {"done", "failed"})

(* Every request whose body was sent whole ends: a plain body, or a       *)
(* framed one that reaches its size-0 line, is never left spinning in    *)
(* copy_direct, copy_fixed_bytes or the header loop, whatever the read   *)
(* sizes, the pushback and the zero padding of read_chunk_header do.     *)
CompleteBodyEnds == Len(req.bytes) >= req.okFrom => <>(pc \in {"done", "failed"})
=============================================================================
