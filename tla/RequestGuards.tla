--------------------------- MODULE RequestGuards ---------------------------
(***************************************************************************)
(* Request dispatch and the range arithmetic of GET.                       *)
(*                                                                         *)
(* Dispatch is Rocket's: the routes mounted in main.rs are tried in rank   *)
(* order; a route is a candidate when the method, the path shape and its   *)
(* required query parameters match; then its request guard (the structs   *)
(* of request_guards.rs) either succeeds, which selects the route, forwards *)
(* to the next route, or fails, which ends the request with that status.   *)
(* No route left: 404.  A request is abstracted to its method, its number  *)
(* of path segments, the set of query keys present and the values the     *)
(* guards compare (list-type, partNumber); bucket and key names are left   *)
(* out, so the route "/backdoor" is never a candidate here.                *)
(*                                                                         *)
(* GET then answers a Range header the way get_object does: parse_range,   *)
(* seek, a content length computed in usize, and a LimitSeekerReader that  *)
(* stops at that length or at end of file.                                 *)
(***************************************************************************)
EXTENDS Integers, Sequences, SequencesExt, FiniteSets, FiniteSetsExt

CONSTANTS
    Requests,    \* request shapes
    UsizeMod     \* 2^64 in the code; usize arithmetic is taken modulo it

VARIABLES
    req,         \* the request (never changes)
    op,          \* "pending", then the route that took it, "404" or "403"
    resp         \* the GET response, or NoResp

vars == <<req, op, resp>>

NoResp == [status |-> 0, length |-> 0, body |-> <<>>]

(* The request guards, as written in request_guards.rs.                   *)
Has(r, k) == k \in r.q
CreateBucketGuard(r) == r.method = "PUT" /\ r.segs = 1
\* Mutant: the uploadId check is missing.
PutObjectGuardNoUploadId(r) ==
    r.method = "PUT" /\ ~Has(r, "partNumber") /\ r.segs > 1
PutObjectGuard(r) ==
    r.method = "PUT" /\ ~Has(r, "partNumber") /\ ~Has(r, "uploadId") /\ r.segs > 1
CreateMultipartUploadGuard(r) == r.method = "POST" /\ r.segs > 1 /\ Has(r, "uploads")
AbortMultipartUploadGuard(r) == r.method = "DELETE" /\ r.segs = 1 /\ Has(r, "uploadId")
DeleteObjectsGuard(r) == r.method = "POST" /\ r.segs <= 2 /\ Has(r, "delete")
DeleteObjectGuard(r) == r.method = "DELETE" /\ r.segs > 1
CompleteMultipartUploadGuard(r) == r.method = "POST" /\ r.segs > 1 /\ Has(r, "uploadId")
GetObjectGuard(r) == r.method = "GET" /\ ~Has(r, "location") /\ r.segs > 1
GetBucketLocationGuard(r) == r.method = "GET" /\ Has(r, "location") /\ r.segs = 1
PutObjectPartGuard(r) ==
    r.method = "PUT" /\ Has(r, "partNumber") /\ r.segs > 1 /\ Has(r, "uploadId")
ListObjectsGuard(r) ==
    r.method = "GET" /\ ~Has(r, "location") /\ r.segs > 0 /\ ~Has(r, "list-type")
ListObjectsV2Guard(r) ==
    r.method = "GET" /\ ~Has(r, "location") /\ r.segs > 0
    /\ Has(r, "list-type") /\ r.lt = "2"

(* The route attributes of main.rs: method, path shape, required query    *)
(* parameters (a String, or the u32 partNumber that must parse), rank and *)
(* guard.  "tail" is "/<bucket>/<key..>", which matches one or more       *)
(* segments; every guard on it asks for more than one, so whether a       *)
(* trailing parameter may be empty never decides a request.  Routes        *)
(* without a rank get Rocket's default, which is negative.                 *)
Route(name, m, shape, needs, rank, g) ==
    [name |-> name, method |-> m, shape |-> shape, needs |-> needs, rank |-> rank, guard |-> g]
Routes == {
    Route("ListObjects", "GET", "bucket", {}, 99, "ListObjects"),
    Route("ListObjectsV2", "GET", "bucket", {}, 98, "ListObjectsV2"),
    Route("GetBucketLocation", "GET", "bucket", {"location"}, 4, "GetBucketLocation"),
    Route("PutObjectPart", "PUT", "tail", {"partNumber", "uploadId"}, 3, "PutObjectPart"),
    Route("PutObject", "PUT", "tail", {}, 2, "PutObject"),
    Route("AbortMultipartUpload", "DELETE", "bucket", {"uploadId"}, 2, "AbortMultipartUpload"),
    Route("CompleteMultipartUpload", "POST", "tail", {"uploadId"}, 5, "CompleteMultipartUpload"),
    Route("CreateMultipartUpload", "POST", "tail", {"uploads"}, 99, "CreateMultipartUpload"),
    Route("GetObject", "GET", "tail", {}, -1, "GetObject"),
    Route("DeleteObjectsBulk", "POST", "two", {"delete"}, 4, "DeleteObjects"),
    Route("DeleteObjectsBulk", "POST", "bucket", {"delete"}, 3, "DeleteObjects"),
    Route("DeleteObject", "DELETE", "tail", {}, 1, "DeleteObject"),
    Route("CreateBucket", "PUT", "bucket", {}, 1, "CreateBucket"),
    Route("ListAllBuckets", "GET", "root", {}, -1, "none") }

ShapeMatches(shape, n) ==
    CASE shape = "root"   -> n = 0
      [] shape = "bucket" -> n = 1
      [] shape = "two"    -> n = 2
      [] shape = "tail"   -> n >= 1

QueryMatches(needs, r) ==
    /\ needs \subseteq r.q
    /\ "partNumber" \in needs => r.pn = "u32"

GuardPasses(g, r) ==
    CASE g = "ListObjects"             -> ListObjectsGuard(r)
      [] g = "ListObjectsV2"           -> ListObjectsV2Guard(r)
      [] g = "GetBucketLocation"       -> GetBucketLocationGuard(r)
      [] g = "PutObjectPart"           -> PutObjectPartGuard(r)
      [] g = "PutObject"               -> PutObjectGuard(r)
      [] g = "AbortMultipartUpload"    -> AbortMultipartUploadGuard(r)
      [] g = "CompleteMultipartUpload" -> CompleteMultipartUploadGuard(r)
      [] g = "CreateMultipartUpload"   -> CreateMultipartUploadGuard(r)
      [] g = "GetObject"               -> GetObjectGuard(r)
      [] g = "DeleteObjects"           -> DeleteObjectsGuard(r)
      [] g = "DeleteObject"            -> DeleteObjectGuard(r)
      [] g = "CreateBucket"            -> CreateBucketGuard(r)
      [] g = "none"                    -> TRUE

Candidates(r) ==
    { rt \in Routes : rt.method = r.method /\ ShapeMatches(rt.shape, r.segs)
                      /\ QueryMatches(rt.needs, r) }

(* Rocket tries candidates by ascending rank; colliding routes of equal   *)
(* rank are refused at launch, so at most one candidate has each rank.    *)
Classify(r) ==
    LET taken == { rt \in Candidates(r) : GuardPasses(rt.guard, r) }
    IN  IF taken = {} THEN "404"
        ELSE (CHOOSE rt \in taken : \A o \in taken : rt.rank <= o.rank).name

(* RangeHeader::parse_range: "bytes=N-" and "bytes=N-M" (regexes anchored *)
(* at both ends), anything else (no header, "bytes=-N", several ranges)   *)
(* gives (None, None), written -1 here.  A number too large for usize     *)
(* makes parse().unwrap() panic.                                          *)
ParseRange(h) ==
    CASE h.kind = "open" ->
             [ok |-> h.a < UsizeMod, begin |-> h.a, end |-> -1]
      [] h.kind = "closed" ->
             [ok |-> h.a < UsizeMod /\ h.b < UsizeMod, begin |-> h.a, end |-> h.b]
      [] OTHER -> [ok |-> TRUE, begin |-> -1, end |-> -1]

(* The bytes of a file are named by their 1-based positions.              *)
FileBytes(from, n) == [i \in 1..n |-> from + i]

(* Mutant: the length of a closed range is end - begin.                  *)
ContentLengthsOffByOne(rg, S) ==
    IF rg.end /= -1
    THEN IF rg.end < rg.begin
         THEN {[panic |-> TRUE, n |-> 0], [panic |-> FALSE, n |-> (rg.end - rg.begin) % UsizeMod]}
         ELSE {[panic |-> FALSE, n |-> rg.end - rg.begin]}
    ELSE IF rg.begin > S
         THEN {[panic |-> TRUE, n |-> 0], [panic |-> FALSE, n |-> (S - rg.begin) % UsizeMod]}
         ELSE {[panic |-> FALSE, n |-> S - rg.begin]}

(* content_length in get_object, for a parsed range with a start: end -   *)
(* begin + 1, or file_size - begin.  A usize subtraction that underflows   *)
(* panics in a debug build (500) and wraps in a release build: both       *)
(* outcomes are possible.                                                  *)
ContentLengths(rg, S) ==
    IF rg.end /= -1
    THEN IF rg.end < rg.begin
         THEN {[panic |-> TRUE, n |-> 0], [panic |-> FALSE, n |-> (rg.end - rg.begin + 1) % UsizeMod]}
         ELSE {[panic |-> FALSE, n |-> rg.end - rg.begin + 1]}
    ELSE IF rg.begin > S
         THEN {[panic |-> TRUE, n |-> 0], [panic |-> FALSE, n |-> (S - rg.begin) % UsizeMod]}
         ELSE {[panic |-> FALSE, n |-> S - rg.begin]}

(* get_object after the object is found, for a file of `size` bytes: no   *)
(* range streams the file with 200; otherwise seek to `begin` (allowed    *)
(* past end of file) and answer 206 with a LimitSeekerReader that yields  *)
(* at most content_length bytes, fewer at end of file.                    *)
GetResponses(r) ==
    LET rg    == ParseRange(r.range)
        S     == r.size
        Panic == [status |-> 500, length |-> 0, body |-> <<>>]
    IN  IF ~rg.ok THEN {Panic}
        ELSE IF rg.begin = -1
        THEN {[status |-> 200, length |-> S, body |-> FileBytes(0, S)]}
        ELSE { IF cl.panic THEN Panic
               ELSE [status |-> 206, length |-> cl.n,
                     body |-> FileBytes(rg.begin, Min({cl.n, Max({S - rg.begin, 0})}))] :
               cl \in ContentLengths(rg, S) }

Init ==
    /\ req \in Requests
    /\ op = "pending"
    /\ resp = NoResp

Dispatch ==
    /\ op = "pending"
    /\ op' = Classify(req)
    /\ UNCHANGED <<req, resp>>

ServeGet ==
    /\ op = "GetObject"
    /\ resp = NoResp
    /\ resp' \in GetResponses(req)
    /\ UNCHANGED <<req, op>>

Answered ==
    /\ op \notin {"pending", "GetObject"} \/ resp /= NoResp
    /\ UNCHANGED vars

Next == Dispatch \/ ServeGet \/ Answered

Spec == Init /\ [][Next]_vars

-----------------------------------------------------------------------------
(* The classifier table of spec.md section 4.6: operation, method, least  *)
(* and greatest segment count, and the query predicate.  Where several    *)
(* rows match, the spec breaks the tie by rank, the route rank of main.rs. *)
SpecQuery(o, r) ==
    CASE o \in {"ListAllBuckets", "CreateBucket", "DeleteObject"} -> TRUE
      [] o = "GetBucketLocation"       -> Has(r, "location")
      [] o = "ListObjectsV2"           -> Has(r, "list-type") /\ r.lt = "2"
      [] o = "ListObjects"             -> ~Has(r, "location") /\ ~Has(r, "list-type")
      [] o = "AbortMultipartUpload"    -> Has(r, "uploadId")
      [] o = "DeleteObjectsBulk"       -> Has(r, "delete")
      [] o = "CreateMultipartUpload"   -> Has(r, "uploads")
      [] o = "CompleteMultipartUpload" -> Has(r, "uploadId")
      [] o = "PutObjectPart"           -> Has(r, "partNumber") /\ Has(r, "uploadId")
      [] o = "PutObject"               -> ~Has(r, "partNumber") /\ ~Has(r, "uploadId")
      [] o = "GetObject"               -> ~Has(r, "location")

Row(o, m, lo, hi) == [op |-> o, method |-> m, lo |-> lo, hi |-> hi]
Many == 1000
SpecTable == <<
    Row("ListAllBuckets", "GET", 0, 0),        Row("GetBucketLocation", "GET", 1, 1),
    Row("ListObjectsV2", "GET", 1, 1),         Row("ListObjects", "GET", 1, 1),
    Row("CreateBucket", "PUT", 1, 1),          Row("AbortMultipartUpload", "DELETE", 1, 1),
    Row("DeleteObjectsBulk", "POST", 1, 2),    Row("CreateMultipartUpload", "POST", 2, Many),
    Row("CompleteMultipartUpload", "POST", 2, Many),
    Row("PutObjectPart", "PUT", 2, Many),      Row("PutObject", "PUT", 2, Many),
    Row("GetObject", "GET", 2, Many),          Row("DeleteObject", "DELETE", 2, Many) >>

RankOf(o) == Min({rt.rank : rt \in {x \in Routes : x.name = o}})

SpecOp(r) ==
    LET rows == { i \in 1..Len(SpecTable) :
                    /\ SpecTable[i].method = r.method
                    /\ r.segs \in SpecTable[i].lo..SpecTable[i].hi
                    /\ SpecQuery(SpecTable[i].op, r) }
    IN  IF rows = {} THEN "404"
        ELSE LET Before(i, j) ==
                     \/ RankOf(SpecTable[i].op) < RankOf(SpecTable[j].op)
                     \/ RankOf(SpecTable[i].op) = RankOf(SpecTable[j].op) /\ i <= j
             IN  SpecTable[CHOOSE i \in rows : \A j \in rows : Before(i, j)].op

-----------------------------------------------------------------------------
(* Rocket's rank-ordered dispatch over the routes of main.rs, with the    *)
(* request guards forwarding, hands every request to the operation the    *)
(* classifier table of spec.md 4.6 names for it, and leaves unclassified  *)
(* requests to the 404 catcher.                                            *)
RoutesFollowTable == op /= "pending" => op = SpecOp(req)

(* get_object answers ranges inside the file as spec.md 4.5 and 8 say: no *)
(* usable range gives 200 and the whole file; bytes=a- with a <= S gives  *)
(* 206 and bytes [a, S); bytes=a-b with a <= b < S gives 206 and [a, b],  *)
(* each with that many bytes as its Content-Length.                        *)
RangeAsSpecified ==
    LET rg == ParseRange(req.range)
        S  == req.size
    IN  resp /= NoResp /\ rg.ok =>
          /\ rg.begin = -1 =>
                resp = [status |-> 200, length |-> S, body |-> FileBytes(0, S)]
          /\ rg.begin /= -1 /\ rg.end = -1 /\ rg.begin <= S =>
                resp = [status |-> 206, length |-> S - rg.begin,
                        body |-> FileBytes(rg.begin, S - rg.begin)]
          /\ rg.begin /= -1 /\ rg.end /= -1 /\ rg.begin <= rg.end /\ rg.end < S =>
                resp = [status |-> 206, length |-> rg.end - rg.begin + 1,
                        body |-> FileBytes(rg.begin, rg.end - rg.begin + 1)]
=============================================================================
