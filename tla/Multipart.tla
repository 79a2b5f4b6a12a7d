------------------------------ MODULE Multipart ------------------------------
(***************************************************************************)
(* Multipart upload of one upload id (src/src/fsapi.rs save_object_part,  *)
(* merge_part, cleanup_upload_id, and the handlers put_object_part,        *)
(* complete_multipart_upload, cleanup_multipart_upload of src/src/main.rs)*)
(* over the file-system model of ObjectStore, composed with its GET so     *)
(* readers race completions.                                               *)
(*                                                                         *)
(* Upload ids are ten random alphanumerics, so two uploads never share a  *)
(* staged name: one upload id is enough to model what an upload does to   *)
(* its own parts and to its destination key.                              *)
(*                                                                         *)
(* File::create on an existing path truncates the SAME inode; a handle    *)
(* keeps writing at its own offset, so a write past the end leaves a hole *)
(* of zero bytes.                                                          *)
(***************************************************************************)
EXTENDS ObjectStore

CONSTANTS
    UploadKey,     \* the key the upload was created for
    PartNums,      \* part numbers clients send (1..n)
    ClientRetries, \* whether a client re-sends CompleteMultipartUpload
    Zero           \* the zero byte that fills a hole

ASSUME /\ UploadKey \in Keys
       /\ PartNums \subseteq Nat \ {0}
       /\ ClientRetries \in BOOLEAN

VARIABLES
    parts,    \* history: per part number, the client's last attempt
    closing   \* history: "open", or the concluding request the client sent

mpvars == <<vars, parts, closing>>

Part(n)     == <<"part", n>>
PartMeta(n) == <<"partmeta", n>>

NoAttempt == [st |-> "none", body |-> <<>>]

\* Write block b at position i of s through a handle whose offset is i.
WriteAt(s, i, b) ==
    IF i <= Len(s) + 1
      THEN [j \in 1..Max({i, Len(s)}) |-> IF j = i THEN b ELSE s[j]]
      ELSE s \o [j \in 1..(i - 1 - Len(s)) |-> Zero] \o <<b>>

\* File::create(x): truncate the inode x names, or link a new empty one.
CreateFile(f, nd, x) ==
    IF x \in DOMAIN f
      THEN [fs |-> f, node |-> [nd EXCEPT ![f[x]] = <<>>], ino |-> f[x]]
      ELSE [fs |-> Link(f, x, Len(nd) + 1), node |-> Append(nd, <<>>),
            ino |-> Len(nd) + 1]

OkParts == {n \in PartNums : parts[n].st = "ok"}

\* What the client has uploaded: its acknowledged parts 1..m, in order.
Uploaded == FlattenSeq([i \in 1..Cardinality(OkParts) |-> parts[i].body])

\* Client discipline: a part number is not sent twice at once; an upload is
\* concluded once, after every part it sent was acknowledged, and its
\* acknowledged parts are numbered 1..m.
NoPartInFlight == \A n \in PartNums : parts[n].st \in {"none", "ok"}
ContiguousParts == OkParts = 1..Cardinality(OkParts) /\ OkParts # {}
MayConclude ==
    /\ \/ closing = "open"
       \/ ClientRetries /\ closing \in {"complete", "completed"}
    /\ NoPartInFlight

MPInit ==
    /\ \E b0 \in Bodies \cup {<<>>} :
         IF b0 = <<>>
           THEN fs = << >> /\ node = << >> /\ written = {}
           ELSE /\ fs = (Obj(UploadKey) :> 1) @@ (Meta(UploadKey) :> 2)
                /\ node = << b0, <<FileMeta(b0)>> >>
                /\ written = {<<UploadKey, b0>>}
    /\ dirs = {}
    /\ seq = 0
    /\ req = [p \in Procs |-> Idle]
    /\ parts = [n \in PartNums |-> NoAttempt]
    /\ closing = "open"

(***************************************************************************)
(* PUT /<bucket>/<key>?partNumber=n&uploadId=u : put_object_part ->       *)
(* Bucket::save_object_part                                                *)
(***************************************************************************)

PartStart(p, n, b) ==
    /\ ~InFlight(p)
    /\ closing = "open"
    /\ parts[n].st # "sending"
    /\ req' = [req EXCEPT ![p] = [Idle EXCEPT !.op = "part", !.pc = "part",
                                    !.key = UploadKey, !.pn = n, !.body = b]]
    /\ parts' = [parts EXCEPT ![n] = [st |-> "sending", body |-> b]]
    /\ UNCHANGED <<fs, node, dirs, seq, written, closing>>

\* tokio File::create(<u>_<n>) and std File::create(<u>_<n>@@META@@).
PartBegin(p) ==
    LET r == req[p]
        d == CreateFile(fs, node, Part(r.pn))
        m == CreateFile(d.fs, d.node, PartMeta(r.pn)) IN
    /\ r.pc = "part"
    /\ fs' = m.fs
    /\ node' = m.node
    /\ req' = [req EXCEPT ![p].pc = "part_copy", ![p].fd = d.ino,
                          ![p].mfd = m.ino]
    /\ UNCHANGED <<dirs, seq, written, parts, closing>>

\* copy_chunk_to_raw: one block written at the handle's offset.
PartCopy(p) ==
    LET r == req[p] IN
    /\ r.pc = "part_copy"
    /\ r.sent < Len(r.body)
    /\ node' = [node EXCEPT ![r.fd] = WriteAt(@, r.sent + 1, r.body[r.sent + 1])]
    /\ req' = [req EXCEPT ![p].sent = r.sent + 1]
    /\ UNCHANGED <<fs, dirs, seq, written, parts, closing>>

\* save_meta into the part's sidecar; the handler answers 200.
PartSaveMeta(p) ==
    LET r == req[p] IN
    /\ r.pc = "part_copy"
    /\ r.sent = Len(r.body)
    /\ node' = [node EXCEPT ![r.mfd] = <<FileMeta(r.body)>>]
    /\ req' = [req EXCEPT ![p] = Done(r, 200)]
    /\ parts' = [parts EXCEPT ![r.pn] = [st |-> "ok", body |-> r.body]]
    /\ UNCHANGED <<fs, dirs, seq, written, closing>>

\* The body breaks off or is malformed: 500, the partial part stays staged.
PartFail(p) ==
    LET r == req[p] IN
    /\ r.pc = "part_copy"
    /\ req' = [req EXCEPT ![p] = Done(r, 500)]
    /\ parts' = [parts EXCEPT ![r.pn].st = "failed"]
    /\ UNCHANGED <<fs, node, dirs, seq, written, closing>>

(***************************************************************************)
(* POST /<bucket>/<key>?uploadId=u : complete_multipart_upload ->          *)
(* Bucket::merge_part                                                      *)
(***************************************************************************)

CompleteStart(p) ==
    /\ ~InFlight(p)
    /\ MayConclude
    /\ ContiguousParts
    /\ req' = [req EXCEPT ![p] = [Idle EXCEPT !.op = "complete",
                                    !.pc = "complete", !.key = UploadKey]]
    /\ closing' = IF closing = "completed" THEN closing ELSE "complete"
    /\ UNCHANGED <<fs, node, dirs, seq, written, parts>>

\* dest.ensure_parent(); tokio File::create(base/key): the destination is
\* truncated in place (or created); the hasher starts empty (body).
MergeCreate(p) ==
    LET r == req[p]  d == CreateFile(fs, node, Obj(r.key)) IN
    /\ r.pc = "complete"
    /\ fs' = d.fs
    /\ node' = d.node
    /\ dirs' = IF Parent[r.key] = Root THEN dirs ELSE dirs \cup {Parent[r.key]}
    /\ req' = [req EXCEPT ![p].pc = "probe", ![p].fd = d.ino,
                          ![p].body = <<>>, ![p].ctr = 0]
    /\ UNCHANGED <<seq, written, parts, closing>>

\* Mutant: the counter is tested before it is incremented, so the scan
\* starts at part 0 and stops at once.
MergeProbeFromZero(p) ==
    LET r == req[p]  c == r.ctr IN
    /\ r.pc = "probe"
    /\ IF Exists(Part(c))
         THEN req' = [req EXCEPT ![p].pc = "merge_copy", ![p].ctr = c + 1,
                                 ![p].src = fs[Part(c)], ![p].pos = 0]
         ELSE req' = [req EXCEPT ![p].pc = "merge_meta", ![p].ctr = c + 1]
    /\ UNCHANGED <<fs, node, dirs, seq, written, parts, closing>>

\* counter += 1; if <u>_<counter> exists, open it, else leave the loop.
MergeProbe(p) ==
    LET r == req[p]  c == r.ctr + 1 IN
    /\ r.pc = "probe"
    /\ IF Exists(Part(c))
         THEN req' = [req EXCEPT ![p].pc = "merge_copy", ![p].ctr = c,
                                 ![p].src = fs[Part(c)], ![p].pos = 0]
         ELSE req' = [req EXCEPT ![p].pc = "merge_meta", ![p].ctr = c]
    /\ UNCHANGED <<fs, node, dirs, seq, written, parts, closing>>

\* Mutant: the read position in the part is never advanced.
MergeCopyNoAdvance(p) ==
    LET r == req[p]  blk == node[r.src][r.pos + 1] IN
    /\ r.pc = "merge_copy"
    /\ r.pos < Len(node[r.src])
    /\ node' = [node EXCEPT ![r.fd] = WriteAt(@, Len(r.body) + 1, blk)]
    /\ req' = [req EXCEPT ![p].body = Append(r.body, blk)]
    /\ UNCHANGED <<fs, dirs, seq, written, parts, closing>>

\* merge_into_with_hash: one block read from the part, hashed, and
\* written at the destination handle's offset.
MergeCopy(p) ==
    LET r == req[p]  blk == node[r.src][r.pos + 1] IN
    /\ r.pc = "merge_copy"
    /\ r.pos < Len(node[r.src])
    /\ node' = [node EXCEPT ![r.fd] = WriteAt(@, Len(r.body) + 1, blk)]
    /\ req' = [req EXCEPT ![p].pos = r.pos + 1, ![p].body = Append(r.body, blk)]
    /\ UNCHANGED <<fs, dirs, seq, written, parts, closing>>

\* Mutant: the part's sidecar is not removed after the part is merged.
MergeConsumeKeepMeta(p) ==
    LET r == req[p] IN
    /\ r.pc = "merge_copy"
    /\ r.pos = Len(node[r.src])
    /\ fs' = Unlink(fs, Part(r.ctr))
    /\ req' = [req EXCEPT ![p].pc = "probe"]
    /\ UNCHANGED <<node, dirs, seq, written, parts, closing>>

\* The part is at EOF: remove_file of the part and of its sidecar.
MergeConsume(p) ==
    LET r == req[p] IN
    /\ r.pc = "merge_copy"
    /\ r.pos = Len(node[r.src])
    /\ fs' = Unlink(Unlink(fs, Part(r.ctr)), PartMeta(r.ctr))
    /\ req' = [req EXCEPT ![p].pc = "probe"]
    /\ UNCHANGED <<node, dirs, seq, written, parts, closing>>

\* std File::create(base/key@@META@@)? -- truncates the live sidecar.
MergeCreateMeta(p) ==
    LET r == req[p]  m == CreateFile(fs, node, Meta(r.key)) IN
    /\ r.pc = "merge_meta"
    /\ IF DirExists(Parent[r.key])
         THEN /\ fs' = m.fs
              /\ node' = m.node
              /\ req' = [req EXCEPT ![p].pc = "merge_save", ![p].mfd = m.ino]
         ELSE /\ Fail(p, 500)
              /\ UNCHANGED <<fs, node>>
    /\ UNCHANGED <<dirs, seq, written, parts, closing>>

\* save_meta({etag: md5 of the merged bytes, size: total}); 200.
MergeSaveMeta(p) ==
    LET r == req[p] IN
    /\ r.pc = "merge_save"
    /\ node' = [node EXCEPT ![r.mfd] = <<FileMeta(r.body)>>]
    /\ written' = written \cup {<<r.key, r.body>>}
    /\ req' = [req EXCEPT ![p] = Done(r, 200)]
    /\ closing' = "completed"
    /\ UNCHANGED <<fs, dirs, seq, parts>>

(***************************************************************************)
(* DELETE /<bucket>?uploadId=u : cleanup_multipart_upload ->               *)
(* Bucket::cleanup_upload_id                                               *)
(***************************************************************************)

AbortStart(p) ==
    /\ ~InFlight(p)
    /\ MayConclude
    /\ req' = [req EXCEPT ![p] = [Idle EXCEPT !.op = "abort", !.pc = "abort",
                                    !.key = UploadKey]]
    /\ closing' = "abort"
    /\ UNCHANGED <<fs, node, dirs, seq, written, parts>>

\* The loop stops when the part file is missing and counter > 10.
CleanupStops(c, present) == (~present /\ c > 10) \/ c > 1000

\* One iteration: counter += 1; remove the sidecar if it exists; remove the
\* part if it exists, else stop once counter > 10; stop past 1000.
AbortStep(p) ==
    LET r == req[p]  c == r.ctr + 1 IN
    /\ r.pc = "abort"
    /\ fs' = Unlink(Unlink(fs, PartMeta(c)), Part(c))
    /\ req' = IF CleanupStops(c, Exists(Part(c)))
                THEN [req EXCEPT ![p] = Done(r, 200)]
                ELSE [req EXCEPT ![p].ctr = c]
    /\ closing' = IF CleanupStops(c, Exists(Part(c))) THEN "aborted" ELSE closing
    /\ UNCHANGED <<node, dirs, seq, written, parts>>

\* The process dies: in-flight part uploads are lost like failed ones.
MPCrash ==
    /\ Crash
    /\ parts' = [n \in PartNums |->
                   IF parts[n].st = "sending" THEN [parts[n] EXCEPT !.st = "failed"]
                                              ELSE parts[n]]
    /\ UNCHANGED closing

MPNext ==
    \/ \E p \in Procs :
         \/ Start(p, "get", UploadKey, <<>>) /\ UNCHANGED <<parts, closing>>
         \/ (\/ GetStat(p) \/ GetOpen(p) \/ GetEtag(p) \/ GetSize(p)
             \/ GetStream(p)) /\ UNCHANGED <<parts, closing>>
         \/ \E n \in PartNums, b \in Bodies : PartStart(p, n, b)
         \/ PartBegin(p) \/ PartCopy(p) \/ PartSaveMeta(p) \/ PartFail(p)
         \/ CompleteStart(p) \/ MergeCreate(p) \/ MergeProbe(p)
         \/ MergeCopy(p) \/ MergeConsume(p) \/ MergeCreateMeta(p)
         \/ MergeSaveMeta(p)
         \/ AbortStart(p) \/ AbortStep(p)
    \/ MPCrash

MPSpec == MPInit /\ [][MPNext]_mpvars

(***************************************************************************)
(* Properties                                                              *)
(***************************************************************************)

Staged == {x \in DOMAIN fs : x[1] \in {"part", "partmeta"}}
MergedMax == MaxBody * Cardinality(PartNums)

\* Every variable has its type; staged and object files hold bytes or
\* FileMeta records of at most the longest assembly.
MPTypeOK ==
    /\ DOMAIN fs \subseteq {Obj(UploadKey), Meta(UploadKey)}
                             \cup {Part(n) : n \in PartNums}
                             \cup {PartMeta(n) : n \in PartNums}
    /\ \A x \in DOMAIN fs :
         IF x[1] \in {"obj", "part"}
           THEN Content(x) \in BoundedSeq(Blocks \cup {Zero}, MergedMax)
           ELSE \/ Content(x) = <<>>
                \/ /\ Len(Content(x)) = 1
                   /\ Content(x)[1].size \in 0..MergedMax
    /\ parts \in [PartNums -> [st : {"none", "sending", "ok", "failed"},
                               body : Bodies \cup {<<>>}]]
    /\ closing \in {"open", "complete", "completed", "abort", "aborted"}
    /\ \A p \in Procs :
         /\ req[p].op \in {"none", "get", "part", "complete", "abort"}
         /\ req[p].ctr \in 0..11
         /\ req[p].status \in {0, 200, 404, 500, -1}

\* Once a completion has been answered 200 and nothing runs, the object is
\* exactly the acknowledged parts 1..m concatenated, and its sidecar holds
\* their MD5 and total size (merge_part truncates, appends every part in
\* order, then writes the sidecar).
AssembledIsConcatenation ==
    (Quiescent /\ closing = "completed") =>
        /\ Exists(Obj(UploadKey))
        /\ Content(Obj(UploadKey)) = Uploaded
        /\ Exists(Meta(UploadKey))
        /\ Content(Meta(UploadKey)) = <<FileMeta(Uploaded)>>

\* Once a completion or an abort has been answered and nothing runs, no part
\* or part sidecar of it is left in the staging directory (merge_part
\* removes each part it consumes, cleanup_upload_id probes past gaps).
StagingClearedWhenConcluded ==
    (Quiescent /\ closing \in {"completed", "aborted"}) => Staged = {}

====
