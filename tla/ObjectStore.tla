----------------------------- MODULE ObjectStore -----------------------------
(***************************************************************************)
(* The bucket store's single-shot object operations (src/src/fsapi.rs,     *)
(* Bucket::save_object, get_object_by_key/get_object_meta, delete_object)  *)
(* together with the route handlers that drive them (src/src/main.rs       *)
(* put_object, get_object, delete_object), run as concurrent tokio tasks.  *)
(*                                                                         *)
(* The file system is POSIX-like: a path names an inode, rename replaces   *)
(* the destination's directory entry atomically, an open descriptor keeps  *)
(* reading the inode it opened, and a file can only be linked into a       *)
(* directory that exists.  Each step of a request is one file-system call *)
(* (or one await), so requests interleave at that granularity, as they do  *)
(* on tokio's multi-threaded runtime.                                      *)
(*                                                                         *)
(* Bodies are sequences of blocks; MD5 is modelled as collision-free: the  *)
(* digest names exactly the bytes it was computed over.                    *)
(***************************************************************************)
EXTENDS Naturals, Sequences, FiniteSets, TLC, SequencesExt, Functions

CONSTANTS
    Procs,        \* request slots: tasks that each serve one request at a time
    Keys,         \* object keys of one bucket (all valid keys)
    Dirs,         \* sub-directories that keys may live in
    Root,         \* the bucket directory itself (never removed)
    Parent,       \* Parent[k]: directory holding key k (Root if no '/')
    Blocks,       \* the byte values a body is made of
    Bodies,       \* request bodies clients send (sequences of Blocks)
    MaxBody,      \* longest body
    MaxPuts,      \* bound on PUT requests (the sequencer counter)
    SerialScope,  \* client discipline: "none", "key" or "dir"
    CrashEnabled, \* whether the server process may die
    NoKey

ASSUME /\ Root \notin Dirs
       /\ Parent \in [Keys -> Dirs \cup {Root}]
       /\ Bodies \subseteq BoundedSeq(Blocks, MaxBody)
       /\ SerialScope \in {"none", "key", "dir"}
       /\ CrashEnabled \in BOOLEAN

VARIABLES
    fs,       \* directory entries: path -> inode number
    node,     \* inode contents, node[i] for inode i
    dirs,     \* sub-directories of the bucket that exist
    seq,      \* Sequence.seq, the staging-name counter (sequencing.rs)
    req,      \* per request slot: the handler's local state
    written   \* history: <<k, b>> for every body b fully received for key k

vars == <<fs, node, dirs, seq, req, written>>

(***************************************************************************)
(* Paths.  Obj/Meta are base/key and base/key@@META@@ (file_for_key,       *)
(* meta_file_for_key); Stg/StgMeta are <staging>/<seq> and its sidecar.    *)
(***************************************************************************)
Obj(k)     == <<"obj", k>>
Meta(k)    == <<"meta", k>>
Stg(t)     == <<"stg", t>>
StgMeta(t) == <<"stgmeta", t>>
Tokens     == 0..(MaxPuts - 1)
Paths      == {Obj(k) : k \in Keys} \cup {Meta(k) : k \in Keys}
                \cup {Stg(t) : t \in Tokens} \cup {StgMeta(t) : t \in Tokens}

Exists(x)  == x \in DOMAIN fs
Content(x) == node[fs[x]]

\* The directory a path lives in; staging is its own, always present, dir.
DirOf(x) == IF x[1] \in {"obj", "meta"} THEN Parent[x[2]] ELSE Root
DirExists(d) == d = Root \/ d \in dirs
DirEmpty(d) == \A x \in DOMAIN fs : DirOf(x) # d

Unlink(f, x)      == Restrict(f, DOMAIN f \ {x})
Link(f, x, i)     == (x :> i) @@ f
Renamed(f, x, y)  == Unlink(Link(f, y, f[x]), x)

(***************************************************************************)
(* Sidecar records (FileMeta) as written by save_meta: a sidecar file is   *)
(* empty when created and holds one serialised record once written.        *)
(***************************************************************************)
Md5(b) == <<"md5", b>>
FileMeta(b) == [etag |-> Md5(b), size |-> Len(b)]
WellFormed(x) == Exists(x) /\ Len(Content(x)) = 1

Writers == {"put", "del", "part", "complete", "abort"}

\* status 0: no answer (idle, or lost in a crash); -1: response cut short.
Idle == [op |-> "none", pc |-> "done", key |-> NoKey, body |-> <<>>,
         tok |-> 0, sent |-> 0, committed |-> FALSE, fd |-> 0,
         etag |-> <<>>, size |-> 0, status |-> 0,
         pn |-> 0, ctr |-> 0, mfd |-> 0, src |-> 0, pos |-> 0]

\* A finished writer keeps only its response status; a finished GET leaves
\* nothing the model tracks.
Done(r, status) == [Idle EXCEPT !.status = IF r.op \in Writers THEN status
                                                                ELSE 0]

InFlight(p) == req[p].pc # "done"

\* Client discipline: which writers the clients never run at the same time.
SameScope(k1, k2) ==
    \/ SerialScope # "none" /\ k1 = k2
    \/ SerialScope = "dir" /\ Parent[k1] = Parent[k2] /\ Parent[k1] # Root
MayWrite(p, k) ==
    \A q \in Procs \ {p} :
        InFlight(q) /\ req[q].op \in Writers => ~SameScope(req[q].key, k)

\* The handler ends with an error status.
Fail(p, status) ==
    req' = [req EXCEPT ![p] = Done(req[p], status)]

Init ==
    /\ fs = << >>
    /\ node = << >>
    /\ dirs = {}
    /\ seq = 0
    /\ req = [p \in Procs |-> Idle]
    /\ written = {}

Start(p, op, k, b) ==
    /\ ~InFlight(p)
    /\ op \in Writers => MayWrite(p, k)
    /\ op = "put" => seq + Cardinality({q \in Procs : req[q].pc = "put"}) < MaxPuts
    /\ req' = [req EXCEPT ![p] = [Idle EXCEPT !.op = op, !.pc = op,
                                               !.key = k, !.body = b]]
    /\ UNCHANGED <<fs, node, dirs, seq, written>>

(***************************************************************************)
(* PUT /<bucket>/<key> : put_object -> Bucket::save_object                 *)
(***************************************************************************)

\* seq.next(); create the staged data file and its (empty) sidecar;
\* ensure_parent() creates the key's directory.
PutBegin(p) ==
    LET r == req[p]  t == seq  i == Len(node) + 1 IN
    /\ r.pc = "put"
    /\ seq' = seq + 1
    /\ node' = node \o << <<>>, <<>> >>
    /\ fs' = Link(Link(fs, Stg(t), i), StgMeta(t), i + 1)
    /\ dirs' = IF Parent[r.key] = Root THEN dirs ELSE dirs \cup {Parent[r.key]}
    /\ req' = [req EXCEPT ![p].pc = "copy", ![p].tok = t]
    /\ UNCHANGED written

\* copy_chunk_to_raw: one block read from the client and written.
PutCopy(p) ==
    LET r == req[p] IN
    /\ r.pc = "copy"
    /\ r.sent < Len(r.body)
    /\ node' = [node EXCEPT ![fs[Stg(r.tok)]] = Append(@, r.body[r.sent + 1])]
    /\ req' = [req EXCEPT ![p].sent = r.sent + 1]
    /\ UNCHANGED <<fs, dirs, seq, written>>

\* Mutant: the byte count is off by one.
PutSaveMetaOffByOne(p) ==
    LET r == req[p] IN
    /\ r.pc = "copy"
    /\ r.sent = Len(r.body)
    /\ node' = [node EXCEPT ![fs[StgMeta(r.tok)]] =
                   <<[FileMeta(r.body) EXCEPT !.size = @ + 1]>>]
    /\ written' = written \cup {<<r.key, r.body>>}
    /\ req' = [req EXCEPT ![p].pc = "rename_data"]
    /\ UNCHANGED <<fs, dirs, seq>>

\* The body ended: the whole body is in the staged file; save_meta writes
\* {etag, size} into the staged sidecar.
PutSaveMeta(p) ==
    LET r == req[p] IN
    /\ r.pc = "copy"
    /\ r.sent = Len(r.body)
    /\ node' = [node EXCEPT ![fs[StgMeta(r.tok)]] = <<FileMeta(r.body)>>]
    /\ written' = written \cup {<<r.key, r.body>>}
    /\ req' = [req EXCEPT ![p].pc = "rename_data"]
    /\ UNCHANGED <<fs, dirs, seq>>

\* Mutant: the copy error is swallowed and the handler answers 200.
PutFailIgnored(p) ==
    /\ req[p].pc = "copy"
    /\ req' = [req EXCEPT ![p] = Done(req[p], 200)]
    /\ UNCHANGED <<fs, node, dirs, seq, written>>

\* The client aborts, a chunk header is malformed, or a write fails: the
\* handler answers 500 and the staged files are left behind.
PutFail(p) ==
    /\ req[p].pc = "copy"
    /\ Fail(p, 500)
    /\ UNCHANGED <<fs, node, dirs, seq, written>>

\* std::fs::rename(staged, base/key); its error is ignored.
PutRenameData(p) ==
    LET r == req[p]  ok == DirExists(Parent[r.key]) IN
    /\ r.pc = "rename_data"
    /\ fs' = IF ok THEN Renamed(fs, Stg(r.tok), Obj(r.key)) ELSE fs
    /\ req' = [req EXCEPT ![p].pc = "rename_meta", ![p].committed = ok]
    /\ UNCHANGED <<node, dirs, seq, written>>

\* std::fs::rename(staged sidecar, base/key@@META@@), error ignored; the
\* handler answers 200 with the etag.
PutRenameMeta(p) ==
    LET r == req[p] IN
    /\ r.pc = "rename_meta"
    /\ fs' = IF DirExists(Parent[r.key])
               THEN Renamed(fs, StgMeta(r.tok), Meta(r.key)) ELSE fs
    /\ req' = [req EXCEPT ![p] = Done(r, 200)]
    /\ UNCHANGED <<node, dirs, seq, written>>

(***************************************************************************)
(* GET /<bucket>/<key> : get_object (no Range header)                      *)
(***************************************************************************)

\* get_object_by_key: the data file must exist, else 404.
GetStat(p) ==
    LET r == req[p] IN
    /\ r.pc = "get"
    /\ IF Exists(Obj(r.key)) THEN req' = [req EXCEPT ![p].pc = "open"]
                             ELSE Fail(p, 404)
    /\ UNCHANGED <<fs, node, dirs, seq, written>>

\* File::open(path).await.unwrap(): a vanished file panics the task (500).
GetOpen(p) ==
    LET r == req[p] IN
    /\ r.pc = "open"
    /\ IF Exists(Obj(r.key))
         THEN req' = [req EXCEPT ![p].pc = "etag", ![p].fd = fs[Obj(r.key)]]
         ELSE Fail(p, 500)
    /\ UNCHANGED <<fs, node, dirs, seq, written>>

\* obj.checksum().unwrap(): reads and parses the sidecar; panics if absent
\* or not a well-formed record.
GetEtag(p) ==
    LET r == req[p] IN
    /\ r.pc = "etag"
    /\ IF WellFormed(Meta(r.key))
         THEN req' = [req EXCEPT ![p].pc = "size",
                                 ![p].etag = Content(Meta(r.key))[1].etag]
         ELSE Fail(p, 500)
    /\ UNCHANGED <<fs, node, dirs, seq, written>>

\* obj.meta().unwrap() and obj.len().unwrap(): stat the PATH again; the
\* content length is the size of whatever file the path names now.
GetSize(p) ==
    LET r == req[p] IN
    /\ r.pc = "size"
    /\ IF Exists(Obj(r.key))
         THEN req' = [req EXCEPT ![p].pc = "stream",
                                 ![p].size = Len(Content(Obj(r.key)))]
         ELSE Fail(p, 500)
    /\ UNCHANGED <<fs, node, dirs, seq, written>>

\* CachedFile: a sized body of `size` bytes read from the OPENED file.  A
\* file shorter than the declared length cuts the response (status -1).
GetStream(p) ==
    LET r == req[p]  data == node[r.fd] IN
    /\ r.pc = "stream"
    /\ req' = [req EXCEPT ![p] = Done(r, IF Len(data) < r.size THEN -1
                                                                ELSE 200)]
    /\ UNCHANGED <<fs, node, dirs, seq, written>>

(***************************************************************************)
(* DELETE /<bucket>/<key> : delete_object -> Bucket::delete_object         *)
(***************************************************************************)

\* remove_file(base/key), error ignored.
DelRemoveData(p) ==
    LET r == req[p] IN
    /\ r.pc = "del"
    /\ fs' = Unlink(fs, Obj(r.key))
    /\ req' = [req EXCEPT ![p].pc = "del_meta", ![p].committed = TRUE]
    /\ UNCHANGED <<node, dirs, seq, written>>

\* remove_file(base/key@@META@@), error ignored; remove_dir(base/key) fails
\* because no key names a directory.
DelRemoveMeta(p) ==
    LET r == req[p] IN
    /\ r.pc = "del_meta"
    /\ fs' = Unlink(fs, Meta(r.key))
    /\ req' = [req EXCEPT ![p].pc = "del_parent"]
    /\ UNCHANGED <<node, dirs, seq, written>>

\* If the key contains '/', remove_dir(parent) -- succeeds iff it is empty;
\* then the handler answers 200.
DelRemoveParent(p) ==
    LET r == req[p]  d == Parent[r.key] IN
    /\ r.pc = "del_parent"
    /\ dirs' = IF d # Root /\ d \in dirs /\ DirEmpty(d) THEN dirs \ {d}
                                                        ELSE dirs
    /\ req' = [req EXCEPT ![p] = Done(r, 200)]
    /\ UNCHANGED <<fs, node, seq, written>>

(***************************************************************************)
(* The server process dies (and is restarted): in-flight requests are     *)
(* lost, every file and directory stays.  Staging names embed the clock's  *)
(* milliseconds, so names of the next process never collide with orphans: *)
(* the counter is not reset in the model.                                  *)
(***************************************************************************)
Crash ==
    /\ CrashEnabled
    /\ \E p \in Procs : InFlight(p)
    /\ req' = [p \in Procs |-> IF InFlight(p)
                                 THEN Done(req[p], 0)
                                 ELSE req[p]]
    /\ UNCHANGED <<fs, node, dirs, seq, written>>

Next ==
    \/ \E p \in Procs :
         \/ \E k \in Keys :
              \/ \E b \in Bodies : Start(p, "put", k, b)
              \/ Start(p, "get", k, <<>>)
              \/ Start(p, "del", k, <<>>)
         \/ PutBegin(p) \/ PutCopy(p) \/ PutSaveMeta(p) \/ PutFail(p)
         \/ PutRenameData(p) \/ PutRenameMeta(p)
         \/ GetStat(p) \/ GetOpen(p) \/ GetEtag(p) \/ GetSize(p)
         \/ GetStream(p)
         \/ DelRemoveData(p) \/ DelRemoveMeta(p) \/ DelRemoveParent(p)
    \/ Crash

Spec == Init /\ [][Next]_vars

(***************************************************************************)
(* Properties                                                              *)
(***************************************************************************)

MetaRecs == [etag : {Md5(b) : b \in BoundedSeq(Blocks, MaxBody)},
             size : 0..MaxBody]
IsDataPath(x) == x[1] \in {"obj", "stg"}

\* Every variable holds a value of its type; sidecars hold FileMeta records
\* whose size is a body length.
TypeOK ==
    /\ DOMAIN fs \subseteq Paths
    /\ \A x \in DOMAIN fs : fs[x] \in 1..Len(node)
    /\ \A x \in DOMAIN fs :
         IF IsDataPath(x) THEN Content(x) \in BoundedSeq(Blocks, MaxBody)
                          ELSE Content(x) \in {<<>>} \cup {<<m>> : m \in MetaRecs}
    /\ dirs \subseteq Dirs
    /\ seq \in 0..MaxPuts
    /\ written \subseteq Keys \X Bodies
    /\ \A p \in Procs :
         /\ req[p].op \in {"none", "put", "get", "del"}
         /\ req[p].key \in Keys \cup {NoKey}
         /\ req[p].sent \in 0..MaxBody
         /\ req[p].size \in 0..MaxBody
         /\ req[p].status \in {0, 200, 404, 500, -1}

Quiescent == \A p \in Procs : ~InFlight(p)

\* The body a GET is about to stream with status 200 -- the first `size`
\* bytes of the file it opened -- is one some PUT of that key sent in full.
\* get_object opens the file, then stats the path again for the length.
GetBody(p) == SubSeq(node[req[p].fd], 1, req[p].size)
GetBodyIsCompleteVersion ==
    \A p \in Procs :
        (req[p].pc = "stream" /\ Len(node[req[p].fd]) >= req[p].size)
          => <<req[p].key, GetBody(p)>> \in written

(***************************************************************************)
(* Refinement: the object store implements KVStore.  The abstract store   *)
(* is the content of each key's data file; a writer's request is open     *)
(* until its rename (PUT) or remove (DELETE) of the data file, committed  *)
(* after it, and answered as its response says.                           *)
(***************************************************************************)
StoreOf == [k \in {k \in Keys : Exists(Obj(k))} |-> Content(Obj(k))]

PhaseOf(p) ==
    IF InFlight(p) THEN IF req[p].committed THEN "committed" ELSE "open"
    ELSE IF req[p].status = 200 THEN "ok" ELSE "error"

NoPending == [op |-> "none", key |-> NoKey, val |-> <<>>, phase |-> "idle"]

PendingOf ==
    [p \in Procs |->
        LET r == req[p] IN
        CASE r.pc = "done" /\ r.status = 0 -> NoPending
          [] r.pc = "done" -> [NoPending EXCEPT !.phase = PhaseOf(p)]
          [] r.op \notin Writers -> NoPending
          [] OTHER -> [op |-> r.op, key |-> r.key, val |-> r.body,
                       phase |-> PhaseOf(p)]]

KV == INSTANCE KVStore WITH store <- StoreOf, pending <- PendingOf

\* Every history of PUTs, DELETEs and crashes is one KVStore allows: each
\* write replaces or removes a whole object at one instant, a 200 answer
\* comes only after the write took effect, a 500 only when it never will.
KVRefinement == KV!Spec

=============================================================================
