----------------------------- MODULE BulkDelete -----------------------------
(***************************************************************************)
(* The root store (src/src/fsapi.rs FS::make_bucket, get_bucket,           *)
(* get_all_buckets) and the bulk delete of src/src/main.rs                 *)
(* delete_object_multi, which runs Bucket::delete_object (fsapi.rs) for    *)
(* every key parsed from the request body.                                 *)
(*                                                                         *)
(* Unlike the other modules, paths here are resolved the way the kernel    *)
(* resolves them, component by component, because the keys of a bulk      *)
(* delete come from the XML body and never pass through Rocket's PathBuf   *)
(* segment checks: a key is only checked by Bucket::valid_key.  A path is  *)
(* a sequence of names from the file-system root; the storage root is      *)
(* <<StoreRoot>>.  A key is the sequence of its '/'-separated segments.    *)
(***************************************************************************)
EXTENDS Integers, Sequences, SequencesExt, FiniteSets

CONSTANTS
    StoreRoot,     \* the name of the storage root directory under "/"
    BucketNames,   \* bucket names clients send
    NameCharsOK,   \* the names matching ^[a-zA-Z0-9.\-_]{1,255}$
    ForbiddenChar, \* the names containing one of \ > < | : & $
    KeyLists,      \* the key lists a bulk-delete body parses to
    InitFiles,     \* files present at start (absolute paths)
    InitDirs       \* directories present at start (absolute paths)

VARIABLES
    files,   \* the regular files that exist
    dirs,    \* the directories that exist
    bulk,    \* the bulk-delete handler: [st, bucket, keys, i, reply]
    listed   \* the bucket names the last list_all_buckets answered

vars == <<files, dirs, bulk, listed>>

MetaSuffix == "@@META@@"
Staging    == "_staging"
BaseOf(b)  == <<StoreRoot, b>>     \* Bucket::base, canonicalized

(* Bucket::valid_bucket. *)
ValidBucket(b) == b # Staging /\ b \in NameCharsOK

(* FS::get_bucket: a valid name whose path is a directory. *)
GetBucket(b) == ValidBucket(b) /\ BaseOf(b) \in dirs

(* Bucket::valid_key on the key "s1/s2/.../sn".  The substrings "/./",    *)
(* "/../" and "//" are a segment ".", ".." or "" with a '/' on each side. *)
ValidKey(k) ==
    LET inner == {k[i] : i \in 2..(Len(k) - 1)} IN
    /\ \A i \in 1..Len(k) : k[i] \notin ForbiddenChar
    /\ inner \cap {".", "..", ""} = {}
    /\ ~(Len(k) > 1 /\ k[1] = "")
    /\ ~(Len(k[Len(k)]) >= Len(MetaSuffix)
         /\ SubSeq(k[Len(k)], Len(k[Len(k)]) - Len(MetaSuffix) + 1, Len(k[Len(k)])) = MetaSuffix)

(* The kernel's walk of a path from "/": "" and "." stay, ".." goes up   *)
(* (and stays at "/"), and every component before the last must be a     *)
(* directory.  The result is {the path reached}, or {} (ENOENT, ENOTDIR). *)
RECURSIVE Walk(_, _)
Walk(cur, rest) ==
    IF rest = <<>> THEN {cur}
    ELSE LET s    == Head(rest)
             next == CASE s \in {"", "."} -> cur
                       [] s = ".."        -> IF cur = <<>> THEN cur ELSE Front(cur)
                       [] OTHER           -> Append(cur, s)
         IN  IF Len(rest) > 1 /\ next # <<>> /\ next \notin dirs THEN {}
             ELSE Walk(next, Tail(rest))

(* The last name a call acts on; unlink and rmdir refuse "." and "..".   *)
LastName(p) == LET named == SelectSeq(p, LAMBDA s : s # "") IN
               IF named = <<>> THEN "." ELSE Last(named)

(* std::fs::remove_file and std::fs::remove_dir: the set of paths they    *)
(* remove, {} when the call fails.  unlink of "x/" fails; rmdir needs an  *)
(* empty directory.                                                       *)
Unlinked(fs, p) ==
    {t \in Walk(<<>>, p) : t \in fs.files /\ Last(p) \notin {"", ".", ".."}}
Rmdired(fs, p) ==
    {t \in Walk(<<>>, p) :
        /\ t \in fs.dirs /\ LastName(p) \notin {".", ".."}
        /\ \A q \in fs.files \cup fs.dirs : ~(Len(q) = Len(t) + 1 /\ Front(q) = t)}

(* Path::parent: the components (without "" and non-leading ".") but the *)
(* last.                                                                 *)
LexicalParent(p) == Front(SelectSeq(p, LAMBDA s : s \notin {"", "."}))

Without(fs, gone) == [files |-> fs.files \ gone, dirs |-> fs.dirs \ gone]

(* Bucket::delete_object: remove_file(base/key), remove_file(base/key     *)
(* ++ "@@META@@"), remove_dir(base/key), and, when the key contains a    *)
(* '/', remove_dir of the path's parent; every error is ignored.          *)
DeleteObject(fs, b, k) ==
    LET full == BaseOf(b) \o k
        meta == BaseOf(b) \o Front(k) \o <<Last(k) \o MetaSuffix>>
        fs1  == Without(fs,  Unlinked(fs, full))
        fs2  == Without(fs1, Unlinked(fs1, meta))
        fs3  == Without(fs2, Rmdired(fs2, full))
    IN  IF ~ValidKey(k) THEN fs
        ELSE IF Len(k) > 1 THEN Without(fs3, Rmdired(fs3, LexicalParent(full)))
        ELSE fs3

Init ==
    /\ files = InitFiles
    /\ dirs = InitDirs
    /\ bulk = [st |-> "idle", bucket |-> StoreRoot, keys |-> <<>>, i |-> 1, reply |-> 0]
    /\ listed = {}

(* FS::make_bucket: refused for an invalid or existing name, else       *)
(* create_dir_all of the bucket directory.  The directory set it leaves.  *)
MakeBucket(b) ==
    IF ValidBucket(b) /\ ~GetBucket(b) THEN dirs \cup {BaseOf(b)} ELSE dirs

(* create_bucket: make_bucket, then 200 whatever it returned. *)
CreateBucket(b) ==
    /\ dirs' = MakeBucket(b)
    /\ UNCHANGED <<files, bulk, listed>>

(* FS::get_all_buckets: the directories directly under the root whose   *)
(* names are valid bucket names (read_dir never yields "." or "..").     *)
AllBuckets(ds) == {b \in NameCharsOK : ValidBucket(b) /\ BaseOf(b) \in ds}

(* list_all_buckets: get_all_buckets (whose create_dir_all re-creates    *)
(* _staging), then answer the names it found.                            *)
ListAllBuckets ==
    /\ dirs' = dirs \cup {BaseOf(Staging)}
    /\ listed' = AllBuckets(dirs')
    /\ UNCHANGED <<files, bulk>>

(* delete_object_multi: 404 for a missing bucket, 400 for a body that is *)
(* not UTF-8, else parse the keys and start the loop.                    *)
BulkStart(b) ==
    /\ bulk.st \in {"idle", "replied"}
    /\ \/ ~GetBucket(b) /\ bulk' = [st |-> "replied", bucket |-> b, keys |-> <<>>, i |-> 1, reply |-> 404]
       \/ GetBucket(b) /\ bulk' = [st |-> "replied", bucket |-> b, keys |-> <<>>, i |-> 1, reply |-> 400]
       \/ GetBucket(b) /\ \E ks \in KeyLists :
             bulk' = [st |-> "deleting", bucket |-> b, keys |-> ks, i |-> 1, reply |-> 0]
    /\ UNCHANGED <<files, dirs, listed>>

(* One iteration of the loop: delete_object of the next key. *)
BulkDeleteKey ==
    /\ bulk.st = "deleting"
    /\ bulk.i <= Len(bulk.keys)
    /\ LET fs == DeleteObject([files |-> files, dirs |-> dirs], bulk.bucket, bulk.keys[bulk.i])
       IN  files' = fs.files /\ dirs' = fs.dirs
    /\ bulk' = [bulk EXCEPT !.i = @ + 1]
    /\ UNCHANGED listed

(* After the loop the handler answers 200 listing every key as Deleted. *)
BulkReply ==
    /\ bulk.st = "deleting"
    /\ bulk.i > Len(bulk.keys)
    /\ bulk' = [bulk EXCEPT !.st = "replied", !.reply = 200]
    /\ UNCHANGED <<files, dirs, listed>>

Next ==
    \/ \E b \in BucketNames : CreateBucket(b) \/ BulkStart(b)
    \/ ListAllBuckets
    \/ BulkDeleteKey
    \/ BulkReply

Spec == Init /\ [][Next]_vars

-----------------------------------------------------------------------------
Under(p, d) == Len(p) > Len(d) /\ SubSeq(p, 1, Len(d)) = d

(* Bucket isolation (spec.md 3: an object is the file <root>/<bucket>/<key> *)
(* and a bucket is destroyed only by administrative means): every file or  *)
(* directory a bulk delete on bucket b removes lies strictly inside b's    *)
(* directory.  About valid_key and the paths delete_object builds from it.  *)
DeletesStayInBucket ==
    [][bulk.st = "deleting" =>
         \A p \in (files \cup dirs) \ (files' \cup dirs') : Under(p, BaseOf(bulk.bucket))]_vars
=============================================================================
