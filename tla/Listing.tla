------------------------------ MODULE Listing ------------------------------
(***************************************************************************)
(* Object listing (src/src/fsapi.rs list_objects, list_objects_short,     *)
(* get_children, get_sibling, collect_children, file_for_key) driven by   *)
(* the handler list_objects_v2 of src/src/main.rs and a client that pages *)
(* with NextContinuationToken until IsTruncated is false, as the S3 SDK   *)
(* paginators do.                                                          *)
(*                                                                         *)
(* A bucket's tree is fixed while it is paged.  A path is a sequence of   *)
(* names, a name a sequence of bytes; the code compares keys as bytes      *)
(* (Rust str order) and sorts directory entries by PathBuf, which within  *)
(* one directory compares the last names as bytes.  Sidecar files never   *)
(* appear as entries (get_children skips names ending in @@META@@); a     *)
(* file's sidecar is the membership of its path in `metas`.  A prefix     *)
(* "p/" resolves like "p" (canonicalize drops the slash, and a missing    *)
(* "p/" has file name p), so prefixes are modelled without the slash.     *)
(***************************************************************************)
EXTENDS Integers, Sequences, SequencesExt, FiniteSets

CONSTANTS
    Trees,     \* bucket trees: [files: set of paths, metas: files with a sidecar]
    PrefixParams,  \* the prefix query parameter, as a path
    Delims,    \* "absent" | "slash" | "empty" | "other": the delimiter parameter
    Limits     \* max-keys values (100 when absent)

VARIABLES
    tree,      \* the bucket's directory tree
    prefix,    \* the client's prefix
    delim,     \* the client's delimiter
    limit,     \* the client's max-keys
    after,     \* the continuation token the next request carries
    seen,      \* history: the entries of every page so far
    ascending, \* history: each key listed exceeded every key listed before it
    phase      \* "listing" | "done" | "failed" (a 500)

vars == <<tree, prefix, delim, limit, after, seen, ascending, phase>>

Slash == 47   \* the byte '/'

\* Rust's Ord on str and on one path component: bytewise lexicographic.
BytesLess(s, t) ==
    LET common(i) == SubSeq(s, 1, i) = SubSeq(t, 1, i) IN
    \/ Len(s) < Len(t) /\ common(Len(s))
    \/ \E i \in 1..Len(s) : i <= Len(t) /\ common(i - 1) /\ s[i] < t[i]

\* The entries of a set in ascending order of their last names, as
\* PathBuf orders the entries of one directory.
RECURSIVE SortByName(_)
SortByName(S) ==
    IF S = {} THEN <<>>
    ELSE LET m == CHOOSE x \in S : \A y \in S \ {x} : BytesLess(Last(x.path), Last(y.path))
         IN  <<m>> \o SortByName(S \ {m})

\* A path's names joined by '/'.
Join(p) == FlattenSeq([i \in 1..Len(p) |-> IF i = 1 THEN p[i] ELSE <<Slash>> \o p[i]])

Dirs(t) == UNION {{SubSeq(f, 1, k) : k \in 0..(Len(f) - 1)} : f \in t.files} \cup {<<>>}

\* What fs::metadata says of a path: the FileType of an S3Object.
Kind(t, p) == IF p \in Dirs(t) THEN "dir" ELSE IF p \in t.files THEN "file" ELSE "none"

\* has_meta: meta_file_for_key(key) is base_path ++ key ++ "@@META@@"; a key
\* with a leading '/' gives "//", which the OS resolves to the same file.
HasMeta(t, e) == e.path \in t.metas

\* file_for_key: the entry for a prefix; its key is the prefix itself
\* ("" for the bucket directory, whose canonical path is shorter than
\* base_path).
FileForKey(t, p) == [path |-> p, kind |-> Kind(t, p), key |-> Join(p)]

\* Mutant: entries sorted in descending order (the comparator reversed).
GetChildrenDescending(t, e) ==
    LET kids == {q \in t.files \cup Dirs(t) :
                    Len(q) = Len(e.path) + 1 /\ SubSeq(q, 1, Len(e.path)) = e.path}
        ents == {[path |-> q, kind |-> Kind(t, q), key |-> e.key \o <<Slash>> \o Last(q)] : q \in kids}
    IN  IF e.kind = "dir"
        THEN Reverse(SortByName(ents))
        ELSE <<>>

\* get_children: the entries of a directory sorted by path, each keyed
\* "{parent_key}/{name}"; nothing when the directory cannot be read.
GetChildren(t, e) ==
    LET kids == {q \in t.files \cup Dirs(t) :
                    Len(q) = Len(e.path) + 1 /\ SubSeq(q, 1, Len(e.path)) = e.path}
        ents == {[path |-> q, kind |-> Kind(t, q), key |-> e.key \o <<Slash>> \o Last(q)] : q \in kids}
    IN  IF e.kind = "dir"
        THEN SortByName(ents)
        ELSE <<>>

\* get_sibling: the children of the parent directory, whose key is the
\* target's key up to its last '/' ("" when there is none).
SiblingParent(e) == [path |-> Front(e.path), kind |-> "dir", key |-> Join(Front(e.path))]

\* collect_children: depth first, each entry before its descendants.
RECURSIVE CollectChildren(_, _)
CollectChildren(t, e) ==
    LET cs == GetChildren(t, e) IN
    FlattenSeq([i \in 1..Len(cs) |->
        <<cs[i]>> \o (IF cs[i].kind = "dir" THEN CollectChildren(t, cs[i]) ELSE <<>>)])

\* The siblings of a missing or file target whose names start with its name.
Matching(t, target) ==
    SelectSeq(GetChildren(t, SiblingParent(target)),
              LAMBDA s : IsPrefix(Last(target.path), Last(s.path)))

Take(s, n) == SubSeq(s, 1, IF n < Len(s) THEN n ELSE Len(s))

\* list_objects: seed, expand, then keep files with a sidecar after the
\* cursor and take `limit`.
ListObjects(t, p, aft, lim) ==
    LET target == FileForKey(t, p)
        sib    == Matching(t, target)
        seeded == IF target.kind = "dir"
                  THEN <<target>> \o CollectChildren(t, target)
                  ELSE FlattenSeq([i \in 1..Len(sib) |->
                           IF sib[i].kind = "dir" THEN CollectChildren(t, sib[i]) ELSE <<sib[i]>>])
    IN  Take(SelectSeq(seeded, LAMBDA e : e.kind = "file" /\ HasMeta(t, e) /\ BytesLess(aft, e.key)), lim)

\* list_objects_short: the target directory and its children, or the
\* matching siblings; directories are kept as common prefixes.
ListObjectsShort(t, p, aft, lim) ==
    LET target == FileForKey(t, p)
        seeded == IF target.kind = "dir" THEN <<target>> \o GetChildren(t, target)
                  ELSE Matching(t, target)
    IN  Take(SelectSeq(seeded, LAMBDA e : (e.kind = "dir" \/ (e.kind = "file" /\ HasMeta(t, e)))
                                         /\ BytesLess(aft, e.key)), lim)

\* list_bucket: any delimiter value, the empty one included, selects the
\* short listing.
ListBucket(t, p, d, aft, lim) ==
    IF d = "absent" THEN ListObjects(t, p, aft, lim) ELSE ListObjectsShort(t, p, aft, lim)

\* A page's keys exceed every key listed before and ascend within it.
Ascending(objs) ==
    /\ IsSorted([i \in 1..Len(objs) |-> objs[i].key], BytesLess)
    /\ \A e \in ToSet(objs), s \in seen : BytesLess(s.key, e.key)

Init ==
    /\ tree \in Trees
    /\ prefix \in PrefixParams
    /\ delim \in Delims
    /\ limit \in Limits
    /\ after = <<>>
    /\ seen = {}
    /\ ascending = TRUE
    /\ phase = "listing"

\* One request of the paginator and its answer: list, panic on a delimiter
\* other than "/" or "", and report IsTruncated with the last key as the
\* next token whenever the page is non-empty.  list_objects_v2 (token in
\* continuation-token) and list_objects (v1, token in marker,
\* answered as NextMarker) take the same steps, so one action models both.
\* The client sends the next request with that token, or stops.
ListPage ==
    LET objs == ListBucket(tree, prefix, delim, after, limit) IN
    /\ phase = "listing"
    /\ IF delim = "other"
       THEN phase' = "failed" /\ UNCHANGED <<after, seen, ascending>>
       ELSE IF objs = <<>>
       THEN phase' = "done" /\ UNCHANGED <<after, seen, ascending>>
       ELSE /\ seen' = seen \cup ToSet(objs)
            /\ ascending' = (ascending /\ Ascending(objs))
            /\ after' = objs[Len(objs)].key
            /\ UNCHANGED phase
    /\ UNCHANGED <<tree, prefix, delim, limit>>

Halted == phase \in {"done", "failed"} /\ UNCHANGED vars

Next == ListPage \/ Halted

Spec == Init /\ [][Next]_vars

-----------------------------------------------------------------------------
\* Every entry one unbounded request returns, from the start.
MaxEntries == Cardinality(tree.files \cup Dirs(tree)) + 1
AllEntries == ListBucket(tree, prefix, delim, <<>>, MaxEntries)

(* Listing pagination (spec.md 10): paging with after = the last key of   *)
(* the previous page, from after = "", visits every entry the listing     *)
(* holds exactly once, in ascending key order.  Relates the pages of      *)
(* list_objects / list_objects_short to the sort in get_children and the  *)
(* `object_key() > after` filter.                                         *)
PaginationVisitsEachOnce ==
    phase = "done" =>
        /\ ascending
        /\ seen = ToSet(AllEntries)
=============================================================================
