# TLA+ models of rust-s3-server

This directory is a model-checking project for the S3-compatible object store
in `src/src/`. It covers a Rocket HTTP server whose handlers store buckets as
directories and objects as files. Each module is translated from the Rust
source. The `map` section of `PROJECT.json` gives the lines each definition
models.

## 1. The system

### Components, their state and operations

| Component | Source | State it keeps | Operations |
|---|---|---|---|
| Sequencer | `sequencing.rs` | `AtomicU64` counter, starts at 0 | `next()` returns `<millis>_<n>` and increments with `fetch_add` |
| Chunked-body decoder | `chunk_to_raw.rs` | `UndoReader` pushback buffer and an MD5 hasher for one request | `copy_chunk_to_raw`, `read_chunk_header`, `copy_fixed_bytes`, `skip_n_bytes`, `copy_direct` |
| Bucket store: single-shot objects | `fsapi.rs` `Bucket` | files `base/key` and `base/key@@META@@`, and their directories | `save_object`, `get_object_by_key`, `get_object_meta`, `read_object`, `delete_object` |
| Bucket store: multipart | `fsapi.rs` `Bucket` | files `_staging/<uploadId>_<n>` and their sidecars | `gen_upload_id`, `save_object_part`, `merge_part`, `cleanup_upload_id` |
| Bucket store: listing | `fsapi.rs` `Bucket`, `S3Object` | none (reads the directory tree) | `list_objects`, `list_objects_short`, `get_children`, `get_sibling`, `collect_children` |
| Root store | `fsapi.rs` `FS` | the root directory, `_staging`, the shared sequencer | `initialize`, `make_bucket`, `get_bucket`, `get_all_buckets` |
| Range parser | `request_guards.rs` `RangeHeader` | none | `parse_range`; the range arithmetic is in `main.rs` `get_object` |
| Request classifier | `request_guards.rs` guards, route ranks in `main.rs` | none | one `FromRequest` guard per S3 operation, plus `ChunkedEncoding` and `AuthCheckPassed` |
| Route handlers | `main.rs` | none (each request runs as its own tokio task) | `put_object`, `put_object_part`, `get_object`, `delete_object`, `delete_object_multi`, `create_multipart_upload`, `complete_multipart_upload`, `cleanup_multipart_upload`, `list_objects(_v2)`, `list_all_buckets`, `create_bucket`, `get_bucket_location` |
| Response builder | `s3resp.rs`, `cachedfile.rs`, XML in `main.rs` | none | status, headers and sized bodies |
| Configuration, logging, errors | `states.rs`, `s3error.rs`, `ioutil.rs`, `test.rs` | CLI arguments | not part of the protocol |

### How the components interact

- Rocket runs every request as a tokio task on a multi-threaded runtime.
  Requests share only the file system and the sequencer: there is no lock
  anywhere.
- A handler classifies the request with a guard, looks up the bucket
  (`FS::get_bucket`) and calls the bucket store. The store streams the body
  through the chunked decoder into a file under `_staging`.
- A single-shot PUT publishes with two `rename`s: data first, then the sidecar.
  Both rename errors are ignored (`fsapi.rs:704,706`).
- A multipart completion writes the destination **in place**: it truncates
  `base/key` and appends each staged part to it (`fsapi.rs:610-628`).
- A GET makes separate calls for each step: stat the path, open it, read the
  sidecar, stat the path again for the length, then stream from the opened
  descriptor (`main.rs:357-406`).
- A DELETE removes the data file, then the sidecar, then tries to remove the
  key's parent directory (`fsapi.rs:564-569`).

### What makes it hard

- **Interleaving at every system call.** Two requests on one key, or on keys
  of one directory, interleave between any two file-system calls. This holds
  for the `std::fs` calls too, because other worker threads keep running.
- **Crashes.** Everything is on disk, so a process that dies between two
  calls leaves the state half-done. The restarted server reads that state as
  it is.
- **Client behaviour.** A client may abort a body, send a malformed chunk, or
  retry a request that already took effect (`CompleteMultipartUpload` in
  particular). It may also complete an upload that has a gap in its part
  numbers; the models leave that case out (`Multipart` completes only the
  parts it sent, numbered from 1).
- **Numeric edges.** `usize` subtractions in the range arithmetic, an `i32`
  parse of `Content-Length`, a loop bound of `rr - 1`, and the `counter > 10`
  and `counter > 1000` limits of the cleanup loop.

### What makes each component correct

- **Bucket store.** An object is replaced as a whole or removed, at one
  instant. A 200 means the write took effect. When no request runs, a
  visible object's sidecar describes its bytes. A GET returns one complete
  version of the object. Completing an upload yields `P1 ++ ... ++ Pn`.
  Abort and complete leave no staged parts behind.
- **Chunked decoder.** Decoding an encoded body yields the body and its MD5.
  A malformed or truncated body ends in an error. Every request ends.
- **Listing.** Paging with `after = last key` visits every key exactly once,
  in ascending order. Files without a sidecar are hidden.
- **Root store and bulk delete.** A request on bucket `b` changes nothing
  outside `b`'s directory. A bucket, once created, is never removed through
  the API.
- **Classifier.** Each request shape maps to the operation in spec.md 4.6, or
  to none. Route ranks make the choice unique.
- **Range.** `Content-Length` equals the number of bytes sent, and it never
  underflows.

## 2. Plan

The modules are listed in build order, most important behaviour first.

1. **`ObjectStore`** and **`KVStore`** (done). Single-shot PUT, GET and
   DELETE as concurrent tasks over a POSIX-like file system, refining an
   atomic key-value store.
2. **`Multipart`** (done). `save_object_part`, `merge_part` and
   `cleanup_upload_id` with their handlers, composed with the `ObjectStore`
   GET. **`AbortCleanup`** (done) is the probe loop of `cleanup_upload_id`
   over any set of part numbers.
3. **`ChunkDecoder`** (done). `copy_chunk_to_raw` over a small byte
   alphabet, with the `UndoReader` pushback and the `ChunkedEncoding` mode
   detection, checked against the encoder of the AWS SDK framing.
4. **`Listing`** (done). `list_objects` and `list_objects_short` over a
   small directory tree, with pagination by a client as a behaviour.
5. **Classifier** (done, in `RequestGuards`). The guards and route ranks,
   checked against the table of spec.md 4.6.
6. **Range** (done, in `RequestGuards`). `parse_range` and the `get_object`
   length arithmetic on `usize`.
7. **`BulkDelete`** (done). The root store (`make_bucket`, `get_bucket`,
   `get_all_buckets`) and `delete_object_multi` over a file system whose
   paths resolve component by component, as the kernel resolves them.

Also left: two part uploads of the same number racing each other (the model
lets a part be re-sent only after its previous attempt ended), and an abort
concurrent with a part upload.

## 3. Modules

### `ObjectStore.tla` (bucket store, single-shot operations)

| Model | Code |
|---|---|
| `fs`: path to inode; `node`: inode contents | the file system under the bucket and `_staging` |
| `dirs` | sub-directories created by `ensure_parent` and removed by `delete_object` |
| `seq` | `Sequence.seq` |
| `req[p]` | the local state of the handler running in slot `p` |
| `written` | history variable: every body fully received for a key |

- **PUT** (`main.rs` `put_object` calling `save_object`):
  - `PutBegin` takes a sequencer token, creates the staged file and its empty
    sidecar, and runs `ensure_parent`.
  - `PutCopy` moves one block per step.
  - `PutSaveMeta` writes `{etag, size}`.
  - `PutFail` is the 500 path: client abort, malformed chunk or write error.
  - `PutRenameData` and `PutRenameMeta` are the two renames. Each fails
    silently when the key's directory is gone.
- **GET** (`get_object`): `GetStat` stats, `GetOpen` opens, `GetEtag` reads
  the sidecar (it panics, giving a 500, when the sidecar is missing or empty),
  `GetSize` stats the path again, and `GetStream` sends a sized body from the
  opened inode. The Range header is modelled in `RequestGuards`.
- **DELETE**: `DelRemoveData`, `DelRemoveMeta`, then `DelRemoveParent`, which
  removes the parent directory if it is empty.
- **`Crash`**: every in-flight request is lost and every file stays. Staging
  names embed the clock's milliseconds, so the next process never reuses a
  name, and the model never resets `seq`.

`SerialScope` states what clients are assumed to avoid: `"none"` (no
restriction), `"key"` (no two concurrent writers of one key) or `"dir"` (no
two concurrent writers in one sub-directory). GETs are never restricted.

`MCObjectStore.tla`: 2 request slots; keys `x` (top level) and `d/y` (the
`sibling_delete` run uses `d/y` and `d/z`); bodies `<<a,b>>` and `<<b>>`;
2 PUTs (`MaxPuts`). Two PUTs give an overwrite, two concurrent PUTs and a
crash between renames. The bodies have two lengths and neither is a prefix
of the other, so a torn read shows up as a body nobody sent. The top-level
key makes `DelRemoveParent` take both branches.

### `KVStore.tla` (abstract specification)

A map from keys to bodies, plus one pending write per slot. Each write moves
through the phases `open`, `committed` (the store changes at this one instant),
then `ok` or `error`; a crash drops requests in flight. `ObjectStore` maps to
it: the abstract store is the content of each key's data file; a writer is
`committed` once its rename (PUT) or remove (DELETE) of the data file has
happened; 200 is `ok`, 500 is `error`, and a crash drops the request.

### `Multipart.tla` (multipart upload, composed with GET)

`Multipart` EXTENDS `ObjectStore` and adds the steps of one upload id (ids
are ten random characters, so uploads never share staged names):

- **UploadPart** (`put_object_part` / `save_object_part`): `PartStart`,
  `PartBegin` (create `_staging/<u>_<n>` and its sidecar), `PartCopy`,
  `PartSaveMeta`, `PartFail`.
- **Complete** (`complete_multipart_upload` / `merge_part`): `CompleteStart`,
  `MergeCreate` (`File::create` of `base/key`, which truncates the live
  inode), `MergeProbe` per part number, `MergeCopy`, `MergeConsume` (removes
  the part and its sidecar), `MergeCreateMeta`, `MergeSaveMeta`.
- **Abort** (`cleanup_multipart_upload`): `AbortStart`, `AbortStep` (one
  iteration of the probe loop).
- `MPCrash` as in `ObjectStore`; GETs of `ObjectStore` race all of it.

History variables `parts` (the client's last attempt per part number) and
`closing` (whether the client has sent a completion or an abort) state what
the client did. A client concludes only after its part uploads ended
(`MayConclude`); `ClientRetries` lets it re-send a completion whose answer it
lost. `MCMultipart.tla`: part numbers `{1,2}`, blocks `{a,b}`, bodies
`<<a,b>>` and `<<b>>`, 2 slots, one top-level key.

### `AbortCleanup.tla` (the abort probe loop)

The loop of `cleanup_upload_id` alone, one iteration per step, from any set of
staged part numbers in `1..MaxPart`. `MaxPart = 13` is the smallest bound that
reaches a part after the `counter > 10` exit.

### `ChunkDecoder.tla` (request-body decoder)

| Model | Code |
|---|---|
| `chunked` | the mode `ChunkedEncoding` chose |
| `src` | the `UndoReader`: pushed-back bytes, then the body stream |
| `pc` | where `copy_chunk_to_raw` is: header, chunk copy, CRLF skip, direct copy, done, failed |
| `chunk`, `remaining` | the chunk size and `copy_fixed_bytes`' remaining |
| `out`, `total` | bytes written to the staging file, the count returned |

Actions: `ReadHeader` (`read_chunk_header`, with its zero-padded 512-byte
buffer of which everything after the first CRLF is unread), `CopyFixed`
(one iteration of `copy_fixed_bytes`; a 0-byte read is a stuttering
step), `SkipCrLf` (`skip_n_bytes(2)`), `CopyDirect` (`copy_direct`) and
`Halted`. The crate source of `UndoReader` is not in the repository; the
model assumes only that a read returns a non-empty prefix of what is left, of
at most the buffer size, and that `unread` prepends. A panic and an `Err`
both give a 500, so they are one outcome, `failed`.

`MCChunkDecoder.tla` builds the requests: chunks of 1 or 2 bytes over
`{a,b}`, at most 2 chunks, framed with `<hex>;s` lines (the SigV4 streaming
framing, signature shortened) or plain `<hex>` lines, under both framing
signals (SigV4 lengths, `Transfer-Encoding: Chunked`); every prefix of each
SigV4 framing; and plain bodies of up to 3 bytes. `HdrBuf = 6` and
`DataBuf = 3` are smaller than a framing, so a header read overreads into the
data and the next header, and a data read overreads into the CRLF, which is
what exercises the pushback. `UsizeMod = 256`.

### `RequestGuards.tla` (dispatch and range arithmetic)

A request is abstracted to its method, number of path segments, query keys,
`list-type` value, whether `partNumber` parses as `u32`, a Range header and
the file size. `Routes` lists the 14 routes of `main.rs` with their ranks;
`Classify` takes the candidate whose guard passes with the lowest rank
(Rocket tries routes in rank order, a guard that forwards passes the request
on), or 404. `SpecOp` is the reference: the first row of the spec.md 4.6
table that matches, with route rank breaking ties as the spec says.
`Dispatch` classifies; `ServeGet` answers a GET from `ParseRange` and
`ContentLengths` (the `usize` subtractions of `get_object`, where a debug
build panics and a release build wraps). `MCRequestGuards.tla`: every method
of four, 0..3 segments, every subset of six query keys; ranges absent,
suffix, multiple, open and closed over offsets `0..3` and `UsizeMod`; files of
0..3 bytes; `UsizeMod = 16`.

### `Listing.tla` (object listing and pagination)

| Model | Code |
|---|---|
| `tree`: `files` (paths) and `metas` (files that have a sidecar) | the bucket directory; sidecars never appear as entries |
| a path: a sequence of names; a name: a sequence of bytes | `PathBuf` components; keys compared as `str` (bytes) |
| `prefix`, `delim`, `limit`, `after` | the query parameters of `list_objects_v2` and `list_objects` (v1); `after` is the continuation token or marker |
| `seen`, `ascending` | history: the entries of all pages so far, and whether every page was ascending and beyond all before it |

The operators translate the read side of `fsapi.rs`: `FileForKey`,
`SiblingParent`, `GetChildren` (sorted by last name, as `PathBuf` orders one
directory, each child keyed `{parent_key}/{name}`), `CollectChildren` (depth
first), `Matching`, `ListObjects` (deep) and `ListObjectsShort` (one level,
directories kept as common prefixes). `ListPage` is one request of a
paginating client and its answer: a delimiter other than `/` or `""` panics
(500), an empty page ends the listing, and any other page sets
`IsTruncated` with its last key as the next token. The tree is fixed while
it is paged (concurrent writes are `ObjectStore`'s subject).

`MCListing.tla`: names `a`, `a.` and `b`, at most two levels, every
consistent set of such files, each with or without its sidecar; prefixes
`""`, `a`, `a.`, `b`, `a/b`; max-keys 1, 2, 100. The names are chosen so that
`'.' < '/'` makes the directory order and the key order disagree: `a.` sorts
after `a` as a name but before `a/...` as a key.

### `BulkDelete.tla` (root store and bulk delete)

| Model | Code |
|---|---|
| `files`, `dirs`: absolute paths (sequences of names) that exist | the file system; the storage root is `<<StoreRoot>>` |
| `bulk`: `st`, `bucket`, `keys`, `i`, `reply` | the local state of `delete_object_multi` and its loop index |
| `listed` | the bucket names the last `list_all_buckets` answered |

Keys of a bulk delete come from the XML body. Unlike keys in a URL path,
they never pass Rocket's segment checks, so here a key is its sequence of
`/`-separated segments and is checked only by `ValidKey` (`valid_key`).
`Walk` resolves a path the way the kernel does: `""` and `.` stay, `..`
goes up, and every component before the last must be a directory.
`Unlinked` and `Rmdired` are `remove_file` and `remove_dir` (an empty
directory only, never through a final `.` or `..`). `LexicalParent` is
`Path::parent`.

- `DeleteObject` is the four calls of `delete_object`, all errors ignored.
- `BulkStart` answers 404 for a missing bucket, answers 400 for a body that
  is not UTF-8, or starts the loop. `BulkDeleteKey` is one iteration.
  `BulkReply` answers 200.
- `CreateBucket` is `create_bucket` with `MakeBucket`, and answers 200 either
  way. `ListAllBuckets` is `list_all_buckets`. Its `get_all_buckets`
  re-creates `_staging`, and the names it answers are kept in `listed`.

`MCBulkDelete.tla`: a root `data` with `_staging`, bucket `b1` (objects `k`
and `d/k`), bucket `b2` (object `k`), and no `b3` until it is created. The
keys are the ones a client uses (`k`, `d/k`, `k/`) and one probe for each
rule of `valid_key` (a leading `/`, an inner `/../`, `/./`, a forbidden
character, the `@@META@@` suffix), plus keys that start with `..`.

## 4. Runs

| Run | Module | Checks | Result and meaning |
|---|---|---|---|
| `store_refines` | `MCObjectStore` | `TypeOK`, `KVRefinement`; writers serialised per directory; crashes | **pass**: single-shot writes are atomic and a 200 follows the write, even across crashes |
| `sibling_delete` | `MCObjectStore` | `KVRefinement`; writers serialised per key only | **violation**: finding 1 |
| `torn_get` | `MCObjectStore` | `GetBodyIsCompleteVersion` | **violation**: finding 2 |
| `mp_complete` | `MCMultipart` | `MPTypeOK`, `AssembledIsConcatenation`, `StagingClearedWhenConcluded`; failures, re-sent parts, crashes | **pass**: one completion gives the concatenation of the acknowledged parts with a matching sidecar; complete or abort leave nothing staged |
| `mp_retry_complete` | `MCMultipart` | `AssembledIsConcatenation` with `ClientRetries` | **violation**: finding 3 |
| `abort_gap` | `AbortCleanup` | `AbortRemovesAllParts` | **violation**: finding 4 |
| `decode_safety` | `MCChunkDecoder` | `TypeOK`, `DecodeMatchesEncoding`, `CompleteBodyEnds` | **pass**: the decoder succeeds exactly when the body reached the size-0 chunk, and then writes the payload and returns its length; every body sent whole (plain, or framed up to its size-0 line) is decoded to `done` or `failed` under every read-size interleaving |
| `decode_cut_spin` | `MCChunkDecoder` | `DecoderTerminates` (cut bodies) | **violation**: finding 5 |
| `routing` | `MCRequestGuards` | `RoutesFollowTable`, `RangeAsSpecified` | **pass**: dispatch picks the spec.md 4.6 operation for every request shape; ranges inside the file are answered as spec.md 8 says |
| `list_short` | `MCListing` | `PaginationVisitsEachOnce`; any delimiter | **pass**: paging a delimited listing visits every entry once, in ascending order |
| `list_deep_skips` | `MCListing` | `PaginationVisitsEachOnce`; no delimiter | **violation**: finding 6 |
| `bulk_delete_escapes` | `MCBulkDelete` | `DeletesStayInBucket` | **violation**: finding 7 |

Every property of a passing run has a mutant in `PROJECT.json`: a plausible
bug in the mapped code that the run detects.

### Findings

1. **A PUT can be acknowledged and never stored.** `PUT d/y` runs
   `ensure_parent` and streams its body; `DELETE d/z` removes the now-empty
   `d` (`fsapi.rs:567-569`); the PUT's `rename` fails and `fsapi.rs:704`
   ignores the error. The handler answers 200 and the body stays in
   `_staging`.
2. **GET can return a torn body.** `get_object` opens the file
   (`main.rs:370`) and later stats the path for the length (`main.rs:374`).
   A PUT renamed in between makes the response a prefix of the old body, or
   cuts it short. spec.md 5 says a reader sees the pre- or post-state.
3. **A re-sent completion empties the object.** `merge_part` truncates
   `base/key` with `File::create` (`fsapi.rs:610`) before it looks for parts;
   the retry finds none and answers 200 with an empty object.
4. **Abort leaves parts behind a short gap.** `cleanup_upload_id` stops at
   the first missing number once the counter exceeds 10 (`fsapi.rs:462`):
   parts `{2, 12}` leave 12 staged. spec.md 4.3 says the loop tolerates gaps
   until 10 consecutive numbers are missing.
5. **A body that ends inside a chunk spins the handler forever.**
   `copy_fixed_bytes` (`chunk_to_raw.rs:117`) loops on 0-byte reads; the
   counterexample is the cut body `2;s\r\n`, whose zero padding gives one
   byte and then nothing. That trace relies on the model's 6-byte header
   buffer: with the code's 512-byte buffer the padding covers a 2-byte
   chunk, and that body ends in a panic (500) instead. In the code the spin
   needs a chunk larger than the padding pushed back, or a header read that
   filled the whole buffer, then an end of stream inside the chunk. spec.md
   says a truncated body ends in an error.
6. **Paging a listing without a delimiter skips keys.** `list_objects`
   emits entries in depth-first directory order (`collect_children`), but
   filters them with `key > after` (`fsapi.rs:387`) as if they were in key
   order. With files `a/b` and `a.`, the listing is `/a/b`, `/a.`, while
   `"/a." < "/a/b"` as bytes (`'.' < '/'`). With max-keys 1, the second page
   (after `/a/b`) drops `/a.`, and the client never sees it. spec.md 10 says
   pagination continues strictly after the last key returned. The traces also
   show that every key of a listing from the bucket root starts with `/`
   (`get_children` keys children `"{parent_key}/{name}"` with an empty parent
   key); listing and paging are consistent with each other in that respect.

7. **A bulk delete removes files and buckets outside its bucket.**
   `delete_object_multi` passes the keys of the XML body to
   `delete_object`, and those keys never go through Rocket's path checks.
   `valid_key` (`fsapi.rs:490`) refuses `/../` inside a key, but not a key
   that starts with `../`. On bucket `b1`:
   - `../_staging` removes the shared staging directory (TLC's shortest
     trace).
   - `../b2/k` deletes object `k` of bucket `b2`, then `b2` itself if it is
     left empty.
   - `../b3` removes an empty bucket `b3`.

   A key ending in `/` removes an empty bucket too: the lexical parent of
   `<base>/k/` is the bucket directory (`fsapi.rs:567-569`). spec.md 3 says
   a bucket is destroyed only by administrative means. The same gap lets
   `list_objects` with prefix `../b2` list another bucket (a hazard).

Three further disagreements are listed as hazards rather than run:

- A range past the end of a file (`main.rs:392`). The declared
  Content-Length `b-a+1` exceeds the `S-a` bytes sent.
- The sidecar left by a crash between the two renames of an overwrite. It
  describes the old bytes. Sidecar consistency is best-effort by spec.md 5.
- A GET streaming a half-merged object during a completion
  (`fsapi.rs:621`). It has the same cause as finding 2: reads are not
  serialised against an in-place write.

## 5. Fairness

Only `decode_safety` (`CompleteBodyEnds`) and `decode_cut_spin` check
liveness. `ChunkDecoder.Spec` has
`WF_vars(Next)`: the decoder is one tokio task that is never blocked on
another, and the body in the model is fully sent, so each read it awaits
completes. The spin of finding 5 is a stuttering step (a 0-byte read changes
nothing), and TLC reports it as a behaviour that stutters forever in `copy`.
`CompleteBodyEnds` is the positive half: when the whole body was sent, the
same fairness brings every decode to an end, so the spin needs a cut body.
`AcceptHeader` binds the size token with `\E tok \in {SizeToken(h)}`
rather than a LET so that TLC's evaluation of `ENABLED` for the fairness
condition computes it once.
No other run assumes fairness; client actions and crashes are never fair.

`Listing` checks no progress property. Each page's token is a key that
passed the `key > after` filter, so it moves up in byte order whichever
entry the handler picks; that follows from the filter alone and is not
checked as a separate property. Whether a client keeps paging is up to the
client, which the code cannot force.

## 6. Not modelled

- The regex of `parse_delete_keys`: `BulkDelete` enumerates the key lists it
  can produce. The check-then-create race in `make_bucket` is one step,
  because `create_dir_all` is idempotent and `create_bucket` answers 200
  either way.
- The `/backdoor` route and `AuthCheckPassed` (bucket and key names are
  abstracted away).
- Two PUTs of one key interleaving their sidecar renames, and a crash
  between the two renames. spec.md 5 calls sidecar consistency best-effort.
  Both are listed as hazards.
- A part re-sent while its first attempt still streams, and an abort racing
  a part upload. `Multipart` keeps the client to one attempt per part number
  at a time, and to conclude only after its part uploads ended. Listed as
  hazards.
- Negative chunk sizes (`i64` parse, `as usize` cast) and lengths of 2 GiB or
  more (`i32` parse in `ChunkedEncoding`). Both are listed as hazards.
- XML and header formatting, logging, the CLI, MD5 (an etag is a model
  value), `test.rs`, `ioutil.rs` and `s3error.rs`.
