# Formal models of los-cara

los-cara is an S3-compatible object server (axum, hyper and tokio) that keeps
buckets and objects as files under one data directory. This directory holds
TLA+ models of it, the TLC runs that check them on small instances, and proofs
checked by TLAPS for instances of any size. Line numbers are those of the
repository (`src/storage.rs:285` is the file `src/storage.rs`, line 285).

## The system

| component | state it keeps | operations |
|---|---|---|
| object engine (`storage.rs` 281-550) | per object a directory with `meta.json` and `<uuid>.data` files, staged files under `tmp/`, in memory one lock per key | `put_object`, `head_object`, `get_object_range`, `delete_object`, `copy_object`, `gc_object_dir` |
| S3 object handlers (`s3.rs` 647-988) | none; the body's running digests | digest check and rollback of a PUT, conditions and ranges of a GET, DeleteObjects, COPY |
| multipart uploads (`storage.rs` 652-913, `s3.rs` 1125-1370) | per upload a directory with `manifest.json` and one file per part | create, upload part (also by copy), list, complete, abort |
| buckets (`storage.rs` 196-279, `s3.rs` 486-643) | per bucket a directory with `meta.json` | create, head, list, delete if empty |
| listing (`storage.rs` 555-650, `s3.rs` 992-1121) | none | pages of keys and common prefixes, continuation tokens |
| credentials (`auth.rs` 22-101, `config.rs`) | `keys.json`; in memory the keys and the file's last signature | reload on change, look-up, add and remove a key from the command line |
| aws-chunked bodies (`auth.rs` 505-659, `s3.rs` 161-214) | decoder state, running digests, first error | push bytes, end of stream |
| SigV4 (`auth.rs` 103-501) | none | verify a request's signature |
| server shell (`config.rs`, `main.rs`, `error.rs`, `xml.rs`) | none | command line, TLS, CORS, XML, error table |

How they interact: hyper runs one future per request. The middleware
authenticates it, wraps its body in the decoder and digests, and the router
calls a handler, which awaits engine operations. Every await is a point where
other requests run. File operations run on tokio's blocking pool. Writers of a
key exclude each other by the key's `tokio::sync::Mutex`; readers take no lock;
multipart manifests and buckets have no lock at all. When a client goes away,
hyper drops the handler's future: its guard is released, but a file operation
already handed to the blocking pool still runs.

What makes it hard: the interleaving of unlocked readers with writers that
remove files, checks made before a lock is taken (copy source, bucket existence,
manifest), multi-file updates cut short by a crash or a dropped future, ignored
errors of the file system, and digests compared after the object is installed.

What must hold, per component:

- **Objects.** A key behaves as one atomic register for its clients, crashes
  included; metadata always names a complete data file; what a GET streams fits
  the etag it sends; a failed write changes nothing; no file leaks; readers
  never wait for writers; every request ends if its client keeps sending.
- **Multipart.** An acknowledged part is in the manifest; a completed object is
  the listed parts, in order, each with the content of its etag; staged parts
  outlive a failed complete; an acknowledged abort is final; staging is
  invisible.
- **Buckets.** A deletion destroys nothing that was acknowledged before it began
  and strands no upload; an acknowledged bucket serves until its deletion is
  asked for, whatever an interrupted deletion left behind.
- **Listing.** Following the tokens enumerates each key that is there all the
  time, or its common prefix, exactly once, in order, and ends.
- **Reads.** Who is served has asked for no other version; a part is the part
  asked for; no response has more bytes than it announces.
- **Credentials.** A request is judged by a secret that was in force while it was
  served, neither an older one nor none; the root key always wins; a change that a
  command has acknowledged takes effect.
- **Bodies.** What is stored of signed chunks begins with chunks the client has
  signed, in their order; an upload that is acknowledged as signed is whole; one
  that arrives unharmed is accepted however it is cut into pieces.

## Modules

| module | what it is |
|---|---|
| `ObjectStore` | the object engine and the control of the S3 handlers around it |
| `AtomicStore` | what the object engine promises: an atomic map from keys to contents |
| `MCObjectStore` | symmetry sets for TLC |
| `ObjectStoreProofs` | inductive invariants and theorems about `ObjectStore` |
| `RefinementProofs` | the proof that `ObjectStore` implements `AtomicStore`, and theorems about what it keeps and leaves behind |
| `Multipart` | uploads in parts to one object key |
| `MCMultipart` | part lists and symmetry for TLC |
| `MultipartProofs` | inductive invariants and theorems about `Multipart` |
| `Buckets` | creating and deleting buckets among the operations inside them |
| `BucketsProofs` | inductive invariants and theorems about `Buckets` |
| `MCBuckets` | symmetry for TLC |
| `Listing` | pages and tokens of ListObjects and ListObjectsV2, among writers |
| `Retrieval` | conditions and ranges of GetObject and HeadObject, among writers |
| `Reads` | one listing or one get at a time: the composition of the two |
| `ListingProofs` | byte order, groups, what a page holds, and the inductive invariant of a listing |
| `ReadsProofs` | range arithmetic, the inductive invariant of a get, and theorems about gets and listings |
| `MCReads` | keys, queries and requests for TLC |
| `Credentials` | keys.json between the server's cache and the commands |
| `Upload` | a body from the wire to the object: decoder, digests, acknowledgement |
| `UploadProofs` | what the decoder does with any stream, the inductive invariant and theorems about `Upload` |
| `Authentication` | the keys, or one accepted upload: the composition of the two |
| `AuthenticationProofs` | inductive invariants and theorems about `Credentials`, and about uploads beside them |
| `MCAuthentication` | requests, changes and contents for TLC |

### ObjectStore

One request is one HTTP call; its `pc` is the step it is about to take, and each
action is the code between two awaits. `Receive` is `dispatch`. The steps are

- GET/HEAD: `Head` (the handler's first `head_object`), `Lookup` (the second,
  inside `get_object_range`), `Open` or `OpenFails`;
- PUT: `Stage` (lock, create the temporary file), `BodyEnds`/`BodyFails`,
  `Rename` (flush, sync, rename into the object's directory), `Install`
  (`write_json_atomic`), `List` and `Collect` (`gc_object_dir`), `Finish`
  (unlock; compare the digests; on a mismatch continue as a DELETE);
- DELETE and the rollback of a PUT: `DeleteMissing`, or `DeleteFound`, `Unlink`,
  `Remove`;
- COPY: `Source` (read the source's metadata, no lock), `LockTarget`, `Link`
  (or the copy in its place), then `Install` as a PUT does; `LinkFails` leaves
  nothing, `CopyFails` (the copy, or the hash of it under REPLACE) a data file that
  no metadata names.

`meta`, `data` and `tmp` are the files on disk; `lock` is the in-memory lock
map. The uuid a write draws for its data file is the request itself, so no
counter is needed. An etag is the content it is the MD5 of. `Corrupt` are the
contents whose digest is not the one sent with them.

`Faults` says what may go wrong in an instance:

- `crash`: the process dies between any two steps and is started again: live
  requests are gone, locks are free, files stay. This is a kill of the process;
  loss of power (meta.json is not fsynced) is not modelled.
- `drop`: a request's client goes away. Its lock is released at once. If it was
  awaiting a file operation, that operation may still happen at any later time
  (`detached`), after which the request is gone.
- `io`: file operations fail where the code handles, ignores or cleans up after
  the failure.

The refinement mapping to `AtomicStore` is at the end of `ObjectStore`: a key
holds the content of the data file its metadata names (`"lost"` if there is
none), a PUT, COPY or DELETE takes effect at the rename or removal of
`meta.json`, a GET at its second read of it, a COPY reads its source at `Source`.

Left out: the bucket's existence check (module `Buckets`), the temporary file of
`write_json_atomic` (never read by anybody), user metadata, content type, sizes and
ranges, the order in which tokio's mutex serves its waiters (any order is allowed;
fairness only asks that none is passed over for ever).

### Multipart

An upload is its staging directory: `there` (it exists), `manifest` and `parts`
(the files under `parts/`; `None` when that directory is gone). `made` follows
its creation (`MakeDir`, `MakeManifest`). Requests, with their steps:

- UploadPart: `Load` (existence check), `BodyEnds`/`BodyFails`, `Rename` into
  `parts/` or `RenameFails`, `Reload` and `Save` or `SaveFails` (read and rewrite
  the manifest); a digest that does not match is noticed only after `Save`.
  UploadPartCopy first opens its source object, which changes nothing here, and
  is an UploadPart from there on.
- CompleteMultipartUpload: `Load`, then under the object's lock `Reject` or
  `Begin`, `Assemble` part by part or `AssembleFails`, `Sync`, `Install`,
  `Collect`, and the removal of the staging directory, whose failure is ignored.
- AbortMultipartUpload: `Load` and the removal, whose failure is an error.

`remove_dir_all` (`Scan`, `Erase`, `Erased`, `EraseFails`) lists the directory,
removes the entries one by one in any order, `parts/` after its files, and the
directory at last. Other requests go on meanwhile: what they bring in after the
listing may be missed, and then the directory is not empty and the removal fails.
Whether an entry that another removal took first is an error depends on the
standard library, so both are allowed. It is one job on the blocking pool and
goes on when its request is dropped.

`data` and `linked` are the data files completes write and those that lie in the
object's directory; a file collected while it is written is no longer linked.
The temporary file of a manifest is not modelled, except that `SaveFails` while
a removal runs may be due to it. `gc_object_dir`, one step here, is modelled in
steps in `ObjectStore`; so are staged bodies under `tmp/`. Failing file
operations other than those due to other requests are left out. ListParts and
ListMultipartUploads only read manifests.

### Buckets

A bucket is a directory tree: `tree` has its directories and `meta.json`, `obj`
the objects whose metadata is in place, `uploads` the staging directories in
progress, which lie outside the bucket and name it. Objects and uploads are named
after the request that made them. `Exists` is `bucket_exists`. No lock covers a
bucket: a request checks once and goes on.

- CreateBucket: `CreateCheck`, `MakeDir`, `MakeMeta`.
- DeleteBucket: `Check`; `Walk` and `Visit`, the walk through `objects/` that
  meets each key at a time of its own, or `WalkFails`; `List` and `VisitUpload`,
  the same over the manifests of all buckets; `Scan`, `Erase` and `EraseFails`,
  which are `remove_dir_all`: it lists, removes entry by entry in any order that
  empties a directory before it removes it, and fails if anything came in.
- PutObject, CompleteMultipartUpload, DeleteObject: `Check` (not for a complete,
  which never asks), `Acquire` the key's lock, `MakeDirs`, `Rename`, `Install`,
  or `WriteFails` when the directory is gone; `Unlink`.
- CreateMultipartUpload and AbortMultipartUpload: `Initiate`, `Clean`.

The file operations of the requests are operators of their own (`BucketMade`,
`MetaMade`, `DirsMade`, `Installed`, `Unlinked`, `ManifestMade`, `StagingRemoved`).
`Drop` ends a request at its next await; if it was awaiting one of them, that one is
`late` and may `Land` at any later time, among whatever others do by then, or never.
A removal that is under way goes on as it would have. `Crash` ends all, late
operations and removals included, and may leave half a tree. Bodies, data files and
manifests are in the other two modules; a whole `meta.json` comes and goes in one
step. ListBuckets and HeadBucket read.

`before` is who was done when a deletion began, `steady` the buckets acknowledged
and not asked to be deleted since, `calm` the requests whose bucket was steady
all along. They only serve the properties.

### Listing, Retrieval, Reads

`Listing` is a client that asks for a page, follows the token, and goes on until
a page is not truncated. `Page` is the loop of `list_objects` over the keys in
byte order (`Take` is its body), `NextToken` the token of the handler; keys and
tokens are sequences of bytes because their order and their ends matter.
`all_objects` takes no lock and meets the files in the order of their hashes, so
a page is made of all keys that were `always` there while it was collected and of
any that were there at some time (`ever`); `Put` and `Delete` change the set in
between. A walk that fails because its bucket is deleted under it is left out.

`Retrieval` is one GET or HEAD. `Head` reads the metadata, judges the conditions
(`PreconditionFailed`, `NotModified`) and the range (`Parsed`); `Open` reads the
metadata again and serves that version; `Overwrite` may come at any point. A
range header is the two numbers left after its syntax, or malformed. `Bad` is a text
that is no number, `Largest` the largest that fits; others make the range ignored,
unless its first position is beyond the object, which is judged before the last one
is parsed. The reference is `Wanted`: the set of bytes that a range asks for.

Readers hold no lock and write nothing, so `Reads` follows one of them at a time.

### Credentials, Upload, Authentication

`file` is keys.json with the tick of its last write; `cache` is `CredCache`, the map
and the signature (time and length) it is filed under. A request is `Receive` (it
looks at the file), `Reload` (it takes the cache's lock, compares, reads the file
again if the signature differs; the two reads of the file may see two states of it)
and `Lookup`, whose `Answer` is acceptance or one of two refusals. The refusals
before the look-up (no or an ill-formed authorization, a presigned request that has
expired) neither read nor change any of this state and are not modelled. The server
starts with `Open` (is there a file?), `Create` and `Fill` (one write, as a
command's), `StatFirst`, `LoadFirst`, and may be killed and started again
(`Restart`), each time with any key and secret of `Given`: unless both are there and
not empty, its `RootOf` is the empty key with the empty secret. A command is
`Begin`, `Read`, `Truncate`, `Save`; between the last two the file is empty
(`Torn`), which the server reads as having no keys. `Kill` ends a command anywhere.
Secrets are of one length, so that the length of the file is that of its map. The
clock (`Tick`) need not advance between two writes. Reading a file is one step, and
so is the writing of its contents after the truncation.

`given` is what the file gave a request's key since the request came, nothing
included; `InForce` is that, and for the root key the root's own secret alone. `seen`
and `again` say whether the file has ever had one signature twice; then the cache
cannot know, and the two properties promise nothing. `disturbed` says whether
commands overlapped, were killed, or met the server's first write of the file, and
`wanted` what they amount to.

`Upload` is one PutObject body. Tokens stand for bytes; a chunk header is two
tokens so that a piece may end within it. `Decode` is the loop of
`ChunkDecoder::push` for one token, `Push` a call, `Poll` a `poll_next` of
`ObservingBody`, `Install` and `Check` the handler's. A signature is the list of
chunks it covers. The body on the wire is what the client sent or what harm may
make of it, in pieces cut anywhere. The harms are named: `Misordered` are frames that
are lost, repeated or in another order; `Harmed` a body cut off anywhere, or with one
byte lost or changed, or with one header that claims another size (of `Claims`, or
none at all), has another signature, is no text, or is empty. `Break` is a
connection that ends with an error. The last chunk's header finishes the decoder
before its signature is looked at, and a finished decoder takes no more.

`Authentication` composes them: an accepted request takes its signing key along
and never looks at the credentials again, and an upload changes none of them, so
an instance follows either the keys or one upload.

## Runs

| run | instance | shows |
|---|---|---|
| `store_crash` | 3 requests, 2 keys, 2 contents, crashes | `TypeOK`, `MetaHasItsData`, `AcknowledgedPutSurvives`, `WriteCollects`, `ImplementsAtomicStore` |
| `store_faults` | 3 requests, 2 keys, one good and one bad content, crashes, drops, file errors | `LockExclusion`, `CompleteReads`, `PhantomsHaveACause` |
| `store_live` | 3 requests, 1 key, one good and one bad content, no faults, fairness | `NoLeakAtRest`, `ReadsEnd`, `AllEndIfClientsSend` |
| `multipart` | 3 requests on one upload of 2 parts, 2 contents (one small and with a bad digest), 5 part lists, crashes and drops | `TypeOK`, `CompletedAsListed`, `ObjectInPlace`, `StagedUntilInstalled`, `ListedPartsAreStaged`, `AbortIsFinal` |
| `buckets` | 3 requests on one bucket of 2 keys, any state before, drops with late file operations, crashes | `TypeOK`, `SettledObjectsSurvive`, `SettledUploadsKeepBucket`, `CreatedBucketStays`, `CalmRequestsSucceed` |
| `reads` | listings of 5 keys with 72 queries and 2 changes; gets of 3 sizes with every range up to 5, numbers that do not parse included | `ReadsTypeOK`, `StableKeysAreListed`, `ListedInOrder`, `ListingEnds`, `ServedMeetsConditions`, `PartIsAsAsked`, `AnnouncedLengthHolds` |
| `auth` | 2 connections, 2 commands, 3 keys and 3 secrets (the empty ones among them), root given or not, 2 ticks, restarts and kills; uploads of up to 2 chunks | `AuthTypeOK`, `AcceptedSecretWasInForce`, `SecretInForceIsAccepted`, `CommandsTakeEffect`, `SignedUploadsAreWhole`, `VerifiedIsPrefix`, `HonestUploadsSucceed` |
| `get_races_put` | no faults | violation of `ReaderSeesAVersion` |
| `rejected_put` | one bad content | violation of `AcknowledgedPutSurvives` |
| `dropped_put` | drops | violation of `MetaHasItsData` |
| `lost_part` | 2 requests on one upload, no faults | violation of `AcknowledgedPartIsListed` |
| `root_overridden` | the keys of `auth`, no uploads | violation of `RootAlwaysWins` |

Bounds. In the store, multipart and bucket runs every request is sent once and there
are three of them: a race needs two and a third gives the state they race on (an
object to read, to copy, to overwrite or to collect). Two keys are what a COPY
needs. Two contents tell the old version from the new. Nothing else is bounded
there: there are no counters. Keys, requests and contents are interchangeable, so
symmetry is used wherever no liveness is checked; where a content is singled out as
corrupt, contents are not permuted. In `multipart`, three requests are two parts and
a complete, a part sent twice and a complete, or a part against a complete and an
abort; a second upload would only share the object's lock, for which two completes
of one upload compete already. The lists that clients complete with are nothing, one
part, two parts in order, two in the wrong order, and two of which the first is too
small: one per branch of the validation. In `buckets` the three are a deletion, a
request that it races and one that changes what either meets; the bucket begins in
any state that requests run one by one leave. In `reads` the keys are one that is
another's group, keys in that group and after it, and one that begins with the
delimiter; prefix, delimiter and start are each given or not, starts lie at the
group and within it, pages hold 0 to 2 items, and `Changes` = 2 changes is a key
that goes and one that comes. Sizes 0, 1 and 3 are the empty object, the one whose
first byte is its last, and one with a middle; `Largest` = 4 is beyond all of them.
In `auth` connections are used again and again; `Ticks` = 1 lets two writes share a
tick or not; two commands overlap or follow each other; the server is started with a
root key and secret or without the secret; the file may give the root key another
secret. The contents are none, one chunk, two equal chunks and two unequal ones,
harmed in one way; `Claims` 0 to 3 are sizes below, at and beyond those of the
chunks. `CHECK_DEADLOCK FALSE` because all requests may have ended.

Fairness (`FairSpec`). Weak fairness of each request's own steps: tokio polls
every woken task. Strong fairness of taking a key's lock: the lock of tokio is
FIFO. No fairness for the steps of a client's upload: the server has no timeout
on a body. `ReadsEnd` holds even so; `AllEndIfClientsSend` has the clients'
fairness as its premise.

The other models have no fairness: `ListingEnds` is a bound on the number of pages
instead, which is stronger than that a client that goes on comes to an end.

Findings. Five runs show where the program does not do what its comments and
tests say.

- `get_races_put`: a GET reads `meta.json`, then opens the file it names. An
  overwriting PUT, or COPY, may collect that file in between; the GET then ends
  in an internal error although the key has held an object all the time
  (`storage.rs:15-18` promises the previous or the new version).
- `rejected_put`: the digest check comes after the install, and its rollback
  deletes the key; the object that was there before is lost.
  `tests/integration.rs:624-625` expects it to stay, for another way of failing.
- `dropped_put`: the rename of `meta.json` handed to the blocking pool by a
  request whose client has gone may land after the next PUT's collection; the
  key then names a missing file and every GET fails until the next PUT.
- `lost_part`: two parts of an upload sent at once read the same manifest, and
  the one that writes it last drops the other, although both were acknowledged;
  the complete then fails with InvalidPart. `tests/integration.rs:1270-1279`
  expects both to be listed, and sends them one after the other.
- `root_overridden`: the keys of `keys.json` go into the map after the root key and
  over it, so a file that holds the root key replaces its secret, while `auth.rs:49`
  says that root always wins on conflict.

The models hold four more such disagreements, as exceptions of properties rather than
runs of their own:

- A DELETE ignores the result of removing `meta.json` and goes on to remove the data
  file (`UnlinkFails`, `Remove`). If only the first removal fails, the key stays listed
  and every GET of it fails, while `storage.rs:443` says that listings and GETs never
  see a phantom. `PhantomsHaveACause` says that nothing else that fails leaves one.
- Two commands that run at once read the same file, and the one that writes it last
  drops the other's key, although both have said that theirs was added
  (`main.rs:95-98`); and the server, when it finds no `keys.json`, writes an empty one,
  over the keys that a command has added in between (`Create`, `Fill`).
  `CommandsTakeEffect` excepts both.
- The decoder is marked finished before the last chunk's signature is verified, and
  then takes anything without an error (`Push`), while `auth.rs:576` says that all
  calls after a failure are errors. The body ends at the first error, so no upload is
  acknowledged by it: `SignedUploadsAreWhole` is broken if that one answer is lost.
- Only `STREAMING-AWS4-HMAC-SHA256-PAYLOAD` gets a decoder. Any other `STREAMING-` body
  is accepted and stored with its chunk headers (`Poll`), while `README.md:139` says
  that objects are stored content-intact. `HonestUploadsSucceed` excepts such bodies.

`CompletedAsListed` excepts lists with a part that was sent twice. The exception is
needed: a complete checks etags in the manifest it read first, then reads the part
files, so a part sent again in between gives an object whose etag names other
content. Other exceptions, each stated with its property and each needed:
`ServedMeetsConditions` and `PartIsAsAsked` are about keys not overwritten between
the two reads; the listing properties about pages that may hold something, since
`max-keys=0` in the second API gives a truncated page with an empty token;
`AcceptedSecretWasInForce` and `SecretInForceIsAccepted` about files that never had
one signature twice and that do not give the root key another secret
(`root_overridden`); `CommandsTakeEffect` about commands that neither overlap, nor
meet the server's first write, nor are killed; `SignedUploadsAreWhole` about a
decoder that has seen the last chunk, as the end of a body before it is not noticed.

## Proofs

`ObjectStoreProofs` proves, for any sets of requests, keys and contents:

| theorem | says | assumes |
|---|---|---|
| `TypeCorrect` | `Spec => []TypeOK` | nothing |
| `LockExcludes` | `Spec => []LockExclusion` | nothing |
| `ReadsAreComplete` | `Spec => []CompleteReads` | nothing |
| `MetadataIsIntact` | `Spec => []MetaHasItsData` | `Reliable`: no drops and no file errors |
| `PhantomsAreCaused` | `Spec => []PhantomsHaveACause` | nothing |

`RefinementProofs` proves, for the same instances,

| theorem | says | assumes |
|---|---|---|
| `Refines` | `Spec => ImplementsAtomicStore` | `Reliable`, and `Sound`: no body has a wrong digest |

and of the same module, on what is kept and what is left behind,

| theorem | says | assumes |
|---|---|---|
| `PutSurvives` | `Spec => []AcknowledgedPutSurvives` | `Sound`; any faults |
| `WritesCollect` | `Spec => WriteCollects` | `Reliable` |
| `NothingLeaks` | `Spec => []NoLeakAtRest` | `Faultless`: no faults at all |

and `MultipartProofs`, for any requests, uploads, parts, contents and lists,

| theorem | says | assumes |
|---|---|---|
| `TypeCorrect` | `Spec => []TypeOK` | nothing |
| `AbortEndsUpload` | `Spec => []AbortIsFinal` | nothing |
| `UploadOutlives` | `Spec => []StagedUntilInstalled` | nothing |
| `ListedAreStaged` | `Spec => []ListedPartsAreStaged` | nothing |
| `ObjectStaysInPlace` | `Spec => []ObjectInPlace` | nothing |
| `CompletesAreAsListed` | `Spec => []CompletedAsListed` | nothing |

and `AuthenticationProofs`, for any requests, commands, keys, secrets and ticks, and
any uploads,

| theorem | says | assumes |
|---|---|---|
| `TypeCorrect` | `Spec => []TypeOK` | nothing |
| `AcceptedOnlyInForce` | `Spec => []AcceptedSecretWasInForce` | nothing |
| `InForceIsAccepted` | `Spec => []SecretInForceIsAccepted` | nothing |
| `CommandsAreKept` | `Spec => []CommandsTakeEffect` | nothing |
| `KeysAlongside` | `AuthSpec => Spec`, so all of the above hold of the composition | nothing |
| `BothTyped` | `AuthSpec => []AuthTypeOK` | nothing |
| `UploadsAlongside` | `AuthSpec => [](SignedUploadsAreWhole /\ VerifiedIsPrefix /\ HonestUploadsSucceed)` | nothing |

and `BucketsProofs`, for any requests, buckets and keys,

| theorem | says | assumes |
|---|---|---|
| `TypeCorrect` | `Spec => []TypeOK` | nothing |
| `BucketStays` | `Spec => []CreatedBucketStays` | nothing |
| `ObjectsSurvive` | `Spec => []SettledObjectsSurvive` | nothing |
| `UploadsKeepBucket` | `Spec => []SettledUploadsKeepBucket` | nothing |
| `CalmSucceed` | `Spec => []CalmRequestsSucceed` | nothing |

and `ReadsProofs`, for any finite set of keys, and any queries, contents, sizes
and requests,

| theorem | says | assumes |
|---|---|---|
| `ReadsTyped` | `ReadsSpec => []ReadsTypeOK` | nothing |
| `ConditionsHold` | `ReadsSpec => []ServedMeetsConditions` | nothing |
| `PartsAreRight` | `ReadsSpec => []PartIsAsAsked` | nothing |
| `LengthsHold` | `ReadsSpec => []AnnouncedLengthHolds` | nothing |
| `StableListed` | `ReadsSpec => []StableKeysAreListed` | nothing |
| `InOrder` | `ReadsSpec => []ListedInOrder` | nothing |
| `ListingComesToAnEnd` | `ReadsSpec => []ListingEnds` | nothing |

of which the last three rest on `ListingProofs`,

| theorem | says | assumes |
|---|---|---|
| `PageHolds` | what `Page` answers for any finite set of keys, any query and any start: its items are in order, are those of keys due after the start, leave none of these out up to the last item (or at all, if it is not truncated), and fill the page if it is truncated | nothing |

and `UploadProofs`, for any bytes, any chunks and claims, all the harms named and
any cut into pieces,

| theorem | says | assumes |
|---|---|---|
| `AcknowledgedIsWhole` | `UploadSpec => []SignedUploadsAreWhole` | nothing |
| `VerifiedPrefix` | `UploadSpec => []VerifiedIsPrefix` | nothing |
| `HonestSucceed` | `UploadSpec => []HonestUploadsSucceed` | nothing |

For the object engine the argument is one inductive invariant in four layers,
each inductive relative to those before it:

1. `TypeInv`: types, and `Control`, which ties each step to what the request
   asks for and to what it has read. Without it `Install` could be taken by a
   request that has no content to install.
2. `Locked`: an undropped request inside the guarded code is the holder its
   key's lock records. Exclusion follows because a lock has one holder.
3. `Contents`: every data file and every recorded version was drawn by a write
   that is past that point, and bears that write's content. Since a write draws
   its file once, a version read at any time fits its file at any later time, if
   the file is still there. This is why readers need no lock, and it holds under
   all faults.
4. `Intact`: the file a key's metadata names is there. It needs what a writer
   knows between its own steps (its file before the install, its version after),
   that a collector dooms only files of its own key other than its own, and that
   a deleter removes data only after the metadata. It is not preserved by a
   detached rename (`dropped_put` is the counterexample) nor by an ignored
   failure of `Unlink`, so it assumes `Reliable`.

What is left of the last layer when everything may fail is `PhantomFree`: each key on its
own is either `Touched`, by a deletion, a rollback or a request that is gone, and stays
so, or its file and its writers are as in `Intact`. It needs `OwnFiles`: collectors and
deleters take files of their own key only, and metadata names no file before its
install, so a write that fails may remove its own.

The refinement uses all four and `NoRollback` (without wrong digests only deletes
go through the steps of a deletion), without which `Unlink` would be a step the
atomic store does not have: `rejected_put` is that counterexample. Under the
invariant the content a key maps to can be read off its metadata alone, so each
step of a request either leaves the abstract state alone or is one named abstract
action of that request; a crash is the abstract crash. Both premises are needed,
as the runs of the findings show.

Durability rests on the same layers. `Upheld` says that a version, once installed,
is only replaced by another one that was installed too or removed by somebody who
asks to delete the key; it needs no assumption on faults, since it speaks of
metadata only, and `Sound`, since a rejected put removes what it finds. `Gathered`
says that a writer which has listed the directory has listed every data file of its
key but its own: only the holder of the key's lock adds files, and a writer that is
collecting holds it. `Tidy` says for each key, by the step its lock's holder has
reached, which data files there can be; a step of a request concerns its own key
(`Holder`) or none (`Bystander`). A crash breaks `Tidy` for good, as it frees the
lock in the middle of a write, and a failed removal does: `NoLeakAtRest` is about
runs without either.

For `AbortIsFinal` the invariant is `Staging`: a staging directory is made once,
for an id nobody knows before; whatever is staged lies in an existing directory;
and a request past its first read of the manifest is about an upload that was
made. The removal of the directory is thus the last thing that happens to it.

The other properties of uploads have four more invariants. `Provenance`: whatever
is staged, listed, or was listed when a request looked was sent by some request as
that part of that upload; if it was sent once, all of these are one content, however
far apart they were read. `KeptInv`: an upload that nobody has aborted and whose key
has no object yet keeps its directory, and a file for each part listed or about to
be listed; an upload of a part stages before it lists, and only an abort or a
complete that has installed removes anything. `Sole`: while no request was dropped
in the middle of a file operation, who is past the lock of complete_multipart holds
it, so no two of them collect each other's file. `Whole`: what a complete has
assembled so far are contents sent as the parts at the head of its list, and what
is installed has the length of that list. `CompletedAsListed` follows from `Whole`
and `Provenance` and needs neither `Sole` nor `KeptInv`: it holds also where a file
was collected, since metadata and content were put together by one request.

For the credentials the invariant is `Fresh`, as long as no signature came twice.
The properties speak of the step `Lookup`; what makes them true happened earlier:
the map cached under the file's present signature is that of the file with the root
key under it; a request that will not reload, because the cache bears the signature
it has seen, finds in it what the file gave its key at some time since it came, or
the root's secret where that is nothing (`Cached`); and so does one that has
reloaded, also if another request has reloaded since. A write gives the file a
signature that nobody has seen, so no cache is filed under it (`WriteIsNew`), and it
adds to what was `given` to the requests under way. `Serial` is the invariant of the
commands: at most one works, what it has read is what the commands so far amount to,
and so is the file while none has emptied it. `StartAlone` keeps the server's own
two writes out of their way, or counts them as a disturbance.

For the buckets, `Control` again ties steps to operations, `Late` says that a late
file operation is that of a request that is gone, and three invariants stand on
both. What any file operation does, awaited or late, is one lemma (`FilesTyped`): it
keeps trees complete and removes no directory. `SteadyInv`: a bucket that somebody
is deleting is not steady, so the tree that a removal takes apart is never one that
was promised to stay. `BeforeInv`: what a walk has passed and found absent stays
absent, except for what requests bring in that were not done when the deletion began
(`DiskStep`), a dropped one's late operation among them; it speaks of every step
since the walk, where the property speaks only of the last. `CalmInv`: a request in
a steady bucket finds the directories that it has made, as only a removal takes any
away.

For a get the invariant is `GetInv`: at `Open` the conditions have let the version
through that was judged, and the part is the one `Parsed` makes of its size. The
lemmas below it show, for every size and every pair of numbers, that this part is
the set of bytes the range asks for (`SuffixIsWanted`, `FromIsWanted`) and that what
is read of a version never goes beyond what is announced (`ReadIsWithin`), also when
that version is another one and shorter.

For a listing the invariant is `ListingInv`: what a client has got so far is in
order, there are at most as many pages as items (and one more for the last), and
whatever it is owed up to where the next page starts is among the items. It is kept
because of what one page holds (`PageHolds`), whatever the keys were while it was
collected. That takes three things. Byte order is a total order in which a string
follows its beginnings and everything between a string and its extension is an
extension too (`PrefixBetween`). So the items of keys in order are in order unless
the keys share their group (`ItemsInOrder`), and a key beyond the token whose item
is not beyond it lies in the group that the token is, which the page skips by the
token's last bytes (`ItemBeyond`, `PositionInGroup`). And the scan keeps, from key
to key, that it has the items of exactly the keys due so far: an induction over the
position in the sorted keys. `ListingEnds` follows because items are in order, hence
different, and each is the item of some key. `max-keys=0` is left out of all of it,
as in the properties.

For an upload the invariant is `UploadInv`. A call of `push` is a fold over its
bytes, which is shown to be a run of `Decode` (`FoldIsRun`), so that what every
token preserves the call preserves. `Sound` says what the decoder has yielded: whole
chunks of the client in their order, and the data of the chunk it is reading, which
is passed on before it is verified. The decoder goes on after a chunk only if the
signature in its header is that of the chunks before and this data, and different
lists of chunks have different signatures, so it must be the client's next chunk
(`ChainOnly`). This holds of any stream. `Tidy` says that nothing of a chunk and
half a CRLF at the most is held back between calls; a header that is not complete,
or is no text, is held back without a bound. An error of the last chunk ends the
body although the decoder has finished (`AnswerInv`). `InStep` says of a body that
arrives as it was sent at which token of which frame the decoder is, for any cut
into pieces; so it cannot fail, and has finished at the body's end.

Only model-checked: the liveness properties `ReadsEnd` and `AllEndIfClientsSend`,
as liveness under fairness is out of the prover's reach, and the violations, which
are counterexamples. Every other property of the passing runs is stated by a
theorem. The induction theorems of the library take an operator as a parameter,
which no installed prover can instantiate; `ListingProofs` proves induction for sets
of numbers instead (`SetInduction`, from the well-foundedness of `<`), and with it
what the recursive functions and folds of `Listing` and `Upload` compute.

The theorems rest on the assumptions named in the modules: corrupt and small
contents are contents, part numbers are numbers, lists are lists of parts, the
faults are those named, keys are strings of bytes and finitely many, there is a
query and a get to ask and each is well formed, what a server is started with are keys
and secrets or nothing, the empty string is one of each, a chunk other than the last
holds something, sizes claimed and the largest number are numbers, and `None` is none
of the values it stands in for.

## Plan

In this order, most important behaviour first:

1. `ObjectStore`, `AtomicStore`, the refinement and the proofs (done).
2. `Multipart` and its proofs (done).
3. `Buckets` and its proofs (done).
4. `Credentials` and its proofs (done).
5. `Listing` and `Retrieval` and their proofs (done).
6. `Upload` and its proofs, and the proofs of `Authentication` (done).

## Not modelled

Canonical requests and the HMAC chains of SigV4, XML, the error table, TLS, CORS
and the command line are computation or wiring without state of their own; so are the
refusals of a request before its key is looked up. The
listings of uploads and parts read manifests and have no state. `cleanup_tmp` is
called by nobody. Loss of power, and collisions of hashes, of etags or of sharded
key paths, are outside the models. Times of one resolution are compared
throughout: the server keeps milliseconds and dates in headers have seconds.
