---- MODULE ObjectStore ----
(***************************************************************************)
(* The object engine of src/storage.rs (put_object, delete_object,         *)
(* copy_object, get_object_range) under the S3 handlers of src/s3.rs that  *)
(* call it, for the keys of one existing bucket.                           *)
(*                                                                         *)
(* An object is a directory: meta.json names one data file, written under  *)
(* a fresh uuid and never rewritten.  Writers of a key hold its lock;      *)
(* readers take none.  Each request is one HTTP call, and each of its      *)
(* actions is the code between two awaits.  The uuid a request draws is    *)
(* the request itself, an etag is the content it is the MD5 of, and the    *)
(* temporary file of write_json_atomic, which nothing reads, is left out.  *)
(***************************************************************************)
CONSTANTS Request,   \* client requests, each sent once
          Key,       \* object keys of the bucket
          Content,   \* object contents
          Corrupt,   \* contents that do not match the digest sent with them
          Faults,    \* what may go wrong: "crash", "drop", "io"
          None       \* absence of a request, version, file or content

Version == [file : Request, etag : Content]          \* meta.json
File == [dir : Key, content : Content]               \* <uuid>.data
Call == [op : {"put"}, key : Key, src : {None}, body : Content]
        \cup [op : {"delete", "get"}, key : Key, src : {None}, body : {None}]
        \cup [op : {"copy"}, key : Key, src : Key, body : {None}]

ASSUME CorruptAssumption == Corrupt \subseteq Content
ASSUME FaultsAssumption == Faults \subseteq {"crash", "drop", "io"}
ASSUME NoneAssumption ==
         None \notin Request \cup Key \cup Content \cup Version \cup File \cup Call

VARIABLES pc,        \* the step each request is about to take
          req,       \* what each request asks for
          snap,      \* the metadata each request has read, or a copy will write
          doomed,    \* the data files a writer's gc has listed
          got,       \* the content a get has streamed to its client
          detached,  \* dropped requests whose last file operation is still queued
          lock,      \* holder of each key's lock
          meta,      \* meta.json of each key
          data,      \* data files, by the request that wrote them
          tmp        \* files staged under <root>/tmp

vars == <<pc, req, snap, doomed, got, detached, lock, meta, data, tmp>>
disk == <<meta, data, tmp>>

Ended == {"ok", "nokey", "failed", "gone"}
Holding == {"stream", "rename", "link", "install", "list", "gc", "unlink", "remove"}
FileOps == {"rename", "link", "install", "gc", "unlink", "remove"}
Steps == {"idle", "head", "lookup", "open", "source", "wait", "rollback"}
         \cup Holding \cup Ended

Live(r) == pc[r] \notin {"idle"} \cup Ended
KeyOf(r) == req[r].key
Files(k) == {f \in Request : data[f] # None /\ data[f].dir = k}

Init == /\ pc = [r \in Request |-> "idle"]
        /\ req = [r \in Request |-> None]
        /\ snap = [r \in Request |-> None]
        /\ doomed = [r \in Request |-> {}]
        /\ got = [r \in Request |-> None]
        /\ detached = {}
        /\ lock = [k \in Key |-> None]
        /\ meta = [k \in Key |-> None]
        /\ data = [r \in Request |-> None]
        /\ tmp = {}

(***************************************************************************)
(* Control.  A dropped request goes no further than the file operation     *)
(* already handed to the blocking pool.  A lock guard is released with the *)
(* frame that owns it.                                                     *)
(***************************************************************************)
Goto(r, step) == pc' = [pc EXCEPT ![r] = IF r \in detached THEN "gone" ELSE step]
\* Mutant: a lock per request instead of one per key.
AcquireUnguarded(r) == r \notin detached /\ lock' = [lock EXCEPT ![KeyOf(r)] = r]
Acquire(r) == r \notin detached /\ lock[KeyOf(r)] = None
              /\ lock' = [lock EXCEPT ![KeyOf(r)] = r]
\* Mutant: a request that goes away frees the key's lock, its own or not.
ReleaseUnowned(r) == lock' = [lock EXCEPT ![KeyOf(r)] = None]
Release(r) == lock' = [k \in Key |-> IF lock[k] = r THEN None ELSE lock[k]]

FirstStep(c) == CASE c.op = "get" -> "head"
                  [] c.op = "copy" -> "source"
                  [] OTHER -> "wait"

\* The router hands the request to its handler.
Receive(r) == /\ pc[r] = "idle"
              /\ \E c \in Call : /\ req' = [req EXCEPT ![r] = c]
                                 /\ Goto(r, FirstStep(c))
              /\ UNCHANGED <<snap, doomed, got, detached, lock, disk>>

(***************************************************************************)
(* GET and HEAD read the metadata twice and take no lock.                  *)
(***************************************************************************)
\* Conditions and ranges are judged on this first read.
Head(r) == /\ pc[r] = "head"
           /\ Goto(r, IF meta[KeyOf(r)] = None THEN "nokey" ELSE "lookup")
           /\ UNCHANGED <<req, snap, doomed, got, detached, lock, disk>>

\* Mutant: readers wait for the key's lock.
LookupLocked(r) == /\ pc[r] = "lookup" /\ lock[KeyOf(r)] = None
                   /\ snap' = [snap EXCEPT ![r] = meta[KeyOf(r)]]
                   /\ Goto(r, IF meta[KeyOf(r)] = None THEN "nokey" ELSE "open")
                   /\ UNCHANGED <<req, doomed, got, detached, lock, disk>>

Lookup(r) == /\ pc[r] = "lookup"
             /\ snap' = [snap EXCEPT ![r] = meta[KeyOf(r)]]
             /\ Goto(r, IF meta[KeyOf(r)] = None THEN "nokey" ELSE "open")
             /\ UNCHANGED <<req, doomed, got, detached, lock, disk>>

\* Mutant: the headers come from one read of the metadata, the file from the next.
OpenCurrent(r) == /\ pc[r] = "open" /\ meta[KeyOf(r)] # None
                  /\ meta[KeyOf(r)].file \in Files(KeyOf(r))
                  /\ got' = [got EXCEPT ![r] = data[meta[KeyOf(r)].file].content]
                  /\ Goto(r, "ok")
                  /\ UNCHANGED <<req, snap, doomed, detached, lock, disk>>

\* An open file stays readable after it is unlinked.
Open(r) == /\ pc[r] = "open"
           /\ snap[r].file \in Files(KeyOf(r))
           /\ got' = [got EXCEPT ![r] = data[snap[r].file].content]
           /\ Goto(r, "ok")
           /\ UNCHANGED <<req, snap, doomed, detached, lock, disk>>

\* InternalError: the data file went away after the lookup.
OpenFails(r) == /\ pc[r] = "open"
                /\ snap[r].file \notin Files(KeyOf(r)) \/ "io" \in Faults
                /\ Goto(r, "failed")
                /\ UNCHANGED <<req, snap, doomed, got, detached, lock, disk>>

(***************************************************************************)
(* PUT: stage the body under the key's lock, rename it into the object's   *)
(* directory, install the metadata, collect the older data files.          *)
(***************************************************************************)
Stage(r) == /\ pc[r] = "wait" /\ req[r].op = "put"
            /\ Acquire(r)
            /\ tmp' = tmp \cup {r}
            /\ Goto(r, "stream")
            /\ UNCHANGED <<req, snap, doomed, got, detached, meta, data>>

BodyEnds(r) == /\ pc[r] = "stream"
               /\ Goto(r, "rename")
               /\ UNCHANGED <<req, snap, doomed, got, detached, lock, disk>>

\* Mutant: the handler deletes the key whenever its put fails.
BodyFailsAndDeletes(r) == /\ pc[r] = "stream"
                          /\ tmp' = tmp \ {r}
                          /\ Release(r)
                          /\ Goto(r, "rollback")
                          /\ UNCHANGED <<req, snap, doomed, got, detached, meta, data>>

\* Mutant: the staged file is left behind.
BodyFailsUncleaned(r) == /\ pc[r] = "stream"
                         /\ Release(r)
                         /\ Goto(r, "failed")
                         /\ UNCHANGED <<req, snap, doomed, got, detached, disk>>

\* A chunk with a bad signature, a body error, a body too large, a failed write.
BodyFails(r) == /\ pc[r] = "stream"
                /\ tmp' = tmp \ {r}
                /\ Release(r)
                /\ Goto(r, "failed")
                /\ UNCHANGED <<req, snap, doomed, got, detached, meta, data>>

Rename(r) == /\ pc[r] = "rename"
             /\ tmp' = tmp \ {r}
             /\ data' = [data EXCEPT ![r] = [dir |-> KeyOf(r), content |-> req[r].body]]
             /\ Goto(r, "install")
             /\ UNCHANGED <<req, snap, doomed, got, detached, lock, meta>>

\* flush, sync_all, create_dir_all or rename fails: the staged file stays.
RenameFails(r) == /\ pc[r] = "rename" /\ "io" \in Faults
                  /\ Release(r)
                  /\ Goto(r, "failed")
                  /\ UNCHANGED <<req, snap, doomed, got, detached, disk>>

EtagOf(r) == IF req[r].op = "put" THEN req[r].body ELSE snap[r].etag

\* Mutant: the optional data_file is never filled in.
InstallUnnamed(r) ==
  /\ pc[r] = "install"
  /\ meta' = [meta EXCEPT ![KeyOf(r)] = [file |-> None, etag |-> EtagOf(r)]]
  /\ Goto(r, "list")
  /\ UNCHANGED <<req, snap, doomed, got, detached, lock, data, tmp>>

Install(r) == /\ pc[r] = "install"
              /\ meta' = [meta EXCEPT ![KeyOf(r)] = [file |-> r, etag |-> EtagOf(r)]]
              /\ Goto(r, "list")
              /\ UNCHANGED <<req, snap, doomed, got, detached, lock, data, tmp>>

\* The data file is then removed, if that succeeds.
InstallFails(r) == /\ pc[r] = "install" /\ "io" \in Faults
                   /\ \/ UNCHANGED data
                      \/ r \notin detached /\ data' = [data EXCEPT ![r] = None]
                   /\ Release(r)
                   /\ Goto(r, "failed")
                   /\ UNCHANGED <<req, snap, doomed, got, detached, meta, tmp>>

List(r) == /\ pc[r] = "list"
           /\ doomed' = [doomed EXCEPT ![r] = Files(KeyOf(r)) \ {r}]
           /\ Goto(r, "gc")
           /\ UNCHANGED <<req, snap, got, detached, lock, disk>>

\* Mutant: "if let" instead of "while let": one entry is collected, not all.
CollectOne(r) == /\ pc[r] = "gc"
                 /\ \E f \in doomed[r] : data' = [data EXCEPT ![f] = None]
                 /\ doomed' = [doomed EXCEPT ![r] = {}]
                 /\ Goto(r, "gc")
                 /\ UNCHANGED <<req, snap, got, detached, lock, meta, tmp>>

Collect(r) == /\ pc[r] = "gc"
              /\ \E f \in doomed[r] :
                   /\ data' = [data EXCEPT ![f] = None]
                   /\ doomed' = [doomed EXCEPT ![r] = @ \ {f}]
              /\ Goto(r, "gc")
              /\ UNCHANGED <<req, snap, got, detached, lock, meta, tmp>>

\* read_dir or remove_file fails: gc_object_dir goes on.
CollectFails(r) == /\ "io" \in Faults
                   /\ \/ /\ pc[r] = "list"
                         /\ UNCHANGED doomed
                      \/ /\ pc[r] = "gc"
                         /\ \E f \in doomed[r] : doomed' = [doomed EXCEPT ![r] = @ \ {f}]
                   /\ Goto(r, "gc")
                   /\ UNCHANGED <<req, snap, got, detached, lock, disk>>

\* Mutant: the handler rolls back while the put still holds the lock.
FinishHolding(r) == /\ pc[r] = "gc" /\ doomed[r] = {} /\ r \notin detached
                    /\ IF req[r].op = "put" /\ req[r].body \in Corrupt
                         THEN Goto(r, "rollback") /\ UNCHANGED lock
                         ELSE Goto(r, "ok") /\ Release(r)
                    /\ UNCHANGED <<req, snap, doomed, got, detached, disk>>

\* Only now does the PUT handler compare digests; a mismatch is undone by a
\* delete_object of the key, which waits for the lock again.
Finish(r) == /\ pc[r] = "gc" /\ doomed[r] = {} /\ r \notin detached
             /\ Release(r)
             /\ Goto(r, IF req[r].op = "put" /\ req[r].body \in Corrupt
                          THEN "rollback" ELSE "ok")
             /\ UNCHANGED <<req, snap, doomed, got, detached, disk>>

(***************************************************************************)
(* COPY: the source's metadata is read before the target's lock is taken;  *)
(* its data file is hard-linked, then installed and collected as by PUT.   *)
(***************************************************************************)
Source(r) == /\ pc[r] = "source"
             /\ snap' = [snap EXCEPT ![r] = meta[req[r].src]]
             /\ Goto(r, IF meta[req[r].src] = None THEN "nokey" ELSE "wait")
             /\ UNCHANGED <<req, doomed, got, detached, lock, disk>>

\* Mutant: the copy locks its source, not its target.
LockSource(r) == /\ pc[r] = "wait" /\ req[r].op = "copy" /\ r \notin detached
                 /\ lock[req[r].src] = None
                 /\ lock' = [lock EXCEPT ![req[r].src] = r]
                 /\ Goto(r, "link")
                 /\ UNCHANGED <<req, snap, doomed, got, detached, disk>>

LockTarget(r) == /\ pc[r] = "wait" /\ req[r].op = "copy"
                 /\ Acquire(r)
                 /\ Goto(r, "link")
                 /\ UNCHANGED <<req, snap, doomed, got, detached, disk>>

\* The etag to install is the source's, or under REPLACE the linked file's hash.
Link(r) == /\ pc[r] = "link"
           /\ snap[r].file \in Files(req[r].src)
           /\ LET linked == data[snap[r].file].content
              IN  /\ data' = [data EXCEPT ![r] = [dir |-> KeyOf(r), content |-> linked]]
                  /\ \E e \in {snap[r].etag, linked} :
                       snap' = [snap EXCEPT ![r].etag = e]
           /\ Goto(r, "install")
           /\ UNCHANGED <<req, doomed, got, detached, lock, meta, tmp>>

\* Neither the link nor the fallback copy finds the source's data file.
LinkFails(r) == /\ pc[r] = "link"
                /\ snap[r].file \notin Files(req[r].src) \/ "io" \in Faults
                /\ Release(r)
                /\ Goto(r, "failed")
                /\ UNCHANGED <<req, snap, doomed, got, detached, disk>>

\* The copy in the link's place breaks off, or the hash under REPLACE fails: what
\* has been written stays, and nothing names it.
CopyFails(r) ==
  /\ pc[r] = "link" /\ "io" \in Faults
  /\ snap[r].file \in Files(req[r].src)
  /\ data' = [data EXCEPT ![r] = [dir |-> KeyOf(r), content |-> data[snap[r].file].content]]
  /\ Release(r)
  /\ Goto(r, "failed")
  /\ UNCHANGED <<req, snap, doomed, got, detached, meta, tmp>>

(***************************************************************************)
(* DELETE, and the rollback of a PUT: metadata first, then its data file.  *)
(* Errors of either removal are ignored.                                   *)
(***************************************************************************)
Deleting(r) == \/ pc[r] = "rollback"
               \/ pc[r] = "wait" /\ req[r].op = "delete"
Deleted(r) == IF req[r].op = "put" THEN "failed" ELSE "ok"

DeleteMissing(r) == /\ Deleting(r)
                    /\ lock[KeyOf(r)] = None /\ meta[KeyOf(r)] = None
                    /\ Goto(r, Deleted(r))
                    /\ UNCHANGED <<req, snap, doomed, got, detached, lock, disk>>

\* Metadata that cannot be read names no data file.
DeleteFound(r) == /\ Deleting(r)
                  /\ Acquire(r)
                  /\ meta[KeyOf(r)] # None
                  /\ \E m \in {meta[KeyOf(r)]} \cup (IF "io" \in Faults THEN {None} ELSE {}) :
                       snap' = [snap EXCEPT ![r] = m]
                  /\ Goto(r, "unlink")
                  /\ UNCHANGED <<req, doomed, got, detached, disk>>

Unlink(r) == /\ pc[r] = "unlink"
             /\ meta' = [meta EXCEPT ![KeyOf(r)] = None]
             /\ Goto(r, "remove")
             /\ UNCHANGED <<req, snap, doomed, got, detached, lock, data, tmp>>

UnlinkFails(r) == /\ pc[r] = "unlink" /\ "io" \in Faults
                  /\ Goto(r, "remove")
                  /\ UNCHANGED <<req, snap, doomed, got, detached, lock, disk>>

Remove(r) == /\ pc[r] = "remove"
             /\ data' = [f \in Request |->
                          IF snap[r] # None /\ f = snap[r].file THEN None ELSE data[f]]
             /\ Release(r)
             /\ Goto(r, Deleted(r))
             /\ UNCHANGED <<req, snap, doomed, got, detached, meta, tmp>>

RemoveFails(r) == /\ pc[r] = "remove" /\ "io" \in Faults
                  /\ Release(r)
                  /\ Goto(r, Deleted(r))
                  /\ UNCHANGED <<req, snap, doomed, got, detached, disk>>

(***************************************************************************)
(* Faults.                                                                 *)
(***************************************************************************)
\* The client goes away and hyper drops the handler's future.  What it has
\* handed to the blocking pool still runs, after the lock is released.
Drop(r) == /\ "drop" \in Faults /\ Live(r) /\ r \notin detached
           /\ Release(r)
           /\ \/ pc' = [pc EXCEPT ![r] = "gone"] /\ UNCHANGED detached
              \/ /\ pc[r] \in FileOps /\ (pc[r] = "gc" => doomed[r] # {})
                 /\ detached' = detached \cup {r} /\ UNCHANGED pc
           /\ UNCHANGED <<req, snap, doomed, got, disk>>

\* The process is killed and started again: only the files remain, and
\* Storage::open removes none of them.
Crash == /\ "crash" \in Faults
         /\ \E r \in Request : Live(r)
         /\ pc' = [r \in Request |-> IF Live(r) THEN "gone" ELSE pc[r]]
         /\ lock' = [k \in Key |-> None]
         /\ UNCHANGED <<req, snap, doomed, got, detached, disk>>

Upload(r) == BodyEnds(r) \/ BodyFails(r)
Lock(r) == Stage(r) \/ LockTarget(r) \/ DeleteMissing(r) \/ DeleteFound(r)
Serve(r) == \/ Head(r) \/ Lookup(r) \/ Open(r) \/ OpenFails(r)
            \/ Rename(r) \/ Install(r) \/ List(r) \/ Collect(r) \/ Finish(r)
            \/ Source(r) \/ Link(r) \/ LinkFails(r)
            \/ Unlink(r) \/ Remove(r)
FileFault(r) == \/ RenameFails(r) \/ InstallFails(r) \/ CollectFails(r)
                \/ CopyFails(r) \/ UnlinkFails(r) \/ RemoveFails(r)

Next == \/ \E r \in Request : \/ Receive(r) \/ Upload(r) \/ Lock(r) \/ Serve(r)
                              \/ FileFault(r) \/ Drop(r)
        \/ Crash

Spec == Init /\ [][Next]_vars

\* Tasks are scheduled fairly and tokio's mutex is FIFO.  Nothing makes a
\* client send its body: the server has no timeout on it.
Fairness == \A r \in Request : WF_vars(Serve(r)) /\ SF_vars(Lock(r))
FairSpec == Spec /\ Fairness

(***************************************************************************)
(* Properties.                                                             *)
(***************************************************************************)
\* Every variable has its type; a request is known from the moment it has left
\* "idle", and its call is of the kind its step belongs to.
TypeOK ==
  /\ pc \in [Request -> Steps]
  /\ req \in [Request -> Call \cup {None}]
  /\ snap \in [Request -> Version \cup {None}]
  /\ doomed \in [Request -> SUBSET Request]
  /\ got \in [Request -> Content \cup {None}]
  /\ detached \subseteq Request
  /\ lock \in [Key -> Request \cup {None}]
  /\ meta \in [Key -> Version \cup {None}]
  /\ data \in [Request -> File \cup {None}]
  /\ tmp \subseteq Request

\* Whatever fails, two requests are never inside the code that a key's lock
\* guards, unless one was dropped and only its queued file operation remains.
LockExclusion ==
  \A r, s \in Request \ detached :
    pc[r] \in Holding /\ pc[s] \in Holding /\ KeyOf(r) = KeyOf(s) => r = s

\* Whatever fails, the content a get streams is the one whose etag it sends:
\* no reader sees a mixture of two versions or a half-written one.
CompleteReads == \A r \in Request : got[r] # None => got[r] = snap[r].etag

\* A key's metadata always names a complete data file of its own directory:
\* meta.json is renamed in after the data and removed before it (storage.rs:15-18).
MetaHasItsData ==
  \A k \in Key : meta[k] # None =>
    /\ meta[k].file \in Files(k)
    /\ data[meta[k].file].content = meta[k].etag

\* Metadata of a key is removed by deletions and rollbacks, and who is gone may have
\* been stopped, or its file operation have landed late, in the middle of anything.
Removes(r) == req[r].op = "delete" \/ (req[r].op = "put" /\ req[r].body \in Corrupt)
Touched(k) == \E r \in Request : req[r] # None /\ KeyOf(r) = k /\ (Removes(r) \/ pc[r] = "gone")

\* Whatever fails, metadata whose data file is missing is found only on keys that somebody
\* has asked to delete, with a rollback, or with a request that is gone: no write that
\* fails and no collection leaves any.  A deletion may, as it removes the data file also
\* when it could not remove meta.json (storage.rs:457).
PhantomsHaveACause ==
  \A k \in Key : meta[k] # None /\ meta[k].file \notin Files(k) => Touched(k)

\* Once every request for a key has ended, a key with an acknowledged put and no
\* delete holds a version of a write that succeeded or was cut off by a crash:
\* a failed write never takes the place of an acknowledged one.
AcknowledgedPutSurvives ==
  \A k \in Key :
    LET calls == {r \in Request : req[r] # None /\ KeyOf(r) = k}
    IN  /\ \A r \in calls : pc[r] \in Ended /\ req[r].op # "delete"
        /\ \E r \in calls : req[r].op = "put" /\ pc[r] = "ok"
        => meta[k] # None /\ pc[meta[k].file] \in {"ok", "gone"}

\* A write that succeeds leaves its own data file and no other in the object's
\* directory, whatever earlier crashes have left there (gc_object_dir).
WriteCollects ==
  [][\A r \in Request : pc[r] = "gc" /\ pc'[r] = "ok" => Files(KeyOf(r))' = {r}]_vars

\* Without faults no file outlives its use: a key nobody is writing has the data
\* file its metadata names and no other, and only uploads in progress are staged.
NoLeakAtRest ==
  /\ \A k \in Key : lock[k] = None =>
       Files(k) = IF meta[k] = None THEN {} ELSE {meta[k].file}
  /\ tmp = {r \in Request : pc[r] \in {"stream", "rename"}}

\* While nobody deletes, a get that found an object is served one of its versions,
\* the previous or the new one (storage.rs:15-18): no internal error.
ReaderSeesAVersion ==
  \A r \in Request : req[r] # None /\ req[r].op = "get" /\ pc[r] = "failed" =>
    \E d \in Request : req[d] # None /\ req[d].op = "delete"

Begun(r) == pc[r] # "idle"
HasEnded(r) == pc[r] \in Ended

\* Readers take no lock: every get ends even while an upload is stalled for ever.
ReadsEnd ==
  \A r \in Request : (Begun(r) /\ req[r].op = "get") ~> HasEnded(r)

\* Nobody waits for ever on a key's lock: if every client sends its body to the
\* end or lets it fail, every request ends.
AllEndIfClientsSend ==
  (\A r \in Request : WF_vars(Upload(r))) =>
    \A r \in Request : Begun(r) ~> HasEnded(r)

(***************************************************************************)
(* Refinement: what a key holds is the content of the file its metadata    *)
(* names, "lost" if there is none; a put, delete or copy takes effect when *)
(* its metadata is renamed in or removed, a get or copy reads its source   *)
(* when it reads the metadata.                                             *)
(***************************************************************************)
Holds(k) == IF meta[k] = None THEN None
            ELSE IF meta[k].file \in Files(k) THEN data[meta[k].file].content
            ELSE "lost"

Reads(r) == req[r].op \in {"get", "copy"} /\ snap[r] # None

AbstractStage(r) == CASE pc[r] \in {"idle"} \cup Ended -> pc[r]
               [] pc[r] \in {"list", "gc", "remove", "rollback"} -> "applied"
               [] OTHER -> IF Reads(r) THEN "read" ELSE "begun"

storeBar == [k \in Key |-> Holds(k)]
stageBar == [r \in Request |-> AbstractStage(r)]
heldBar == [r \in Request |->
              IF req[r] # None /\ Reads(r) THEN snap[r].etag ELSE None]

Abstract == INSTANCE AtomicStore WITH
  store <- storeBar, stage <- stageBar, call <- req, held <- heldBar, answer <- got

\* The engine implements the atomic store, crashes included.
ImplementsAtomicStore == Abstract!Spec
====
