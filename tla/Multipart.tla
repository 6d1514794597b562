---- MODULE Multipart ----
(***************************************************************************)
(* Multipart uploads of src/storage.rs (create_multipart, upload_part,     *)
(* upload_part_copy, complete_multipart, abort_multipart) under the        *)
(* handlers of src/s3.rs, for uploads to one object key.                   *)
(*                                                                         *)
(* An upload is a staging directory: manifest.json, and parts/ with a file *)
(* per part number.  Nothing excludes its requests from each other; only   *)
(* the assembly of the object is under the key's lock.  Each action is the *)
(* code between two awaits; the etag of a part is the content it is the    *)
(* MD5 of, that of an object the list of its parts' etags.  UploadPartCopy  *)
(* is an upload_part whose body is a source object it has opened before.   *)
(***************************************************************************)
EXTENDS Integers, Sequences

CONSTANTS Request,   \* client requests, each sent once
          Upload,    \* uploads, by the id create_multipart draws
          Part,      \* part numbers
          Content,   \* part contents
          Small,     \* contents below MIN_PART_SIZE
          Corrupt,   \* contents that do not match the digest sent with them
          Lists,     \* part lists that clients complete with
          Faults,    \* what may go wrong: "crash", "drop"
          None       \* absence of a request, manifest, file or content

Entries == [Part -> Content \cup {None}]               \* manifest.parts
Version == [file : Request, etag : Seq(Content)]       \* the object's meta.json
Call == [op : {"part"}, upload : Upload, number : Part, body : Content]
        \cup [op : {"complete"}, upload : Upload, list : Lists]
        \cup [op : {"abort"}, upload : Upload]

ASSUME PartAssumption == Part \subseteq Nat
ASSUME ContentAssumption == Small \subseteq Content /\ Corrupt \subseteq Content
ASSUME ListsAssumption == Lists \subseteq Seq(Part \X Content)
ASSUME FaultsAssumption == Faults \subseteq {"crash", "drop"}
ASSUME NoneAssumption == None \notin Request \cup Content \cup Entries \cup Version
                                     \cup Call \cup Seq(Content)

VARIABLES made,      \* how far the creation of each upload is
          pc,        \* the step each request is about to take
          req,       \* what each request asks for
          seen,      \* the manifest each request has loaded
          doomed,    \* the entries a removal of the staging directory has listed
          detached,  \* dropped requests whose last file operation is still queued
          lock,      \* holder of the object key's lock
          there,     \* uploads whose staging directory exists
          manifest,  \* manifest.json of each upload
          parts,     \* the files under its parts/, None without that directory
          data,      \* what each complete has written to its data file
          linked,    \* the data files in the object's directory
          meta       \* meta.json of the object

vars == <<made, pc, req, seen, doomed, detached, lock, there, manifest, parts, data,
          linked, meta>>
staging == <<there, manifest, parts>>
object == <<data, linked, meta>>

Ended == {"ok", "noupload", "invalid", "failed", "gone"}
FileOps == {"rename", "save", "install", "scan", "erase"}
Steps == {"idle", "load", "stream", "reload", "wait", "assemble", "collect"}
         \cup FileOps \cup Ended

Live(r) == pc[r] \notin {"idle"} \cup Ended
Of(r) == req[r].upload

\* What lies in the staging directory.
PartFile(n) == <<"part", n>>
Listing(u) == {e \in {<<"manifest">>} : manifest[u] # None}
              \cup {e \in {<<"parts">>} : parts[u] # None}
              \cup {PartFile(n) : n \in {m \in Part : parts[u] # None /\ parts[u][m] # None}}
PartFiles == {PartFile(n) : n \in Part}

Init == /\ made = [u \in Upload |-> "no"]
        /\ pc = [r \in Request |-> "idle"]
        /\ req = [r \in Request |-> None]
        /\ seen = [r \in Request |-> None]
        /\ doomed = [r \in Request |-> {}]
        /\ detached = {}
        /\ lock = None
        /\ there = {}
        /\ manifest = [u \in Upload |-> None]
        /\ parts = [u \in Upload |-> None]
        /\ data = [r \in Request |-> None]
        /\ linked = {}
        /\ meta = None

Goto(r, step) == pc' = [pc EXCEPT ![r] = IF r \in detached THEN "gone" ELSE step]
Release(r) == lock' = IF lock = r THEN None ELSE lock

(***************************************************************************)
(* CreateMultipartUpload, under an id nobody knows before.                 *)
(***************************************************************************)
MakeDir(u) == /\ made[u] = "no"
              /\ made' = [made EXCEPT ![u] = "dir"]
              /\ there' = there \cup {u}
              /\ parts' = [parts EXCEPT ![u] = [n \in Part |-> None]]
              /\ UNCHANGED <<pc, req, seen, doomed, detached, lock, manifest, object>>

MakeManifest(u) == /\ made[u] = "dir"
                   /\ made' = [made EXCEPT ![u] = "yes"]
                   /\ manifest' = [manifest EXCEPT ![u] = [n \in Part |-> None]]
                   /\ UNCHANGED <<pc, req, seen, doomed, detached, lock, there, parts, object>>

\* The router hands the request to its handler, the list of a complete with it.
Receive(r) == /\ pc[r] = "idle"
              /\ \E c \in Call : req' = [req EXCEPT ![r] = c]
              /\ Goto(r, "load")
              /\ UNCHANGED <<made, seen, doomed, detached, lock, staging, object>>

AfterLoad(r) == CASE req[r].op = "complete" -> "wait"
                  [] req[r].op = "abort" -> "scan"
                  [] OTHER -> "stream"

\* Only a complete uses what it has loaded here.
Load(r) == /\ pc[r] = "load"
           /\ seen' = [seen EXCEPT ![r] = IF req[r].op = "complete" THEN manifest[Of(r)] ELSE None]
           /\ Goto(r, IF manifest[Of(r)] = None THEN "noupload" ELSE AfterLoad(r))
           /\ UNCHANGED <<made, req, doomed, detached, lock, staging, object>>

(***************************************************************************)
(* UploadPart: stage the body, rename it into parts/, then read, change    *)
(* and write the manifest.  Nobody else is kept from doing so meanwhile.   *)
(***************************************************************************)
BodyEnds(r) == /\ pc[r] = "stream"
               /\ Goto(r, "rename")
               /\ UNCHANGED <<made, req, seen, doomed, detached, lock, staging, object>>

\* Mutant: the error of the body is not returned.
BodyFailsUnnoticed(r) == /\ pc[r] = "stream"
                         /\ Goto(r, "reload")
                         /\ UNCHANGED <<made, req, seen, doomed, detached, lock, staging, object>>

BodyFails(r) == /\ pc[r] = "stream"
                /\ Goto(r, "failed")
                /\ UNCHANGED <<made, req, seen, doomed, detached, lock, staging, object>>

Rename(r) == /\ pc[r] = "rename"
             /\ parts[Of(r)] # None
             /\ parts' = [parts EXCEPT ![Of(r)][req[r].number] = req[r].body]
             /\ Goto(r, "reload")
             /\ UNCHANGED <<made, req, seen, doomed, detached, lock, there, manifest, object>>

\* parts/ has been removed.
RenameFails(r) == /\ pc[r] = "rename"
                  /\ parts[Of(r)] = None
                  /\ Goto(r, "failed")
                  /\ UNCHANGED <<made, req, seen, doomed, detached, lock, staging, object>>

Reload(r) == /\ pc[r] = "reload"
             /\ seen' = [seen EXCEPT ![r] = manifest[Of(r)]]
             /\ Goto(r, IF manifest[Of(r)] = None THEN "noupload" ELSE "save")
             /\ UNCHANGED <<made, req, doomed, detached, lock, staging, object>>

\* Only now does the handler compare the body's digest; the part stays listed.
Saved(r) == IF req[r].body \in Corrupt THEN "failed" ELSE "ok"

Save(r) == /\ pc[r] = "save"
           /\ Of(r) \in there
           /\ manifest' = [manifest EXCEPT ![Of(r)] =
                             [seen[r] EXCEPT ![req[r].number] = req[r].body]]
           /\ Goto(r, Saved(r))
           /\ UNCHANGED <<made, req, seen, doomed, detached, lock, there, parts, object>>

\* The staging directory, or the new manifest's temporary file, has been removed.
SaveFails(r) == /\ pc[r] = "save"
                /\ \/ Of(r) \notin there
                   \/ \E s \in Request : pc[s] = "erase" /\ Of(s) = Of(r)
                /\ Goto(r, "failed")
                /\ UNCHANGED <<made, req, seen, doomed, detached, lock, staging, object>>

(***************************************************************************)
(* CompleteMultipartUpload: the manifest as it was before the lock decides *)
(* what is valid; the files are read as they are when their turn comes.    *)
(***************************************************************************)
Number(r, i) == req[r].list[i][1]
Etag(r, i) == req[r].list[i][2]
Indices(r) == 1 .. Len(req[r].list)

\* Mutant: the etags the client lists are not compared.
ValidAnyEtag(r) ==
  /\ \A i, j \in Indices(r) : i < j => Number(r, i) < Number(r, j)
  /\ \A i \in Indices(r) : seen[r][Number(r, i)] # None
  /\ \A i \in Indices(r) : i < Len(req[r].list) => seen[r][Number(r, i)] \notin Small

Valid(r) ==
  /\ \A i, j \in Indices(r) : i < j => Number(r, i) < Number(r, j)
  /\ \A i \in Indices(r) : seen[r][Number(r, i)] = Etag(r, i)
  /\ \A i \in Indices(r) : i < Len(req[r].list) => seen[r][Number(r, i)] \notin Small

\* Mutant: an upload that cannot be completed as listed is cleaned up.
RejectAndDiscard(r) == /\ pc[r] = "wait" /\ r \notin detached /\ lock = None /\ ~Valid(r)
                       /\ Goto(r, "scan")
                       /\ UNCHANGED <<made, req, seen, doomed, detached, lock, staging, object>>

Reject(r) == /\ pc[r] = "wait" /\ r \notin detached /\ lock = None /\ ~Valid(r)
             /\ Goto(r, "invalid")
             /\ UNCHANGED <<made, req, seen, doomed, detached, lock, staging, object>>

\* Mutant: the object is assembled without the key's lock.
BeginUnlocked(r) == /\ pc[r] = "wait" /\ r \notin detached /\ Valid(r)
                    /\ data' = [data EXCEPT ![r] = <<>>] /\ linked' = linked \cup {r}
                    /\ Goto(r, "assemble")
                    /\ UNCHANGED <<made, req, seen, doomed, detached, lock, staging, meta>>

\* The data file is created in place, not staged.
Begin(r) == /\ pc[r] = "wait" /\ r \notin detached /\ lock = None /\ Valid(r)
            /\ lock' = r
            /\ data' = [data EXCEPT ![r] = <<>>] /\ linked' = linked \cup {r}
            /\ Goto(r, "assemble")
            /\ UNCHANGED <<made, req, seen, doomed, detached, staging, meta>>

NextIndex(r) == Len(data[r]) + 1
Staged(r) == parts[Of(r)] # None /\ parts[Of(r)][Number(r, NextIndex(r))] # None

Assemble(r) == /\ pc[r] = "assemble" /\ NextIndex(r) \in Indices(r)
               /\ Staged(r)
               /\ data' = [data EXCEPT ![r] = Append(@, parts[Of(r)][Number(r, NextIndex(r))])]
               /\ UNCHANGED <<made, pc, req, seen, doomed, detached, lock, staging, linked, meta>>

\* A part's file is gone.  The data file begun stays.
AssembleFails(r) == /\ pc[r] = "assemble" /\ NextIndex(r) \in Indices(r)
                    /\ ~Staged(r)
                    /\ Release(r)
                    /\ Goto(r, "failed")
                    /\ UNCHANGED <<made, req, seen, doomed, detached, staging, object>>

Sync(r) == /\ pc[r] = "assemble" /\ NextIndex(r) \notin Indices(r)
           /\ Goto(r, "install")
           /\ UNCHANGED <<made, req, seen, doomed, detached, lock, staging, object>>

EtagOf(r) == [i \in Indices(r) |-> seen[r][Number(r, i)]]

\* Mutant: the etag is taken from the client's list, part numbers and all.
InstallListed(r) == /\ pc[r] = "install"
                    /\ meta' = [file |-> r, etag |-> req[r].list]
                    /\ Goto(r, "collect")
                    /\ UNCHANGED <<made, req, seen, doomed, detached, lock, staging, data, linked>>

Install(r) == /\ pc[r] = "install"
              /\ meta' = [file |-> r, etag |-> EtagOf(r)]
              /\ Goto(r, "collect")
              /\ UNCHANGED <<made, req, seen, doomed, detached, lock, staging, data, linked>>

\* gc_object_dir, whose steps module ObjectStore has one by one.
Collect(r) == /\ pc[r] = "collect"
              /\ linked' = {r}
              /\ Goto(r, "scan")
              /\ UNCHANGED <<made, req, seen, doomed, detached, lock, staging, data, meta>>

(***************************************************************************)
(* remove_dir_all of the staging directory, by a complete or an abort: one *)
(* job on the blocking pool, so it goes on when its request is dropped.    *)
(* It lists, removes entry by entry, and removes the directory if nothing  *)
(* has come in since; entries that come in meanwhile may be seen or not.   *)
(* Whether an entry that somebody else has removed is an error depends on  *)
(* the standard library.                                                   *)
(***************************************************************************)
Scan(r) == /\ pc[r] = "scan"
           /\ pc' = [pc EXCEPT ![r] = "erase"]
           /\ doomed' = [doomed EXCEPT ![r] = Listing(Of(r))]
           /\ UNCHANGED <<made, req, seen, detached, lock, staging, object>>

\* parts/ is removed when the files listed in it have been, if it is empty.
Erase(r) == /\ pc[r] = "erase"
            /\ \E e \in doomed[r] \cup Listing(Of(r)) :
                 /\ e = <<"parts">> => (doomed[r] \cup Listing(Of(r))) \cap PartFiles = {}
                 /\ doomed' = [doomed EXCEPT ![r] = @ \ {e}]
                 /\ manifest' = IF e = <<"manifest">> THEN [manifest EXCEPT ![Of(r)] = None]
                                ELSE manifest
                 /\ parts' = CASE e = <<"manifest">> \/ parts[Of(r)] = None -> parts
                               [] e = <<"parts">> -> [parts EXCEPT ![Of(r)] = None]
                               [] OTHER -> [parts EXCEPT ![Of(r)][e[2]] = None]
            /\ UNCHANGED <<made, pc, req, seen, detached, lock, there, object>>

Erased(r) == /\ pc[r] = "erase" /\ doomed[r] = {}
             /\ Of(r) \in there /\ Listing(Of(r)) = {}
             /\ there' = there \ {Of(r)}
             /\ Release(r)
             /\ Goto(r, "ok")
             /\ UNCHANGED <<made, req, seen, doomed, detached, manifest, parts, object>>

CannotErase(r) == \/ doomed[r] \ Listing(Of(r)) # {}
                  \/ doomed[r] = {} /\ (Of(r) \notin there \/ Listing(Of(r)) # {})
                  \/ doomed[r] \cap PartFiles = {} /\ Listing(Of(r)) \cap PartFiles # {}

\* Mutant: an abort, too, ignores that the directory is not removed.
EraseFailsUnnoticed(r) == /\ pc[r] = "erase" /\ CannotErase(r)
                          /\ Release(r)
                          /\ Goto(r, "ok")
                          /\ doomed' = [doomed EXCEPT ![r] = {}]
                          /\ UNCHANGED <<made, req, seen, detached, staging, object>>

\* A complete does not mind, for an abort it is an internal error.
EraseFails(r) == /\ pc[r] = "erase" /\ CannotErase(r)
                 /\ Release(r)
                 /\ Goto(r, IF req[r].op = "complete" THEN "ok" ELSE "failed")
                 /\ doomed' = [doomed EXCEPT ![r] = {}]
                 /\ UNCHANGED <<made, req, seen, detached, staging, object>>

(***************************************************************************)
(* Faults, as in module ObjectStore.                                       *)
(***************************************************************************)
Drop(r) == /\ "drop" \in Faults /\ Live(r) /\ r \notin detached
           /\ Release(r)
           /\ \/ pc[r] # "erase" /\ pc' = [pc EXCEPT ![r] = "gone"] /\ UNCHANGED detached
              \/ pc[r] \in FileOps /\ detached' = detached \cup {r} /\ UNCHANGED pc
           /\ UNCHANGED <<made, req, seen, doomed, staging, object>>

Crash == /\ "crash" \in Faults
         /\ (\E r \in Request : Live(r)) \/ \E u \in Upload : made[u] = "dir"
         /\ made' = [u \in Upload |-> IF made[u] = "dir" THEN "gone" ELSE made[u]]
         /\ pc' = [r \in Request |-> IF Live(r) THEN "gone" ELSE pc[r]]
         /\ doomed' = [r \in Request |-> {}]
         /\ lock' = None
         /\ UNCHANGED <<req, seen, detached, staging, object>>

Client(r) == BodyEnds(r) \/ BodyFails(r)
TakeLock(r) == Reject(r) \/ Begin(r)
Serve(r) == \/ Load(r) \/ Rename(r) \/ RenameFails(r) \/ Reload(r)
            \/ Save(r) \/ SaveFails(r)
            \/ Assemble(r) \/ AssembleFails(r) \/ Sync(r) \/ Install(r) \/ Collect(r)
            \/ Scan(r) \/ Erase(r) \/ Erased(r) \/ EraseFails(r)

Next == \/ \E u \in Upload : MakeDir(u) \/ MakeManifest(u)
        \/ \E r \in Request : \/ Receive(r) \/ Client(r) \/ TakeLock(r) \/ Serve(r)
                              \/ Drop(r)
        \/ Crash

Spec == Init /\ [][Next]_vars

(***************************************************************************)
(* Properties.                                                             *)
(***************************************************************************)
TypeOK == /\ made \in [Upload -> {"no", "dir", "yes", "gone"}]
          /\ pc \in [Request -> Steps]
          /\ req \in [Request -> {None} \cup Call]
          /\ seen \in [Request -> Entries \cup {None}]
          /\ doomed \in [Request -> SUBSET ({<<"manifest">>, <<"parts">>} \cup PartFiles)]
          /\ detached \subseteq Request
          /\ lock \in Request \cup {None}
          /\ there \subseteq Upload
          /\ manifest \in [Upload -> Entries \cup {None}]
          /\ parts \in [Upload -> Entries \cup {None}]
          /\ data \in [Request -> {None} \cup Seq(Content)]
          /\ linked \subseteq Request
          /\ meta = None \/ meta \in Version

Sends(r, u, n) == /\ req[r] # None /\ req[r].op = "part"
                  /\ Of(r) = u /\ req[r].number = n

\* No part number was sent twice.
SentOnce(u, n) == \A r, s \in Request : Sends(r, u, n) /\ Sends(s, u, n) => r = s

\* Nobody has asked for the upload to go, and no object has been installed.
Undisturbed(u) == /\ meta = None
                  /\ \A r \in Request : req[r] # None /\ req[r].op = "abort" => Of(r) # u

\* A completed object is the parts its client listed, in that order and each
\* with the content of its etag, however uploads, completes and aborts of the upload
\* interleave, unless a listed part was sent again (complete_multipart reads
\* the part files long after the manifest).
CompletedAsListed ==
  meta # None =>
    LET f == meta.file
    IN  (\A i \in Indices(f) : SentOnce(Of(f), Number(f, i))) =>
          data[f] = [i \in Indices(f) |-> Etag(f, i)] /\ meta.etag = data[f]

\* Unless the request that installed it was dropped in the middle of a file
\* operation, what the object's metadata names is there: no other complete
\* has collected it or the file it was being assembled in.
ObjectInPlace == meta # None /\ detached = {} => meta.file \in linked

\* An upload outlives failed and interrupted completes until an object has
\* been installed: its parts need not be sent again.
StagedUntilInstalled ==
  \A u \in Upload : made[u] = "yes" /\ Undisturbed(u) => manifest[u] # None

\* Whatever the manifest lists is staged, with the content it is listed with
\* if it was sent once.
ListedPartsAreStaged ==
  \A u \in Upload : Undisturbed(u) /\ manifest[u] # None =>
    \A n \in Part : manifest[u][n] # None =>
      /\ parts[u][n] # None
      /\ SentOnce(u, n) => parts[u][n] = manifest[u][n]

\* Once an abort is acknowledged the upload's directory is gone and stays so,
\* whatever part uploads were under way.
AbortIsFinal ==
  \A r \in Request : req[r] # None /\ req[r].op = "abort" /\ pc[r] = "ok" =>
    Of(r) \notin there /\ manifest[Of(r)] = None

\* A part once acknowledged is listed until the upload ends
\* (tests/integration.rs:1270 counts on it for parts sent one after the other).
AcknowledgedPartIsListed ==
  \A r \in Request :
    req[r] # None /\ req[r].op = "part" /\ pc[r] = "ok" =>
      (Undisturbed(Of(r)) /\ SentOnce(Of(r), req[r].number) =>
         manifest[Of(r)][req[r].number] = req[r].body)
====
