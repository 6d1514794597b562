---- MODULE Buckets ----
(***************************************************************************)
(* Buckets of src/storage.rs: create_bucket and delete_bucket among the    *)
(* operations that depend on a bucket's existence: put_object,             *)
(* delete_object and the creation, completion and abortion of multipart    *)
(* uploads.                                                                *)
(*                                                                         *)
(* A bucket is a directory tree: its meta.json, without which it does not  *)
(* exist for anybody, and objects/ with a directory per key.  No lock      *)
(* covers a bucket.  Each action is the code between two awaits.  An       *)
(* object and an upload are named after the request that made them; those  *)
(* that were there from the start are Old.  Bodies, data files and the     *)
(* staging directories are in ObjectStore and Multipart.                   *)
(***************************************************************************)
EXTENDS FiniteSets

CONSTANTS Request,  \* client requests, each sent once
          Bucket,   \* bucket names
          Key,      \* object keys
          Old,      \* the maker of the objects and uploads of an earlier time
          None      \* absence of an object, an upload or a request

Id == Request \cup {Old}
Place == Bucket \X Key

\* What a walk or a removal meets, by name.
Root == <<"root">>
Meta == <<"meta">>
Objects == <<"objects">>
Dir(k) == <<"dir", k>>
Object(k) == <<"object", k>>
Staged(u) == <<"upload", u>>
KeyDirs == {Dir(k) : k \in Key}
KeyObjects == {Object(k) : k \in Key}
Uploads == {Staged(u) : u \in Id}
Entry == {Root, Meta, Objects} \cup KeyDirs
Names == Entry \cup KeyObjects \cup Uploads

ByBucket == [op : {"create", "delete", "put", "remove", "initiate"}, place : Place, upload : {Old}]
Call == ByBucket \cup [op : {"complete", "abort"}, place : Place, upload : Id]

ASSUME IdAssumption == Old \notin Request /\ None \notin Id
ASSUME NoneAssumption == None \notin Place \cup Call

VARIABLES pc,       \* the step each request is about to take
          req,      \* what each request asks for
          tree,     \* the directories and meta.json of each bucket
          obj,      \* the maker of the object whose meta.json is in place
          uploads,  \* where each upload in progress is to be installed
          todo,     \* what a walk has yet to visit, or a removal has listed
          late,     \* the step of a request that is gone whose file operation has yet to land
          before,   \* history: the makers done when a deletion of a bucket began
          steady,   \* history: buckets acknowledged and not asked to be deleted since
          calm      \* history: requests whose bucket has been steady all along

vars == <<pc, req, tree, obj, uploads, todo, late, before, steady, calm>>
disk == <<tree, obj, uploads>>
history == <<before, steady, calm>>

Ended == {"ok", "nobucket", "noupload", "notempty", "failed", "gone"}
Steps == {"idle", "check", "mkdir", "mkmeta", "walk", "visit", "list", "uploads", "scan", "erase",
          "wait", "mkdirs", "rename", "install", "unlink", "manifest", "clean"} \cup Ended
\* Those that wait for a file operation that shows here.
Pending == {"mkdir", "mkmeta", "mkdirs", "install", "unlink", "manifest", "clean"}

Live(r) == pc[r] \notin {"idle"} \cup Ended
In(r) == req[r].place[1]
KeyOf(r) == req[r].place[2]
Goto(r, step) == pc' = [pc EXCEPT ![r] = step]
Erasing(b) == \E s \in Request : pc[s] = "erase" /\ In(s) = b

\* Any state between requests: buckets that exist, with some objects and an upload.
Init == /\ pc = [r \in Request |-> "idle"]
        /\ req = [r \in Request |-> None]
        /\ obj \in [Place -> {None, Old}]
        /\ \E made \in SUBSET Bucket :
             /\ \A p \in Place : obj[p] = Old => p[1] \in made
             /\ steady = made
             /\ tree = [b \in Bucket |-> IF b \notin made THEN {}
                          ELSE {Root, Meta, Objects} \cup {Dir(k) : k \in {j \in Key : obj[<<b, j>>] = Old}}]
             /\ \E p \in {None} \cup (made \X Key) : uploads = [u \in Id |-> IF u = Old THEN p ELSE None]
        /\ todo = [r \in Request |-> {}]
        /\ late = [r \in Request |-> "idle"]
        /\ before = [r \in Request |-> {}]
        /\ calm = {}

\* The router hands the request to its handler.
Receive(r) ==
  /\ pc[r] = "idle"
  /\ \E c \in ByBucket :
       LET b == c.place[1]
           ofBucket == {s \in Request : Live(s) /\ In(s) = b} IN
       /\ req' = [req EXCEPT ![r] = c]
       /\ Goto(r, "check")
       /\ steady' = IF c.op = "delete" THEN steady \ {b} ELSE steady
       /\ calm' = IF c.op = "delete" THEN calm \ ofBucket
                  ELSE calm \cup {s \in {r} : b \in steady}
  /\ UNCHANGED <<disk, todo, late, before>>

(***************************************************************************)
(* bucket_exists, the first thing every operation by bucket does.          *)
(***************************************************************************)
Exists(b) == Meta \in tree[b]

AfterCheck(r) == CASE req[r].op = "delete" -> "walk"
                   [] req[r].op = "initiate" -> "manifest"
                   [] OTHER -> "wait"

Settled == {Old} \cup {s \in Request : pc[s] = "ok"}

Check(r) == /\ pc[r] = "check" /\ req[r].op # "create"
            /\ Goto(r, IF Exists(In(r)) THEN AfterCheck(r) ELSE "nobucket")
            /\ before' = [before EXCEPT ![r] = IF req[r].op = "delete" THEN Settled ELSE {}]
            /\ UNCHANGED <<req, disk, todo, late, steady, calm>>

(***************************************************************************)
(* CreateBucket.                                                           *)
(***************************************************************************)
Deleting(b) == \E s \in Request : Live(s) /\ req[s].op = "delete" /\ In(s) = b
Steadied(b) == IF Deleting(b) THEN steady ELSE steady \cup {b}

CreateCheck(r) == /\ pc[r] = "check" /\ req[r].op = "create"
                  /\ Goto(r, IF Exists(In(r)) THEN "ok" ELSE "mkdir")
                  /\ steady' = IF Exists(In(r)) THEN Steadied(In(r)) ELSE steady
                  /\ UNCHANGED <<req, disk, todo, late, before, calm>>

BucketMade(b) == tree' = [tree EXCEPT ![b] = @ \cup {Root, Objects}] /\ UNCHANGED <<obj, uploads>>
MetaMade(b) == /\ Root \in tree[b]
               /\ tree' = [tree EXCEPT ![b] = @ \cup {Meta}]
               /\ UNCHANGED <<obj, uploads>>

\* Mutant: the bucket is acknowledged before its metadata is written.
MakeDirAcknowledged(r) == /\ pc[r] = "mkdir" /\ BucketMade(In(r))
                          /\ Goto(r, "ok")
                          /\ steady' = Steadied(In(r))
                          /\ UNCHANGED <<req, todo, late, before, calm>>

MakeDir(r) == /\ pc[r] = "mkdir" /\ BucketMade(In(r))
              /\ Goto(r, "mkmeta")
              /\ UNCHANGED <<req, todo, late, history>>

MakeMeta(r) == /\ pc[r] = "mkmeta" /\ MetaMade(In(r))
               /\ Goto(r, "ok")
               /\ steady' = Steadied(In(r))
               /\ UNCHANGED <<req, todo, late, before, calm>>

(***************************************************************************)
(* DeleteBucket: a walk through objects/, the list of all uploads, and     *)
(* remove_dir_all.  Walks and removals meet each entry at a time of its    *)
(* own, so what comes in meanwhile may be missed.                          *)
(***************************************************************************)
Listing(b) == tree[b] \cup {Object(k) : k \in {j \in Key : obj[<<b, j>>] # None}}

Walk(r) == /\ pc[r] = "walk" /\ Objects \in tree[In(r)]
           /\ todo' = [todo EXCEPT ![r] = KeyObjects]
           /\ Goto(r, "visit")
           /\ UNCHANGED <<req, disk, late, history>>

\* The walk returns the error of a directory that is missing.
WalkFails(r) == /\ \/ pc[r] = "walk" /\ Objects \notin tree[In(r)]
                   \/ pc[r] = "visit" /\ Erasing(In(r))
                /\ Goto(r, "failed")
                /\ UNCHANGED <<req, disk, todo, late, history>>

Visited(r, e, found, then) ==
  /\ todo' = [todo EXCEPT ![r] = @ \ {e}]
  /\ Goto(r, IF found THEN "notempty" ELSE IF todo[r] = {e} THEN then ELSE pc[r])
  /\ UNCHANGED <<req, disk, late, history>>

\* Mutant: only the last directory visited decides.
VisitLast(r) == /\ pc[r] = "visit"
                /\ \E e \in todo[r] :
                     Visited(r, e, e \in Listing(In(r)) /\ todo[r] = {e}, "list")

Visit(r) == /\ pc[r] = "visit"
            /\ \E e \in todo[r] : Visited(r, e, e \in Listing(In(r)), "list")

\* Mutant: uploads are not looked at.
ListNothing(r) == /\ pc[r] = "list"
                  /\ Goto(r, "scan")
                  /\ UNCHANGED <<req, disk, todo, late, history>>

\* list_multipart_uploads_raw reads the manifests of all buckets.
List(r) == /\ pc[r] = "list"
           /\ todo' = [todo EXCEPT ![r] = Uploads]
           /\ Goto(r, "uploads")
           /\ UNCHANGED <<req, disk, late, history>>

VisitUpload(r) == /\ pc[r] = "uploads"
                  /\ \E u \in Id :
                       /\ Staged(u) \in todo[r]
                       /\ Visited(r, Staged(u), uploads[u] # None /\ uploads[u][1] = In(r), "scan")

Scan(r) == /\ pc[r] = "scan"
           /\ todo' = [todo EXCEPT ![r] = Listing(In(r))]
           /\ Goto(r, IF Root \in tree[In(r)] THEN "erase" ELSE "failed")
           /\ UNCHANGED <<req, disk, late, history>>

\* Mutant: objects/ is removed with what is in it.
BelowShallow(e) == CASE e = Root -> Names \ {Root}
                     [] OTHER -> {Object(k) : k \in {j \in Key : e = Dir(j)}}

Below(e) == CASE e = Root -> Names \ {Root}
              [] e = Objects -> KeyDirs
              [] OTHER -> {Object(k) : k \in {j \in Key : e = Dir(j)}}

Erase(r) ==
  /\ pc[r] = "erase"
  /\ \E e \in Listing(In(r)) :
       /\ Below(e) \cap Listing(In(r)) = {}
       /\ tree' = [tree EXCEPT ![In(r)] = @ \ {e}]
       /\ obj' = [p \in Place |-> IF p[1] = In(r) /\ e = Object(p[2]) THEN None ELSE obj[p]]
       /\ todo' = [todo EXCEPT ![r] = @ \ {e}]
       /\ Goto(r, IF e = Root THEN "ok" ELSE "erase")
  /\ UNCHANGED <<req, uploads, late, history>>

\* Something has come in, or somebody else has removed what was listed.
EraseFails(r) == /\ pc[r] = "erase" /\ Listing(In(r)) # todo[r]
                 /\ Goto(r, "failed")
                 /\ UNCHANGED <<req, disk, todo, late, history>>

(***************************************************************************)
(* PutObject, CompleteMultipartUpload and DeleteObject, under the lock of  *)
(* their key.  A complete finds the place of its upload in the manifest    *)
(* and never asks whether the bucket exists.                               *)
(***************************************************************************)
Load(r) == /\ pc[r] = "idle"
           /\ \E c \in Call :
                /\ c.op \in {"complete", "abort"} /\ uploads[c.upload] = c.place
                /\ req' = [req EXCEPT ![r] = c]
                /\ Goto(r, IF c.op = "complete" THEN "wait" ELSE "clean")
           /\ UNCHANGED <<disk, todo, late, history>>

Holds(r, p) == /\ req[r] # None /\ req[r].place = p
               /\ \/ pc[r] \in {"mkdirs", "rename", "install", "unlink"}
                  \/ pc[r] = "clean" /\ req[r].op = "complete"

Acquire(r) == /\ pc[r] = "wait"
              /\ \A s \in Request : ~Holds(s, req[r].place)
              /\ Goto(r, IF req[r].op = "remove" THEN "unlink" ELSE "mkdirs")
              /\ UNCHANGED <<req, disk, todo, late, history>>

\* Mutant: only the key's own directory is created.
MadeOneDir(r) == /\ tree' = [tree EXCEPT ![In(r)] =
                               IF Objects \in @ THEN @ \cup {Dir(KeyOf(r))} ELSE @]
                 /\ UNCHANGED <<obj, uploads>>

DirsMade(r) == /\ tree' = [tree EXCEPT ![In(r)] = @ \cup {Root, Objects, Dir(KeyOf(r))}]
               /\ UNCHANGED <<obj, uploads>>
Installed(r) == /\ Dir(KeyOf(r)) \in tree[In(r)]
                /\ obj' = [obj EXCEPT ![req[r].place] = r]
                /\ UNCHANGED <<tree, uploads>>
Unlinked(r) == obj' = [obj EXCEPT ![req[r].place] = None] /\ UNCHANGED <<tree, uploads>>

MakeDirs(r) == /\ pc[r] = "mkdirs" /\ DirsMade(r)
               /\ Goto(r, "rename")
               /\ UNCHANGED <<req, todo, late, history>>

Rename(r) == /\ pc[r] = "rename" /\ Dir(KeyOf(r)) \in tree[In(r)]
             /\ Goto(r, "install")
             /\ UNCHANGED <<req, disk, todo, late, history>>

Install(r) == /\ pc[r] = "install" /\ Installed(r)
              /\ Goto(r, IF req[r].op = "complete" THEN "clean" ELSE "ok")
              /\ UNCHANGED <<req, todo, late, history>>

\* The directory is gone, or what was created in it is being removed.
WriteFails(r) == /\ \/ pc[r] \in {"rename", "install"} /\ Dir(KeyOf(r)) \notin tree[In(r)]
                    \/ pc[r] = "mkmeta" /\ Root \notin tree[In(r)]
                    \/ pc[r] \in {"mkdir", "mkmeta", "mkdirs", "install"} /\ Erasing(In(r))
                 /\ Goto(r, "failed")
                 /\ UNCHANGED <<req, disk, todo, late, history>>

Unlink(r) == /\ pc[r] = "unlink" /\ Unlinked(r)
             /\ Goto(r, "ok")
             /\ UNCHANGED <<req, todo, late, history>>

(***************************************************************************)
(* CreateMultipartUpload; the removal of an upload's staging directory by  *)
(* an abort, and by a complete, which does not mind when it fails.         *)
(***************************************************************************)
ManifestMade(r) == uploads' = [uploads EXCEPT ![r] = req[r].place] /\ UNCHANGED <<tree, obj>>
StagingRemoved(r) == uploads' = [uploads EXCEPT ![req[r].upload] = None] /\ UNCHANGED <<tree, obj>>

Initiate(r) == /\ pc[r] = "manifest" /\ ManifestMade(r)
               /\ Goto(r, "ok")
               /\ UNCHANGED <<req, todo, late, history>>

Clean(r) == /\ pc[r] = "clean" /\ StagingRemoved(r)
            /\ Goto(r, IF uploads[req[r].upload] = None /\ req[r].op = "abort" THEN "failed" ELSE "ok")
            /\ UNCHANGED <<req, todo, late, history>>

(***************************************************************************)
(* The client goes away: the request ends at its next await and its lock   *)
(* is free, but the file operation it was waiting for is on the blocking   *)
(* pool and lands at any later time, as a removal of a tree goes on.  The  *)
(* process is killed and started again: all that is under way ends and the *)
(* files stay.                                                             *)
(***************************************************************************)
Drop(r) == /\ Live(r) /\ pc[r] \notin {"scan", "erase"}
           /\ Goto(r, "gone")
           /\ late' = [late EXCEPT ![r] = IF pc[r] \in Pending THEN pc[r] ELSE "idle"]
           /\ UNCHANGED <<req, disk, todo, history>>

Land(r) == /\ \/ late[r] = "mkdir" /\ BucketMade(In(r))
              \/ late[r] = "mkmeta" /\ MetaMade(In(r))
              \/ late[r] = "mkdirs" /\ DirsMade(r)
              \/ late[r] = "install" /\ Installed(r)
              \/ late[r] = "unlink" /\ Unlinked(r)
              \/ late[r] = "manifest" /\ ManifestMade(r)
              \/ late[r] = "clean" /\ StagingRemoved(r)
           /\ late' = [late EXCEPT ![r] = "idle"]
           /\ UNCHANGED <<pc, req, todo, history>>

Crash == /\ \E r \in Request : Live(r) \/ late[r] # "idle"
         /\ pc' = [r \in Request |-> IF Live(r) THEN "gone" ELSE pc[r]]
         /\ late' = [r \in Request |-> "idle"]
         /\ UNCHANGED <<req, disk, todo, history>>

Step(r) == \/ Check(r) \/ CreateCheck(r) \/ MakeDir(r) \/ MakeMeta(r)
           \/ Walk(r) \/ WalkFails(r) \/ Visit(r) \/ List(r) \/ VisitUpload(r)
           \/ Scan(r) \/ Erase(r) \/ EraseFails(r)
           \/ Acquire(r) \/ MakeDirs(r) \/ Rename(r) \/ Install(r) \/ WriteFails(r)
           \/ Unlink(r) \/ Initiate(r) \/ Clean(r)

Next == \/ \E r \in Request : Receive(r) \/ Load(r) \/ Step(r) \/ Drop(r) \/ Land(r)
        \/ Crash

Spec == Init /\ [][Next]_vars

----
(***************************************************************************)
(* Correctness.                                                            *)
(***************************************************************************)

\* The types of the variables; and whatever is in a tree is in its directory.
TypeOK == /\ pc \in [Request -> Steps]
          /\ req \in [Request -> {None} \cup Call]
          /\ tree \in [Bucket -> SUBSET Entry]
          /\ obj \in [Place -> {None} \cup Id]
          /\ uploads \in [Id -> {None} \cup Place]
          /\ todo \in [Request -> SUBSET Names]
          /\ late \in [Request -> {"idle"} \cup Pending]
          /\ before \in [Request -> SUBSET Id]
          /\ steady \in SUBSET Bucket
          /\ calm \in SUBSET Request
          /\ \A b \in Bucket : /\ tree[b] # {} => Root \in tree[b]
                               /\ tree[b] \cap KeyDirs # {} => Objects \in tree[b]
                               /\ \A k \in Key : obj[<<b, k>>] # None => Dir(k) \in tree[b]

\* When delete_bucket has come to remove the tree, no object in it was
\* acknowledged before that deletion began: what it destroys was written at the
\* same time, whatever walks, other removals and crashes went on.
SettledObjectsSurvive ==
  \A r \in Request : pc[r] = "erase" =>
    \A k \in Key : obj[<<In(r), k>>] \notin before[r]

\* Nor does it leave an upload behind that was acknowledged before it began and
\* is still in progress.
SettledUploadsKeepBucket ==
  \A r \in Request : pc[r] = "erase" =>
    \A u \in before[r] : uploads[u] # None => uploads[u][1] # In(r)

\* A bucket whose creation was acknowledged exists until somebody asks to delete
\* it, also when the creation found it there, raced another one, or crashed before.
CreatedBucketStays == \A b \in steady : Exists(b)

\* Putting or deleting an object, or beginning an upload, in a bucket that was
\* acknowledged and that nobody asks to delete meanwhile does not fail, whatever
\* an interrupted deletion left of its directories earlier.
CalmRequestsSucceed ==
  \A r \in calm : req[r].op \in {"put", "remove", "initiate"} => pc[r] \notin {"failed", "nobucket"}
====
