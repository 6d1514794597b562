---- MODULE BucketsProofs ----
(***************************************************************************)
(* Theorems about Buckets for any sets of requests, buckets and keys, with *)
(* requests dropped and the process killed at any time.                    *)
(***************************************************************************)
EXTENDS Buckets, TLAPS

(***************************************************************************)
(* The invariants.                                                         *)
(***************************************************************************)
\* The steps of each operation.
StepsOf(op) ==
  CASE op = "create" -> {"check", "mkdir", "mkmeta"}
    [] op = "delete" -> {"check", "walk", "visit", "list", "uploads", "scan", "erase"}
    [] op = "put" -> {"check", "wait", "mkdirs", "rename", "install"}
    [] op = "remove" -> {"check", "wait", "unlink"}
    [] op = "initiate" -> {"check", "manifest"}
    [] op = "complete" -> {"wait", "mkdirs", "rename", "install", "clean"}
    [] op = "abort" -> {"clean"}
Control == \A r \in Request : pc[r] # "idle" => /\ req[r] \in Call
                                                /\ pc[r] \in StepsOf(req[r].op) \cup Ended
\* Only a request that is gone has a file operation that is still to land.
Late == \A r \in Request : late[r] # "idle" => pc[r] = "gone"
TypeInv == TypeOK /\ Control /\ Late

\* A bucket that somebody is deleting is not steady.
Unsteady == \A r \in Request : Live(r) /\ req[r].op = "delete" => In(r) \notin steady
SteadyInv == Unsteady /\ CreatedBucketStays

\* What a deletion has visited and found absent stays away, as only requests that were
\* not done when it began can bring anything in.
Passed(r, e) == \/ pc[r] = "visit" /\ e \notin todo[r]
                \/ pc[r] \in {"list", "uploads", "scan", "erase"}
PassedUpload(r, e) == \/ pc[r] = "uploads" /\ e \notin todo[r]
                      \/ pc[r] \in {"scan", "erase"}
BeforeInv ==
  \A r \in Request :
    /\ before[r] \subseteq Settled
    /\ \A k \in Key : Passed(r, Object(k)) => obj[<<In(r), k>>] \notin before[r]
    /\ \A u \in before[r] : PassedUpload(r, Staged(u)) /\ uploads[u] # None => uploads[u][1] # In(r)

\* A calm request finds its bucket, and the directories that it has made.
CalmInv ==
  /\ CalmRequestsSucceed
  /\ \A r \in calm :
       /\ pc[r] # "idle" /\ req[r].op # "delete"
       /\ Live(r) => In(r) \in steady
       /\ pc[r] \in {"rename", "install"} => Dir(KeyOf(r)) \in tree[In(r)]

(***************************************************************************)
(* Data.                                                                   *)
(***************************************************************************)
LEMMA CallTyped ==
  ASSUME NEW c \in Call
  PROVE  /\ c # None /\ c.place \in Place /\ c.upload \in Id
         /\ c.place[1] \in Bucket /\ c.place[2] \in Key
         /\ c.place = <<c.place[1], c.place[2]>>
         /\ c.op \in {"create", "delete", "put", "remove", "initiate", "complete", "abort"}
BY NoneAssumption DEF Call, ByBucket, Place, Id

LEMMA Distinct ==
  /\ Root # Meta /\ Root # Objects /\ Meta # Objects
  /\ Root \notin KeyDirs \cup KeyObjects /\ Meta \notin KeyDirs \cup KeyObjects
  /\ Objects \notin KeyDirs \cup KeyObjects
  /\ \A k, j : Dir(k) # Object(j) /\ (Dir(k) = Dir(j) => k = j) /\ (Object(k) = Object(j) => k = j)
  /\ \A k, u : Staged(u) # Object(k)
  /\ \A u, v : Staged(u) = Staged(v) => u = v
BY DEF Root, Meta, Objects, KeyDirs, KeyObjects, Dir, Object, Staged

\* A request is at one step of its operation.
LEMMA AtStep ==
  ASSUME TypeInv, NEW r \in Request, pc[r] # "idle"
  PROVE  /\ req[r] \in Call
         /\ pc[r] \in {"walk", "visit", "list", "uploads", "scan", "erase"} => req[r].op = "delete"
         /\ pc[r] \in {"mkdir", "mkmeta"} => req[r].op = "create"
         /\ pc[r] \in {"mkdirs", "rename", "install"} => req[r].op \in {"put", "complete"}
         /\ pc[r] = "wait" => req[r].op \in {"put", "complete", "remove"}
         /\ pc[r] = "unlink" => req[r].op = "remove"
         /\ pc[r] = "manifest" => req[r].op = "initiate"
         /\ pc[r] = "clean" => req[r].op \in {"complete", "abort"}
         /\ pc[r] = "check" => req[r].op \in {"create", "delete", "put", "remove", "initiate"}
<1>1. req[r] \in Call /\ pc[r] \in StepsOf(req[r].op) \cup Ended
  BY DEF TypeInv, Control
<1>2. req[r].op \in {"create", "delete", "put", "remove", "initiate", "complete", "abort"}
  BY <1>1, CallTyped
<1>3. QED
  BY <1>1, <1>2 DEF StepsOf, Ended

(***************************************************************************)
(* Types.                                                                  *)
(***************************************************************************)
\* A tree is complete: what is in it is in its directory.
Complete(b) == /\ tree[b] # {} => Root \in tree[b]
               /\ tree[b] \cap KeyDirs # {} => Objects \in tree[b]
               /\ \A k \in Key : obj[<<b, k>>] # None => Dir(k) \in tree[b]
LEMMA TreesTyped == TypeOK => \A b \in Bucket : tree[b] \in SUBSET Entry /\ Complete(b)
<1>1. SUFFICES ASSUME TypeOK, NEW b \in Bucket PROVE tree[b] \in SUBSET Entry /\ Complete(b)
  OBVIOUS
<1>2. tree[b] \in SUBSET Entry
  BY <1>1 DEF TypeOK
<1>3. Complete(b)
  BY <1>1 DEF TypeOK, Complete
<1>4. QED
  BY <1>2, <1>3

LEMMA Kinds ==
  /\ Below(Root) = Names \ {Root} /\ Below(Objects) = KeyDirs
  /\ \A k \in Key : Object(k) \in Below(Dir(k))
  /\ \A b : tree[b] \subseteq Listing(b)
  /\ \A b : \A k \in Key : obj[<<b, k>>] # None => Object(k) \in Listing(b)
<1>1. Below(Root) = Names \ {Root} /\ Below(Objects) = KeyDirs
  BY Distinct DEF Below
<1>2. ASSUME NEW k \in Key PROVE Object(k) \in Below(Dir(k))
  <2>1. Dir(k) # Root /\ Dir(k) # Objects
    BY Distinct DEF KeyDirs
  <2>2. QED
    BY <2>1 DEF Below
<1>3. QED
  BY <1>1, <1>2 DEF Listing

\* A request goes to a step of its operation, or ends.
LEMMA ControlStep ==
  ASSUME TypeInv, NEW r \in Request, NEW step, Goto(r, step), UNCHANGED req,
         pc[r] # "idle", step \in StepsOf(req[r].op) \cup Ended
  PROVE  Control' /\ pc' \in [Request -> Steps]
<1>1. req[r] \in Call
  BY DEF TypeInv, Control
<1>2. step \in Steps
  <2>1. req[r].op \in {"create", "delete", "put", "remove", "initiate", "complete", "abort"}
    BY <1>1, CallTyped
  <2>2. QED
    BY <2>1 DEF StepsOf, Steps, Ended
<1>3. pc' = [pc EXCEPT ![r] = step] /\ pc \in [Request -> Steps]
  BY DEF Goto, TypeInv, TypeOK
<1>4. \A q \in Request : pc'[q] = IF q = r THEN step ELSE pc[q]
  BY <1>3
<1>5. QED
  BY <1>1, <1>2, <1>3, <1>4 DEF TypeInv, Control

LEMMA TypeInit == Init => TypeInv
<1>1. SUFFICES ASSUME Init PROVE TypeInv
  OBVIOUS
<1>2. PICK made \in SUBSET Bucket :
        /\ \A p \in Place : obj[p] = Old => p[1] \in made
        /\ steady = made
        /\ tree = [b \in Bucket |-> IF b \notin made THEN {}
                     ELSE {Root, Meta, Objects} \cup {Dir(k) : k \in {j \in Key : obj[<<b, j>>] = Old}}]
        /\ \E p \in {None} \cup (made \X Key) : uploads = [u \in Id |-> IF u = Old THEN p ELSE None]
  BY <1>1 DEF Init
<1>3. tree \in [Bucket -> SUBSET Entry]
  BY <1>2 DEF Entry, KeyDirs
<1>4. obj \in [Place -> {None, Old}]
  BY <1>1 DEF Init
<1>5. ASSUME NEW b \in Bucket
      PROVE  /\ tree[b] # {} => Root \in tree[b]
             /\ tree[b] \cap KeyDirs # {} => Objects \in tree[b]
             /\ \A k \in Key : obj[<<b, k>>] # None => Dir(k) \in tree[b]
  <2>1. \A k \in Key : <<b, k>> \in Place /\ <<b, k>>[1] = b
    BY DEF Place
  <2>2. \A k \in Key : obj[<<b, k>>] # None => obj[<<b, k>>] = Old /\ b \in made
    BY <1>2, <1>4, <2>1
  <2>3. QED
    BY <1>2, <2>2
<1>6. uploads \in [Id -> {None} \cup Place]
  BY <1>2 DEF Place
<1>7. pc \in [Request -> Steps] /\ \A r \in Request : pc[r] = "idle"
  BY <1>1 DEF Init, Steps
<1>8. QED
  BY <1>1, <1>2, <1>3, <1>4, <1>5, <1>6, <1>7 DEF Init, TypeInv, TypeOK, Control, Late, Id

\* The file operations of the requests other than a removal of a tree, awaited or late.
FileOp(r) == \/ BucketMade(In(r)) \/ MetaMade(In(r)) \/ DirsMade(r) \/ Installed(r)
             \/ Unlinked(r) \/ ManifestMade(r) \/ StagingRemoved(r)

\* They keep trees complete and remove no directory.
LEMMA FilesTyped ==
  ASSUME TypeInv, NEW r \in Request, req[r] \in Call, FileOp(r)
  PROVE  /\ tree' \in [Bucket -> SUBSET Entry]
         /\ obj' \in [Place -> {None} \cup Id]
         /\ uploads' \in [Id -> {None} \cup Place]
         /\ \A b \in Bucket : Complete(b)' /\ tree[b] \subseteq tree'[b]
<1>1. In(r) \in Bucket /\ KeyOf(r) \in Key /\ req[r].place \in Place /\ req[r].place = <<In(r), KeyOf(r)>>
      /\ req[r].upload \in Id
  BY CallTyped DEF In, KeyOf
<1>2. /\ tree \in [Bucket -> SUBSET Entry] /\ obj \in [Place -> {None} \cup Id]
      /\ uploads \in [Id -> {None} \cup Place] /\ \A b \in Bucket : Complete(b)
  BY TreesTyped DEF TypeInv, TypeOK
<1>3. CASE BucketMade(In(r)) \/ MetaMade(In(r)) \/ DirsMade(r)
  <2>1. UNCHANGED <<obj, uploads>>
    BY <1>3 DEF BucketMade, MetaMade, DirsMade
  <2>2. PICK more \in SUBSET Entry :
          /\ tree' = [tree EXCEPT ![In(r)] = @ \cup more]
          /\ Root \in more \cup tree[In(r)]
          /\ more \cap KeyDirs # {} => Objects \in more
    <3>1. CASE BucketMade(In(r))
      <4>1. {Root, Objects} \in SUBSET Entry
        BY DEF Entry
      <4>2. QED
        BY <3>1, <4>1 DEF BucketMade
    <3>2. CASE MetaMade(In(r))
      <4>1. {Meta} \in SUBSET Entry /\ {Meta} \cap KeyDirs = {}
        BY Distinct DEF Entry
      <4>2. QED
        BY <3>2, <4>1 DEF MetaMade
    <3>3. CASE DirsMade(r)
      <4>1. {Root, Objects, Dir(KeyOf(r))} \in SUBSET Entry
        BY <1>1 DEF Entry, KeyDirs
      <4>2. QED
        BY <3>3, <4>1 DEF DirsMade
    <3>4. QED
      BY <1>3, <3>1, <3>2, <3>3
  <2>3. tree' \in [Bucket -> SUBSET Entry]
    BY <1>2, <2>2
  <2>4. ASSUME NEW b \in Bucket PROVE Complete(b)' /\ tree[b] \subseteq tree'[b]
    <3>1. CASE b # In(r)
      BY <1>2, <2>1, <2>2, <3>1 DEF Complete
    <3>2. CASE b = In(r)
      <4>1. tree'[b] = tree[b] \cup more /\ Complete(b)
        BY <1>2, <2>2, <3>2
      <4>2. QED
        BY <2>1, <2>2, <3>2, <4>1 DEF Complete
    <3>3. QED
      BY <3>1, <3>2
  <2>5. QED
    BY <1>2, <2>1, <2>3, <2>4
<1>4. CASE Installed(r) \/ Unlinked(r)
  <2>1. PICK o \in {None, r} : /\ obj' = [obj EXCEPT ![req[r].place] = o]
                               /\ o # None => Dir(KeyOf(r)) \in tree[In(r)]
                               /\ UNCHANGED <<tree, uploads>>
    BY <1>4 DEF Installed, Unlinked
  <2>2. obj' \in [Place -> {None} \cup Id]
    BY <1>1, <1>2, <2>1 DEF Id
  <2>3. ASSUME NEW b \in Bucket, NEW k \in Key, obj'[<<b, k>>] # None PROVE Dir(k) \in tree[b]
    <3>1. <<b, k>> \in Place
      BY DEF Place
    <3>2. CASE <<b, k>> = req[r].place
      <4>1. obj'[<<b, k>>] = o /\ b = In(r) /\ k = KeyOf(r)
        BY <1>1, <1>2, <2>1, <3>1, <3>2
      <4>2. QED
        BY <2>1, <2>3, <4>1
    <3>3. CASE <<b, k>> # req[r].place
      <4>1. obj'[<<b, k>>] = obj[<<b, k>>]
        BY <1>2, <2>1, <3>1, <3>3
      <4>2. QED
        BY <1>2, <2>3, <4>1 DEF Complete
    <3>4. QED
      BY <3>2, <3>3
  <2>4. QED
    BY <1>2, <2>1, <2>2, <2>3 DEF Complete
<1>5. CASE ManifestMade(r) \/ StagingRemoved(r)
  <2>1. UNCHANGED <<tree, obj>> /\ uploads' \in [Id -> {None} \cup Place]
    BY <1>1, <1>2, <1>5 DEF ManifestMade, StagingRemoved
  <2>2. QED
    BY <1>2, <2>1 DEF Complete
<1>6. QED
  BY <1>3, <1>4, <1>5 DEF FileOp

\* A late operation is one of them, and is that of a request that is gone.
LEMMA LateOp ==
  ASSUME TypeInv, NEW r \in Request, Land(r)
  PROVE  FileOp(r) /\ req[r] \in Call /\ pc[r] = "gone"
<1>1. late[r] # "idle"
  BY DEF Land
<1>2. pc[r] = "gone"
  BY <1>1 DEF TypeInv, Late
<1>3. QED
  BY <1>2 DEF Land, FileOp, TypeInv, Control

\* The types after a step of a request with a file operation.
LEMMA FilesStep ==
  ASSUME TypeInv, NEW r \in Request, req[r] \in Call, FileOp(r),
         pc' \in [Request -> Steps], UNCHANGED <<req, todo, before, calm>>,
         late' \in [Request -> {"idle"} \cup Pending], steady' \in SUBSET Bucket
  PROVE  TypeOK'
<1>1. /\ tree' \in [Bucket -> SUBSET Entry] /\ obj' \in [Place -> {None} \cup Id]
      /\ uploads' \in [Id -> {None} \cup Place] /\ \A b \in Bucket : Complete(b)'
  BY FilesTyped
<1>2. QED
  BY <1>1 DEF TypeInv, TypeOK, Complete

\* Nobody who is gone comes back.
LEMMA LateStep ==
  ASSUME TypeInv, [Next]_vars
  PROVE  Late'
<1> USE DEF disk, history
<1>1. pc \in [Request -> Steps] /\ late \in [Request -> {"idle"} \cup Pending]
  BY DEF TypeInv, TypeOK
<1>2. ASSUME NEW r \in Request, Receive(r) \/ Load(r) PROVE Late'
  BY <1>1, <1>2 DEF Receive, Load, Goto, TypeInv, Late
<1>3. ASSUME NEW r \in Request, Step(r) PROVE Late'
  <2>1. pc[r] # "gone" /\ UNCHANGED late /\ \A q \in Request : q # r => pc'[q] = pc[q]
    <3>1. CASE Check(r) \/ CreateCheck(r) \/ MakeDir(r) \/ MakeMeta(r) \/ Walk(r) \/ WalkFails(r)
      BY <1>1, <3>1 DEF Check, CreateCheck, MakeDir, MakeMeta, Walk, WalkFails, Goto
    <3>2. CASE Visit(r) \/ List(r) \/ VisitUpload(r) \/ Scan(r) \/ Erase(r) \/ EraseFails(r)
      BY <1>1, <3>2 DEF Visit, List, VisitUpload, Visited, Scan, Erase, EraseFails, Goto
    <3>3. CASE Acquire(r) \/ MakeDirs(r) \/ Rename(r) \/ Install(r) \/ WriteFails(r)
      BY <1>1, <3>3 DEF Acquire, MakeDirs, Rename, Install, WriteFails, Goto
    <3>4. CASE Unlink(r) \/ Initiate(r) \/ Clean(r)
      BY <1>1, <3>4 DEF Unlink, Initiate, Clean, Goto
    <3>5. QED
      BY <1>3, <3>1, <3>2, <3>3, <3>4 DEF Step
  <2>2. QED
    BY <2>1 DEF TypeInv, Late
<1>4. ASSUME NEW r \in Request, Drop(r) \/ Land(r) PROVE Late'
  BY <1>1, <1>4 DEF Drop, Land, Goto, TypeInv, Late
<1>5. CASE Crash
  BY <1>5 DEF Crash, Late
<1>6. CASE UNCHANGED vars
  BY <1>6 DEF vars, TypeInv, Late
<1>7. QED
  BY <1>2, <1>3, <1>4, <1>5, <1>6 DEF Next

LEMMA TypeStep ==
  ASSUME TypeInv, [Next]_vars
  PROVE  TypeInv'
<1> USE DEF disk, history
<1>1. ASSUME NEW r \in Request, Receive(r) PROVE TypeOK' /\ Control'
  <2>1. PICK c \in ByBucket : req' = [req EXCEPT ![r] = c] /\ Goto(r, "check")
                              /\ steady' \in {steady, steady \ {c.place[1]}}
    BY <1>1 DEF Receive
  <2>2. c \in Call /\ "check" \in StepsOf(c.op)
    BY DEF Call, ByBucket, StepsOf
  <2>3. calm' \subseteq Request
    BY <1>1 DEF Receive, TypeInv, TypeOK
  <2>4. Control' /\ pc' \in [Request -> Steps]
    BY <2>1, <2>2 DEF Goto, TypeInv, TypeOK, Control, Steps
  <2>5. QED
    BY <1>1, <2>1, <2>2, <2>3, <2>4 DEF Receive, TypeInv, TypeOK
<1>2. ASSUME NEW r \in Request, Load(r) PROVE TypeOK' /\ Control'
  <2>1. PICK c \in Call : /\ c.op \in {"complete", "abort"} /\ req' = [req EXCEPT ![r] = c]
                          /\ Goto(r, IF c.op = "complete" THEN "wait" ELSE "clean")
    BY <1>2 DEF Load
  <2>2. Control' /\ pc' \in [Request -> Steps]
    BY <2>1 DEF Goto, TypeInv, TypeOK, Control, Steps, StepsOf
  <2>3. QED
    BY <1>2, <2>1, <2>2 DEF Load, TypeInv, TypeOK
<1>3. ASSUME NEW r \in Request, Check(r) PROVE TypeOK' /\ Control'
  <2>1. Settled \subseteq Id
    BY DEF Settled, Id
  <2>2. AfterCheck(r) \in StepsOf(req[r].op)
    BY <1>3, AtStep DEF Check, AfterCheck, StepsOf
  <2>3. Control' /\ pc' \in [Request -> Steps]
    <3>1. pc[r] = "check" /\ UNCHANGED req /\ Goto(r, IF Exists(In(r)) THEN AfterCheck(r) ELSE "nobucket")
      BY <1>3 DEF Check
    <3>2. QED
      BY <2>2, <3>1, ControlStep DEF Ended
  <2>4. before' \in [Request -> SUBSET Id]
    BY <1>3, <2>1 DEF Check, TypeInv, TypeOK
  <2>5. QED
    BY <1>3, <2>3, <2>4 DEF Check, TypeInv, TypeOK
<1>4. ASSUME NEW r \in Request, CreateCheck(r) PROVE TypeOK' /\ Control'
  <2>1. In(r) \in Bucket
    BY <1>4, AtStep, CallTyped DEF CreateCheck, In
  <2>2. Control' /\ pc' \in [Request -> Steps]
    <3>1. /\ pc[r] = "check" /\ req[r].op = "create" /\ UNCHANGED req
          /\ Goto(r, IF Exists(In(r)) THEN "ok" ELSE "mkdir")
      BY <1>4 DEF CreateCheck
    <3>2. "mkdir" \in StepsOf(req[r].op)
      BY <3>1 DEF StepsOf
    <3>3. QED
      BY <3>1, <3>2, ControlStep DEF Ended
  <2>3. QED
    BY <1>4, <2>1, <2>2 DEF CreateCheck, Steadied, TypeInv, TypeOK
<1>5. ASSUME NEW r \in Request, MakeDir(r) \/ MakeMeta(r) \/ MakeDirs(r) PROVE TypeOK' /\ Control'
  <2>1. req[r] \in Call /\ pc[r] # "idle" /\ FileOp(r) /\ UNCHANGED <<req, todo, late, before, calm>>
    BY <1>5, AtStep DEF MakeDir, MakeMeta, MakeDirs, FileOp
  <2>2. In(r) \in Bucket
    BY <2>1, CallTyped DEF In
  <2>3. Control' /\ pc' \in [Request -> Steps]
    <3>1. PICK step \in {"mkmeta", "ok", "rename"} : Goto(r, step) /\ step \in StepsOf(req[r].op) \cup Ended
      BY <1>5, AtStep DEF MakeDir, MakeMeta, MakeDirs, StepsOf, Ended
    <3>2. QED
      BY <2>1, <3>1, ControlStep
  <2>4. steady' \in SUBSET Bucket
    BY <1>5, <2>2 DEF MakeDir, MakeMeta, MakeDirs, Steadied, TypeInv, TypeOK
  <2>5. TypeOK'
    BY <2>1, <2>3, <2>4, FilesStep DEF TypeInv, TypeOK
  <2>6. QED
    BY <2>3, <2>5
<1>6. ASSUME NEW r \in Request, Install(r) \/ Unlink(r) \/ Initiate(r) \/ Clean(r) PROVE TypeOK' /\ Control'
  <2>1. req[r] \in Call /\ pc[r] # "idle" /\ FileOp(r) /\ UNCHANGED <<req, todo, late, history>>
    BY <1>6, AtStep DEF Install, Unlink, Initiate, Clean, FileOp
  <2>2. Control' /\ pc' \in [Request -> Steps]
    <3>1. PICK step \in {"clean", "failed", "ok"} : Goto(r, step) /\ step \in StepsOf(req[r].op) \cup Ended
      BY <1>6 DEF Install, Unlink, Initiate, Clean, StepsOf, Ended
    <3>2. QED
      BY <2>1, <3>1, ControlStep
  <2>3. TypeOK'
    BY <2>1, <2>2, FilesStep DEF TypeInv, TypeOK
  <2>4. QED
    BY <2>2, <2>3
<1>7. ASSUME NEW r \in Request, Walk(r) \/ List(r) \/ Scan(r) PROVE TypeOK' /\ Control'
  <2>1. pc[r] # "idle" /\ req[r].op = "delete" /\ UNCHANGED <<req, disk, late, history>>
    BY <1>7, AtStep DEF Walk, List, Scan
  <2>2. PICK step \in {"visit", "uploads", "erase", "failed"} : Goto(r, step)
    BY <1>7 DEF Walk, List, Scan
  <2>3. PICK names \in SUBSET Names : todo' = [todo EXCEPT ![r] = names]
    <3>1. In(r) \in Bucket
      BY <1>7, AtStep, CallTyped DEF Walk, List, Scan, In
    <3>2. Listing(In(r)) \subseteq Names
      BY <3>1 DEF Listing, Names, KeyObjects, TypeInv, TypeOK
    <3>3. QED
      BY <1>7, <3>2 DEF Walk, List, Scan, Names
  <2>4. step \in StepsOf(req[r].op) \cup Ended
    BY <2>1 DEF StepsOf, Ended
  <2>5. Control' /\ pc' \in [Request -> Steps]
    BY <2>1, <2>2, <2>4, ControlStep
  <2>6. QED
    BY <2>1, <2>3, <2>5 DEF TypeInv, TypeOK
<1>8. ASSUME NEW r \in Request, Visit(r) \/ VisitUpload(r) PROVE TypeOK' /\ Control'
  <2>1. pc[r] # "idle" /\ req[r].op = "delete" /\ UNCHANGED <<req, disk, late, history>>
    BY <1>8, AtStep DEF Visit, VisitUpload, Visited
  <2>2. PICK step \in {"notempty", "visit", "uploads", "list", "scan"} : Goto(r, step)
    BY <1>8 DEF Visit, VisitUpload, Visited
  <2>3. PICK e : todo' = [todo EXCEPT ![r] = @ \ {e}]
    BY <1>8 DEF Visit, VisitUpload, Visited
  <2>4. step \in StepsOf(req[r].op) \cup Ended
    BY <2>1 DEF StepsOf, Ended
  <2>5. Control' /\ pc' \in [Request -> Steps]
    BY <2>1, <2>2, <2>4, ControlStep
  <2>6. QED
    BY <2>1, <2>3, <2>5 DEF TypeInv, TypeOK
<1>9. ASSUME NEW r \in Request, Erase(r) PROVE TypeOK' /\ Control'
  <2>1. pc[r] # "idle" /\ req[r].op = "delete" /\ UNCHANGED <<req, uploads, late, history>> /\ In(r) \in Bucket
    BY <1>9, AtStep, CallTyped DEF Erase, In
  <2>2. PICK e \in Listing(In(r)) :
          /\ Below(e) \cap Listing(In(r)) = {}
          /\ tree' = [tree EXCEPT ![In(r)] = @ \ {e}]
          /\ obj' = [p \in Place |-> IF p[1] = In(r) /\ e = Object(p[2]) THEN None ELSE obj[p]]
          /\ todo' = [todo EXCEPT ![r] = @ \ {e}]
          /\ Goto(r, IF e = Root THEN "ok" ELSE "erase")
    BY <1>9 DEF Erase
  <2>3. Control' /\ pc' \in [Request -> Steps]
    <3>1. "erase" \in StepsOf(req[r].op)
      BY <2>1 DEF StepsOf
    <3>2. QED
      BY <2>1, <2>2, <3>1, ControlStep DEF Ended
  <2>4. tree' \in [Bucket -> SUBSET Entry] /\ obj' \in [Place -> {None} \cup Id]
        /\ todo' \in [Request -> SUBSET Names]
    BY <2>2 DEF TypeInv, TypeOK
  <2>5. ASSUME NEW b \in Bucket
        PROVE  /\ tree'[b] # {} => Root \in tree'[b]
               /\ tree'[b] \cap KeyDirs # {} => Objects \in tree'[b]
               /\ \A k \in Key : obj'[<<b, k>>] # None => Dir(k) \in tree'[b]
    <3>1. \A k \in Key : <<b, k>> \in Place /\ <<b, k>>[1] = b /\ <<b, k>>[2] = k
      BY DEF Place
    <3>2. \A k \in Key : obj'[<<b, k>>] # None => obj[<<b, k>>] # None /\ (b = In(r) => e # Object(k))
      BY <2>2, <3>1
    <3>t. tree \in [Bucket -> SUBSET Entry] /\ tree[b] \in SUBSET Entry /\ Complete(b)
      BY TreesTyped DEF TypeInv, TypeOK
    <3>3. CASE b # In(r)
      <4>1. tree'[b] = tree[b]
        BY <2>2, <3>t, <3>3
      <4>2. QED
        BY <3>2, <3>t, <4>1 DEF Complete
    <3>4. CASE b = In(r)
      <4>1. tree'[b] = tree[b] \ {e} /\ tree[b] \in SUBSET Entry
        BY <2>2, <3>4 DEF TypeInv, TypeOK
      <4>2. tree'[b] # {} => Root \in tree'[b]
        <5>1. e = Root => tree'[b] \subseteq Below(e)
          BY <4>1, Kinds DEF Names
        <5>2. tree'[b] \subseteq Listing(In(r))
          BY <3>4, <4>1, Kinds
        <5>3. e = Root => tree'[b] = {}
          BY <2>2, <5>1, <5>2
        <5>4. QED
          BY <3>t, <4>1, <5>3 DEF Complete
      <4>3. tree'[b] \cap KeyDirs # {} => Objects \in tree'[b]
        <5>1. tree'[b] \subseteq Listing(In(r))
          BY <3>4, <4>1, Kinds
        <5>2. e = Objects => tree'[b] \cap KeyDirs = {}
          BY <2>2, <5>1, Kinds
        <5>3. QED
          BY <3>t, <4>1, <5>2 DEF Complete
      <4>4. ASSUME NEW k \in Key, obj'[<<b, k>>] # None PROVE Dir(k) \in tree'[b]
        <5>1. Dir(k) \in tree[b] /\ obj[<<b, k>>] # None
          BY <3>2, <3>t, <4>4 DEF Complete
        <5>2. e # Dir(k)
          BY <2>2, <3>4, <5>1, Kinds
        <5>3. QED
          BY <4>1, <5>1, <5>2
      <4>5. QED
        BY <4>2, <4>3, <4>4
    <3>5. QED
      BY <3>3, <3>4
  <2>6. QED
    BY <2>1, <2>3, <2>4, <2>5 DEF TypeInv, TypeOK
<1>10. ASSUME NEW r \in Request, WalkFails(r) \/ EraseFails(r) \/ WriteFails(r) PROVE TypeOK' /\ Control'
  <2>1. Goto(r, "failed")
    BY <1>10 DEF WalkFails, EraseFails, WriteFails
  <2>2. pc[r] # "idle" /\ UNCHANGED <<req, disk, todo, late, history>>
    BY <1>10 DEF WalkFails, EraseFails, WriteFails
  <2>3. Control' /\ pc' \in [Request -> Steps]
    BY <2>1, <2>2, ControlStep DEF Ended
  <2>4. QED
    BY <2>2, <2>3 DEF TypeInv, TypeOK
<1>11. ASSUME NEW r \in Request, Acquire(r) \/ Rename(r) PROVE TypeOK' /\ Control'
  <2>1. pc[r] # "idle" /\ UNCHANGED <<req, disk, todo, late, history>>
    BY <1>11 DEF Acquire, Rename
  <2>2. PICK step \in {"unlink", "mkdirs", "install"} : Goto(r, step) /\ step \in StepsOf(req[r].op)
    BY <1>11, AtStep DEF Acquire, Rename, StepsOf
  <2>3. Control' /\ pc' \in [Request -> Steps]
    BY <2>1, <2>2, ControlStep
  <2>4. QED
    BY <2>1, <2>3 DEF TypeInv, TypeOK
<1>12. ASSUME NEW r \in Request, Drop(r) PROVE TypeOK' /\ Control'
  <2>1. pc[r] # "idle" /\ Goto(r, "gone") /\ UNCHANGED <<req, disk, todo, history>>
    BY <1>12 DEF Drop, Live
  <2>2. Control' /\ pc' \in [Request -> Steps]
    BY <2>1, ControlStep DEF Ended
  <2>3. late' \in [Request -> {"idle"} \cup Pending]
    BY <1>12 DEF Drop, TypeInv, TypeOK
  <2>4. QED
    BY <2>1, <2>2, <2>3 DEF TypeInv, TypeOK
<1>13. ASSUME NEW r \in Request, Land(r) PROVE TypeOK' /\ Control'
  <2>1. FileOp(r) /\ req[r] \in Call
    BY <1>13, LateOp
  <2>2. UNCHANGED <<pc, req, todo, history>> /\ late' \in [Request -> {"idle"} \cup Pending]
    BY <1>13 DEF Land, TypeInv, TypeOK
  <2>3. TypeOK'
    BY <2>1, <2>2, FilesStep DEF TypeInv, TypeOK
  <2>4. QED
    BY <2>2, <2>3 DEF TypeInv, Control
<1>14. CASE Crash
  <2>1. pc' \in [Request -> Steps] /\ \A r \in Request : pc'[r] \in {"gone", pc[r]} /\ (pc'[r] # "idle" => pc[r] # "idle")
    BY <1>14 DEF Crash, Live, TypeInv, TypeOK, Steps, Ended
  <2>2. Control'
    BY <1>14, <2>1 DEF Crash, TypeInv, Control, Ended
  <2>3. late' \in [Request -> {"idle"} \cup Pending] /\ UNCHANGED <<req, disk, todo, history>>
    BY <1>14 DEF Crash
  <2>4. TypeOK'
    BY <2>1, <2>3 DEF TypeInv, TypeOK
  <2>5. QED
    BY <2>2, <2>4, LateStep DEF TypeInv
<1>15. CASE UNCHANGED vars
  <2>1. TypeOK'
    BY <1>15 DEF vars, TypeInv, TypeOK
  <2>2. Control'
    BY <1>15 DEF vars, TypeInv, Control
  <2>3. QED
    BY <2>1, <2>2, LateStep DEF TypeInv
<1>16. QED
  BY <1>1, <1>2, <1>3, <1>4, <1>5, <1>6, <1>7, <1>8, <1>9, <1>10, <1>11, <1>12, <1>13, <1>14, <1>15,
     LateStep DEF Next, Step, TypeInv

LEMMA TypeAlways == Spec => []TypeInv
<1>1. TypeInv /\ [Next]_vars => TypeInv'
  BY TypeStep
<1>2. QED
  BY <1>1, TypeInit, PTL DEF Spec

\* The variables keep their types.
THEOREM TypeCorrect == Spec => []TypeOK
<1>1. TypeInv => TypeOK
  BY DEF TypeInv
<1>2. QED
  BY <1>1, TypeAlways, PTL

(***************************************************************************)
(* A step of a request concerns no other request, and starts none.         *)
(***************************************************************************)
LEMMA OneStep ==
  ASSUME TypeInv, NEW r \in Request, Step(r) \/ Drop(r)
  PROVE  /\ Live(r) /\ UNCHANGED <<req, calm>>
         /\ \E step \in Steps : pc' = [pc EXCEPT ![r] = step]
         /\ \A q \in Request : q # r => pc'[q] = pc[q]
<1> USE DEF disk, history, Goto
<1>1. pc \in [Request -> Steps]
  BY DEF TypeInv, TypeOK
<1>2. Live(r) /\ UNCHANGED <<req, calm>> /\ \E step : pc' = [pc EXCEPT ![r] = step]
  <2>1. CASE Check(r) \/ CreateCheck(r) \/ MakeDir(r) \/ MakeMeta(r) \/ Walk(r) \/ WalkFails(r)
    BY <2>1 DEF Check, CreateCheck, MakeDir, MakeMeta, Walk, WalkFails, Live, Ended
  <2>2. CASE Visit(r) \/ List(r) \/ VisitUpload(r) \/ Scan(r) \/ Erase(r) \/ EraseFails(r)
    BY <2>2 DEF Visit, List, VisitUpload, Visited, Scan, Erase, EraseFails, Live, Ended
  <2>3. CASE Acquire(r) \/ MakeDirs(r) \/ Rename(r) \/ Install(r) \/ WriteFails(r)
    BY <2>3 DEF Acquire, MakeDirs, Rename, Install, WriteFails, Live, Ended
  <2>4. CASE Unlink(r) \/ Initiate(r) \/ Clean(r) \/ Drop(r)
    BY <2>4 DEF Unlink, Initiate, Clean, Drop, Live, Ended
  <2>5. QED
    BY <2>1, <2>2, <2>3, <2>4 DEF Step
<1>3. PICK step : pc' = [pc EXCEPT ![r] = step]
  BY <1>2
<1>4. pc'[r] = step /\ \A q \in Request : q # r => pc'[q] = pc[q]
  BY <1>1, <1>3
<1>5. pc' \in [Request -> Steps]
  BY TypeStep DEF TypeInv, TypeOK, Next
<1>6. QED
  BY <1>2, <1>3, <1>4, <1>5

(***************************************************************************)
(* Buckets stay.                                                           *)
(***************************************************************************)
\* A step that leaves the directories alone.
LEMMA QuietlySteady ==
  ASSUME SteadyInv, UNCHANGED <<req, tree, steady>>, \A q \in Request : Live(q)' => Live(q)
  PROVE  SteadyInv'
BY DEF SteadyInv, Unsteady, CreatedBucketStays, Exists, In

LEMMA SteadyInit == Init => SteadyInv
<1>1. SUFFICES ASSUME Init PROVE SteadyInv
  OBVIOUS
<1>2. PICK made \in SUBSET Bucket :
        /\ steady = made
        /\ tree = [b \in Bucket |-> IF b \notin made THEN {}
                     ELSE {Root, Meta, Objects} \cup {Dir(k) : k \in {j \in Key : obj[<<b, j>>] = Old}}]
  BY <1>1 DEF Init
<1>3. CreatedBucketStays
  BY <1>2 DEF CreatedBucketStays, Exists
<1>4. Unsteady
  BY <1>1 DEF Init, Unsteady, Live
<1>5. QED
  BY <1>3, <1>4 DEF SteadyInv

LEMMA SteadyStep ==
  ASSUME TypeInv, SteadyInv, [Next]_vars
  PROVE  SteadyInv'
<1> USE DEF disk, history
<1>1. ASSUME NEW r \in Request, Receive(r) PROVE SteadyInv'
  <2>1. PICK c \in ByBucket :
          /\ req' = [req EXCEPT ![r] = c] /\ pc' = [pc EXCEPT ![r] = "check"]
          /\ steady' = IF c.op = "delete" THEN steady \ {c.place[1]} ELSE steady
    BY <1>1 DEF Receive, Goto
  <2>2. tree' = tree /\ steady' \subseteq steady
    BY <1>1, <2>1 DEF Receive
  <2>3. CreatedBucketStays'
    BY <2>2 DEF SteadyInv, CreatedBucketStays, Exists
  <2>4. ASSUME NEW q \in Request, Live(q)', req'[q].op = "delete" PROVE In(q)' \notin steady'
    <3>1. CASE q = r
      BY <2>1, <2>4, <3>1 DEF TypeInv, TypeOK, In
    <3>2. CASE q # r
      <4>1. pc'[q] = pc[q] /\ req'[q] = req[q]
        BY <2>1, <3>2 DEF TypeInv, TypeOK
      <4>2. QED
        BY <2>2, <2>4, <4>1 DEF SteadyInv, Unsteady, Live, In
    <3>3. QED
      BY <3>1, <3>2
  <2>5. QED
    BY <2>3, <2>4 DEF SteadyInv, Unsteady
<1>2. ASSUME NEW r \in Request, Load(r) PROVE SteadyInv'
  <2>1. PICK c \in Call : c.op # "delete" /\ req' = [req EXCEPT ![r] = c]
    BY <1>2 DEF Load
  <2>2. /\ UNCHANGED <<tree, steady>>
        /\ \A q \in Request : IF q = r THEN req'[q] = c ELSE pc'[q] = pc[q] /\ req'[q] = req[q]
    BY <1>2, <2>1 DEF Load, Goto, TypeInv, TypeOK
  <2>3. CreatedBucketStays'
    BY <2>2 DEF SteadyInv, CreatedBucketStays, Exists
  <2>4. Unsteady'
    BY <2>1, <2>2 DEF SteadyInv, Unsteady, Live, In
  <2>5. QED
    BY <2>3, <2>4 DEF SteadyInv
<1>3. ASSUME NEW r \in Request, Step(r) \/ Drop(r) PROVE SteadyInv'
  <2>1. /\ Live(r) /\ req' = req
        /\ \A q \in Request : q # r => pc'[q] = pc[q]
    BY <1>3, OneStep
  <2>2. \A q \in Request : Live(q)' => Live(q)
    BY <2>1 DEF Live
  <2>3. In(r) \in Bucket
    BY <2>1, AtStep, CallTyped DEF Live, In
  <2>4. CASE CreateCheck(r) \/ MakeMeta(r)
    <3>1. /\ \A b \in Bucket : tree[b] \subseteq tree'[b]
          /\ steady' # steady => steady' = Steadied(In(r)) /\ Meta \in tree'[In(r)]
      BY <2>3, <2>4 DEF CreateCheck, MakeMeta, MetaMade, Exists, TypeInv, TypeOK
    <3>2. CASE steady' = steady
      <4>1. Unsteady'
        BY <2>1, <2>2, <3>2 DEF SteadyInv, Unsteady, In
      <4>2. CreatedBucketStays'
        BY <3>1, <3>2 DEF SteadyInv, CreatedBucketStays, Exists, TypeInv, TypeOK
      <4>3. QED
        BY <4>1, <4>2 DEF SteadyInv
    <3>3. CASE steady' # steady
      <4>1. steady' = steady \cup {In(r)} /\ ~Deleting(In(r))
        BY <3>1, <3>3 DEF Steadied
      <4>2. Unsteady'
        BY <2>1, <2>2, <4>1 DEF SteadyInv, Unsteady, Deleting, In
      <4>3. CreatedBucketStays'
        BY <3>1, <3>3, <4>1 DEF SteadyInv, CreatedBucketStays, Exists, TypeInv, TypeOK
      <4>4. QED
        BY <4>2, <4>3 DEF SteadyInv
    <3>4. QED
      BY <3>2, <3>3
  <2>5. CASE MakeDir(r) \/ MakeDirs(r) \/ Erase(r)
    <3>1. Unsteady'
      <4>1. steady' = steady
        BY <2>5 DEF MakeDir, MakeDirs, BucketMade, DirsMade, Erase
      <4>2. QED
        BY <2>1, <2>2, <4>1 DEF SteadyInv, Unsteady, In
    <3>2. ASSUME NEW b \in steady' PROVE Meta \in tree'[b]
      <4>1. b \in steady /\ b \in Bucket /\ Meta \in tree[b]
        BY <2>5, <3>2 DEF MakeDir, MakeDirs, BucketMade, DirsMade, Erase, SteadyInv, CreatedBucketStays, Exists, TypeInv, TypeOK
      <4>2. CASE MakeDir(r) \/ MakeDirs(r)
        BY <2>3, <4>1, <4>2 DEF MakeDir, MakeDirs, BucketMade, DirsMade, TypeInv, TypeOK
      <4>3. CASE Erase(r)
        <5>1. req[r].op = "delete"
          BY <2>1, <4>3, AtStep DEF Erase
        <5>2. b # In(r)
          BY <2>1, <4>1, <5>1 DEF SteadyInv, Unsteady
        <5>3. QED
          BY <4>1, <4>3, <5>2 DEF Erase, TypeInv, TypeOK
      <4>4. QED
        BY <2>5, <4>2, <4>3
    <3>3. QED
      BY <3>1, <3>2 DEF SteadyInv, CreatedBucketStays, Exists
  <2>6. CASE UNCHANGED <<tree, steady>>
    BY <2>1, <2>2, <2>6, QuietlySteady
  <2>7. QED
    BY <1>3, <2>4, <2>5, <2>6 DEF Step, Drop, Check, Walk, WalkFails, Visit, List, VisitUpload, Visited,
       Scan, EraseFails, Acquire, Rename, Install, Installed, WriteFails, Unlink, Unlinked,
     Initiate, ManifestMade, Clean, StagingRemoved
<1>4. ASSUME NEW r \in Request, Land(r) PROVE SteadyInv'
  <2>1. UNCHANGED <<pc, req, steady>> /\ \A b \in Bucket : tree[b] \subseteq tree'[b]
    BY <1>4, LateOp, FilesTyped DEF Land
  <2>2. Unsteady'
    BY <2>1 DEF SteadyInv, Unsteady, Live, In
  <2>3. CreatedBucketStays'
    BY <2>1 DEF SteadyInv, CreatedBucketStays, Exists, TypeInv, TypeOK
  <2>4. QED
    BY <2>2, <2>3 DEF SteadyInv
<1>5. CASE Crash
  <2>1. UNCHANGED <<req, tree, steady>> /\ \A q \in Request : Live(q)' => Live(q)
    BY <1>5 DEF Crash, Live, Ended
  <2>2. QED
    BY <2>1, QuietlySteady
<1>6. CASE UNCHANGED vars
  BY <1>6, QuietlySteady DEF vars, Live
<1>7. QED
  BY <1>1, <1>2, <1>3, <1>4, <1>5, <1>6 DEF Next

\* A bucket whose creation was acknowledged exists until somebody asks to delete it.
THEOREM BucketStays == Spec => []CreatedBucketStays
<1>1. Init => TypeInv /\ SteadyInv
  BY TypeInit, SteadyInit
<1>2. TypeInv /\ SteadyInv /\ [Next]_vars => (TypeInv /\ SteadyInv)'
  BY TypeStep, SteadyStep
<1>3. SteadyInv => CreatedBucketStays
  BY DEF SteadyInv
<1>4. QED
  BY <1>1, <1>2, <1>3, PTL DEF Spec

(***************************************************************************)
(* Nothing settled is destroyed.                                           *)
(***************************************************************************)
\* Before holds of one request.
Spared(r) ==
  /\ before[r] \subseteq Settled
  /\ \A k \in Key : Passed(r, Object(k)) => obj[<<In(r), k>>] \notin before[r]
  /\ \A u \in before[r] : PassedUpload(r, Staged(u)) /\ uploads[u] # None => uploads[u][1] # In(r)

LEMMA ByRequest == BeforeInv <=> \A r \in Request : Spared(r)
BY DEF BeforeInv, Spared

\* Whoever is done stays done.
LEMMA SettledGrows ==
  ASSUME TypeInv, [Next]_vars
  PROVE  Settled \subseteq Settled'
<1>1. \A r \in Request : pc[r] = "ok" => pc'[r] = "ok"
  <2>1. ASSUME NEW r \in Request, Step(r) \/ Drop(r) PROVE \A q \in Request : pc[q] = "ok" => pc'[q] = "ok"
    BY <2>1, OneStep DEF Live, Ended
  <2>2. ASSUME NEW r \in Request, Receive(r) \/ Load(r)
        PROVE  \A q \in Request : pc[q] = "ok" => pc'[q] = "ok"
    BY <2>2 DEF Receive, Load, Goto, TypeInv, TypeOK
  <2>3. CASE Crash
    BY <2>3 DEF Crash, Live, Ended
  <2>4. ASSUME NEW r \in Request, Land(r) PROVE pc' = pc
    BY <2>4 DEF Land
  <2>5. QED
    BY <2>1, <2>2, <2>3, <2>4 DEF Next, vars
<1>2. QED
  BY <1>1 DEF Settled

\* What somebody else does changes no passed object or upload for the worse.
LEMMA Bystander ==
  ASSUME TypeInv, [Next]_vars, NEW r \in Request, Spared(r),
         In(r)' = In(r), before'[r] = before[r],
         \A k \in Key : Passed(r, Object(k))' => Passed(r, Object(k)),
         \A u \in Id : PassedUpload(r, Staged(u))' => PassedUpload(r, Staged(u)),
         \A p \in Place : obj'[p] \in {None, obj[p]} \cup (Request \ Settled),
         \A u \in Id : u \in Settled => uploads'[u] \in {None, uploads[u]},
         In(r) \in Bucket
  PROVE  Spared(r)'
<1>1. before[r] \subseteq Settled /\ before[r] \subseteq Id /\ None \notin Id
  BY IdAssumption DEF Spared, TypeInv, TypeOK
<1>2. before'[r] \subseteq Settled'
  BY <1>1, SettledGrows
<1>3. ASSUME NEW k \in Key, Passed(r, Object(k))' PROVE obj'[<<In(r), k>>] \notin before[r]
  <2>1. <<In(r), k>> \in Place
    BY DEF Place
  <2>2. obj[<<In(r), k>>] \notin before[r]
    BY <1>3 DEF Spared
  <2>3. QED
    BY <1>1, <2>1, <2>2
<1>4. ASSUME NEW u \in before[r], PassedUpload(r, Staged(u))', uploads'[u] # None PROVE uploads'[u][1] # In(r)
  <2>1. u \in Id /\ u \in Settled
    BY <1>1
  <2>2. uploads'[u] = uploads[u]
    BY <1>4, <2>1
  <2>3. QED
    BY <1>4, <2>1, <2>2 DEF Spared
<1>5. QED
  BY <1>2, <1>3, <1>4 DEF Spared

\* A request that is at no step of a deletion has passed nothing.
LEMMA NothingPassed ==
  ASSUME NEW r \in Request, before'[r] \subseteq Settled',
         pc'[r] \notin {"visit", "list", "uploads", "scan", "erase"}
  PROVE  Spared(r)'
BY DEF Spared, Passed, PassedUpload

LEMMA BeforeInit == Init => BeforeInv
BY DEF Init, BeforeInv, Settled, Passed, PassedUpload

\* Objects and uploads come only from requests that are not done.
LEMMA DiskStep ==
  ASSUME TypeInv, [Next]_vars
  PROVE  /\ \A p \in Place : obj'[p] \in {None, obj[p]} \cup (Request \ Settled)
         /\ \A u \in Id : u \in Settled => uploads'[u] \in {None, uploads[u]}
<1> USE DEF disk, history
<1>1. obj \in [Place -> {None} \cup Id] /\ uploads \in [Id -> {None} \cup Place]
  BY DEF TypeInv, TypeOK
<1>2. \A r \in Request : pc[r] # "ok" => r \notin Settled
  BY IdAssumption DEF Settled
<1>3. ASSUME NEW r \in Request, Installed(r) \/ Unlinked(r), pc[r] # "ok"
      PROVE  /\ \A p \in Place : obj'[p] \in {None, obj[p]} \cup (Request \ Settled)
             /\ uploads' = uploads
  BY <1>1, <1>2, <1>3 DEF Installed, Unlinked
<1>4. ASSUME NEW r \in Request, Erase(r)
      PROVE  /\ \A p \in Place : obj'[p] \in {None, obj[p]}
             /\ uploads' = uploads
  BY <1>4 DEF Erase
<1>5. ASSUME NEW r \in Request, ManifestMade(r) \/ StagingRemoved(r), pc[r] # "ok"
      PROVE  /\ obj' = obj
             /\ \A u \in Id : u \in Settled => uploads'[u] \in {None, uploads[u]}
  BY <1>1, <1>2, <1>5 DEF ManifestMade, StagingRemoved
<1>6. CASE UNCHANGED <<obj, uploads>>
  BY <1>6
<1>7. QED
  <2>1. CASE \E r \in Request : Install(r) \/ Unlink(r)
    BY <1>3, <2>1 DEF Install, Unlink
  <2>2. CASE \E r \in Request : Erase(r)
    BY <1>4, <2>2
  <2>3. CASE \E r \in Request : Initiate(r) \/ Clean(r)
    BY <1>5, <2>3 DEF Initiate, Clean
  <2>4. CASE Crash \/ UNCHANGED vars
    BY <1>6, <2>4 DEF Crash, vars
  <2>5. CASE \E r \in Request : Receive(r) \/ Load(r) \/ Drop(r)
    BY <1>6, <2>5 DEF Receive, Load, Drop
  <2>6. CASE \E r \in Request : \/ Check(r) \/ CreateCheck(r) \/ MakeDir(r) \/ MakeMeta(r) \/ Walk(r)
                               \/ WalkFails(r) \/ Visit(r) \/ List(r) \/ VisitUpload(r) \/ Scan(r)
                               \/ EraseFails(r) \/ Acquire(r) \/ MakeDirs(r) \/ Rename(r) \/ WriteFails(r)
    BY <1>6, <2>6 DEF Check, CreateCheck, MakeDir, MakeMeta, Walk, WalkFails, Visit, List, VisitUpload,
       Visited, Scan, EraseFails, Acquire, MakeDirs, Rename, WriteFails, BucketMade, MetaMade, DirsMade
  <2>7. ASSUME NEW r \in Request, Land(r)
        PROVE  /\ \A p \in Place : obj'[p] \in {None, obj[p]} \cup (Request \ Settled)
               /\ \A u \in Id : u \in Settled => uploads'[u] \in {None, uploads[u]}
    <3>1. FileOp(r) /\ pc[r] # "ok"
      BY <2>7, LateOp
    <3>2. CASE Installed(r) \/ Unlinked(r)
      BY <1>3, <3>1, <3>2
    <3>3. CASE ManifestMade(r) \/ StagingRemoved(r)
      BY <1>5, <3>1, <3>3
    <3>4. CASE UNCHANGED <<obj, uploads>>
      BY <1>6, <3>4
    <3>5. QED
      BY <3>1, <3>2, <3>3, <3>4 DEF FileOp, BucketMade, MetaMade, DirsMade
  <2>8. QED
    BY <2>1, <2>2, <2>3, <2>4, <2>5, <2>6, <2>7 DEF Next, Step

\* A step of a request leaves the walks of the others alone.
LEMMA Elsewhere ==
  ASSUME TypeInv, NEW r \in Request, Step(r) \/ Drop(r), NEW q \in Request, q # r
  PROVE  todo'[q] = todo[q] /\ before'[q] = before[q]
<1> USE DEF disk, history
<1>1. todo \in [Request -> SUBSET Names] /\ before \in [Request -> SUBSET Id]
  BY DEF TypeInv, TypeOK
<1>2. CASE Check(r)
  BY <1>1, <1>2 DEF Check
<1>3. CASE Walk(r) \/ Visit(r) \/ List(r) \/ VisitUpload(r) \/ Scan(r) \/ Erase(r)
  BY <1>1, <1>3 DEF Walk, Visit, List, VisitUpload, Visited, Scan, Erase
<1>4. CASE \/ CreateCheck(r) \/ MakeDir(r) \/ MakeMeta(r) \/ WalkFails(r) \/ EraseFails(r) \/ Acquire(r)
           \/ MakeDirs(r) \/ Rename(r) \/ Install(r) \/ WriteFails(r) \/ Unlink(r) \/ Initiate(r)
           \/ Clean(r) \/ Drop(r)
  BY <1>4 DEF CreateCheck, MakeDir, MakeMeta, WalkFails, EraseFails, Acquire, MakeDirs, Rename, Install,
     WriteFails, Unlink, Initiate, Clean, Drop
<1>5. QED
  BY <1>2, <1>3, <1>4 DEF Step

LEMMA BeforeStep ==
  ASSUME TypeInv, BeforeInv, [Next]_vars
  PROVE  BeforeInv'
<1> USE DEF disk, history
<1>1. SUFFICES ASSUME NEW q \in Request PROVE Spared(q)'
  BY ByRequest DEF BeforeInv, Spared
<1>2. Spared(q) /\ before[q] \subseteq Settled'
  BY ByRequest, SettledGrows DEF Spared
<1>3. ASSUME NEW r \in Request, Receive(r) \/ Load(r) PROVE Spared(q)'
  <2>1. before' = before /\ UNCHANGED <<obj, uploads, todo>>
    BY <1>3 DEF Receive, Load
  <2>2. CASE q = r
    <3>1. pc'[q] \in {"check", "wait", "clean"}
      BY <1>3, <2>2 DEF Receive, Load, Goto, TypeInv, TypeOK
    <3>2. QED
      BY <1>2, <2>1, <3>1, NothingPassed
  <2>3. CASE q # r
    <3>1. pc'[q] = pc[q] /\ req'[q] = req[q]
      BY <1>3, <2>3 DEF Receive, Load, Goto, TypeInv, TypeOK
    <3>2. QED
      BY <1>2, <2>1, <3>1 DEF Spared, Passed, PassedUpload, In
  <2>4. QED
    BY <2>2, <2>3
<1>4. ASSUME NEW r \in Request, ((Step(r) \/ Drop(r)) /\ q # r) \/ Land(r) PROVE Spared(q)'
  <2>1. pc'[q] = pc[q] /\ req' = req
    BY <1>4, OneStep DEF Land
  <2>2. todo'[q] = todo[q] /\ before'[q] = before[q]
    BY <1>4, Elsewhere DEF Land
  <2>3. CASE pc[q] \in {"visit", "list", "uploads", "scan", "erase"}
    <3>1. In(q) \in Bucket
      BY <2>3, AtStep, CallTyped DEF In
    <3>2. In(q)' = In(q)
      BY <2>1 DEF In
    <3>3. /\ \A k \in Key : Passed(q, Object(k))' => Passed(q, Object(k))
          /\ \A u \in Id : PassedUpload(q, Staged(u))' => PassedUpload(q, Staged(u))
      BY <2>1, <2>2 DEF Passed, PassedUpload
    <3>4. QED
      BY <1>2, <2>2, <3>1, <3>2, <3>3, DiskStep, Bystander
  <2>4. CASE pc[q] \notin {"visit", "list", "uploads", "scan", "erase"}
    BY <1>2, <2>1, <2>2, <2>4, NothingPassed
  <2>5. QED
    BY <2>3, <2>4
<1>5. CASE Step(q) \/ Drop(q)
  <2>1. req' = req /\ Live(q)
    BY <1>5, OneStep
  <2>2. CASE Check(q)
    <3>1. before'[q] \in {Settled, {}} /\ pc'[q] \notin {"visit", "list", "uploads", "scan", "erase"}
      BY <2>2 DEF Check, Goto, AfterCheck, TypeInv, TypeOK
    <3>2. QED
      BY <3>1, SettledGrows, NothingPassed
  <2>3. CASE Walk(q) \/ Visit(q) \/ List(q) \/ VisitUpload(q) \/ Scan(q)
    <3>1. /\ UNCHANGED <<req, obj, uploads, before>> /\ In(q)' = In(q)
          /\ pc \in [Request -> Steps] /\ todo \in [Request -> SUBSET Names]
          /\ In(q) \in Bucket
      <4>1. pc[q] # "idle"
        BY <2>1 DEF Live
      <4>2. QED
        BY <2>1, <2>3, <4>1, AtStep, CallTyped
           DEF Walk, Visit, List, VisitUpload, Visited, Scan, In, TypeInv, TypeOK
    <3>2. ASSUME NEW k \in Key, Passed(q, Object(k))' PROVE obj[<<In(q), k>>] \notin before[q]
      <4>1. CASE Passed(q, Object(k))
        BY <1>2, <4>1 DEF Spared
      <4>2. CASE Visit(q) /\ ~Passed(q, Object(k))
        <5>1. Object(k) \in todo[q] /\ pc[q] = "visit"
          BY <4>2 DEF Passed, Visit
        <5>2. PICK e \in todo[q] : Visited(q, e, e \in Listing(In(q)), "list")
          BY <4>2 DEF Visit
        <5>3. todo'[q] = todo[q] \ {e}
              /\ pc'[q] = IF e \in Listing(In(q)) THEN "notempty" ELSE IF todo[q] = {e} THEN "list" ELSE pc[q]
          BY <3>1, <5>2 DEF Visited, Goto
        <5>4. e = Object(k) /\ e \notin Listing(In(q))
          <6>1. pc'[q] # "notempty"
            BY <3>2 DEF Passed
          <6>2. e \notin Listing(In(q))
            BY <5>3, <6>1
          <6>3. CASE todo[q] = {e}
            BY <5>1, <6>2, <6>3
          <6>4. CASE todo[q] # {e}
            <7>1. pc'[q] = "visit"
              BY <5>1, <5>3, <6>2, <6>4
            <7>2. Object(k) \notin todo'[q]
              BY <3>2, <7>1 DEF Passed
            <7>3. QED
              BY <5>1, <5>3, <6>2, <7>2
          <6>5. QED
            BY <6>3, <6>4
        <5>5. obj[<<In(q), k>>] = None
          BY <5>4 DEF Listing
        <5>6. QED
          BY <5>5, IdAssumption DEF TypeInv, TypeOK
      <4>3. CASE Walk(q)
        <5>1. todo'[q] = KeyObjects /\ pc'[q] = "visit"
          BY <3>1, <4>3 DEF Walk, Goto
        <5>2. QED
          BY <3>2, <5>1 DEF Passed, KeyObjects
      <4>4. CASE List(q) \/ VisitUpload(q) \/ Scan(q)
        BY <4>1, <4>4 DEF List, VisitUpload, Scan, Passed
      <4>5. QED
        BY <2>3, <4>1, <4>2, <4>3, <4>4
    <3>3. ASSUME NEW u \in before[q], PassedUpload(q, Staged(u))', uploads[u] # None
          PROVE  uploads[u][1] # In(q)
      <4>1. CASE PassedUpload(q, Staged(u))
        BY <1>2, <3>3, <4>1 DEF Spared
      <4>2. CASE VisitUpload(q) /\ ~PassedUpload(q, Staged(u))
        <5>1. Staged(u) \in todo[q] /\ pc[q] = "uploads"
          BY <4>2 DEF PassedUpload, VisitUpload
        <5>2. PICK v \in Id : Visited(q, Staged(v), uploads[v] # None /\ uploads[v][1] = In(q), "scan")
          BY <4>2 DEF VisitUpload
        <5>3. todo'[q] = todo[q] \ {Staged(v)}
              /\ pc'[q] = IF uploads[v] # None /\ uploads[v][1] = In(q) THEN "notempty"
                          ELSE IF todo[q] = {Staged(v)} THEN "scan" ELSE pc[q]
          BY <3>1, <5>2 DEF Visited, Goto
        <5>4. v = u /\ ~(uploads[v] # None /\ uploads[v][1] = In(q))
          <6>1. pc'[q] # "notempty"
            BY <3>3 DEF PassedUpload
          <6>2. ~(uploads[v] # None /\ uploads[v][1] = In(q))
            BY <5>3, <6>1
          <6>3. CASE todo[q] = {Staged(v)}
            BY <5>1, <6>2, <6>3, Distinct
          <6>4. CASE todo[q] # {Staged(v)}
            <7>1. pc'[q] = "uploads"
              BY <5>1, <5>3, <6>2, <6>4
            <7>2. Staged(u) \notin todo'[q]
              BY <3>3, <7>1 DEF PassedUpload
            <7>3. Staged(u) = Staged(v)
              BY <5>1, <5>3, <7>2
            <7>4. QED
              BY <6>2, <7>3, Distinct
          <6>5. QED
            BY <6>3, <6>4
        <5>5. QED
          BY <3>3, <5>4
      <4>3. CASE List(q)
        <5>1. todo'[q] = Uploads /\ pc'[q] = "uploads" /\ u \in Id
          BY <3>1, <4>3 DEF List, Goto, TypeInv, TypeOK
        <5>2. QED
          BY <3>3, <5>1 DEF PassedUpload, Uploads
      <4>4. CASE Walk(q) \/ Visit(q) \/ Scan(q)
        <5>1. CASE Scan(q)
          BY <4>1, <5>1 DEF Scan, PassedUpload
        <5>2. CASE Walk(q) \/ Visit(q)
          BY <3>1, <3>3, <5>2 DEF Walk, Visit, Visited, Goto, PassedUpload
        <5>3. QED
          BY <4>4, <5>1, <5>2
      <4>5. QED
        BY <2>3, <4>1, <4>2, <4>3, <4>4
    <3>4. QED
      BY <1>2, <3>1, <3>2, <3>3 DEF Spared
  <2>4. CASE Erase(q)
    <3>1. before' = before /\ In(q)' = In(q) /\ In(q) \in Bucket /\ pc[q] = "erase" /\ pc'[q] \in {"erase", "ok"}
      BY <2>1, <2>4, AtStep, CallTyped DEF Erase, Goto, In, TypeInv, TypeOK
    <3>2. /\ \A k \in Key : Passed(q, Object(k))' => Passed(q, Object(k))
          /\ \A u \in Id : PassedUpload(q, Staged(u))' => PassedUpload(q, Staged(u))
      BY <3>1 DEF Passed, PassedUpload
    <3>3. QED
      BY <1>2, <3>1, <3>2, DiskStep, Bystander
  <2>5. CASE \/ CreateCheck(q) \/ MakeDir(q) \/ MakeMeta(q) \/ WalkFails(q) \/ EraseFails(q) \/ Acquire(q)
             \/ MakeDirs(q) \/ Rename(q) \/ Install(q) \/ WriteFails(q) \/ Unlink(q) \/ Initiate(q)
             \/ Clean(q) \/ Drop(q)
    <3>1. before' = before /\ pc'[q] \notin {"visit", "list", "uploads", "scan", "erase"}
      BY <2>5 DEF CreateCheck, MakeDir, MakeMeta, WalkFails, EraseFails, Acquire, MakeDirs, Rename, Install,
         WriteFails, Unlink, Initiate, Clean, Drop, Goto, TypeInv, TypeOK
    <3>2. QED
      BY <1>2, <3>1, NothingPassed
  <2>6. QED
    BY <1>5, <2>2, <2>3, <2>4, <2>5 DEF Step
<1>6. CASE Crash
  <2>1. UNCHANGED <<req, obj, uploads, todo, before>> /\ pc'[q] \in {"gone", pc[q]}
    BY <1>6 DEF Crash
  <2>2. QED
    BY <1>2, <2>1 DEF Spared, Passed, PassedUpload, In
<1>7. CASE UNCHANGED vars
  BY <1>2, <1>7 DEF vars, Spared, Passed, PassedUpload, In
<1>8. QED
  BY <1>3, <1>4, <1>5, <1>6, <1>7 DEF Next

LEMMA BeforeAlways == Spec => []BeforeInv
<1>1. Init => TypeInv /\ BeforeInv
  BY TypeInit, BeforeInit
<1>2. TypeInv /\ BeforeInv /\ [Next]_vars => (TypeInv /\ BeforeInv)'
  BY TypeStep, BeforeStep
<1>3. QED
  BY <1>1, <1>2, PTL DEF Spec

\* What was acknowledged before a deletion began is not in the tree it removes.
THEOREM ObjectsSurvive == Spec => []SettledObjectsSurvive
<1>1. BeforeInv => SettledObjectsSurvive
  BY DEF BeforeInv, SettledObjectsSurvive, Passed
<1>2. QED
  BY <1>1, BeforeAlways, PTL

\* No upload that was acknowledged before a deletion began, and is in progress, belongs
\* to the bucket whose tree it removes.
THEOREM UploadsKeepBucket == Spec => []SettledUploadsKeepBucket
<1>1. BeforeInv => SettledUploadsKeepBucket
  BY DEF BeforeInv, SettledUploadsKeepBucket, PassedUpload
<1>2. QED
  BY <1>1, BeforeAlways, PTL

(***************************************************************************)
(* Calm requests succeed.                                                  *)
(***************************************************************************)
\* What is asked of one request.
Served(r) ==
  /\ req[r].op \in {"put", "remove", "initiate"} => pc[r] \notin {"failed", "nobucket"}
  /\ pc[r] # "idle" /\ req[r].op # "delete"
  /\ Live(r) => In(r) \in steady
  /\ pc[r] \in {"rename", "install"} => Dir(KeyOf(r)) \in tree[In(r)]

LEMMA ByCalm == CalmInv <=> \A r \in calm : Served(r)
BY DEF CalmInv, CalmRequestsSucceed, Served

LEMMA CalmInit == Init => CalmInv
BY DEF Init, CalmInv, CalmRequestsSucceed

\* Only a deletion removes directories, and not those of a steady bucket; nor does a
\* bucket become unsteady by anything but the request to delete it.
LEMMA TreesStay ==
  ASSUME TypeInv, SteadyInv, NEW r \in Request, Step(r) \/ Drop(r)
  PROVE  steady \subseteq steady' /\ \A b \in steady : tree[b] \subseteq tree'[b]
<1> USE DEF disk, history
<1>1. pc[r] # "idle" /\ In(r) \in Bucket /\ steady \subseteq Bucket /\ tree \in [Bucket -> SUBSET Entry]
  BY OneStep, AtStep, CallTyped DEF Live, In, TypeInv, TypeOK
<1>2. CASE Erase(r)
  <2>1. In(r) \notin steady
    BY <1>1, <1>2, AtStep DEF Erase, SteadyInv, Unsteady, Live, Ended
  <2>2. steady' = steady /\ \A b \in Bucket : b # In(r) => tree'[b] = tree[b]
    BY <1>1, <1>2 DEF Erase
  <2>3. QED
    BY <1>1, <2>1, <2>2
<1>3. CASE CreateCheck(r) \/ MakeMeta(r)
  <2>1. steady \subseteq Steadied(In(r))
    BY DEF Steadied
  <2>2. steady \subseteq steady'
    BY <1>3, <2>1 DEF CreateCheck, MakeMeta, MetaMade
  <2>3. \A b \in Bucket : tree[b] \subseteq tree'[b]
    BY <1>1, <1>3 DEF CreateCheck, MakeMeta, MetaMade
  <2>4. QED
    BY <1>1, <2>2, <2>3
<1>4. CASE MakeDir(r) \/ MakeDirs(r)
  BY <1>1, <1>4 DEF MakeDir, MakeDirs, BucketMade, DirsMade
<1>5. CASE UNCHANGED <<tree, steady>>
  BY <1>5
<1>6. QED
  BY <1>2, <1>3, <1>4, <1>5 DEF Step, Drop, Check, Walk, WalkFails, Visit, List, VisitUpload, Visited,
     Scan, EraseFails, Acquire, Rename, Install, Installed, WriteFails, Unlink, Unlinked,
     Initiate, ManifestMade, Clean, StagingRemoved

LEMMA CalmStep ==
  ASSUME TypeInv, SteadyInv, CalmInv, [Next]_vars
  PROVE  CalmInv'
<1> USE DEF disk, history
<1>1. SUFFICES ASSUME NEW q \in calm' PROVE Served(q)'
  BY DEF CalmInv, CalmRequestsSucceed, Served
<1>2. calm \subseteq Request /\ calm' \subseteq Request /\ \A r \in calm : Served(r)
  BY ByCalm, TypeStep DEF TypeInv, TypeOK
<1>3. ASSUME NEW r \in Request, Receive(r) PROVE Served(q)'
  <2>1. PICK c \in ByBucket :
          LET ofBucket == {s \in Request : Live(s) /\ In(s) = c.place[1]} IN
          /\ req' = [req EXCEPT ![r] = c] /\ pc' = [pc EXCEPT ![r] = "check"]
          /\ steady' = IF c.op = "delete" THEN steady \ {c.place[1]} ELSE steady
          /\ calm' = IF c.op = "delete" THEN calm \ ofBucket
                     ELSE calm \cup {s \in {r} : c.place[1] \in steady}
    BY <1>3 DEF Receive, Goto
  <2>2. tree' = tree /\ pc[r] = "idle"
    BY <1>3 DEF Receive
  <2>3. CASE q = r
    <3>1. r \notin calm
      BY <1>2, <2>2 DEF Served
    <3>2. c.op # "delete" /\ c.place[1] \in steady'
      BY <2>1, <2>3, <3>1
    <3>3. req'[r] = c /\ pc'[r] = "check"
      BY <2>1 DEF TypeInv, TypeOK
    <3>4. QED
      BY <2>3, <3>2, <3>3 DEF Served, In
  <2>4. CASE q # r
    <3>1. q \in calm /\ Served(q) /\ q \in Request
      BY <1>2, <2>1, <2>4
    <3>2. pc'[q] = pc[q] /\ req'[q] = req[q]
      BY <2>1, <2>4, <3>1 DEF TypeInv, TypeOK
    <3>3. Live(q) => In(q) \in steady'
      BY <2>1, <3>1 DEF Served
    <3>4. QED
      BY <2>2, <3>1, <3>2, <3>3 DEF Served, Live, In, KeyOf
  <2>5. QED
    BY <2>3, <2>4
<1>4. ASSUME NEW r \in Request, Load(r) PROVE Served(q)'
  <2>1. UNCHANGED <<tree, steady, calm>> /\ pc[r] = "idle" /\ q \in calm
    BY <1>4 DEF Load
  <2>2. Served(q) /\ q # r /\ q \in Request
    BY <1>2, <2>1 DEF Served
  <2>3. pc'[q] = pc[q] /\ req'[q] = req[q]
    BY <1>4, <2>2 DEF Load, Goto, TypeInv, TypeOK
  <2>4. QED
    BY <2>1, <2>2, <2>3 DEF Served, Live, In, KeyOf
<1>5. ASSUME NEW r \in Request, Step(r) \/ Drop(r) PROVE Served(q)'
  <2>1. /\ Live(r) /\ req' = req /\ q \in calm /\ q \in Request /\ Served(q)
        /\ \A s \in Request : s # r => pc'[s] = pc[s]
    BY <1>2, <1>5, OneStep
  <2>2. steady \subseteq steady' /\ \A b \in steady : tree[b] \subseteq tree'[b]
    BY <1>5, TreesStay
  <2>3. CASE q # r
    BY <2>1, <2>2, <2>3 DEF Served, Live, In, KeyOf, Ended
  <2>4. CASE q = r
    <3>1. In(q) \in steady /\ In(q)' = In(q) /\ KeyOf(q)' = KeyOf(q) /\ req'[q].op # "delete"
      BY <2>1, <2>4 DEF Served, In, KeyOf
    <3>2. In(q) \in Bucket /\ req[q] \in Call /\ KeyOf(q) \in Key
      BY <2>1, AtStep, CallTyped, <2>4 DEF Live, In, KeyOf
    <3>3. pc'[q] \notin {"idle", "nobucket"}
      <4>1. CASE Check(q)
        <5>1. Exists(In(q))
          BY <3>1 DEF SteadyInv, CreatedBucketStays
        <5>2. QED
          BY <2>1, <4>1, <5>1 DEF Check, AfterCheck, Goto, TypeInv, TypeOK
      <4>2. CASE \/ CreateCheck(q) \/ MakeDir(q) \/ MakeMeta(q) \/ Acquire(q) \/ MakeDirs(q) \/ Rename(q)
                 \/ Install(q) \/ WriteFails(q) \/ Unlink(q) \/ Initiate(q) \/ Clean(q) \/ Drop(q)
        BY <2>1, <4>2 DEF CreateCheck, MakeDir, MakeMeta, Acquire, MakeDirs, Rename, Install, WriteFails,
           Unlink, Initiate, Clean, Drop, Goto, TypeInv, TypeOK
      <4>3. CASE Walk(q) \/ WalkFails(q) \/ Visit(q) \/ List(q) \/ VisitUpload(q) \/ Scan(q) \/ Erase(q) \/ EraseFails(q)
        <5>1. pc[q] \in {"walk", "visit", "list", "uploads", "scan", "erase"}
          BY <4>3 DEF Walk, WalkFails, Visit, List, VisitUpload, Visited, Scan, Erase, EraseFails
        <5>2. req[q].op = "delete"
          BY <2>1, <5>1, AtStep
        <5>3. QED
          BY <2>1, <5>2 DEF Served
      <4>4. QED
        BY <1>5, <2>4, <4>1, <4>2, <4>3 DEF Step
    <3>4. pc'[q] \in {"rename", "install"} => Dir(KeyOf(q)) \in tree'[In(q)]
      <4>1. CASE MakeDirs(q)
        BY <3>2, <4>1 DEF MakeDirs, DirsMade, TypeInv, TypeOK
      <4>2. CASE Rename(q)
        BY <4>2 DEF Rename
      <4>3. CASE pc'[q] \notin {"rename", "install"}
        BY <4>3
      <4>4. QED
        BY <1>5, <2>1, <2>4, <4>1, <4>2, <4>3 DEF Step, Drop, Check, AfterCheck, CreateCheck, MakeDir, MakeMeta,
           Walk, WalkFails, Visit, List, VisitUpload, Visited, Scan, Erase, EraseFails, Acquire, Install,
           WriteFails, Unlink, Initiate, Clean, Goto, TypeInv, TypeOK
    <3>5. ASSUME req[q].op \in {"put", "remove", "initiate"} PROVE pc'[q] # "failed"
      <4>1. ~Erasing(In(q))
        <5>1. ASSUME NEW s \in Request, pc[s] = "erase" PROVE In(s) # In(q)
          BY <3>1, <5>1, AtStep DEF SteadyInv, Unsteady, Live, Ended
        <5>2. QED
          BY <5>1 DEF Erasing
      <4>2. ~WriteFails(q)
        <5>1. pc[q] # "mkmeta"
          BY <2>1, <3>5, AtStep
        <5>2. pc[q] \in {"rename", "install"} => Dir(KeyOf(q)) \in tree[In(q)]
          BY <2>1 DEF Served
        <5>3. QED
          BY <4>1, <5>1, <5>2 DEF WriteFails
      <4>3. pc[q] \notin {"walk", "visit", "list", "uploads", "scan", "erase"}
        BY <2>1, <3>1, <3>5, AtStep
      <4>4. pc[q] # "clean"
        BY <2>1, <3>5, AtStep
      <4>5. QED
        BY <1>5, <2>1, <2>4, <4>2, <4>3, <4>4 DEF Step, Drop, Check, AfterCheck, CreateCheck, MakeDir, MakeMeta,
           Walk, WalkFails, Visit, List, VisitUpload, Visited, Scan, Erase, EraseFails, Acquire, MakeDirs,
           Rename, Install, Unlink, Initiate, Clean, Goto, TypeInv, TypeOK
    <3>6. QED
      BY <2>1, <2>2, <3>1, <3>3, <3>4, <3>5 DEF Served
  <2>5. QED
    BY <2>3, <2>4
<1>6. ASSUME NEW r \in Request, Land(r) PROVE Served(q)'
  <2>1. UNCHANGED <<pc, req, steady, calm>> /\ \A b \in Bucket : tree[b] \subseteq tree'[b]
    BY <1>6, LateOp, FilesTyped DEF Land
  <2>2. Served(q) /\ q \in Request
    BY <1>2, <2>1
  <2>3. In(q) \in Bucket
    BY <2>2, CallTyped DEF Served, In, TypeInv, Control
  <2>4. QED
    BY <2>1, <2>2, <2>3 DEF Served, Live, In, KeyOf
<1>7. CASE Crash
  <2>1. UNCHANGED <<req, tree, steady, calm>> /\ Served(q) /\ q \in Request
        /\ pc'[q] = IF Live(q) THEN "gone" ELSE pc[q]
    BY <1>2, <1>7 DEF Crash
  <2>2. QED
    BY <2>1 DEF Served, Live, In, KeyOf, Ended
<1>8. CASE UNCHANGED vars
  BY <1>2, <1>8 DEF vars, Served, Live, In, KeyOf
<1>9. QED
  BY <1>3, <1>4, <1>5, <1>6, <1>7, <1>8 DEF Next

\* Putting or deleting an object, or beginning an upload, does not fail in a bucket that
\* was acknowledged and that nobody asks to delete.
THEOREM CalmSucceed == Spec => []CalmRequestsSucceed
<1>1. Init => TypeInv /\ SteadyInv /\ CalmInv
  BY TypeInit, SteadyInit, CalmInit
<1>2. TypeInv /\ SteadyInv /\ CalmInv /\ [Next]_vars => (TypeInv /\ SteadyInv /\ CalmInv)'
  BY TypeStep, SteadyStep, CalmStep
<1>3. CalmInv => CalmRequestsSucceed
  BY DEF CalmInv
<1>4. QED
  BY <1>1, <1>2, <1>3, PTL DEF Spec
====
