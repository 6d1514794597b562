---- MODULE ObjectStoreProofs ----
(***************************************************************************)
(* Proofs about module ObjectStore, for any sets of requests, keys and     *)
(* contents.                                                               *)
(***************************************************************************)
EXTENDS ObjectStore, TLAPS

Opening == {"head", "lookup", "open"}
\* Steps a writer takes before it has drawn its data file.
Undrawn == {"idle", "source", "wait", "link", "stream", "rename"}

\* The steps of a request fit what it asks for, and what it has read is there.
Control ==
  \A r \in Request :
    /\ pc[r] = "idle" <=> req[r] = None
    /\ pc[r] \in Opening => req[r].op = "get"
    /\ pc[r] \in {"source", "link"} => req[r].op = "copy"
    /\ pc[r] \in {"stream", "rename", "rollback"} => req[r].op = "put"
    /\ pc[r] \in {"install", "list", "gc"} => req[r].op \in {"put", "copy"}
    /\ pc[r] \in {"unlink", "remove"} => req[r].op \in {"put", "delete"}
    /\ pc[r] = "wait" => req[r].op \in {"put", "copy", "delete"}
    /\ pc[r] = "wait" /\ req[r].op = "copy" => snap[r] # None
    /\ pc[r] = "install" /\ req[r].op = "copy" => snap[r] # None
    /\ pc[r] \in {"open", "link"} => snap[r] # None
    /\ pc[r] \in {"idle", "head", "lookup", "source"} => snap[r] = None
    /\ r \in detached => pc[r] \in FileOps \cup {"gone"}
    /\ got[r] # None => pc[r] = "ok" /\ req[r].op = "get"

TypeInv == TypeOK /\ Control

\* Whoever is inside the guarded code, and was not dropped, holds the lock.
Locked == \A r \in Request \ detached :
            pc[r] \in Holding => lock[KeyOf(r)] = r

\* Every data file and every recorded version belongs to the write that drew it,
\* bears that write's content, and lies in that write's directory.
Drawn(f) == req[f] # None /\ req[f].op \in {"put", "copy"} /\ pc[f] \notin Undrawn
Faithful(v) == Drawn(v.file) /\ v.etag = EtagOf(v.file)

Contents ==
  /\ \A f \in Request : data[f] # None =>
       Drawn(f) /\ data[f].dir = KeyOf(f) /\ data[f].content = EtagOf(f)
  /\ \A k \in Key : meta[k] # None => Faithful(meta[k])
  /\ \A r \in Request : snap[r] # None => Faithful(snap[r])
  /\ CompleteReads

\* Without drops and failing files: the metadata's data file is in place, a
\* writer's own file is too until it has been installed, and nobody removes
\* a file of another key or one that is still named by metadata.
Intact ==
  /\ detached = {}
  /\ \A k \in Key : meta[k] # None => meta[k].file \in Files(k)
  /\ \A r \in Request :
       /\ pc[r] = "install" => r \in Files(KeyOf(r))
       /\ pc[r] \in {"list", "gc"} => meta[KeyOf(r)] # None /\ meta[KeyOf(r)].file = r
       /\ \A f \in doomed[r] : f # r /\ req[f] # None /\ KeyOf(f) = KeyOf(r)
       /\ pc[r] \in {"unlink", "remove"} /\ snap[r] # None
            => KeyOf(snap[r].file) = KeyOf(r)
       /\ pc[r] = "remove" => meta[KeyOf(r)] = None
       /\ req[r] = None => doomed[r] = {}

Reliable == Faults \subseteq {"crash"}

\* Whatever fails: nothing is removed on behalf of a request of another key, and who
\* removes metadata is one of Removes; metadata names no file before its install.
OwnFiles ==
  /\ \A k \in Key : meta[k] # None => KeyOf(meta[k].file) = k /\ pc[meta[k].file] # "install"
  /\ \A r \in Request :
       /\ \A f \in doomed[r] : f # r /\ req[f] # None /\ KeyOf(f) = KeyOf(r)
       /\ req[r] = None => doomed[r] = {}
       /\ pc[r] \in {"rollback", "unlink", "remove"} => Removes(r)
       /\ pc[r] \in {"unlink", "remove"} /\ snap[r] # None
            => KeyOf(snap[r].file) = KeyOf(r)

\* The parts of Intact that hold for one key, of requests that were not dropped.
IntactAt(k) ==
  /\ meta[k] # None => meta[k].file \in Files(k)
  /\ \A r \in Request \ detached : req[r] # None /\ KeyOf(r) = k =>
       /\ pc[r] = "install" => r \in Files(k)
       /\ pc[r] \in {"list", "gc"} => meta[k] # None /\ meta[k].file = r

PhantomFree == \A k \in Key : Touched(k) \/ IntactAt(k)

(***************************************************************************)
(* Types and control.                                                      *)
(***************************************************************************)
LEMMA TypeStep ==
  ASSUME TypeInv, [Next]_vars
  PROVE  TypeInv'
<1> USE NoneAssumption DEF TypeInv, TypeOK, Control, Opening, Steps, Holding,
        FileOps, Ended, Call, Version, File, KeyOf, Goto, Acquire, Release,
        disk
<1>1. ASSUME NEW r \in Request, Receive(r) PROVE TypeInv'
  BY <1>1 DEF Receive, FirstStep
<1>2. ASSUME NEW r \in Request, Head(r) PROVE TypeInv'
  BY <1>2 DEF Head
<1>3. ASSUME NEW r \in Request, Lookup(r) PROVE TypeInv'
  BY <1>3 DEF Lookup
<1>4. ASSUME NEW r \in Request, Open(r) PROVE TypeInv'
  <2>1. data[snap[r].file].content \in Content
    BY <1>4 DEF Open, Files
  <2>2. TypeOK'
    BY <1>4, <2>1 DEF Open
  <2>3. Control'
    BY <1>4 DEF Open
  <2>4. QED
    BY <2>2, <2>3
<1>5. ASSUME NEW r \in Request, OpenFails(r) PROVE TypeInv'
  BY <1>5 DEF OpenFails
<1>6. ASSUME NEW r \in Request, Stage(r) PROVE TypeInv'
  BY <1>6 DEF Stage
<1>7. ASSUME NEW r \in Request, BodyEnds(r) PROVE TypeInv'
  BY <1>7 DEF BodyEnds
<1>8. ASSUME NEW r \in Request, BodyFails(r) PROVE TypeInv'
  BY <1>8 DEF BodyFails
<1>9. ASSUME NEW r \in Request, Rename(r) PROVE TypeInv'
  BY <1>9 DEF Rename
<1>10. ASSUME NEW r \in Request, RenameFails(r) PROVE TypeInv'
  BY <1>10 DEF RenameFails
<1>11. ASSUME NEW r \in Request, Install(r) PROVE TypeInv'
  BY <1>11 DEF Install, EtagOf
<1>12. ASSUME NEW r \in Request, InstallFails(r) PROVE TypeInv'
  BY <1>12 DEF InstallFails
<1>13. ASSUME NEW r \in Request, List(r) PROVE TypeInv'
  BY <1>13 DEF List, Files
<1>14. ASSUME NEW r \in Request, Collect(r) PROVE TypeInv'
  BY <1>14 DEF Collect
<1>15. ASSUME NEW r \in Request, CollectFails(r) PROVE TypeInv'
  BY <1>15 DEF CollectFails
<1>16. ASSUME NEW r \in Request, Finish(r) PROVE TypeInv'
  BY <1>16 DEF Finish
<1>17. ASSUME NEW r \in Request, Source(r) PROVE TypeInv'
  BY <1>17 DEF Source
<1>18. ASSUME NEW r \in Request, LockTarget(r) PROVE TypeInv'
  BY <1>18 DEF LockTarget
<1>19. ASSUME NEW r \in Request, Link(r) PROVE TypeInv'
  BY <1>19 DEF Link, Files
<1>20. ASSUME NEW r \in Request, LinkFails(r) PROVE TypeInv'
  BY <1>20 DEF LinkFails
<1>21. ASSUME NEW r \in Request, CopyFails(r) PROVE TypeInv'
  BY <1>21 DEF CopyFails, Files
<1>22. ASSUME NEW r \in Request, DeleteMissing(r) PROVE TypeInv'
  BY <1>22 DEF DeleteMissing, Deleting, Deleted
<1>23. ASSUME NEW r \in Request, DeleteFound(r) PROVE TypeInv'
  BY <1>23 DEF DeleteFound, Deleting
<1>24. ASSUME NEW r \in Request, Unlink(r) PROVE TypeInv'
  BY <1>24 DEF Unlink
<1>25. ASSUME NEW r \in Request, UnlinkFails(r) PROVE TypeInv'
  BY <1>25 DEF UnlinkFails
<1>26. ASSUME NEW r \in Request, Remove(r) PROVE TypeInv'
  BY <1>26 DEF Remove, Deleted
<1>27. ASSUME NEW r \in Request, RemoveFails(r) PROVE TypeInv'
  BY <1>27 DEF RemoveFails, Deleted
<1>28. ASSUME NEW r \in Request, Drop(r) PROVE TypeInv'
  BY <1>28 DEF Drop, Live, FileOps
<1>29. CASE Crash
  <2>1. pc' \in [Request -> Steps]
    BY <1>29 DEF Crash
  <2>2. TypeOK'
    BY <1>29, <2>1 DEF Crash
  <2>3. \A r \in Request : pc'[r] = "gone" \/ (pc'[r] = pc[r] /\ ~Live(r))
    BY <1>29 DEF Crash
  <2>4. Control'
    BY <1>29, <2>3 DEF Crash, Live
  <2>5. QED
    BY <2>2, <2>4
<1>30. CASE UNCHANGED vars
  BY <1>30 DEF vars
<1> QED
  BY <1>1, <1>2, <1>3, <1>4, <1>5, <1>6, <1>7, <1>8, <1>9, <1>10, <1>11,
     <1>12, <1>13, <1>14, <1>15, <1>16, <1>17, <1>18, <1>19, <1>20, <1>21, <1>22,
     <1>23, <1>24, <1>25, <1>26, <1>27, <1>28, <1>29, <1>30
     DEF Next, Upload, Lock, Serve, FileFault

LEMMA KeyTyped ==
  ASSUME TypeInv, NEW r \in Request, pc[r] # "idle"
  PROVE  req[r] \in Call /\ KeyOf(r) \in Key
BY NoneAssumption DEF TypeInv, TypeOK, Control, Call, KeyOf

LEMMA EtagTyped ==
  ASSUME TypeInv, NEW r \in Request, pc[r] = "install"
  PROVE  EtagOf(r) \in Content
BY KeyTyped DEF TypeInv, TypeOK, Control, Call, Version, EtagOf

\* Every request is in a step that fits what it asks for, and every variable
\* has its type, whatever fails (the handlers of src/s3.rs and src/storage.rs).
THEOREM TypeCorrect == Spec => []TypeOK
<1>1. Init => TypeInv
  BY NoneAssumption DEF Init, TypeInv, TypeOK, Control, Opening, Steps, FileOps
<1>2. TypeInv /\ [Next]_vars => TypeInv'
  BY TypeStep
<1>3. TypeInv => TypeOK
  BY DEF TypeInv
<1>4. QED
  BY <1>1, <1>2, <1>3, PTL DEF Spec

(***************************************************************************)
(* The key's lock.                                                         *)
(***************************************************************************)
LEMMA LockStep ==
  ASSUME TypeInv, Locked, [Next]_vars
  PROVE  Locked'
<1>0. \A s \in Request : pc[s] # "idle" => KeyOf(s) \in Key
  BY KeyTyped
<1> USE <1>0, NoneAssumption DEF TypeInv, TypeOK, Locked, Holding, Ended,
        KeyOf, Goto, Acquire, Release, disk
<1>1. ASSUME NEW r \in Request, Receive(r) PROVE Locked'
  BY <1>1 DEF Receive, FirstStep
<1>2. ASSUME NEW r \in Request, Head(r) PROVE Locked'
  BY <1>2 DEF Head
<1>3. ASSUME NEW r \in Request, Lookup(r) PROVE Locked'
  BY <1>3 DEF Lookup
<1>4. ASSUME NEW r \in Request, Open(r) PROVE Locked'
  BY <1>4 DEF Open, Files
<1>5. ASSUME NEW r \in Request, OpenFails(r) PROVE Locked'
  BY <1>5 DEF OpenFails
<1>6. ASSUME NEW r \in Request, Stage(r) PROVE Locked'
  BY <1>6 DEF Stage
<1>7. ASSUME NEW r \in Request, BodyEnds(r) PROVE Locked'
  BY <1>7 DEF BodyEnds
<1>8. ASSUME NEW r \in Request, BodyFails(r) PROVE Locked'
  BY <1>8 DEF BodyFails
<1>9. ASSUME NEW r \in Request, Rename(r) PROVE Locked'
  BY <1>9 DEF Rename
<1>10. ASSUME NEW r \in Request, RenameFails(r) PROVE Locked'
  BY <1>10 DEF RenameFails
<1>11. ASSUME NEW r \in Request, Install(r) PROVE Locked'
  BY <1>11 DEF Install, EtagOf
<1>12. ASSUME NEW r \in Request, InstallFails(r) PROVE Locked'
  BY <1>12 DEF InstallFails
<1>13. ASSUME NEW r \in Request, List(r) PROVE Locked'
  BY <1>13 DEF List, Files
<1>14. ASSUME NEW r \in Request, Collect(r) PROVE Locked'
  BY <1>14 DEF Collect
<1>15. ASSUME NEW r \in Request, CollectFails(r) PROVE Locked'
  BY <1>15 DEF CollectFails
<1>16. ASSUME NEW r \in Request, Finish(r) PROVE Locked'
  BY <1>16 DEF Finish
<1>17. ASSUME NEW r \in Request, Source(r) PROVE Locked'
  BY <1>17 DEF Source
<1>18. ASSUME NEW r \in Request, LockTarget(r) PROVE Locked'
  BY <1>18 DEF LockTarget
<1>19. ASSUME NEW r \in Request, Link(r) PROVE Locked'
  BY <1>19 DEF Link, Files
<1>20. ASSUME NEW r \in Request, LinkFails(r) PROVE Locked'
  BY <1>20 DEF LinkFails
<1>21. ASSUME NEW r \in Request, CopyFails(r) PROVE Locked'
  BY <1>21 DEF CopyFails, Files
<1>22. ASSUME NEW r \in Request, DeleteMissing(r) PROVE Locked'
  BY <1>22 DEF DeleteMissing, Deleting, Deleted
<1>23. ASSUME NEW r \in Request, DeleteFound(r) PROVE Locked'
  BY <1>23 DEF DeleteFound, Deleting
<1>24. ASSUME NEW r \in Request, Unlink(r) PROVE Locked'
  BY <1>24 DEF Unlink
<1>25. ASSUME NEW r \in Request, UnlinkFails(r) PROVE Locked'
  BY <1>25 DEF UnlinkFails
<1>26. ASSUME NEW r \in Request, Remove(r) PROVE Locked'
  BY <1>26 DEF Remove, Deleted
<1>27. ASSUME NEW r \in Request, RemoveFails(r) PROVE Locked'
  BY <1>27 DEF RemoveFails, Deleted
<1>28. ASSUME NEW r \in Request, Drop(r) PROVE Locked'
  BY <1>28 DEF Drop, Live, FileOps
<1>29. CASE Crash
  BY <1>29 DEF Crash, Live
<1>30. CASE UNCHANGED vars
  BY <1>30 DEF vars
<1> QED
  BY <1>1, <1>2, <1>3, <1>4, <1>5, <1>6, <1>7, <1>8, <1>9, <1>10, <1>11,
     <1>12, <1>13, <1>14, <1>15, <1>16, <1>17, <1>18, <1>19, <1>20, <1>21, <1>22,
     <1>23, <1>24, <1>25, <1>26, <1>27, <1>28, <1>29, <1>30
     DEF Next, Upload, Lock, Serve, FileFault

LEMMA LockedAlways == Spec => [](TypeInv /\ Locked)
<1>1. Init => TypeInv /\ Locked
  BY NoneAssumption DEF Init, TypeInv, TypeOK, Control, Opening, Steps, FileOps,
     Locked, Holding
<1>2. TypeInv /\ Locked /\ [Next]_vars => (TypeInv /\ Locked)'
  BY TypeStep, LockStep
<1>3. QED
  BY <1>1, <1>2, PTL DEF Spec

\* At most one undropped request is inside the code guarded by a key's lock,
\* under every combination of crashes, drops and failing file operations.
THEOREM LockExcludes == Spec => []LockExclusion
<1>1. TypeInv /\ Locked => LockExclusion
  BY DEF Locked, LockExclusion
<1>2. QED
  BY <1>1, LockedAlways, PTL

(***************************************************************************)
(* What the files contain.                                                 *)
(***************************************************************************)
LEMMA ContentsStep ==
  ASSUME TypeInv, Contents, [Next]_vars
  PROVE  Contents'
<1> USE DEF TypeInv, TypeOK, Control, Contents, CompleteReads, Faithful,
        Drawn, Undrawn, EtagOf, Opening, Ended, FileOps, Call, KeyOf, Goto,
        disk
<1>1. ASSUME NEW r \in Request, Receive(r) PROVE Contents'
  BY <1>1 DEF Receive, FirstStep
<1>2. ASSUME NEW r \in Request, Head(r) PROVE Contents'
  BY <1>2 DEF Head
<1>3. ASSUME NEW r \in Request, Lookup(r) PROVE Contents'
  BY <1>3 DEF Lookup
<1>4. ASSUME NEW r \in Request, Open(r) PROVE Contents'
  BY <1>4 DEF Open, Files
<1>5. ASSUME NEW r \in Request, OpenFails(r) PROVE Contents'
  BY <1>5 DEF OpenFails
<1>6. ASSUME NEW r \in Request, Stage(r) PROVE Contents'
  BY <1>6 DEF Stage
<1>7. ASSUME NEW r \in Request, BodyEnds(r) PROVE Contents'
  BY <1>7 DEF BodyEnds
<1>8. ASSUME NEW r \in Request, BodyFails(r) PROVE Contents'
  BY <1>8 DEF BodyFails
<1>9. ASSUME NEW r \in Request, Rename(r) PROVE Contents'
  BY <1>9 DEF Rename
<1>10. ASSUME NEW r \in Request, RenameFails(r) PROVE Contents'
  BY <1>10 DEF RenameFails
<1>11. ASSUME NEW r \in Request, Install(r) PROVE Contents'
  BY <1>11 DEF Install, EtagOf
<1>12. ASSUME NEW r \in Request, InstallFails(r) PROVE Contents'
  BY <1>12 DEF InstallFails
<1>13. ASSUME NEW r \in Request, List(r) PROVE Contents'
  BY <1>13 DEF List, Files
<1>14. ASSUME NEW r \in Request, Collect(r) PROVE Contents'
  BY <1>14 DEF Collect
<1>15. ASSUME NEW r \in Request, CollectFails(r) PROVE Contents'
  BY <1>15 DEF CollectFails
<1>16. ASSUME NEW r \in Request, Finish(r) PROVE Contents'
  BY <1>16 DEF Finish
<1>17. ASSUME NEW r \in Request, Source(r) PROVE Contents'
  BY <1>17 DEF Source
<1>18. ASSUME NEW r \in Request, LockTarget(r) PROVE Contents'
  BY <1>18 DEF LockTarget
<1>19. ASSUME NEW r \in Request, Link(r) PROVE Contents'
  BY <1>19 DEF Link, Files
<1>20. ASSUME NEW r \in Request, LinkFails(r) PROVE Contents'
  BY <1>20 DEF LinkFails
<1>21. ASSUME NEW r \in Request, CopyFails(r) PROVE Contents'
  BY <1>21 DEF CopyFails, Files
<1>22. ASSUME NEW r \in Request, DeleteMissing(r) PROVE Contents'
  BY <1>22 DEF DeleteMissing, Deleting, Deleted
<1>23. ASSUME NEW r \in Request, DeleteFound(r) PROVE Contents'
  BY <1>23 DEF DeleteFound, Deleting
<1>24. ASSUME NEW r \in Request, Unlink(r) PROVE Contents'
  BY <1>24 DEF Unlink
<1>25. ASSUME NEW r \in Request, UnlinkFails(r) PROVE Contents'
  BY <1>25 DEF UnlinkFails
<1>26. ASSUME NEW r \in Request, Remove(r) PROVE Contents'
  BY <1>26 DEF Remove, Deleted
<1>27. ASSUME NEW r \in Request, RemoveFails(r) PROVE Contents'
  BY <1>27 DEF RemoveFails, Deleted
<1>28. ASSUME NEW r \in Request, Drop(r) PROVE Contents'
  <2>1. pc'[r] = "gone" \/ pc'[r] = pc[r]
    BY <1>28 DEF Drop
  <2>2. \A f \in Request : Drawn(f) => Drawn(f)'
    BY <1>28, <2>1 DEF Drop
  <2>3. QED
    BY <1>28, <2>1, <2>2 DEF Drop, Live, Version
<1>29. CASE Crash
  <2>1. \A r \in Request : pc'[r] = "gone" \/ pc'[r] = pc[r]
    BY <1>29 DEF Crash
  <2>2. \A f \in Request : Drawn(f) => Drawn(f)'
    BY <1>29, <2>1 DEF Crash
  <2>3. QED
    BY <1>29, <2>1, <2>2 DEF Crash, Version
<1>30. CASE UNCHANGED vars
  BY <1>30 DEF vars
<1> QED
  BY <1>1, <1>2, <1>3, <1>4, <1>5, <1>6, <1>7, <1>8, <1>9, <1>10, <1>11,
     <1>12, <1>13, <1>14, <1>15, <1>16, <1>17, <1>18, <1>19, <1>20, <1>21, <1>22,
     <1>23, <1>24, <1>25, <1>26, <1>27, <1>28, <1>29, <1>30
     DEF Next, Upload, Lock, Serve, FileFault

LEMMA ContentsAlways == Spec => [](TypeInv /\ Locked /\ Contents)
<1>1. Init => TypeInv /\ Locked /\ Contents
  BY NoneAssumption DEF Init, TypeInv, TypeOK, Control, Opening, Steps, FileOps,
     Locked, Holding, Contents, CompleteReads
<1>2. TypeInv /\ Locked /\ Contents /\ [Next]_vars => (TypeInv /\ Locked /\ Contents)'
  BY TypeStep, LockStep, ContentsStep
<1>3. QED
  BY <1>1, <1>2, PTL DEF Spec

\* A get streams the content whose etag it sends, under every combination of
\* crashes, drops and failing file operations.
THEOREM ReadsAreComplete == Spec => []CompleteReads
<1>1. TypeInv /\ Locked /\ Contents => CompleteReads
  BY DEF Contents
<1>2. QED
  BY <1>1, ContentsAlways, PTL

(***************************************************************************)
(* Without dropped requests and failing file operations, crashes allowed.  *)
(***************************************************************************)
LEMMA IntactStep ==
  ASSUME Reliable, TypeInv, Locked, Contents, Intact, [Next]_vars
  PROVE  Intact'
<1>a. \A s \in Request : pc[s] # "idle" => req[s] # None /\ KeyOf(s) \in Key
  BY KeyTyped, NoneAssumption
<1>b. \A f \in Request : data[f] # None =>
        /\ req[f] # None /\ pc[f] \notin Undrawn
        /\ data[f].dir = KeyOf(f)
  BY DEF Contents, Drawn
<1>c. \A k \in Key : meta[k] # None =>
        meta[k].file \in Request /\ pc[meta[k].file] \notin Undrawn
  BY DEF Contents, Drawn, Faithful, TypeInv, TypeOK, Version
<1>d. \A s \in Request : snap[s] # None =>
        snap[s].file \in Request /\ pc[snap[s].file] \notin Undrawn
  BY DEF Contents, Drawn, Faithful, TypeInv, TypeOK, Version
<1> USE <1>a, <1>b, <1>c, <1>d, NoneAssumption DEF TypeInv, TypeOK, Locked,
        Intact, Files, KeyOf, Holding, Ended, Goto, Acquire, Release, disk,
        Reliable
<1>1. ASSUME NEW r \in Request, Receive(r) PROVE Intact'
  BY <1>1 DEF Receive, Control, Undrawn, FirstStep
<1>2. ASSUME NEW r \in Request, Head(r) PROVE Intact'
  BY <1>2 DEF Head
<1>3. ASSUME NEW r \in Request, Lookup(r) PROVE Intact'
  BY <1>3 DEF Lookup
<1>4. ASSUME NEW r \in Request, Open(r) PROVE Intact'
  BY <1>4 DEF Open, Files
<1>5. ASSUME NEW r \in Request, OpenFails(r) PROVE Intact'
  BY <1>5 DEF OpenFails
<1>6. ASSUME NEW r \in Request, Stage(r) PROVE Intact'
  BY <1>6 DEF Stage
<1>7. ASSUME NEW r \in Request, BodyEnds(r) PROVE Intact'
  BY <1>7 DEF BodyEnds
<1>8. ASSUME NEW r \in Request, BodyFails(r) PROVE Intact'
  BY <1>8 DEF BodyFails
<1>9. ASSUME NEW r \in Request, Rename(r) PROVE Intact'
  <2>1. req[r].body \in Content
    BY <1>9, KeyTyped DEF Rename, Control, Call
  <2>2. data'[r] \in File
    BY <1>9, <2>1 DEF Rename, File
  <2>3. QED
    BY <1>9, <2>2 DEF Rename, Undrawn
<1>10. ASSUME NEW r \in Request, RenameFails(r) PROVE Intact'
  BY <1>10 DEF RenameFails
<1>11. ASSUME NEW r \in Request, Install(r) PROVE Intact'
  <2>1. \A s \in Request : s # r /\ pc[s] \in Holding => KeyOf(s) # KeyOf(r)
    BY <1>11 DEF Install
  <2>2. \A k \in Key : meta'[k] # None => meta'[k].file \in Files(k)'
    BY <1>11 DEF Install
  <2>a. meta'[KeyOf(r)] \in Version
    BY <1>11, EtagTyped DEF Install, Version
  <2>3. \A s \in Request : pc'[s] \in {"list", "gc"} =>
          meta'[KeyOf(s)'] # None /\ meta'[KeyOf(s)'].file = s
    BY <1>11, <2>1, <2>a DEF Install
  <2>4. \A s \in Request : pc'[s] = "remove" => meta'[KeyOf(s)'] = None
    BY <1>11, <2>1 DEF Install
  <2>5. QED
    BY <1>11, <2>2, <2>3, <2>4 DEF Install
<1>12. ASSUME NEW r \in Request, InstallFails(r) PROVE Intact'
  BY <1>12 DEF InstallFails
<1>13. ASSUME NEW r \in Request, List(r) PROVE Intact'
  BY <1>13 DEF List, Files
<1>14. ASSUME NEW r \in Request, Collect(r) PROVE Intact'
  BY <1>14 DEF Collect
<1>15. ASSUME NEW r \in Request, CollectFails(r) PROVE Intact'
  BY <1>15 DEF CollectFails
<1>16. ASSUME NEW r \in Request, Finish(r) PROVE Intact'
  BY <1>16 DEF Finish
<1>17. ASSUME NEW r \in Request, Source(r) PROVE Intact'
  BY <1>17 DEF Source
<1>18. ASSUME NEW r \in Request, LockTarget(r) PROVE Intact'
  BY <1>18 DEF LockTarget
<1>19. ASSUME NEW r \in Request, Link(r) PROVE Intact'
  <2>1. data[snap[r].file].content \in Content
    BY <1>19, <1>d DEF Link, File, Control
  <2>2. data'[r] \in File
    BY <1>19, <2>1 DEF Link, File
  <2>3. snap' \in [Request -> Version \cup {None}] /\ snap'[r].file = snap[r].file
    BY <1>19, <2>1 DEF Link, Version, Control
  <2>4. QED
    BY <1>19, <2>2, <2>3 DEF Link, Undrawn
<1>20. ASSUME NEW r \in Request, LinkFails(r) PROVE Intact'
  BY <1>20 DEF LinkFails
<1>21. ASSUME NEW r \in Request, CopyFails(r) PROVE Intact'
  BY <1>21 DEF CopyFails
<1>22. ASSUME NEW r \in Request, DeleteMissing(r) PROVE Intact'
  BY <1>22 DEF DeleteMissing, Deleting, Deleted
<1>23. ASSUME NEW r \in Request, DeleteFound(r) PROVE Intact'
  BY <1>23 DEF DeleteFound, Deleting
<1>24. ASSUME NEW r \in Request, Unlink(r) PROVE Intact'
  BY <1>24 DEF Unlink
<1>25. ASSUME NEW r \in Request, UnlinkFails(r) PROVE Intact'
  BY <1>25 DEF UnlinkFails
<1>26. ASSUME NEW r \in Request, Remove(r) PROVE Intact'
  BY <1>26 DEF Remove, Deleted
<1>27. ASSUME NEW r \in Request, RemoveFails(r) PROVE Intact'
  BY <1>27 DEF RemoveFails, Deleted
<1>28. ASSUME NEW r \in Request, Drop(r) PROVE Intact'
  BY <1>28 DEF Drop, Live, FileOps
<1>29. CASE Crash
  BY <1>29 DEF Crash, Live
<1>30. CASE UNCHANGED vars
  BY <1>30 DEF vars
<1> QED
  BY <1>1, <1>2, <1>3, <1>4, <1>5, <1>6, <1>7, <1>8, <1>9, <1>10, <1>11,
     <1>12, <1>13, <1>14, <1>15, <1>16, <1>17, <1>18, <1>19, <1>20, <1>21, <1>22,
     <1>23, <1>24, <1>25, <1>26, <1>27, <1>28, <1>29, <1>30
     DEF Next, Upload, Lock, Serve, FileFault

LEMMA IntactAlways ==
  ASSUME Reliable
  PROVE  Spec => [](TypeInv /\ Locked /\ Contents /\ Intact)
<1>1. Init => TypeInv /\ Locked /\ Contents /\ Intact
  BY NoneAssumption DEF Init, TypeInv, TypeOK, Control, Opening, Steps, FileOps,
     Locked, Holding, Contents, CompleteReads, Intact
<1>2. TypeInv /\ Locked /\ Contents /\ Intact /\ [Next]_vars =>
        (TypeInv /\ Locked /\ Contents /\ Intact)'
  BY TypeStep, LockStep, ContentsStep, IntactStep
<1>3. QED
  BY <1>1, <1>2, PTL DEF Spec

\* Where only crashes happen, every key's metadata names a data file that is
\* in place and holds the content the metadata describes (storage.rs:15-18).
THEOREM MetadataIsIntact ==
  ASSUME Reliable
  PROVE  Spec => []MetaHasItsData
<1>1. TypeInv /\ Locked /\ Contents /\ Intact => MetaHasItsData
  BY DEF Contents, Faithful, Intact, MetaHasItsData, Files
<1>2. QED
  BY <1>1, IntactAlways, PTL

(***************************************************************************)
(* Under all faults: metadata without its data file.                       *)
(***************************************************************************)
LEMMA OwnFilesStep ==
  ASSUME TypeInv, Contents, OwnFiles, [Next]_vars
  PROVE  OwnFiles'
<1>a. \A s \in Request : pc[s] # "idle" => req[s] # None /\ KeyOf(s) \in Key
  BY KeyTyped, NoneAssumption
<1>b. \A f \in Request : data[f] # None => req[f] # None /\ data[f].dir = KeyOf(f)
  BY DEF Contents, Drawn
<1>c. \A k \in Key : meta[k] # None =>
        /\ meta[k].file \in Request /\ req[meta[k].file] # None
        /\ pc[meta[k].file] \notin Undrawn
  BY DEF Contents, Drawn, Faithful, TypeInv, TypeOK, Version
<1>d. \A s \in Request : snap[s] # None => snap[s].file \in Request /\ req[snap[s].file] # None
  BY DEF Contents, Drawn, Faithful, TypeInv, TypeOK, Version
<1> USE <1>a, <1>b, <1>c, <1>d, NoneAssumption DEF TypeInv, TypeOK, Control, OwnFiles, Removes,
        KeyOf, Goto, Acquire, Release, disk
<1>1. ASSUME NEW r \in Request, Receive(r) PROVE OwnFiles'
  BY <1>1 DEF Receive, FirstStep, Control
<1>2. ASSUME NEW r \in Request, Head(r) PROVE OwnFiles'
  BY <1>2 DEF Head
<1>3. ASSUME NEW r \in Request, Lookup(r) PROVE OwnFiles'
  BY <1>3 DEF Lookup
<1>4. ASSUME NEW r \in Request, Open(r) PROVE OwnFiles'
  BY <1>4 DEF Open, Files
<1>5. ASSUME NEW r \in Request, OpenFails(r) PROVE OwnFiles'
  BY <1>5 DEF OpenFails
<1>6. ASSUME NEW r \in Request, Stage(r) PROVE OwnFiles'
  BY <1>6 DEF Stage
<1>7. ASSUME NEW r \in Request, BodyEnds(r) PROVE OwnFiles'
  BY <1>7 DEF BodyEnds
<1>8. ASSUME NEW r \in Request, BodyFails(r) PROVE OwnFiles'
  BY <1>8 DEF BodyFails
<1>9. ASSUME NEW r \in Request, Rename(r) PROVE OwnFiles'
  BY <1>9 DEF Rename, Undrawn
<1>10. ASSUME NEW r \in Request, RenameFails(r) PROVE OwnFiles'
  BY <1>10 DEF RenameFails
<1>11. ASSUME NEW r \in Request, Install(r) PROVE OwnFiles'
  BY <1>11 DEF Install
<1>12. ASSUME NEW r \in Request, InstallFails(r) PROVE OwnFiles'
  BY <1>12 DEF InstallFails
<1>13. ASSUME NEW r \in Request, List(r) PROVE OwnFiles'
  BY <1>13 DEF List, Files
<1>14. ASSUME NEW r \in Request, Collect(r) PROVE OwnFiles'
  BY <1>14 DEF Collect
<1>15. ASSUME NEW r \in Request, CollectFails(r) PROVE OwnFiles'
  BY <1>15 DEF CollectFails
<1>16. ASSUME NEW r \in Request, Finish(r) PROVE OwnFiles'
  BY <1>16 DEF Finish
<1>17. ASSUME NEW r \in Request, Source(r) PROVE OwnFiles'
  BY <1>17 DEF Source
<1>18. ASSUME NEW r \in Request, LockTarget(r) PROVE OwnFiles'
  BY <1>18 DEF LockTarget
<1>19. ASSUME NEW r \in Request, Link(r) PROVE OwnFiles'
  <2>1. snap'[r] # None => snap'[r].file = snap[r].file
    BY <1>19 DEF Link, Version
  <2>2. QED
    BY <1>19, <2>1 DEF Link, Undrawn
<1>20. ASSUME NEW r \in Request, LinkFails(r) PROVE OwnFiles'
  BY <1>20 DEF LinkFails
<1>21. ASSUME NEW r \in Request, CopyFails(r) PROVE OwnFiles'
  BY <1>21 DEF CopyFails, Files
<1>22. ASSUME NEW r \in Request, DeleteMissing(r) PROVE OwnFiles'
  BY <1>22 DEF DeleteMissing, Deleting, Deleted
<1>23. ASSUME NEW r \in Request, DeleteFound(r) PROVE OwnFiles'
  <2>1. Removes(r)
    BY <1>23 DEF DeleteFound, Deleting
  <2>2. snap'[r] = meta[KeyOf(r)] \/ snap'[r] = None
    BY <1>23 DEF DeleteFound
  <2>3. snap'[r] # None => KeyOf(snap'[r].file) = KeyOf(r)
    BY <1>23, <2>2 DEF DeleteFound, Deleting
  <2>4. \A s \in Request : s # r => snap'[s] = snap[s] /\ pc'[s] = pc[s]
    BY <1>23 DEF DeleteFound
  <2>5. pc'[r] = "unlink" /\ pc[r] # "install"
    BY <1>23 DEF DeleteFound, Deleting
  <2>6. UNCHANGED <<req, doomed, meta>>
    BY <1>23 DEF DeleteFound
  <2>7. QED
    BY <2>1, <2>3, <2>4, <2>5, <2>6
<1>24. ASSUME NEW r \in Request, Unlink(r) PROVE OwnFiles'
  BY <1>24 DEF Unlink
<1>25. ASSUME NEW r \in Request, UnlinkFails(r) PROVE OwnFiles'
  BY <1>25 DEF UnlinkFails
<1>26. ASSUME NEW r \in Request, Remove(r) PROVE OwnFiles'
  BY <1>26 DEF Remove, Deleted
<1>27. ASSUME NEW r \in Request, RemoveFails(r) PROVE OwnFiles'
  BY <1>27 DEF RemoveFails, Deleted
<1>28. ASSUME NEW r \in Request, Drop(r) PROVE OwnFiles'
  BY <1>28 DEF Drop, Live, FileOps
<1>29. CASE Crash
  BY <1>29 DEF Crash, Live
<1>30. CASE UNCHANGED vars
  BY <1>30 DEF vars
<1> QED
  BY <1>1, <1>2, <1>3, <1>4, <1>5, <1>6, <1>7, <1>8, <1>9, <1>10, <1>11,
     <1>12, <1>13, <1>14, <1>15, <1>16, <1>17, <1>18, <1>19, <1>20, <1>21, <1>22,
     <1>23, <1>24, <1>25, <1>26, <1>27, <1>28, <1>29, <1>30
     DEF Next, Upload, Lock, Serve, FileFault

\* A key that has been touched stays so: requests are never taken back.
LEMMA TouchedStays ==
  ASSUME TypeInv, [Next]_vars, NEW k \in Key, Touched(k)
  PROVE  Touched(k)'
<1> USE NoneAssumption DEF TypeInv, TypeOK, Control, Touched, Removes, KeyOf, Goto, Ended, disk
<1>1. ASSUME NEW r \in Request, Receive(r) PROVE Touched(k)'
  BY <1>1 DEF Receive, FirstStep, Control
<1>2. ASSUME NEW r \in Request, Head(r) PROVE Touched(k)'
  BY <1>2 DEF Head
<1>3. ASSUME NEW r \in Request, Lookup(r) PROVE Touched(k)'
  BY <1>3 DEF Lookup
<1>4. ASSUME NEW r \in Request, Open(r) PROVE Touched(k)'
  BY <1>4 DEF Open, Files
<1>5. ASSUME NEW r \in Request, OpenFails(r) PROVE Touched(k)'
  BY <1>5 DEF OpenFails
<1>6. ASSUME NEW r \in Request, Stage(r) PROVE Touched(k)'
  BY <1>6 DEF Stage
<1>7. ASSUME NEW r \in Request, BodyEnds(r) PROVE Touched(k)'
  BY <1>7 DEF BodyEnds
<1>8. ASSUME NEW r \in Request, BodyFails(r) PROVE Touched(k)'
  BY <1>8 DEF BodyFails
<1>9. ASSUME NEW r \in Request, Rename(r) PROVE Touched(k)'
  BY <1>9 DEF Rename
<1>10. ASSUME NEW r \in Request, RenameFails(r) PROVE Touched(k)'
  BY <1>10 DEF RenameFails
<1>11. ASSUME NEW r \in Request, Install(r) PROVE Touched(k)'
  BY <1>11 DEF Install
<1>12. ASSUME NEW r \in Request, InstallFails(r) PROVE Touched(k)'
  BY <1>12 DEF InstallFails
<1>13. ASSUME NEW r \in Request, List(r) PROVE Touched(k)'
  BY <1>13 DEF List, Files
<1>14. ASSUME NEW r \in Request, Collect(r) PROVE Touched(k)'
  BY <1>14 DEF Collect
<1>15. ASSUME NEW r \in Request, CollectFails(r) PROVE Touched(k)'
  BY <1>15 DEF CollectFails
<1>16. ASSUME NEW r \in Request, Finish(r) PROVE Touched(k)'
  BY <1>16 DEF Finish
<1>17. ASSUME NEW r \in Request, Source(r) PROVE Touched(k)'
  BY <1>17 DEF Source
<1>18. ASSUME NEW r \in Request, LockTarget(r) PROVE Touched(k)'
  BY <1>18 DEF LockTarget
<1>19. ASSUME NEW r \in Request, Link(r) PROVE Touched(k)'
  BY <1>19 DEF Link
<1>20. ASSUME NEW r \in Request, LinkFails(r) PROVE Touched(k)'
  BY <1>20 DEF LinkFails
<1>21. ASSUME NEW r \in Request, CopyFails(r) PROVE Touched(k)'
  BY <1>21 DEF CopyFails, Files
<1>22. ASSUME NEW r \in Request, DeleteMissing(r) PROVE Touched(k)'
  BY <1>22 DEF DeleteMissing, Deleting, Deleted
<1>23. ASSUME NEW r \in Request, DeleteFound(r) PROVE Touched(k)'
  BY <1>23 DEF DeleteFound, Deleting
<1>24. ASSUME NEW r \in Request, Unlink(r) PROVE Touched(k)'
  BY <1>24 DEF Unlink
<1>25. ASSUME NEW r \in Request, UnlinkFails(r) PROVE Touched(k)'
  BY <1>25 DEF UnlinkFails
<1>26. ASSUME NEW r \in Request, Remove(r) PROVE Touched(k)'
  BY <1>26 DEF Remove, Deleted
<1>27. ASSUME NEW r \in Request, RemoveFails(r) PROVE Touched(k)'
  BY <1>27 DEF RemoveFails, Deleted
<1>28. ASSUME NEW r \in Request, Drop(r) PROVE Touched(k)'
  BY <1>28 DEF Drop, Live, FileOps
<1>29. CASE Crash
  BY <1>29 DEF Crash, Live
<1>30. CASE UNCHANGED vars
  BY <1>30 DEF vars
<1> QED
  BY <1>1, <1>2, <1>3, <1>4, <1>5, <1>6, <1>7, <1>8, <1>9, <1>10, <1>11,
     <1>12, <1>13, <1>14, <1>15, <1>16, <1>17, <1>18, <1>19, <1>20, <1>21, <1>22,
     <1>23, <1>24, <1>25, <1>26, <1>27, <1>28, <1>29, <1>30
     DEF Next, Upload, Lock, Serve, FileFault

LEMMA PhantomFreeStep ==
  ASSUME TypeInv, Locked, Contents, OwnFiles, PhantomFree, [Next]_vars
  PROVE  PhantomFree'
<1> SUFFICES ASSUME NEW k \in Key, ~Touched(k)' PROVE IntactAt(k)'
  BY DEF PhantomFree
<1>0. ~Touched(k) /\ IntactAt(k)
  BY TouchedStays DEF PhantomFree
<1>a. \A s \in Request : pc[s] # "idle" => req[s] # None /\ KeyOf(s) \in Key
  BY KeyTyped, NoneAssumption
<1>b. \A f \in Request : data[f] # None =>
        /\ req[f] # None /\ pc[f] \notin Undrawn
        /\ data[f].dir = KeyOf(f)
  BY DEF Contents, Drawn
<1>c. \A j \in Key : meta[j] # None =>
        meta[j].file \in Request /\ pc[meta[j].file] \notin Undrawn
  BY DEF Contents, Drawn, Faithful, TypeInv, TypeOK, Version
<1>d. \A s \in Request : snap[s] # None =>
        snap[s].file \in Request /\ pc[snap[s].file] \notin Undrawn
  BY DEF Contents, Drawn, Faithful, TypeInv, TypeOK, Version
<1> USE <1>0, <1>a, <1>b, <1>c, <1>d, NoneAssumption DEF TypeInv, TypeOK, Locked, IntactAt,
        OwnFiles, Touched, Files, KeyOf, Holding, Ended, Goto, Acquire, Release, disk
<1>1. ASSUME NEW r \in Request, Receive(r) PROVE IntactAt(k)'
  BY <1>1 DEF Receive, FirstStep, Control
<1>2. ASSUME NEW r \in Request, Head(r) PROVE IntactAt(k)'
  BY <1>2 DEF Head
<1>3. ASSUME NEW r \in Request, Lookup(r) PROVE IntactAt(k)'
  BY <1>3 DEF Lookup
<1>4. ASSUME NEW r \in Request, Open(r) PROVE IntactAt(k)'
  BY <1>4 DEF Open, Files
<1>5. ASSUME NEW r \in Request, OpenFails(r) PROVE IntactAt(k)'
  BY <1>5 DEF OpenFails
<1>6. ASSUME NEW r \in Request, Stage(r) PROVE IntactAt(k)'
  BY <1>6 DEF Stage
<1>7. ASSUME NEW r \in Request, BodyEnds(r) PROVE IntactAt(k)'
  BY <1>7 DEF BodyEnds
<1>8. ASSUME NEW r \in Request, BodyFails(r) PROVE IntactAt(k)'
  BY <1>8 DEF BodyFails
<1>9. ASSUME NEW r \in Request, Rename(r) PROVE IntactAt(k)'
  <2>1. data'[r] \in File
    BY <1>9, KeyTyped DEF Rename, File, Control, Call
  <2>2. QED
    BY <1>9, <2>1 DEF Rename, Undrawn
<1>10. ASSUME NEW r \in Request, RenameFails(r) PROVE IntactAt(k)'
  BY <1>10 DEF RenameFails
<1>11. ASSUME NEW r \in Request, Install(r) PROVE IntactAt(k)'
  <2>1. CASE KeyOf(r) # k
    BY <1>11, <2>1 DEF Install
  <2>2. CASE KeyOf(r) = k
    <3>0. pc[r] = "install" /\ req' = req /\ req[r] # None
      BY <1>11 DEF Install
    <3>1. r \notin detached
      <4>1. r \in detached => pc'[r] = "gone"
        BY <1>11 DEF Install
      <4>2. QED
        BY <2>2, <3>0, <4>1 DEF Touched
    <3>2. \A s \in Request \ detached : s # r /\ pc[s] \in Holding => KeyOf(s) # k
      BY <2>2, <3>0, <3>1
    <3>3. meta'[k] \in Version /\ meta'[k].file = r
      BY <1>11, <2>2, EtagTyped DEF Install, Version
    <3>4. r \in Files(k)
      BY <2>2, <3>0, <3>1
    <3>5. UNCHANGED <<req, data, detached>> /\ \A s \in Request : s # r => pc'[s] = pc[s]
      BY <1>11 DEF Install
    <3>6. pc'[r] = "list"
      BY <1>11, <3>1 DEF Install
    <3>7. QED
      BY <3>2, <3>3, <3>4, <3>5, <3>6
  <2>3. QED
    BY <2>1, <2>2
<1>12. ASSUME NEW r \in Request, InstallFails(r) PROVE IntactAt(k)'
  <2>1. \A f \in Request : f # r => data'[f] = data[f]
    BY <1>12 DEF InstallFails
  <2>2. meta[k] # None => meta[k].file # r
    BY <1>12 DEF InstallFails
  <2>3. \A s \in Request : s # r => pc'[s] = pc[s]
    BY <1>12 DEF InstallFails
  <2>4. UNCHANGED <<req, meta, detached>> /\ pc'[r] \in {"failed", "gone"}
    BY <1>12 DEF InstallFails
  <2>5. QED
    BY <2>1, <2>2, <2>3, <2>4
<1>13. ASSUME NEW r \in Request, List(r) PROVE IntactAt(k)'
  BY <1>13 DEF List, Files
<1>14. ASSUME NEW r \in Request, Collect(r) PROVE IntactAt(k)'
  BY <1>14 DEF Collect
<1>15. ASSUME NEW r \in Request, CollectFails(r) PROVE IntactAt(k)'
  BY <1>15 DEF CollectFails
<1>16. ASSUME NEW r \in Request, Finish(r) PROVE IntactAt(k)'
  BY <1>16 DEF Finish
<1>17. ASSUME NEW r \in Request, Source(r) PROVE IntactAt(k)'
  BY <1>17 DEF Source
<1>18. ASSUME NEW r \in Request, LockTarget(r) PROVE IntactAt(k)'
  BY <1>18 DEF LockTarget
<1>19. ASSUME NEW r \in Request, Link(r) PROVE IntactAt(k)'
  <2>1. data[snap[r].file].content \in Content
    BY <1>19, <1>d DEF Link, File, Control
  <2>2. data'[r] \in File
    BY <1>19, <2>1 DEF Link, File
  <2>3. QED
    BY <1>19, <2>2 DEF Link, Undrawn
<1>20. ASSUME NEW r \in Request, LinkFails(r) PROVE IntactAt(k)'
  BY <1>20 DEF LinkFails
<1>21. ASSUME NEW r \in Request, CopyFails(r) PROVE IntactAt(k)'
  <2>1. data[snap[r].file].content \in Content
    BY <1>21, <1>d DEF CopyFails, File, Control
  <2>2. data'[r] \in File
    BY <1>21, <2>1 DEF CopyFails, File
  <2>3. QED
    BY <1>21, <2>2 DEF CopyFails, Undrawn
<1>22. ASSUME NEW r \in Request, DeleteMissing(r) PROVE IntactAt(k)'
  BY <1>22 DEF DeleteMissing, Deleting, Deleted
<1>23. ASSUME NEW r \in Request, DeleteFound(r) PROVE IntactAt(k)'
  BY <1>23 DEF DeleteFound, Deleting
<1>24. ASSUME NEW r \in Request, Unlink(r) PROVE IntactAt(k)'
  BY <1>24 DEF Unlink
<1>25. ASSUME NEW r \in Request, UnlinkFails(r) PROVE IntactAt(k)'
  BY <1>25 DEF UnlinkFails
<1>26. ASSUME NEW r \in Request, Remove(r) PROVE IntactAt(k)'
  BY <1>26 DEF Remove, Deleted
<1>27. ASSUME NEW r \in Request, RemoveFails(r) PROVE IntactAt(k)'
  BY <1>27 DEF RemoveFails, Deleted
<1>28. ASSUME NEW r \in Request, Drop(r) PROVE IntactAt(k)'
  BY <1>28 DEF Drop, Live, FileOps
<1>29. CASE Crash
  BY <1>29 DEF Crash, Live
<1>30. CASE UNCHANGED vars
  BY <1>30 DEF vars
<1> QED
  BY <1>1, <1>2, <1>3, <1>4, <1>5, <1>6, <1>7, <1>8, <1>9, <1>10, <1>11,
     <1>12, <1>13, <1>14, <1>15, <1>16, <1>17, <1>18, <1>19, <1>20, <1>21, <1>22,
     <1>23, <1>24, <1>25, <1>26, <1>27, <1>28, <1>29, <1>30
     DEF Next, Upload, Lock, Serve, FileFault

\* Whatever fails, no metadata loses its data file but by a deletion, a rollback or a
\* request that is gone (delete_object ignores a failing removal of meta.json).
THEOREM PhantomsAreCaused == Spec => []PhantomsHaveACause
<1>1. Init => OwnFiles /\ PhantomFree
  BY NoneAssumption DEF Init, OwnFiles, PhantomFree, IntactAt
<1>2. TypeInv /\ Locked /\ Contents /\ OwnFiles /\ PhantomFree /\ [Next]_vars => (OwnFiles /\ PhantomFree)'
  BY OwnFilesStep, PhantomFreeStep
<1>3. PhantomFree => PhantomsHaveACause
  BY DEF PhantomFree, IntactAt, PhantomsHaveACause
<1>4. QED
  BY <1>1, <1>2, <1>3, ContentsAlways, PTL DEF Spec
====
