---- MODULE MultipartProofs ----
(***************************************************************************)
(* Theorems about Multipart for any sets of requests, uploads, parts,      *)
(* contents and lists, under dropped requests and crashes.                 *)
(***************************************************************************)
EXTENDS Multipart, SequenceTheorems, TLAPS

(***************************************************************************)
(* The invariants.                                                         *)
(***************************************************************************)
\* Every request is in a step of its operation and has read what it needs.
Control ==
  \A r \in Request :
    /\ pc[r] = "idle" <=> req[r] = None
    /\ pc[r] \in {"stream", "rename", "reload", "save"} => req[r].op = "part"
    /\ pc[r] \in {"wait", "assemble", "install", "collect"} => req[r].op = "complete"
    /\ pc[r] \in {"scan", "erase"} => req[r].op \in {"complete", "abort"}
    /\ pc[r] \in {"save", "wait", "assemble", "install"} => seen[r] # None
    /\ pc[r] \in {"assemble", "install"} => Valid(r) /\ data[r] # None
    /\ r \in detached => pc[r] \in FileOps \cup {"gone"}

TypeInv == TypeOK /\ Control

\* A staging directory is made once, for an upload nobody knows before, and
\* holds whatever is staged; a request that has gone past its first read of
\* the manifest is about an upload that was made.
Past == Steps \ {"idle", "load", "noupload", "gone"}
Staging ==
  /\ \A u \in Upload :
       /\ manifest[u] # None => u \in there /\ made[u] = "yes"
       /\ parts[u] # None => u \in there
       /\ made[u] = "no" => u \notin there
       /\ made[u] = "dir" => u \in there
  /\ \A r \in Request : pc[r] \in Past => made[Of(r)] = "yes"

(***************************************************************************)
(* Types and control.                                                      *)
(***************************************************************************)
LEMMA CallTyped ==
  ASSUME TypeInv, NEW r \in Request, pc[r] # "idle"
  PROVE  /\ req[r] \in Call /\ Of(r) \in Upload
         /\ req[r].op = "part" => req[r].number \in Part /\ req[r].body \in Content
         /\ req[r].op = "complete" => req[r].list \in Seq(Part \X Content)
BY ListsAssumption DEF TypeInv, TypeOK, Control, Call, Of

\* What a valid complete assembles and installs is made of contents.
LEMMA ListTyped ==
  ASSUME TypeInv, NEW r \in Request, pc[r] \in {"assemble", "install"}
  PROVE  /\ Len(req[r].list) \in Nat
         /\ \A i \in Indices(r) : Number(r, i) \in Part /\ Etag(r, i) \in Content
         /\ EtagOf(r) \in Seq(Content)
<1>1. req[r].list \in Seq(Part \X Content) /\ Len(req[r].list) \in Nat
  BY CallTyped, LenProperties DEF TypeInv, Control
<1>2. \A i \in Indices(r) : req[r].list[i] \in Part \X Content
  BY <1>1, ElementOfSeq DEF Indices
<1>3. \A i \in Indices(r) : Number(r, i) \in Part /\ Etag(r, i) \in Content
  BY <1>2 DEF Number, Etag
<1>4. \A i \in Indices(r) : seen[r][Number(r, i)] \in Content
  BY <1>3 DEF TypeInv, Control, Valid
<1>5. EtagOf(r) \in Seq(Content)
  BY <1>1, <1>4, IsASeq DEF EtagOf, Indices
<1>6. QED
  BY <1>1, <1>3, <1>5

LEMMA TypeStep ==
  ASSUME TypeInv, [Next]_vars
  PROVE  TypeInv'
<1>0. \A r \in Request : pc[r] # "idle" =>
        /\ req[r] \in Call /\ Of(r) \in Upload
        /\ req[r].op = "part" => req[r].number \in Part /\ req[r].body \in Content
  BY CallTyped
<1>v. \A s \in Request : req'[s] = req[s] /\ seen'[s] = seen[s] =>
        (Valid(s)' <=> Valid(s))
  BY DEF Valid, Indices, Number, Etag
<1>e. <<>> \in Seq(Content)
  OBVIOUS
<1> USE <1>0, NoneAssumption DEF TypeInv, TypeOK, Control, Steps, FileOps, Ended,
        Entries, Goto, Release, staging, object, Of
<1>1. ASSUME NEW u \in Upload, MakeDir(u) PROVE TypeInv'
  BY <1>1, <1>v DEF MakeDir
<1>2. ASSUME NEW u \in Upload, MakeManifest(u) PROVE TypeInv'
  BY <1>2, <1>v DEF MakeManifest
<1>3. ASSUME NEW r \in Request, Receive(r) PROVE TypeInv'
  <2>1. PICK c \in Call : req' = [req EXCEPT ![r] = c]
    BY <1>3 DEF Receive
  <2>2. pc[r] = "idle" /\ r \notin detached /\ pc' = [pc EXCEPT ![r] = "load"]
    BY <1>3 DEF Receive
  <2>3. TypeOK'
    BY <1>3, <2>1, <2>2 DEF Receive
  <2>4. /\ pc'[r] = "load" /\ req'[r] # None /\ seen' = seen /\ data' = data
        /\ \A s \in Request \ {r} : pc'[s] = pc[s] /\ req'[s] = req[s]
        /\ detached' = detached
    BY <1>3, <2>1, <2>2 DEF Receive
  <2>5. Control'
    BY <1>v, <2>2, <2>4
  <2>6. QED
    BY <2>3, <2>5
<1>4. ASSUME NEW r \in Request, Load(r) PROVE TypeInv'
  <2>1. r \notin detached /\ req[r] # None
    BY <1>4 DEF Load
  <2>2. PICK step \in {"noupload", "wait", "scan", "stream"} :
          /\ pc' = [pc EXCEPT ![r] = step]
          /\ step = "wait" => req[r].op = "complete" /\ manifest[Of(r)] # None
          /\ step = "scan" => req[r].op = "abort"
          /\ step = "stream" => req[r].op = "part"
    BY <1>4, <2>1 DEF Load, AfterLoad, Call
  <2>3. TypeOK'
    BY <1>4, <2>2 DEF Load
  <2>4. Control'
    BY <1>4, <1>v, <2>1, <2>2 DEF Load
  <2>5. QED
    BY <2>3, <2>4
<1>5. ASSUME NEW r \in Request, BodyEnds(r) PROVE TypeInv'
  BY <1>5, <1>v DEF BodyEnds
<1>6. ASSUME NEW r \in Request, BodyFails(r) PROVE TypeInv'
  BY <1>6, <1>v DEF BodyFails
<1>7. ASSUME NEW r \in Request, Rename(r) PROVE TypeInv'
  BY <1>7, <1>v DEF Rename
<1>8. ASSUME NEW r \in Request, RenameFails(r) PROVE TypeInv'
  BY <1>8, <1>v DEF RenameFails
<1>9. ASSUME NEW r \in Request, Reload(r) PROVE TypeInv'
  BY <1>9, <1>v DEF Reload
<1>10. ASSUME NEW r \in Request, Save(r) PROVE TypeInv'
  BY <1>10, <1>v DEF Save, Saved
<1>11. ASSUME NEW r \in Request, SaveFails(r) PROVE TypeInv'
  BY <1>11, <1>v DEF SaveFails
<1>12. ASSUME NEW r \in Request, Reject(r) PROVE TypeInv'
  BY <1>12, <1>v DEF Reject
<1>13. ASSUME NEW r \in Request, Begin(r) PROVE TypeInv'
  <2>1. /\ pc' = [pc EXCEPT ![r] = "assemble"] /\ data' = [data EXCEPT ![r] = <<>>]
        /\ pc[r] = "wait" /\ r \notin detached /\ Valid(r)
        /\ req' = req /\ seen' = seen /\ detached' = detached
    BY <1>13 DEF Begin
  <2>2. TypeOK'
    BY <1>13, <1>e, <2>1 DEF Begin
  <2>3. data'[r] # None
    BY <1>e, <2>1
  <2>4. Control'
    BY <1>v, <2>1, <2>3
  <2>5. QED
    BY <2>2, <2>4
<1>14. ASSUME NEW r \in Request, Assemble(r) PROVE TypeInv'
  <2>1. parts[Of(r)][Number(r, NextIndex(r))] \in Content
    BY <1>14, ListTyped DEF Assemble, Staged
  <2>2. data[r] \in Seq(Content)
    BY <1>14 DEF Assemble
  <2>3. Append(data[r], parts[Of(r)][Number(r, NextIndex(r))]) \in Seq(Content)
    BY <2>1, <2>2
  <2>4. data' \in [Request -> Seq(Content) \cup {None}]
    BY <1>14, <2>3 DEF Assemble
  <2>5. TypeOK'
    BY <1>14, <2>4 DEF Assemble
  <2>6. data'[r] # None /\ \A s \in Request \ {r} : data'[s] = data[s]
    BY <1>14, <2>3 DEF Assemble
  <2>7. Control'
    BY <1>14, <1>v, <2>6 DEF Assemble
  <2>8. QED
    BY <2>5, <2>7
<1>15. ASSUME NEW r \in Request, AssembleFails(r) PROVE TypeInv'
  BY <1>15, <1>v DEF AssembleFails
<1>16. ASSUME NEW r \in Request, Sync(r) PROVE TypeInv'
  BY <1>16, <1>v DEF Sync
<1>17. ASSUME NEW r \in Request, Install(r) PROVE TypeInv'
  <2>1. [file |-> r, etag |-> EtagOf(r)] \in Version
    BY <1>17, ListTyped DEF Install, Version
  <2>2. QED
    BY <1>17, <1>v, <2>1 DEF Install
<1>18. ASSUME NEW r \in Request, Collect(r) PROVE TypeInv'
  BY <1>18, <1>v DEF Collect
<1>19. ASSUME NEW r \in Request, Scan(r) PROVE TypeInv'
  BY <1>19, <1>v DEF Scan, Listing, PartFiles, PartFile
<1>20. ASSUME NEW r \in Request, Erase(r) PROVE TypeInv'
  <2>1. PICK e \in doomed[r] \cup Listing(Of(r)) :
          /\ doomed' = [doomed EXCEPT ![r] = @ \ {e}]
          /\ manifest' \in {manifest, [manifest EXCEPT ![Of(r)] = None]}
          /\ parts' = CASE e = <<"manifest">> \/ parts[Of(r)] = None -> parts
                        [] e = <<"parts">> -> [parts EXCEPT ![Of(r)] = None]
                        [] OTHER -> [parts EXCEPT ![Of(r)][e[2]] = None]
    BY <1>20 DEF Erase
  <2>2. parts' \in [Upload -> [Part -> Content \cup {None}] \cup {None}]
    <3>1. CASE e = <<"manifest">> \/ parts[Of(r)] = None
      BY <2>1, <3>1
    <3>2. CASE e = <<"parts">> /\ parts[Of(r)] # None
      BY <2>1, <3>2
    <3>3. CASE e # <<"manifest">> /\ e # <<"parts">> /\ parts[Of(r)] # None
      <4>1. parts[Of(r)] \in [Part -> Content \cup {None}]
        BY <1>20, <3>3 DEF Erase
      <4>2. [parts[Of(r)] EXCEPT ![e[2]] = None] \in [Part -> Content \cup {None}]
        BY <4>1
      <4>3. parts' = [parts EXCEPT ![Of(r)] = [parts[Of(r)] EXCEPT ![e[2]] = None]]
        BY <2>1, <3>3
      <4>4. QED
        BY <4>2, <4>3
    <3>4. QED
      BY <3>1, <3>2, <3>3
  <2>3. TypeOK'
    BY <1>20, <2>1, <2>2 DEF Erase
  <2>4. Control'
    BY <1>20, <1>v DEF Erase
  <2>5. QED
    BY <2>3, <2>4
<1>21. ASSUME NEW r \in Request, Erased(r) PROVE TypeInv'
  BY <1>21, <1>v DEF Erased
<1>22. ASSUME NEW r \in Request, EraseFails(r) PROVE TypeInv'
  BY <1>22, <1>v DEF EraseFails
<1>23. ASSUME NEW r \in Request, Drop(r) PROVE TypeInv'
  BY <1>23, <1>v DEF Drop, Live
<1>24. CASE Crash
  BY <1>24, <1>v DEF Crash, Live
<1>25. CASE UNCHANGED vars
  BY <1>25, <1>v DEF vars
<1>26. QED
  BY <1>1, <1>2, <1>3, <1>4, <1>5, <1>6, <1>7, <1>8, <1>9, <1>10, <1>11, <1>12, <1>13, <1>14, <1>15, <1>16, <1>17, <1>18, <1>19, <1>20, <1>21, <1>22, <1>23, <1>24, <1>25
     DEF Next, Client, TakeLock, Serve

\* Every request is in a step that fits what it asks for, and every variable
\* has its type (the multipart handlers of src/s3.rs and src/storage.rs).
THEOREM TypeCorrect == Spec => []TypeOK
<1>1. Init => TypeInv
  BY NoneAssumption DEF Init, TypeInv, TypeOK, Control, Steps, FileOps, Entries
<1>2. TypeInv /\ [Next]_vars => TypeInv'
  BY TypeStep
<1>3. TypeInv => TypeOK
  BY DEF TypeInv
<1>4. QED
  BY <1>1, <1>2, <1>3, PTL DEF Spec

(***************************************************************************)
(* What is staged, and the end of it.                                      *)
(***************************************************************************)
LEMMA StagingStep ==
  ASSUME TypeInv, Staging, AbortIsFinal, [Next]_vars
  PROVE  (Staging /\ AbortIsFinal)'
<1>0. \A r \in Request : pc[r] # "idle" =>
        req[r] # None /\ Of(r) \in Upload /\ req[r].op \in {"part", "complete", "abort"}
  BY CallTyped, NoneAssumption DEF Call
<1> USE <1>0, NoneAssumption DEF TypeInv, TypeOK, Control, Steps, FileOps, Ended, Past,
        Staging, AbortIsFinal, Goto, staging, object, Of
<1>1. ASSUME NEW u \in Upload, MakeDir(u) PROVE (Staging /\ AbortIsFinal)'
  BY <1>1 DEF MakeDir
<1>2. ASSUME NEW u \in Upload, MakeManifest(u) PROVE (Staging /\ AbortIsFinal)'
  BY <1>2 DEF MakeManifest
<1>3. ASSUME NEW r \in Request, Receive(r) PROVE (Staging /\ AbortIsFinal)'
  BY <1>3 DEF Receive
<1>4. ASSUME NEW r \in Request, Load(r) PROVE (Staging /\ AbortIsFinal)'
  BY <1>4 DEF Load, AfterLoad
<1>5. ASSUME NEW r \in Request, BodyEnds(r) PROVE (Staging /\ AbortIsFinal)'
  BY <1>5 DEF BodyEnds
<1>6. ASSUME NEW r \in Request, BodyFails(r) PROVE (Staging /\ AbortIsFinal)'
  BY <1>6 DEF BodyFails
<1>7. ASSUME NEW r \in Request, Rename(r) PROVE (Staging /\ AbortIsFinal)'
  BY <1>7 DEF Rename
<1>8. ASSUME NEW r \in Request, RenameFails(r) PROVE (Staging /\ AbortIsFinal)'
  BY <1>8 DEF RenameFails
<1>9. ASSUME NEW r \in Request, Reload(r) PROVE (Staging /\ AbortIsFinal)'
  BY <1>9 DEF Reload
<1>10. ASSUME NEW r \in Request, Save(r) PROVE (Staging /\ AbortIsFinal)'
  BY <1>10 DEF Save, Saved
<1>11. ASSUME NEW r \in Request, SaveFails(r) PROVE (Staging /\ AbortIsFinal)'
  BY <1>11 DEF SaveFails
<1>12. ASSUME NEW r \in Request, Reject(r) PROVE (Staging /\ AbortIsFinal)'
  BY <1>12 DEF Reject
<1>13. ASSUME NEW r \in Request, Begin(r) PROVE (Staging /\ AbortIsFinal)'
  BY <1>13 DEF Begin
<1>14. ASSUME NEW r \in Request, Assemble(r) PROVE (Staging /\ AbortIsFinal)'
  BY <1>14 DEF Assemble
<1>15. ASSUME NEW r \in Request, AssembleFails(r) PROVE (Staging /\ AbortIsFinal)'
  BY <1>15 DEF AssembleFails
<1>16. ASSUME NEW r \in Request, Sync(r) PROVE (Staging /\ AbortIsFinal)'
  BY <1>16 DEF Sync
<1>17. ASSUME NEW r \in Request, Install(r) PROVE (Staging /\ AbortIsFinal)'
  BY <1>17 DEF Install
<1>18. ASSUME NEW r \in Request, Collect(r) PROVE (Staging /\ AbortIsFinal)'
  BY <1>18 DEF Collect
<1>19. ASSUME NEW r \in Request, Scan(r) PROVE (Staging /\ AbortIsFinal)'
  BY <1>19 DEF Scan
<1>20. ASSUME NEW r \in Request, Erase(r) PROVE (Staging /\ AbortIsFinal)'
  BY <1>20 DEF Erase
<1>21. ASSUME NEW r \in Request, Erased(r) PROVE (Staging /\ AbortIsFinal)'
  <2>1. manifest[Of(r)] = None
    <3>1. manifest[Of(r)] # None => <<"manifest">> \in Listing(Of(r))
      BY DEF Listing
    <3>2. QED
      BY <1>21, <3>1 DEF Erased
  <2>2. parts[Of(r)] = None
    <3>1. parts[Of(r)] # None => <<"parts">> \in Listing(Of(r))
      BY DEF Listing
    <3>2. QED
      BY <1>21, <3>1 DEF Erased
  <2>3. QED
    BY <1>21, <2>1, <2>2 DEF Erased
<1>22. ASSUME NEW r \in Request, EraseFails(r) PROVE (Staging /\ AbortIsFinal)'
  BY <1>22 DEF EraseFails
<1>23. ASSUME NEW r \in Request, Drop(r) PROVE (Staging /\ AbortIsFinal)'
  BY <1>23 DEF Drop, Live
<1>24. CASE Crash
  BY <1>24 DEF Crash, Live
<1>25. CASE UNCHANGED vars
  BY <1>25 DEF vars
<1>26. QED
  BY <1>1, <1>2, <1>3, <1>4, <1>5, <1>6, <1>7, <1>8, <1>9, <1>10, <1>11, <1>12, <1>13, <1>14, <1>15, <1>16, <1>17, <1>18, <1>19, <1>20, <1>21, <1>22, <1>23, <1>24, <1>25
     DEF Next, Client, TakeLock, Serve

\* An upload whose abort was acknowledged is gone for good, whatever other
\* requests of it were under way (abort_multipart, upload_part and
\* complete_multipart of src/storage.rs share no lock).
THEOREM AbortEndsUpload == Spec => []AbortIsFinal
<1>1. Init => TypeInv /\ Staging /\ AbortIsFinal
  BY NoneAssumption DEF Init, TypeInv, TypeOK, Control, Steps, FileOps, Entries, Past,
     Staging, AbortIsFinal
<1>2. TypeInv /\ Staging /\ AbortIsFinal /\ [Next]_vars
        => (TypeInv /\ Staging /\ AbortIsFinal)'
  BY TypeStep, StagingStep
<1>3. QED
  BY <1>1, <1>2, PTL DEF Spec

(***************************************************************************)
(* Parts are kept until an object is installed.                            *)
(***************************************************************************)
\* Somebody has sent the content v as part n of u.
Sent(u, n, v) == \E r \in Request : Sends(r, u, n) /\ req[r].body = v

\* Whatever is staged, listed, or was listed when a request looked, was sent.
Provenance ==
  /\ \A u \in Upload, n \in Part :
       /\ manifest[u] # None /\ manifest[u][n] # None => Sent(u, n, manifest[u][n])
       /\ parts[u] # None /\ parts[u][n] # None => Sent(u, n, parts[u][n])
  /\ \A r \in Request : seen[r] # None =>
       /\ pc[r] # "idle"
       /\ \A n \in Part : seen[r][n] # None => Sent(Of(r), n, seen[r][n])

\* An upload that nobody disturbs keeps its directory, and a file for every part that is
\* listed or about to be.
Kept(u) ==
  /\ manifest[u] # None /\ parts[u] # None
  /\ \A n \in Part : manifest[u][n] # None => parts[u][n] # None
  /\ \A r \in Request : Of(r) = u =>
       /\ pc[r] \in {"reload", "save"} => parts[u][req[r].number] # None
       /\ pc[r] = "save" => \A n \in Part : seen[r][n] # None => parts[u][n] # None
KeptInv ==
  /\ \A u \in Upload : made[u] = "dir" => parts[u] # None
  /\ \A u \in Upload : Undisturbed(u) /\ made[u] = "yes" => Kept(u)
  /\ \A r \in Request : pc[r] \in {"collect", "scan", "erase"} /\ req[r].op = "complete" => meta # None

\* What was sent stays sent, and what is disturbed stays disturbed.
LEMMA CallsStay ==
  ASSUME TypeInv, [Next]_vars
  PROVE  /\ \A r \in Request : req[r] # None => req'[r] = req[r]
         /\ \A u, n, v : Sent(u, n, v) => Sent(u, n, v)'
         /\ \A u : Undisturbed(u)' => Undisturbed(u)
<1> USE DEF staging, object
<1>1. (\A r \in Request : req[r] # None => req'[r] = req[r]) /\ (meta # None => meta' # None)
  <2>1. ASSUME NEW r \in Request, Receive(r)
        PROVE  (\A s \in Request : req[s] # None => req'[s] = req[s]) /\ meta' = meta
    BY <2>1 DEF Receive, TypeInv, TypeOK, Control
  <2>2. ASSUME NEW r \in Request, Install(r) PROVE req' = req /\ meta' # None
    <3>1. req' = req /\ meta' = [file |-> r, etag |-> EtagOf(r)] /\ meta' \in {None} \cup Version
      BY <2>2, TypeStep DEF Install, TypeInv, TypeOK
    <3>2. [file |-> r, etag |-> EtagOf(r)] \in Version
      BY <2>2, ListTyped DEF Install, Version
    <3>3. QED
      BY <3>1, <3>2, NoneAssumption
  <2>3. CASE \/ \E u \in Upload : MakeDir(u) \/ MakeManifest(u)
             \/ Crash \/ UNCHANGED vars
    BY <2>3 DEF MakeDir, MakeManifest, Crash, vars
  <2>4. CASE \E r \in Request : \/ Client(r) \/ TakeLock(r) \/ Load(r) \/ Rename(r) \/ RenameFails(r)
                               \/ Reload(r) \/ Save(r) \/ SaveFails(r) \/ Assemble(r) \/ AssembleFails(r)
    BY <2>4 DEF Client, BodyEnds, BodyFails, TakeLock, Reject, Begin, Load, Rename, RenameFails, Reload,
       Save, SaveFails, Assemble, AssembleFails
  <2>5. CASE \E r \in Request : \/ Sync(r) \/ Collect(r) \/ Scan(r) \/ Erase(r) \/ Erased(r)
                               \/ EraseFails(r) \/ Drop(r)
    BY <2>5 DEF Sync, Collect, Scan, Erase, Erased, EraseFails, Drop
  <2>6. QED
    BY <2>1, <2>2, <2>3, <2>4, <2>5 DEF Next, Serve
<1>2. \A u, n, v : Sent(u, n, v) => Sent(u, n, v)'
  BY <1>1 DEF Sent, Sends, Of
<1>3. \A u : Undisturbed(u)' => Undisturbed(u)
  BY <1>1 DEF Undisturbed, Of
<1>4. QED
  BY <1>1, <1>2, <1>3

LEMMA ProvenanceStep ==
  ASSUME TypeInv, Provenance, [Next]_vars
  PROVE  Provenance'
<1>0. \A r \in Request : pc[r] # "idle" =>
        /\ req[r] # None /\ req[r] \in Call /\ Of(r) \in Upload
        /\ req[r].op = "part" => req[r].number \in Part /\ req[r].body \in Content
  BY CallTyped, NoneAssumption
<1>s. /\ \A r \in Request : req[r] # None => req'[r] = req[r]
      /\ \A u, n, v : Sent(u, n, v) => Sent(u, n, v)'
  BY CallsStay
<1>q. ASSUME UNCHANGED <<manifest, parts, seen>>,
             \A r \in Request : pc[r] # "idle" => pc'[r] # "idle"
      PROVE  Provenance'
  <2>1. \A r \in Request : seen[r] # None => Of(r)' = Of(r)
    BY <1>0, <1>s DEF Provenance, Of
  <2>2. QED
    BY <1>s, <1>q, <2>1 DEF Provenance
<1>o. \A r \in Request : pc[r] # "idle" => Of(r)' = Of(r)
  BY <1>0, <1>s DEF Of
<1>1. ASSUME NEW u \in Upload, MakeDir(u) PROVE Provenance'
  BY <1>1, <1>s, <1>o DEF MakeDir, Provenance, TypeInv, TypeOK
<1>2. ASSUME NEW u \in Upload, MakeManifest(u) PROVE Provenance'
  BY <1>2, <1>s, <1>o DEF MakeManifest, Provenance, TypeInv, TypeOK
<1>3. ASSUME NEW r \in Request, Load(r) \/ Reload(r) PROVE Provenance'
  <2>1. /\ pc[r] # "idle" /\ UNCHANGED <<manifest, parts>> /\ \A s \in Request : pc[s] # "idle" => pc'[s] # "idle"
        /\ \E m \in {None, manifest[Of(r)]} : seen' = [seen EXCEPT ![r] = m]
    BY <1>3 DEF Load, Reload, AfterLoad, Goto, staging, TypeInv, TypeOK
  <2>2. QED
    BY <1>0, <1>s, <1>o, <2>1 DEF Provenance, TypeInv, TypeOK
<1>4. ASSUME NEW r \in Request, Rename(r) \/ Save(r) PROVE Provenance'
  <2>1. /\ pc[r] \in {"rename", "save"} /\ UNCHANGED <<req, seen>> /\ \A s \in Request : pc[s] # "idle" => pc'[s] # "idle"
    BY <1>4 DEF Rename, Save, Saved, Goto, TypeInv, TypeOK
  <2>2. req[r].op = "part" /\ Sent(Of(r), req[r].number, req[r].body)
    BY <1>0, <2>1 DEF TypeInv, Control, Sent, Sends
  <2>3. CASE Rename(r)
    <3>1. manifest' = manifest /\ parts[Of(r)] \in Entries
          /\ parts' = [parts EXCEPT ![Of(r)] = [parts[Of(r)] EXCEPT ![req[r].number] = req[r].body]]
      BY <1>0, <2>1, <2>3 DEF Rename, TypeInv, TypeOK
    <3>2. \A u \in Upload, n \in Part :
            parts'[u] # None /\ parts'[u][n] # None /\ ~(u = Of(r) /\ n = req[r].number)
              => parts[u] # None /\ parts'[u][n] = parts[u][n]
      <4>1. ASSUME NEW u \in Upload, u # Of(r) PROVE parts'[u] = parts[u]
        BY <3>1, <4>1 DEF TypeInv, TypeOK
      <4>2. ASSUME NEW n \in Part, n # req[r].number PROVE parts'[Of(r)][n] = parts[Of(r)][n]
        BY <1>0, <2>1, <3>1, <4>2 DEF TypeInv, TypeOK, Entries
      <4>3. parts[Of(r)] # None
        BY <2>3 DEF Rename
      <4>4. QED
        BY <4>1, <4>2, <4>3
    <3>3. parts'[Of(r)][req[r].number] = req[r].body
      BY <1>0, <2>1, <2>2, <3>1 DEF TypeInv, TypeOK, Entries
    <3>4. QED
      BY <1>s, <1>o, <2>1, <2>2, <3>1, <3>2, <3>3 DEF Provenance
  <2>4. CASE Save(r)
    <3>1. parts' = parts /\ seen[r] \in Entries
          /\ manifest' = [manifest EXCEPT ![Of(r)] = [seen[r] EXCEPT ![req[r].number] = req[r].body]]
      BY <1>0, <2>1, <2>4 DEF Save, TypeInv, TypeOK, Control
    <3>2. \A u \in Upload, n \in Part :
            manifest'[u] # None /\ manifest'[u][n] # None /\ ~(u = Of(r) /\ n = req[r].number)
              => IF u = Of(r) THEN manifest'[u][n] = seen[r][n] ELSE manifest'[u] = manifest[u]
      BY <3>1 DEF TypeInv, TypeOK, Entries
    <3>3. manifest'[Of(r)][req[r].number] = req[r].body
      BY <1>0, <2>1, <2>2, <3>1 DEF TypeInv, TypeOK, Entries
    <3>4. seen[r] # None
      BY <2>4 DEF Save, TypeInv, Control
    <3>5. QED
      BY <1>s, <1>o, <2>1, <2>2, <3>1, <3>2, <3>3, <3>4 DEF Provenance
  <2>5. QED
    BY <1>4, <2>3, <2>4
<1>5. ASSUME NEW r \in Request, Erase(r) PROVE Provenance'
  <2>1. pc' = pc /\ req' = req /\ seen' = seen /\ Of(r) \in Upload
    BY <1>0, <1>5 DEF Erase
  <2>2. \A u \in Upload : manifest'[u] \in {None, manifest[u]}
    BY <1>5 DEF Erase, TypeInv, TypeOK
  <2>3. \A u \in Upload, n \in Part :
          parts'[u] # None => parts[u] # None /\ parts'[u][n] \in {None, parts[u][n]}
    <3>1. PICK e : parts' = CASE e = <<"manifest">> \/ parts[Of(r)] = None -> parts
                              [] e = <<"parts">> -> [parts EXCEPT ![Of(r)] = None]
                              [] OTHER -> [parts EXCEPT ![Of(r)][e[2]] = None]
      BY <1>5 DEF Erase
    <3>2. CASE e = <<"manifest">> \/ parts[Of(r)] = None
      <4>1. parts' \in {parts, [parts EXCEPT ![Of(r)] = None]}
        BY <3>1, <3>2
      <4>2. QED
        BY <4>1 DEF TypeInv, TypeOK
    <3>3. CASE e = <<"parts">> /\ parts[Of(r)] # None
      BY <3>1, <3>3 DEF TypeInv, TypeOK
    <3>4. CASE e # <<"manifest">> /\ e # <<"parts">> /\ parts[Of(r)] # None
      <4>1. parts' = [parts EXCEPT ![Of(r)] = [parts[Of(r)] EXCEPT ![e[2]] = None]] /\ parts[Of(r)] \in Entries
        BY <2>1, <3>1, <3>4 DEF TypeInv, TypeOK
      <4>2. QED
        BY <2>1, <3>4, <4>1 DEF TypeInv, TypeOK, Entries
    <3>5. QED
      BY <3>2, <3>3, <3>4
  <2>4. QED
    BY <1>s, <1>o, <2>1, <2>2, <2>3 DEF Provenance
<1>6. CASE UNCHANGED <<manifest, parts, seen>> /\ \A r \in Request : pc[r] # "idle" => pc'[r] # "idle"
  BY <1>6, <1>q
<1>7. CASE Crash \/ UNCHANGED vars
  BY <1>6, <1>7 DEF Crash, vars, staging
<1>8. ASSUME NEW r \in Request,
             \/ Receive(r) \/ Client(r) \/ TakeLock(r) \/ RenameFails(r) \/ SaveFails(r) \/ Assemble(r)
             \/ AssembleFails(r) \/ Sync(r) \/ Install(r) \/ Collect(r)
      PROVE  Provenance'
  BY <1>6, <1>8 DEF Receive, Client, BodyEnds, BodyFails, TakeLock, Reject, Begin, RenameFails, SaveFails,
     Assemble, AssembleFails, Sync, Install, Collect, Goto, staging, TypeInv, TypeOK
<1>9. ASSUME NEW r \in Request, Scan(r) \/ Erased(r) \/ EraseFails(r) \/ Drop(r) PROVE Provenance'
  BY <1>6, <1>9 DEF Scan, Erased, EraseFails, Drop, Goto, staging, TypeInv, TypeOK
<1>10. QED
  BY <1>1, <1>2, <1>3, <1>4, <1>5, <1>7, <1>8, <1>9 DEF Next, Serve

\* A step that leaves what is staged alone, and brings no request to its manifest.
LEMMA QuietlyKept ==
  ASSUME TypeInv, KeptInv, [Next]_vars, UNCHANGED <<made, staging, seen>>,
         \A r \in Request : pc'[r] \in {"reload", "save"} => pc'[r] = pc[r],
         \A r \in Request : pc'[r] \in {"collect", "scan", "erase"} /\ req'[r].op = "complete" => meta' # None
  PROVE  KeptInv'
<1>1. \A r \in Request : pc'[r] \in {"reload", "save"} => req'[r] = req[r]
  BY CallsStay DEF TypeInv, Control
<1>2. \A u \in Upload : Undisturbed(u)' => Undisturbed(u)
  BY CallsStay
<1>3. \A u \in Upload : Kept(u) => Kept(u)'
  <2>1. ASSUME NEW u \in Upload, Kept(u),
               NEW r \in Request, Of(r)' = u, pc'[r] \in {"reload", "save"}
        PROVE  /\ parts'[u][req'[r].number] # None
               /\ pc'[r] = "save" => \A n \in Part : seen'[r][n] # None => parts'[u][n] # None
    BY <1>1, <2>1 DEF Kept, Of, staging
  <2>2. QED
    BY <2>1 DEF Kept, staging
<1>4. QED
  BY <1>2, <1>3 DEF KeptInv, staging

LEMMA KeptStep ==
  ASSUME TypeInv, Staging, KeptInv, [Next]_vars
  PROVE  KeptInv'
<1>0. \A r \in Request : pc[r] # "idle" =>
        /\ req[r] # None /\ Of(r) \in Upload
        /\ req[r].op = "part" => req[r].number \in Part /\ req[r].body \in Content
  BY CallTyped, NoneAssumption
<1>u. \A u \in Upload : Undisturbed(u)' => Undisturbed(u)
  BY CallsStay
<1>r. \A r \in Request : req[r] # None => req'[r] = req[r]
  BY CallsStay
<1>n. None \notin Entries /\ None \notin Content
  BY NoneAssumption
<1>t. /\ pc \in [Request -> Steps] /\ manifest \in [Upload -> Entries \cup {None}]
      /\ parts \in [Upload -> Entries \cup {None}] /\ seen \in [Request -> Entries \cup {None}]
      /\ made \in [Upload -> {"no", "dir", "yes", "gone"}]
  BY DEF TypeInv, TypeOK
<1>1. ASSUME NEW u \in Upload, MakeDir(u) PROVE KeptInv'
  <2>1. /\ made[u] = "no" /\ made' = [made EXCEPT ![u] = "dir"] /\ UNCHANGED <<pc, req, seen, manifest, meta>>
        /\ parts' = [parts EXCEPT ![u] = [n \in Part |-> None]]
    BY <1>1 DEF MakeDir, object
  <2>2. [n \in Part |-> None] \in Entries
    BY DEF Entries
  <2>3. \A v \in Upload : made'[v] = "yes" => v # u /\ made[v] = "yes" /\ parts'[v] = parts[v]
    BY <1>t, <2>1
  <2>4. \A v \in Upload : made'[v] = "dir" => parts'[v] # None
    BY <1>n, <1>t, <2>1, <2>2 DEF KeptInv
  <2>5. \A v \in Upload : Undisturbed(v)' /\ made'[v] = "yes" => Kept(v)'
    BY <1>u, <2>1, <2>3 DEF KeptInv, Kept, Of
  <2>6. QED
    BY <2>1, <2>4, <2>5 DEF KeptInv
<1>2. ASSUME NEW u \in Upload, MakeManifest(u) PROVE KeptInv'
  <2>1. /\ made[u] = "dir" /\ made' = [made EXCEPT ![u] = "yes"] /\ UNCHANGED <<pc, req, seen, parts, meta>>
        /\ manifest' = [manifest EXCEPT ![u] = [n \in Part |-> None]]
    BY <1>2 DEF MakeManifest, object
  <2>2. [n \in Part |-> None] \in Entries
    BY DEF Entries
  <2>3. \A r \in Request : pc[r] \in {"reload", "save"} => Of(r) # u
    BY <2>1 DEF Staging, Past, Steps, FileOps
  <2>4. manifest'[u] # None /\ parts'[u] # None /\ \A n \in Part : manifest'[u][n] = None
    BY <1>n, <1>t, <2>1, <2>2 DEF KeptInv
  <2>5. Kept(u)'
    BY <2>1, <2>3, <2>4 DEF Kept, Of
  <2>6. ASSUME NEW v \in Upload, v # u, Undisturbed(v)', made'[v] = "yes" PROVE Kept(v)'
    <3>1. made[v] = "yes" /\ manifest'[v] = manifest[v]
      BY <1>t, <2>1, <2>6
    <3>2. QED
      BY <1>u, <2>1, <2>6, <3>1 DEF KeptInv, Kept, Of
  <2>7. \A v \in Upload : made'[v] = "dir" => parts'[v] # None
    BY <1>t, <2>1 DEF KeptInv
  <2>8. QED
    BY <2>1, <2>5, <2>6, <2>7 DEF KeptInv
<1>3. ASSUME NEW r \in Request, Rename(r) PROVE KeptInv'
  <2>1. /\ pc[r] = "rename" /\ UNCHANGED <<made, req, seen, manifest, meta>>
        /\ parts[Of(r)] # None /\ Of(r) \in Upload /\ req[r].op = "part"
        /\ req[r].number \in Part /\ req[r].body \in Content
    BY <1>0, <1>3 DEF Rename, object, TypeInv, Control
  <2>2. /\ \A u \in Upload : u # Of(r) => parts'[u] = parts[u]
        /\ \A n \in Part : n # req[r].number => parts'[Of(r)][n] = parts[Of(r)][n]
        /\ parts'[Of(r)][req[r].number] = req[r].body /\ parts'[Of(r)] # None
    <3>1. parts' = [parts EXCEPT ![Of(r)] = [parts[Of(r)] EXCEPT ![req[r].number] = req[r].body]]
          /\ parts[Of(r)] \in Entries
      BY <1>3, <1>t, <2>1 DEF Rename
    <3>2. [parts[Of(r)] EXCEPT ![req[r].number] = req[r].body] \in Entries
      BY <2>1, <3>1 DEF Entries
    <3>3. \A u \in Upload : parts'[u] = IF u = Of(r) THEN [parts[Of(r)] EXCEPT ![req[r].number] = req[r].body]
                                        ELSE parts[u]
      BY <1>t, <2>1, <3>1
    <3>4. QED
      BY <1>n, <2>1, <3>1, <3>2, <3>3 DEF Entries
  <2>3. /\ \A s \in Request : s # r => pc'[s] = pc[s]
        /\ pc'[r] \in {"reload", "gone"}
    BY <1>3, <1>t, <2>1 DEF Rename, Goto
  <2>4. \A u \in Upload, n \in Part : parts[u] # None /\ parts[u][n] # None => parts'[u][n] # None
    BY <1>n, <2>1, <2>2
  <2>5. ASSUME NEW u \in Upload, Undisturbed(u)', made'[u] = "yes" PROVE Kept(u)'
    <3>1. Kept(u)
      BY <1>u, <2>1, <2>5 DEF KeptInv
    <3>2. manifest'[u] # None /\ parts'[u] # None
      BY <2>1, <2>2, <3>1 DEF Kept
    <3>3. \A n \in Part : manifest'[u][n] # None => parts'[u][n] # None
      BY <2>1, <2>4, <3>1 DEF Kept
    <3>4. ASSUME NEW s \in Request, Of(s)' = u, pc'[s] \in {"reload", "save"}
          PROVE  /\ parts'[u][req'[s].number] # None
                 /\ pc'[s] = "save" => \A n \in Part : seen'[s][n] # None => parts'[u][n] # None
      <4>1. CASE s = r
        BY <1>n, <2>1, <2>2, <2>3, <3>4, <4>1 DEF Of
      <4>2. CASE s # r
        <5>1. pc[s] = pc'[s] /\ Of(s) = u /\ req'[s] = req[s] /\ seen'[s] = seen[s]
          BY <2>1, <2>3, <3>4, <4>2 DEF Of
        <5>2. req[s].number \in Part
          BY <1>0, <3>4, <5>1 DEF TypeInv, Control
        <5>3. QED
          BY <2>4, <3>1, <3>4, <5>1, <5>2 DEF Kept
      <4>3. QED
        BY <4>1, <4>2
    <3>5. QED
      BY <3>2, <3>3, <3>4 DEF Kept
  <2>6. \A u \in Upload : made'[u] = "dir" => parts'[u] # None
    BY <2>1, <2>2 DEF KeptInv
  <2>7. \A s \in Request : pc'[s] \in {"collect", "scan", "erase"} /\ req'[s].op = "complete" => meta' # None
    BY <2>1, <2>3 DEF KeptInv
  <2>8. QED
    BY <2>5, <2>6, <2>7 DEF KeptInv
<1>4. ASSUME NEW r \in Request, Reload(r) PROVE KeptInv'
  <2>1. /\ pc[r] = "reload" /\ UNCHANGED <<made, req, manifest, parts, meta>> /\ seen' = [seen EXCEPT ![r] = manifest[Of(r)]]
        /\ pc'[r] \in {"noupload", "save", "gone"} /\ \A s \in Request : s # r => pc'[s] = pc[s]
    BY <1>4, <1>t DEF Reload, Goto, object, staging
  <2>2. seen'[r] = manifest[Of(r)] /\ \A s \in Request : s # r => seen'[s] = seen[s]
    BY <1>t, <2>1
  <2>3. ASSUME NEW u \in Upload, Undisturbed(u)', made'[u] = "yes" PROVE Kept(u)'
    <3>1. Kept(u)
      BY <1>u, <2>1, <2>3 DEF KeptInv
    <3>2. ASSUME NEW s \in Request, Of(s)' = u, pc'[s] \in {"reload", "save"}
          PROVE  /\ parts'[u][req'[s].number] # None
                 /\ pc'[s] = "save" => \A n \in Part : seen'[s][n] # None => parts'[u][n] # None
      <4>1. CASE s = r
        BY <2>1, <2>2, <3>1, <3>2, <4>1 DEF Kept, Of
      <4>2. CASE s # r
        BY <2>1, <2>2, <3>1, <3>2, <4>2 DEF Kept, Of
      <4>3. QED
        BY <4>1, <4>2
    <3>3. QED
      BY <2>1, <3>1, <3>2 DEF Kept
  <2>4. QED
    BY <2>1, <2>3 DEF KeptInv
<1>5. ASSUME NEW r \in Request, Save(r) PROVE KeptInv'
  <2>1. /\ pc[r] = "save" /\ UNCHANGED <<made, req, seen, parts, meta>> /\ Of(r) \in Upload
        /\ pc'[r] \in {"failed", "ok", "gone"} /\ \A s \in Request : s # r => pc'[s] = pc[s]
    BY <1>0, <1>5, <1>t DEF Save, Saved, Goto, object
  <2>2. req[r].number \in Part /\ req[r].body \in Content /\ seen[r] \in Entries
    BY <1>0, <1>t, <2>1 DEF TypeInv, Control
  <2>3. /\ \A u \in Upload : u # Of(r) => manifest'[u] = manifest[u]
        /\ manifest'[Of(r)] # None
        /\ \A n \in Part : n # req[r].number => manifest'[Of(r)][n] = seen[r][n]
    <3>1. manifest' = [manifest EXCEPT ![Of(r)] = [seen[r] EXCEPT ![req[r].number] = req[r].body]]
      BY <1>5 DEF Save
    <3>2. [seen[r] EXCEPT ![req[r].number] = req[r].body] \in Entries
      BY <2>2 DEF Entries
    <3>3. \A u \in Upload : manifest'[u] = IF u = Of(r) THEN [seen[r] EXCEPT ![req[r].number] = req[r].body]
                                           ELSE manifest[u]
      BY <1>t, <2>1, <3>1
    <3>4. QED
      BY <1>n, <2>1, <2>2, <3>2, <3>3 DEF Entries
  <2>4. ASSUME NEW u \in Upload, Undisturbed(u)', made'[u] = "yes" PROVE Kept(u)'
    <3>1. Kept(u)
      BY <1>u, <2>1, <2>4 DEF KeptInv
    <3>2. \A n \in Part : manifest'[u][n] # None => parts'[u][n] # None
      <4>1. CASE u = Of(r)
        BY <2>1, <2>3, <3>1, <4>1 DEF Kept
      <4>2. CASE u # Of(r)
        BY <2>1, <2>3, <3>1, <4>2 DEF Kept
      <4>3. QED
        BY <4>1, <4>2
    <3>3. QED
      BY <2>1, <2>3, <3>1, <3>2 DEF Kept, Of
  <2>5. QED
    BY <2>1, <2>4 DEF KeptInv
<1>6. ASSUME NEW r \in Request, Erase(r) PROVE KeptInv'
  <2>1. pc[r] = "erase" /\ UNCHANGED <<made, pc, req, seen, meta>>
    BY <1>6 DEF Erase, object
  <2>2. \A u \in Upload : u # Of(r) => manifest'[u] = manifest[u] /\ parts'[u] = parts[u]
    <3>1. ASSUME NEW u \in Upload, u # Of(r) PROVE manifest'[u] = manifest[u]
      BY <1>6, <1>t, <3>1 DEF Erase
    <3>2. ASSUME NEW u \in Upload, u # Of(r) PROVE parts'[u] = parts[u]
      <4>1. PICK e : parts' = CASE e = <<"manifest">> \/ parts[Of(r)] = None -> parts
                                [] e = <<"parts">> -> [parts EXCEPT ![Of(r)] = None]
                                [] OTHER -> [parts EXCEPT ![Of(r)][e[2]] = None]
        BY <1>6 DEF Erase
      <4>2. CASE e = <<"manifest">> \/ parts[Of(r)] = None
        <5>1. parts' \in {parts, [parts EXCEPT ![Of(r)] = None]}
          BY <4>1, <4>2
        <5>2. QED
          BY <1>t, <3>2, <5>1
      <4>3. CASE e = <<"parts">> /\ parts[Of(r)] # None
        BY <1>t, <3>2, <4>1, <4>3
      <4>4. CASE e # <<"manifest">> /\ e # <<"parts">> /\ parts[Of(r)] # None
        BY <1>t, <3>2, <4>1, <4>4
      <4>5. QED
        BY <4>2, <4>3, <4>4
    <3>3. QED
      BY <3>1, <3>2
  <2>3. ~Undisturbed(Of(r))
    <3>1. req[r] # None /\ req[r].op \in {"complete", "abort"}
      BY <1>0, <2>1 DEF TypeInv, Control
    <3>2. req[r].op = "complete" => meta # None
      BY <2>1 DEF KeptInv
    <3>3. QED
      BY <3>1, <3>2 DEF Undisturbed
  <2>4. made[Of(r)] = "yes"
    BY <2>1 DEF Staging, Past, Steps, FileOps
  <2>5. \A u \in Upload : Undisturbed(u)' /\ made'[u] = "yes" => Kept(u)'
    BY <1>u, <2>1, <2>2, <2>3 DEF KeptInv, Kept, Of
  <2>6. QED
    BY <2>1, <2>2, <2>4, <2>5 DEF KeptInv
<1>7. ASSUME NEW r \in Request, Load(r) PROVE KeptInv'
  <2>1. /\ pc[r] = "load" /\ UNCHANGED <<made, req, manifest, parts, meta>>
        /\ pc'[r] \in {"noupload", "gone", "wait", "scan", "stream"}
        /\ pc'[r] = "scan" => req[r].op = "abort"
        /\ \A s \in Request : s # r => pc'[s] = pc[s] /\ seen'[s] = seen[s]
    BY <1>7, <1>t DEF Load, AfterLoad, Goto, object, staging
  <2>2. \A u \in Upload : Kept(u) => Kept(u)'
    <3>1. \A s \in Request : pc'[s] \in {"reload", "save"} => s # r
      BY <2>1
    <3>2. QED
      BY <2>1, <3>1 DEF Kept, Of
  <2>3. QED
    BY <1>u, <2>1, <2>2 DEF KeptInv
<1>8. ASSUME NEW r \in Request, Install(r) PROVE KeptInv'
  <2>1. meta' # None
    <3>1. [file |-> r, etag |-> EtagOf(r)] \in Version
      BY <1>8, ListTyped DEF Install, Version
    <3>2. QED
      BY <1>8, <3>1, NoneAssumption DEF Install
  <2>2. \A u \in Upload : ~Undisturbed(u)'
    BY <2>1 DEF Undisturbed
  <2>3. UNCHANGED <<made, staging>>
    BY <1>8 DEF Install
  <2>4. QED
    BY <2>1, <2>2, <2>3 DEF KeptInv, staging
<1>9. CASE Crash
  <2>1. /\ UNCHANGED <<req, seen, manifest, parts, meta>>
        /\ \A u \in Upload : made'[u] = IF made[u] = "dir" THEN "gone" ELSE made[u]
        /\ \A r \in Request : pc'[r] = IF Live(r) THEN "gone" ELSE pc[r]
    BY <1>9 DEF Crash, object, staging
  <2>2. \A r \in Request : pc'[r] \notin {"reload", "save", "collect", "scan", "erase"}
    BY <2>1 DEF Live, Ended
  <2>3. \A u \in Upload : made'[u] \in {"dir", "yes"} => made'[u] = "yes" /\ made[u] = "yes"
    BY <2>1
  <2>4. \A u \in Upload : Kept(u) => Kept(u)'
    BY <2>1, <2>2 DEF Kept
  <2>5. QED
    BY <1>u, <2>2, <2>3, <2>4 DEF KeptInv
<1>10. ASSUME NEW r \in Request,
              \/ Client(r) \/ TakeLock(r) \/ RenameFails(r) \/ SaveFails(r) \/ Receive(r)
              \/ Assemble(r) \/ AssembleFails(r) \/ Sync(r)
       PROVE  KeptInv'
  <2>1. /\ UNCHANGED <<made, staging, seen, meta>>
        /\ \A s \in Request : pc'[s] = pc[s] \/ pc'[s] \notin {"reload", "save", "collect", "scan", "erase"}
    BY <1>10, <1>t DEF Client, BodyEnds, BodyFails, TakeLock, Reject, Begin, RenameFails, SaveFails, Receive,
       Assemble, AssembleFails, Sync, Goto, object
  <2>2. \A s \in Request : pc'[s] \in {"collect", "scan", "erase"} => req'[s] = req[s]
    BY <1>0, <1>r, <2>1
  <2>3. QED
    BY <2>1, <2>2, QuietlyKept DEF KeptInv
<1>11. ASSUME NEW r \in Request, Collect(r) \/ Scan(r) \/ EraseFails(r) \/ Drop(r) PROVE KeptInv'
  <2>1. /\ UNCHANGED <<made, staging, seen, meta, req>>
        /\ \A s \in Request : \/ pc'[s] = pc[s] \/ pc'[s] \notin {"reload", "save", "collect", "scan", "erase"}
                              \/ pc[s] \in {"collect", "scan"} /\ pc'[s] \in {"scan", "erase"}
    BY <1>11, <1>t DEF Collect, Scan, EraseFails, Drop, Goto, object
  <2>2. QED
    BY <2>1, QuietlyKept DEF KeptInv
<1>12. ASSUME NEW r \in Request, Erased(r) PROVE KeptInv'
  <2>1. /\ UNCHANGED <<made, manifest, parts, seen, meta, req>>
        /\ \A s \in Request : pc'[s] = pc[s] \/ pc'[s] \notin {"reload", "save", "collect", "scan", "erase"}
    BY <1>12, <1>t DEF Erased, Goto, object
  <2>2. \A u \in Upload : Kept(u) => Kept(u)'
    BY <2>1 DEF Kept, Of
  <2>3. QED
    BY <1>u, <2>1, <2>2 DEF KeptInv
<1>13. CASE UNCHANGED vars
  BY <1>13, QuietlyKept DEF vars, staging, KeptInv
<1>14. QED
  BY <1>1, <1>2, <1>3, <1>4, <1>5, <1>6, <1>7, <1>8, <1>9, <1>10, <1>11, <1>12, <1>13
     DEF Next, Serve

LEMMA KeptAlways == Spec => [](TypeInv /\ Staging /\ Provenance /\ KeptInv)
<1>1. Init => TypeInv /\ Staging /\ AbortIsFinal /\ Provenance /\ KeptInv
  BY NoneAssumption DEF Init, TypeInv, TypeOK, Control, Steps, FileOps, Entries, Past,
     Staging, AbortIsFinal, Provenance, KeptInv
<1>2. TypeInv /\ Staging /\ AbortIsFinal /\ Provenance /\ KeptInv /\ [Next]_vars
        => (TypeInv /\ Staging /\ AbortIsFinal /\ Provenance /\ KeptInv)'
  BY TypeStep, StagingStep, ProvenanceStep, KeptStep
<1>3. QED
  BY <1>1, <1>2, PTL DEF Spec

\* An upload that is not aborted outlives failed and interrupted completes until an
\* object has been installed.
THEOREM UploadOutlives == Spec => []StagedUntilInstalled
<1>1. KeptInv => StagedUntilInstalled
  BY DEF KeptInv, Kept, StagedUntilInstalled
<1>2. QED
  BY <1>1, KeptAlways, PTL

\* Whatever the manifest of such an upload lists is staged, with the content it is listed
\* with if it was sent once.
THEOREM ListedAreStaged == Spec => []ListedPartsAreStaged
<1>1. TypeInv /\ Staging /\ Provenance /\ KeptInv => ListedPartsAreStaged
  <2>1. SUFFICES ASSUME TypeInv, Staging, Provenance, KeptInv,
                        NEW u \in Upload, Undisturbed(u), manifest[u] # None,
                        NEW n \in Part, manifest[u][n] # None
                 PROVE  /\ parts[u][n] # None
                        /\ SentOnce(u, n) => parts[u][n] = manifest[u][n]
    BY DEF ListedPartsAreStaged
  <2>2. parts[u] # None /\ parts[u][n] # None
    BY <2>1 DEF Staging, KeptInv, Kept
  <2>3. Sent(u, n, manifest[u][n]) /\ Sent(u, n, parts[u][n])
    BY <2>1, <2>2 DEF Provenance
  <2>4. QED
    BY <2>2, <2>3 DEF Sent, SentOnce
<1>2. QED
  BY <1>1, KeptAlways, PTL

(***************************************************************************)
(* One complete at a time.                                                 *)
(***************************************************************************)
\* The steps of a complete that are under the object key's lock.
Guarded(r) == \/ pc[r] \in {"assemble", "install", "collect"}
              \/ pc[r] \in {"scan", "erase"} /\ req[r].op = "complete"

\* While nobody was dropped in the middle of a file operation, who is there holds the
\* lock, and its data file has not been collected.
Sole ==
  detached = {} =>
    /\ \A r \in Request : Guarded(r) => lock = r
    /\ \A r \in Request : pc[r] \in {"assemble", "install"} => r \in linked
    /\ \A r \in Request : pc[r] = "collect" => meta # None /\ meta.file = r
    /\ meta # None => meta.file \in linked

LEMMA SoleStep ==
  ASSUME TypeInv, Sole, [Next]_vars
  PROVE  Sole'
<1>0. detached \subseteq detached'
  BY DEF Next, MakeDir, MakeManifest, Receive, Client, BodyEnds, BodyFails, TakeLock, Reject, Begin, Serve,
     Load, Rename, RenameFails, Reload, Save, SaveFails, Assemble, AssembleFails, Sync, Install, Collect,
     Scan, Erase, Erased, EraseFails, Drop, Crash, vars
<1>1. SUFFICES ASSUME detached = {}, detached' = {} PROVE Sole'
  BY <1>0 DEF Sole
<1>2. /\ \A r \in Request : Guarded(r) => lock = r
      /\ \A r \in Request : pc[r] \in {"assemble", "install"} => r \in linked
      /\ \A r \in Request : pc[r] = "collect" => meta # None /\ meta.file = r
      /\ meta # None => meta.file \in linked
  BY <1>1 DEF Sole
<1>t. /\ pc \in [Request -> Steps] /\ req \in [Request -> {None} \cup Call] /\ None \notin Request
      /\ lock \in Request \cup {None}
  BY NoneAssumption DEF TypeInv, TypeOK
<1>c. \A r \in Request : req[r] # None => req'[r] = req[r]
  BY CallsStay
<1>3. ASSUME NEW r \in Request, pc'[r] = "gone" \/ pc'[r] = pc[r] \/ pc'[r] \notin {"assemble", "install", "collect", "scan", "erase"},
             UNCHANGED <<linked, meta>>, lock' = lock,
             \A s \in Request : s # r => pc'[s] = pc[s]
      PROVE  Sole'
  <2>1. \A s \in Request : Guarded(s)' => Guarded(s)
    BY <1>3, <1>c DEF Guarded, TypeInv, Control
  <2>2. QED
    BY <1>2, <1>3, <2>1 DEF Sole
<1>4. ASSUME NEW r \in Request, pc'[r] \notin {"assemble", "install", "collect", "scan", "erase"},
             UNCHANGED <<linked, meta>>, Release(r),
             \A s \in Request : s # r => pc'[s] = pc[s]
      PROVE  Sole'
  <2>1. \A s \in Request : Guarded(s)' => Guarded(s) /\ s # r
    BY <1>4, <1>c DEF Guarded, TypeInv, Control
  <2>2. \A s \in Request : s # r /\ lock = s => lock' = s
    BY <1>4 DEF Release
  <2>3. QED
    BY <1>2, <1>4, <2>1, <2>2 DEF Sole
<1>5. ASSUME NEW r \in Request, Begin(r) PROVE Sole'
  <2>1. /\ lock = None /\ lock' = r /\ linked' = linked \cup {r} /\ meta' = meta /\ req' = req
        /\ pc' = [pc EXCEPT ![r] = "assemble"]
    BY <1>1, <1>5 DEF Begin, Goto
  <2>2. \A s \in Request : ~Guarded(s)
    BY <1>2, <1>t, <2>1
  <2>3. \A s \in Request : Guarded(s)' => s = r
    BY <1>t, <2>1, <2>2 DEF Guarded
  <2>4. QED
    BY <1>2, <1>t, <2>1, <2>3 DEF Sole, Guarded
<1>6. ASSUME NEW r \in Request, Sync(r) PROVE Sole'
  <2>1. /\ pc[r] = "assemble" /\ pc' = [pc EXCEPT ![r] = "install"] /\ UNCHANGED <<lock, linked, meta, req>>
    BY <1>1, <1>6 DEF Sync, Goto, object
  <2>2. \A s \in Request : Guarded(s)' => Guarded(s)
    BY <1>t, <2>1 DEF Guarded
  <2>3. QED
    BY <1>2, <1>t, <2>1, <2>2 DEF Sole
<1>7. ASSUME NEW r \in Request, Install(r) PROVE Sole'
  <2>1. /\ pc[r] = "install" /\ pc' = [pc EXCEPT ![r] = "collect"] /\ UNCHANGED <<lock, linked, req>>
        /\ meta' = [file |-> r, etag |-> EtagOf(r)]
    BY <1>1, <1>7 DEF Install, Goto
  <2>2. meta'.file = r /\ meta' # None
    <3>1. [file |-> r, etag |-> EtagOf(r)] \in Version
      BY <2>1, ListTyped DEF Version
    <3>2. QED
      BY <2>1, <3>1, NoneAssumption
  <2>3. \A s \in Request : Guarded(s)' => Guarded(s)
    BY <1>t, <2>1 DEF Guarded
  <2>4. \A s \in Request : s # r => pc'[s] \notin {"collect"}
    BY <1>2, <1>t, <2>1 DEF Guarded
  <2>5. QED
    BY <1>2, <1>t, <2>1, <2>2, <2>3, <2>4 DEF Sole
<1>8. ASSUME NEW r \in Request, Collect(r) PROVE Sole'
  <2>1. /\ pc[r] = "collect" /\ pc' = [pc EXCEPT ![r] = "scan"] /\ UNCHANGED <<lock, meta, req>>
        /\ linked' = {r}
    BY <1>1, <1>8 DEF Collect, Goto
  <2>2. \A s \in Request : Guarded(s)' => Guarded(s)
    BY <1>t, <2>1 DEF Guarded, TypeInv, Control
  <2>3. \A s \in Request : s # r => pc'[s] \notin {"assemble", "install", "collect"}
    BY <1>2, <1>t, <2>1 DEF Guarded
  <2>4. QED
    BY <1>2, <1>t, <2>1, <2>2, <2>3 DEF Sole
<1>9. ASSUME NEW r \in Request, Scan(r) PROVE Sole'
  <2>1. /\ pc[r] = "scan" /\ pc' = [pc EXCEPT ![r] = "erase"] /\ UNCHANGED <<lock, linked, meta, req>>
    BY <1>9 DEF Scan, object
  <2>2. \A s \in Request : Guarded(s)' => Guarded(s)
    BY <1>t, <2>1 DEF Guarded
  <2>3. QED
    BY <1>2, <1>t, <2>1, <2>2 DEF Sole
<1>10. ASSUME NEW r \in Request, Load(r) PROVE Sole'
  <2>1. /\ pc[r] = "load" /\ UNCHANGED <<lock, linked, meta, req>>
        /\ \A s \in Request : s # r => pc'[s] = pc[s]
        /\ pc'[r] \in {"noupload", "wait", "scan", "stream"}
        /\ pc'[r] = "scan" => req[r].op = "abort"
    BY <1>1, <1>10, <1>t DEF Load, AfterLoad, Goto, object
  <2>2. \A s \in Request : Guarded(s)' => Guarded(s)
    BY <2>1 DEF Guarded
  <2>3. QED
    BY <1>2, <2>1, <2>2 DEF Sole
<1>11. ASSUME NEW r \in Request,
              \/ Receive(r) \/ BodyEnds(r) \/ BodyFails(r) \/ Rename(r) \/ RenameFails(r) \/ Reload(r) \/ Save(r)
              \/ SaveFails(r) \/ Reject(r) \/ Assemble(r) \/ Erase(r)
       PROVE  Sole'
  BY <1>3, <1>11, <1>t DEF Receive, BodyEnds, BodyFails, Rename, RenameFails, Reload, Save, Saved, SaveFails,
     Reject, Assemble, Erase, Goto, object
<1>12. ASSUME NEW r \in Request, AssembleFails(r) \/ Erased(r) \/ EraseFails(r) \/ Drop(r) PROVE Sole'
  <2>1. CASE AssembleFails(r) \/ Erased(r) \/ EraseFails(r)
    BY <1>4, <1>t, <2>1 DEF AssembleFails, Erased, EraseFails, Goto, object
  <2>2. CASE Drop(r)
    <3>1. pc' = [pc EXCEPT ![r] = "gone"] /\ Release(r) /\ UNCHANGED <<linked, meta>>
      BY <1>1, <2>2 DEF Drop, object
    <3>2. QED
      BY <1>4, <1>t, <3>1
  <2>3. QED
    BY <1>12, <2>1, <2>2
<1>13. ASSUME NEW u \in Upload, MakeDir(u) \/ MakeManifest(u) PROVE Sole'
  BY <1>2, <1>13 DEF MakeDir, MakeManifest, Sole, Guarded, object
<1>14. CASE Crash
  <2>1. \A r \in Request : pc'[r] \notin {"assemble", "install", "collect", "scan", "erase"}
    BY <1>14 DEF Crash, Live, Ended
  <2>2. QED
    BY <1>2, <1>14, <2>1 DEF Crash, Sole, Guarded, object
<1>15. CASE UNCHANGED vars
  BY <1>2, <1>15 DEF vars, Sole, Guarded
<1>16. QED
  BY <1>5, <1>6, <1>7, <1>8, <1>9, <1>10, <1>11, <1>12, <1>13, <1>14, <1>15 DEF Next, Client, TakeLock, Serve

\* As long as no request was dropped in the middle of a file operation, the data file that
\* the object's metadata names is in its directory: completes of one key collect nothing
\* of each other.
THEOREM ObjectStaysInPlace == Spec => []ObjectInPlace
<1>1. Init => TypeInv /\ Sole
  BY NoneAssumption DEF Init, TypeInv, TypeOK, Control, Steps, FileOps, Entries, Sole, Guarded
<1>2. TypeInv /\ Sole /\ [Next]_vars => (TypeInv /\ Sole)'
  BY TypeStep, SoleStep
<1>3. Sole => ObjectInPlace
  BY DEF Sole, ObjectInPlace
<1>4. QED
  BY <1>1, <1>2, <1>3, PTL DEF Spec

(***************************************************************************)
(* An object is what its client listed.                                    *)
(***************************************************************************)
\* What a complete has found listed, and has assembled so far of what was sent.
Assembled(r) ==
  /\ req[r] # None /\ req[r].op = "complete" /\ seen[r] # None /\ Valid(r)
  /\ data[r] # None /\ Len(data[r]) <= Len(req[r].list)
  /\ \A i \in 1 .. Len(data[r]) : Sent(Of(r), Number(r, i), data[r][i])
Installed(r) == meta # None /\ meta.file = r
Whole ==
  \A r \in Request :
    /\ pc[r] \in {"assemble", "install"} \/ Installed(r) => Assembled(r)
    /\ pc[r] = "install" \/ Installed(r) => Len(data[r]) = Len(req[r].list)
    /\ Installed(r) => pc[r] \in {"collect", "scan", "erase"} \cup Ended /\ meta.etag = EtagOf(r)

\* A request that is asked for and has its list keeps what it has assembled.
LEMMA AssembledStays ==
  ASSUME TypeInv, [Next]_vars, NEW r \in Request, Assembled(r), UNCHANGED <<seen[r], data[r]>>
  PROVE  Assembled(r)' /\ EtagOf(r)' = EtagOf(r) /\ req'[r] = req[r]
<1>1. req'[r] = req[r] /\ \A u, n, v : Sent(u, n, v) => Sent(u, n, v)'
  BY CallsStay DEF Assembled
<1>2. /\ Indices(r)' = Indices(r) /\ Of(r)' = Of(r)
      /\ \A i : Number(r, i)' = Number(r, i) /\ Etag(r, i)' = Etag(r, i)
  BY <1>1 DEF Indices, Of, Number, Etag
<1>3. Valid(r)' /\ EtagOf(r)' = EtagOf(r)
  BY <1>1, <1>2 DEF Assembled, Valid, EtagOf
<1>4. QED
  BY <1>1, <1>2, <1>3 DEF Assembled

\* A step that brings nobody to its assembly, nor to its end.
LEMMA QuietlyWhole ==
  ASSUME TypeInv, Whole, [Next]_vars, UNCHANGED <<data, meta>>,
         \A r \in Request : pc'[r] \in {"assemble", "install"} => pc'[r] = pc[r],
         \A r \in Request : pc[r] \in {"collect", "scan", "erase"} \cup Ended
                              => pc'[r] \in {"collect", "scan", "erase"} \cup Ended,
         \A r \in Request : pc[r] \in {"assemble", "install", "collect", "scan", "erase"} \cup Ended
                              => seen'[r] = seen[r]
  PROVE  Whole'
<1>1. SUFFICES ASSUME NEW r \in Request, pc'[r] \in {"assemble", "install"} \/ Installed(r)
      PROVE  /\ Assembled(r)'
             /\ pc'[r] = "install" \/ Installed(r) => Len(data'[r]) = Len(req'[r].list)
             /\ Installed(r) => pc'[r] \in {"collect", "scan", "erase"} \cup Ended /\ meta.etag = EtagOf(r)'
  BY DEF Whole, Installed
<1>2. Assembled(r) /\ seen'[r] = seen[r] /\ data'[r] = data[r]
  BY <1>1 DEF Whole
<1>3. Assembled(r)' /\ EtagOf(r)' = EtagOf(r) /\ req'[r] = req[r]
  BY <1>2, AssembledStays
<1>4. QED
  BY <1>1, <1>2, <1>3 DEF Whole

LEMMA WholeStep ==
  ASSUME TypeInv, Provenance, Whole, [Next]_vars
  PROVE  Whole'
<1>t. /\ pc \in [Request -> Steps] /\ seen \in [Request -> Entries \cup {None}]
      /\ data \in [Request -> {None} \cup Seq(Content)] /\ meta \in {None} \cup Version
  BY DEF TypeInv, TypeOK
<1>1. ASSUME NEW r \in Request, Begin(r) PROVE Whole'
  <2>1. /\ pc[r] = "wait" /\ Valid(r) /\ UNCHANGED <<req, seen, meta>>
        /\ data' = [data EXCEPT ![r] = <<>>]
        /\ pc' = [pc EXCEPT ![r] = "assemble"]
    BY <1>1 DEF Begin, Goto
  <2>2. ASSUME NEW s \in Request, s # r, pc'[s] \in {"assemble", "install"} \/ Installed(s)
        PROVE  /\ Assembled(s)'
               /\ pc'[s] = "install" \/ Installed(s) => Len(data'[s]) = Len(req'[s].list)
               /\ Installed(s) => pc'[s] \in {"collect", "scan", "erase"} \cup Ended /\ meta.etag = EtagOf(s)'
    <3>1. pc'[s] = pc[s] /\ data'[s] = data[s]
      BY <1>t, <2>1, <2>2
    <3>2. Assembled(s)
      BY <2>2, <3>1 DEF Whole
    <3>3. Assembled(s)' /\ EtagOf(s)' = EtagOf(s)
      BY <2>1, <3>1, <3>2, AssembledStays
    <3>4. QED
      BY <2>1, <2>2, <3>1, <3>3 DEF Whole
  <2>3. ~Installed(r)
    BY <2>1 DEF Whole, Ended
  <2>4. Assembled(r)'
    <3>1. req[r] # None /\ req[r].op = "complete" /\ seen[r] # None /\ req[r].list \in Seq(Part \X Content)
      BY <2>1, CallTyped, NoneAssumption DEF TypeInv, Control
    <3>2. data'[r] = <<>> /\ <<>> # None /\ Len(<<>>) = 0 /\ Len(req[r].list) \in Nat
      <4>1. <<>> \in Seq(Content) /\ Len(<<>>) = 0
        BY EmptySeq
      <4>2. data'[r] = <<>>
        BY <1>t, <2>1
      <4>3. Len(req[r].list) \in Nat
        BY <3>1, LenProperties
      <4>4. QED
        BY <4>1, <4>2, <4>3, NoneAssumption
    <3>3. Valid(r)'
      BY <2>1 DEF Valid, Indices, Number, Etag
    <3>4. QED
      BY <2>1, <3>1, <3>2, <3>3 DEF Assembled
  <2>5. pc'[r] = "assemble"
    BY <1>t, <2>1
  <2>6. QED
    BY <2>1, <2>2, <2>3, <2>4, <2>5 DEF Whole, Installed
<1>2. ASSUME NEW r \in Request, Assemble(r) PROVE Whole'
  <2>1. /\ pc[r] = "assemble" /\ NextIndex(r) \in Indices(r) /\ Staged(r) /\ UNCHANGED <<pc, req, seen, meta, parts>>
        /\ data' = [data EXCEPT ![r] = Append(@, parts[Of(r)][Number(r, NextIndex(r))])]
    BY <1>2 DEF Assemble, staging
  <2>2. ASSUME NEW s \in Request, s # r, pc'[s] \in {"assemble", "install"} \/ Installed(s)
        PROVE  /\ Assembled(s)'
               /\ pc'[s] = "install" \/ Installed(s) => Len(data'[s]) = Len(req'[s].list)
               /\ Installed(s) => pc'[s] \in {"collect", "scan", "erase"} \cup Ended /\ meta.etag = EtagOf(s)'
    <3>1. pc'[s] = pc[s] /\ data'[s] = data[s]
      BY <1>t, <2>1, <2>2
    <3>2. Assembled(s)
      BY <2>2, <3>1 DEF Whole
    <3>3. Assembled(s)' /\ EtagOf(s)' = EtagOf(s)
      BY <2>1, <3>1, <3>2, AssembledStays
    <3>4. QED
      BY <2>1, <2>2, <3>1, <3>3 DEF Whole
  <2>3. ~Installed(r)
    BY <2>1 DEF Whole, Ended
  <2>4. Assembled(r)'
    <3>1. Assembled(r) /\ Of(r) \in Upload /\ NextIndex(r) = Len(data[r]) + 1
      BY <2>1, CallTyped DEF Whole, NextIndex
    <3>2. Number(r, NextIndex(r)) \in Part /\ Len(req[r].list) \in Nat
      BY <2>1, ListTyped
    <3> DEFINE v == parts[Of(r)][Number(r, NextIndex(r))]
    <3>3. v # None /\ v \in Content /\ Sent(Of(r), Number(r, NextIndex(r)), v)
      <4>1. parts[Of(r)] # None /\ v # None
        BY <2>1 DEF Staged
      <4>2. v \in Content
        BY <3>1, <3>2, <4>1 DEF TypeInv, TypeOK, Entries
      <4>3. QED
        BY <3>1, <3>2, <4>1, <4>2 DEF Provenance
    <3>4. data[r] \in Seq(Content) /\ data'[r] = Append(data[r], v)
      BY <1>t, <2>1, <3>1 DEF Assembled
    <3> HIDE DEF v
    <3>5. /\ data'[r] \in Seq(Content) /\ Len(data[r]) \in Nat
          /\ Len(data'[r]) = Len(data[r]) + 1
          /\ \A i \in 1 .. Len(data[r]) : data'[r][i] = data[r][i]
          /\ data'[r][Len(data[r]) + 1] = v
      BY <3>3, <3>4, AppendProperties, LenProperties
    <3>6. Len(data'[r]) <= Len(req[r].list)
      BY <2>1, <3>1, <3>2, <3>5 DEF Indices
    <3>7. \A i \in 1 .. Len(data'[r]) : i \in 1 .. Len(data[r]) \/ i = Len(data[r]) + 1
      BY <3>5
    <3>8. ASSUME NEW i \in 1 .. Len(data'[r]) PROVE Sent(Of(r), Number(r, i), data'[r][i])
      <4>1. CASE i \in 1 .. Len(data[r])
        BY <3>1, <3>5, <4>1 DEF Assembled
      <4>2. CASE i = Len(data[r]) + 1
        BY <3>1, <3>3, <3>5, <4>2
      <4>3. QED
        BY <3>7, <4>1, <4>2
    <3>9. /\ \A u, n, w : Sent(u, n, w) => Sent(u, n, w)'
          /\ Of(r)' = Of(r) /\ \A i : Number(r, i)' = Number(r, i)
      BY <2>1, CallsStay DEF Of, Number
    <3>10. Valid(r)' /\ data'[r] # None
      BY <2>1, <3>1, <3>5, NoneAssumption DEF Assembled, Valid, Indices, Number, Etag
    <3>11. QED
      BY <2>1, <3>1, <3>6, <3>8, <3>9, <3>10 DEF Assembled
  <2>5. pc'[r] = "assemble"
    BY <2>1
  <2>6. QED
    BY <2>1, <2>2, <2>3, <2>4, <2>5 DEF Whole, Installed
<1>3. ASSUME NEW r \in Request, Sync(r) PROVE Whole'
  <2>1. /\ pc[r] = "assemble" /\ NextIndex(r) \notin Indices(r) /\ UNCHANGED <<req, seen, data, meta>>
        /\ pc'[r] \in {"install", "gone"} /\ \A s \in Request : s # r => pc'[s] = pc[s]
    BY <1>3, <1>t DEF Sync, Goto, object
  <2>2. \A s \in Request : Assembled(s) => Assembled(s)' /\ EtagOf(s)' = EtagOf(s)
    BY <2>1, AssembledStays
  <2>3. Len(data[r]) = Len(req[r].list)
    <3>1. Assembled(r)
      BY <2>1 DEF Whole
    <3>2. data[r] \in Seq(Content) /\ Len(data[r]) \in Nat
      BY <1>t, <3>1, LenProperties DEF Assembled
    <3>3. Len(req[r].list) \in Nat
      BY <2>1, ListTyped
    <3>4. QED
      BY <2>1, <3>1, <3>2, <3>3 DEF Assembled, NextIndex, Indices
  <2>4. ~Installed(r)
    BY <2>1 DEF Whole, Ended
  <2>5. ASSUME NEW s \in Request
        PROVE  /\ pc'[s] \in {"assemble", "install"} \/ Installed(s) => Assembled(s)'
               /\ pc'[s] = "install" \/ Installed(s) => Len(data[s]) = Len(req[s].list)
               /\ Installed(s) => pc'[s] \in {"collect", "scan", "erase"} \cup Ended /\ meta.etag = EtagOf(s)'
    <3>1. CASE s = r
      BY <2>1, <2>2, <2>3, <2>4, <3>1 DEF Whole
    <3>2. CASE s # r
      BY <2>1, <2>2, <3>2 DEF Whole
    <3>3. QED
      BY <3>1, <3>2
  <2>6. QED
    BY <2>1, <2>5 DEF Whole, Installed
<1>4. ASSUME NEW r \in Request, Install(r) PROVE Whole'
  <2>1. /\ pc[r] = "install" /\ UNCHANGED <<req, seen, data>>
        /\ meta' = [file |-> r, etag |-> EtagOf(r)]
        /\ pc'[r] \in {"collect", "gone"} /\ \A s \in Request : s # r => pc'[s] = pc[s]
    BY <1>4, <1>t DEF Install, Goto
  <2>2. \A s \in Request : Assembled(s) => Assembled(s)' /\ EtagOf(s)' = EtagOf(s)
    BY <2>1, AssembledStays
  <2>3. \A s \in Request : Installed(s)' => s = r
    BY <2>1 DEF Installed
  <2>4. Assembled(r)' /\ meta'.etag = EtagOf(r)' /\ Len(data'[r]) = Len(req'[r].list)
    BY <2>1, <2>2 DEF Whole
  <2>5. ASSUME NEW s \in Request, s # r, pc'[s] \in {"assemble", "install"}
        PROVE  Assembled(s)' /\ (pc'[s] = "install" => Len(data'[s]) = Len(req'[s].list))
    BY <2>1, <2>2, <2>5 DEF Whole
  <2>6. QED
    BY <2>1, <2>3, <2>4, <2>5 DEF Whole, Ended
<1>5. ASSUME NEW r \in Request, Load(r) \/ Reload(r) PROVE Whole'
  <2>1. /\ pc[r] \in {"load", "reload"} /\ UNCHANGED <<data, meta>>
        /\ pc'[r] \notin {"assemble", "install"}
        /\ \A s \in Request : s # r => pc'[s] = pc[s] /\ seen'[s] = seen[s]
    BY <1>5, <1>t DEF Load, Reload, AfterLoad, Goto, object
  <2>2. QED
    BY <2>1, QuietlyWhole DEF Ended
<1>6. ASSUME UNCHANGED <<data, meta, seen>>, NEW r \in Request, pc[r] # "idle" \/ pc'[r] = "load",
             pc'[r] \notin {"assemble", "install"},
             pc[r] \in {"collect", "scan", "erase"} \cup Ended
                              => pc'[r] \in {"collect", "scan", "erase"} \cup Ended,
             \A s \in Request : s # r => pc'[s] = pc[s]
      PROVE  Whole'
  BY <1>6, QuietlyWhole
<1>7. ASSUME NEW r \in Request,
             \/ Receive(r) \/ Client(r) \/ Reject(r) \/ Rename(r) \/ RenameFails(r)
             \/ Save(r) \/ SaveFails(r) \/ AssembleFails(r)
      PROVE  Whole'
  <2>1. /\ UNCHANGED <<data, meta, seen>> /\ pc'[r] \notin {"assemble", "install"}
        /\ \A s \in Request : s # r => pc'[s] = pc[s]
        /\ pc[r] # "idle" \/ pc'[r] = "load"
        /\ pc[r] \notin {"collect", "scan", "erase"} \cup Ended
    BY <1>7, <1>t DEF Receive, Client, BodyEnds, BodyFails, Reject, Rename, RenameFails, Save, Saved,
       SaveFails, AssembleFails, Goto, object, Ended, FileOps, TypeInv, Control
  <2>2. QED
    BY <1>6, <2>1
<1>8. ASSUME NEW r \in Request, Collect(r) \/ Scan(r) \/ Erased(r) \/ EraseFails(r)
      PROVE  Whole'
  <2>1. /\ UNCHANGED <<data, meta, seen>>
        /\ \A s \in Request : s # r => pc'[s] = pc[s]
        /\ pc[r] # "idle"
        /\ pc'[r] \in {"collect", "scan", "erase"} \cup Ended
    BY <1>8, <1>t DEF Collect, Scan, Erased, EraseFails, Goto, object, Ended
  <2>2. pc'[r] \notin {"assemble", "install"}
    BY <2>1 DEF Ended
  <2>3. QED
    BY <1>6, <2>1, <2>2
<1>9. CASE \/ \E r \in Request : Erase(r) \/ Drop(r)
           \/ \E u \in Upload : MakeDir(u) \/ MakeManifest(u)
           \/ Crash \/ UNCHANGED vars
  <2>1. /\ UNCHANGED <<data, meta, seen>>
        /\ \A s \in Request : pc'[s] = pc[s] \/ pc'[s] = "gone"
    BY <1>9, <1>t DEF Erase, Drop, MakeDir, MakeManifest, Crash, vars, object
  <2>2. QED
    BY <2>1, QuietlyWhole DEF Ended
<1>10. QED
  BY <1>1, <1>2, <1>3, <1>4, <1>5, <1>7, <1>8, <1>9 DEF Next, TakeLock, Serve

\* A completed object is the parts that its client listed, in that order, each with the
\* content of its etag, unless a listed part was sent twice.
THEOREM CompletesAreAsListed == Spec => []CompletedAsListed
<1>1. ASSUME TypeInv, Provenance, Whole PROVE CompletedAsListed
  <2>1. SUFFICES ASSUME NEW f, f = meta.file, meta # None,
                        \A i \in Indices(f) : SentOnce(Of(f), Number(f, i))
                 PROVE  data[f] = [i \in Indices(f) |-> Etag(f, i)] /\ meta.etag = data[f]
    BY DEF CompletedAsListed
  <2>2. f \in Request /\ Installed(f)
    BY <1>1, <2>1 DEF TypeInv, TypeOK, Version, Installed
  <2>3. Assembled(f) /\ Len(data[f]) = Len(req[f].list) /\ meta.etag = EtagOf(f)
    BY <1>1, <2>2 DEF Whole
  <2>4. data[f] \in Seq(Content) /\ req[f].list \in Seq(Part \X Content)
    BY <1>1, <2>2, <2>3, CallTyped DEF Assembled, TypeInv, TypeOK, Control
  <2>5. DOMAIN data[f] = Indices(f) /\ data[f] \in [Indices(f) -> Content] /\ Indices(f) = 1 .. Len(data[f])
    BY <2>3, <2>4, LenProperties DEF Indices
  <2>6. ASSUME NEW i \in Indices(f)
        PROVE  data[f][i] = Etag(f, i) /\ seen[f][Number(f, i)] = Etag(f, i)
    <3>1. seen[f][Number(f, i)] = Etag(f, i)
      BY <2>3, <2>6 DEF Assembled, Valid
    <3>2. req[f].list[i] \in Part \X Content
      BY <2>4, <2>6, ElementOfSeq DEF Indices
    <3>3. Number(f, i) \in Part /\ Etag(f, i) # None
      BY <3>2, NoneAssumption DEF Number, Etag
    <3>4. Sent(Of(f), Number(f, i), Etag(f, i))
      BY <1>1, <2>2, <2>3, <3>1, <3>3 DEF Provenance, Assembled
    <3>5. Sent(Of(f), Number(f, i), data[f][i])
      BY <2>3, <2>5, <2>6 DEF Assembled
    <3>6. QED
      BY <2>1, <2>6, <3>1, <3>4, <3>5 DEF Sent, SentOnce
  <2>7. data[f] = [i \in Indices(f) |-> Etag(f, i)]
    BY <2>5, <2>6
  <2>8. EtagOf(f) = [i \in Indices(f) |-> Etag(f, i)]
    BY <2>6 DEF EtagOf
  <2>9. QED
    BY <2>3, <2>7, <2>8
<1>2. Init => Whole
  BY DEF Init, Whole, Installed
<1>3. Init => TypeInv /\ Provenance
  BY NoneAssumption DEF Init, TypeInv, TypeOK, Control, Steps, FileOps, Entries, Provenance
<1>4. TypeInv /\ Provenance /\ Whole /\ [Next]_vars => (TypeInv /\ Provenance /\ Whole)'
  BY TypeStep, ProvenanceStep, WholeStep
<1>5. TypeInv /\ Provenance /\ Whole => CompletedAsListed
  BY <1>1
<1>6. QED
  BY <1>2, <1>3, <1>4, <1>5, PTL DEF Spec
====
