---- MODULE RefinementProofs ----
(***************************************************************************)
(* ObjectStore implements AtomicStore where requests are not dropped, file *)
(* operations do not fail and every body has the digest sent with it.  And *)
(* what AtomicStore, which knows no files, cannot say: what is kept on the *)
(* disk and what is left behind there.                                     *)
(***************************************************************************)
EXTENDS ObjectStoreProofs

Sound == Corrupt = {}

\* Without rollbacks only deletes go through the steps of a deletion.
NoRollback == \A r \in Request :
  pc[r] # "rollback" /\ (pc[r] \in {"unlink", "remove"} => req[r].op = "delete")

Good == TypeInv /\ Locked /\ Contents /\ Intact /\ NoRollback

\* What the keys hold, read off the metadata alone.
Values == [k \in Key |-> IF meta[k] = None THEN None ELSE meta[k].etag]

LEMMA StoreIsValues == Good => storeBar = Values
BY DEF Good, Contents, Faithful, Intact, Files, storeBar, Holds, Values

LEMMA StoreIsValuesNext == Good' => (storeBar = Values)'
BY StoreIsValues, PTL

\* A step of request r.
Only(r) == \A s \in Request \ {r} :
             pc'[s] = pc[s] /\ req'[s] = req[s] /\ snap'[s] = snap[s]

\* It moves the abstract stage of that request only.
LEMMA Frame ==
  ASSUME NEW r \in Request, Only(r)
  PROVE  /\ stageBar' = [stageBar EXCEPT ![r] = stageBar'[r]]
         /\ stageBar'[r] = stageBar[r] => stageBar' = stageBar
         /\ heldBar' = [heldBar EXCEPT ![r] = heldBar'[r]]
         /\ heldBar'[r] = heldBar[r] => heldBar' = heldBar
<1>1. \A s \in Request \ {r} : stageBar'[s] = stageBar[s]
  BY DEF Only, stageBar, AbstractStage, Reads
<1>2. \A s \in Request \ {r} : heldBar'[s] = heldBar[s]
  BY DEF Only, heldBar, Reads
<1>3. /\ stageBar = [s \in Request |-> stageBar[s]]
      /\ stageBar' = [s \in Request |-> stageBar'[s]]
  BY DEF stageBar
<1>4. /\ heldBar = [s \in Request |-> heldBar[s]]
      /\ heldBar' = [s \in Request |-> heldBar'[s]]
  BY DEF heldBar
<1>5. QED
  BY <1>1, <1>2, <1>3, <1>4

\* A step of the engine is a step of the atomic store or leaves it as it was.
LEMMA StepRefines ==
  ASSUME Reliable, Sound, Good, Good', [Next]_vars
  PROVE  [Abstract!Next]_(Abstract!vars)
<1>0. storeBar = Values /\ storeBar' = Values'
  BY StoreIsValues, StoreIsValuesNext
<1> USE <1>0, NoneAssumption DEF Good, TypeInv, TypeOK, Control, NoRollback, Reliable, Sound,
        Goto, Ended, disk
<1>1. ASSUME NEW r \in Request, Stage(r)
      PROVE  Abstract!Next \/ UNCHANGED Abstract!vars
  <2>1. Only(r) /\ Values' = Values /\ req' = req /\ got' = got
    BY <1>1 DEF Stage, Acquire, Only, Values
  <2>2. stageBar'[r] = stageBar[r] /\ heldBar'[r] = heldBar[r]
    BY <1>1 DEF Stage, Acquire, stageBar, AbstractStage, Reads, heldBar, Intact
  <2>3. QED
    BY <2>1, <2>2, Frame DEF Abstract!vars
<1>2. ASSUME NEW r \in Request, BodyEnds(r)
      PROVE  Abstract!Next \/ UNCHANGED Abstract!vars
  <2>1. Only(r) /\ Values' = Values /\ req' = req /\ got' = got
    BY <1>2 DEF BodyEnds, Only, Values
  <2>2. stageBar'[r] = stageBar[r] /\ heldBar'[r] = heldBar[r]
    BY <1>2 DEF BodyEnds, stageBar, AbstractStage, Reads, heldBar, Intact
  <2>3. QED
    BY <2>1, <2>2, Frame DEF Abstract!vars
<1>3. ASSUME NEW r \in Request, Rename(r)
      PROVE  Abstract!Next \/ UNCHANGED Abstract!vars
  <2>1. Only(r) /\ Values' = Values /\ req' = req /\ got' = got
    BY <1>3 DEF Rename, Only, Values
  <2>2. stageBar'[r] = stageBar[r] /\ heldBar'[r] = heldBar[r]
    BY <1>3 DEF Rename, stageBar, AbstractStage, Reads, heldBar, Intact
  <2>3. QED
    BY <2>1, <2>2, Frame DEF Abstract!vars
<1>4. ASSUME NEW r \in Request, List(r)
      PROVE  Abstract!Next \/ UNCHANGED Abstract!vars
  <2>1. Only(r) /\ Values' = Values /\ req' = req /\ got' = got
    BY <1>4 DEF List, Only, Values
  <2>2. stageBar'[r] = stageBar[r] /\ heldBar'[r] = heldBar[r]
    BY <1>4 DEF List, stageBar, AbstractStage, Reads, heldBar, Intact
  <2>3. QED
    BY <2>1, <2>2, Frame DEF Abstract!vars
<1>5. ASSUME NEW r \in Request, Collect(r)
      PROVE  Abstract!Next \/ UNCHANGED Abstract!vars
  <2>1. Only(r) /\ Values' = Values /\ req' = req /\ got' = got
    BY <1>5 DEF Collect, Only, Values
  <2>2. stageBar'[r] = stageBar[r] /\ heldBar'[r] = heldBar[r]
    BY <1>5 DEF Collect, stageBar, AbstractStage, Reads, heldBar, Intact
  <2>3. QED
    BY <2>1, <2>2, Frame DEF Abstract!vars
<1>6. ASSUME NEW r \in Request, LockTarget(r)
      PROVE  Abstract!Next \/ UNCHANGED Abstract!vars
  <2>1. Only(r) /\ Values' = Values /\ req' = req /\ got' = got
    BY <1>6 DEF LockTarget, Acquire, Only, Values
  <2>2. stageBar'[r] = stageBar[r] /\ heldBar'[r] = heldBar[r]
    BY <1>6 DEF LockTarget, Acquire, stageBar, AbstractStage, Reads, heldBar, Intact
  <2>3. QED
    BY <2>1, <2>2, Frame DEF Abstract!vars
<1>7. ASSUME NEW r \in Request, DeleteFound(r)
      PROVE  Abstract!Next \/ UNCHANGED Abstract!vars
  <2>1. Only(r) /\ Values' = Values /\ req' = req /\ got' = got
    BY <1>7 DEF DeleteFound, Acquire, Deleting, Only, Values
  <2>2. stageBar'[r] = stageBar[r] /\ heldBar'[r] = heldBar[r]
    BY <1>7 DEF DeleteFound, Acquire, Deleting, stageBar, AbstractStage, Reads, heldBar, Intact
  <2>3. QED
    BY <2>1, <2>2, Frame DEF Abstract!vars
<1>8. ASSUME NEW r \in Request, BodyFails(r)
      PROVE  Abstract!Next \/ UNCHANGED Abstract!vars
  <2>1. Only(r) /\ Values' = Values /\ req' = req /\ got' = got
    BY <1>8 DEF BodyFails, Only, Values
  <2>2. /\ stageBar[r] = "begun"
        /\ stageBar'[r] = "failed"
        /\ heldBar'[r] = heldBar[r]
    BY <1>8 DEF BodyFails, stageBar, AbstractStage, Reads, heldBar, Intact
  <2>3. Abstract!Fail(r)
    BY <2>1, <2>2, Frame DEF Abstract!Fail, Abstract!Move
  <2>4. QED
    BY <2>3 DEF Abstract!Next
<1>9. ASSUME NEW r \in Request, OpenFails(r)
      PROVE  Abstract!Next \/ UNCHANGED Abstract!vars
  <2>1. Only(r) /\ Values' = Values /\ req' = req /\ got' = got
    BY <1>9 DEF OpenFails, Opening, Only, Values
  <2>2. /\ stageBar[r] = "read"
        /\ stageBar'[r] = "failed"
        /\ heldBar'[r] = heldBar[r]
    BY <1>9 DEF OpenFails, Opening, stageBar, AbstractStage, Reads, heldBar, Intact
  <2>3. Abstract!Fail(r)
    BY <2>1, <2>2, Frame DEF Abstract!Fail, Abstract!Move
  <2>4. QED
    BY <2>3 DEF Abstract!Next
<1>10. ASSUME NEW r \in Request, LinkFails(r)
      PROVE  Abstract!Next \/ UNCHANGED Abstract!vars
  <2>1. Only(r) /\ Values' = Values /\ req' = req /\ got' = got
    BY <1>10 DEF LinkFails, Only, Values
  <2>2. /\ stageBar[r] = "read"
        /\ stageBar'[r] = "failed"
        /\ heldBar'[r] = heldBar[r]
    BY <1>10 DEF LinkFails, stageBar, AbstractStage, Reads, heldBar, Intact
  <2>3. Abstract!Fail(r)
    BY <2>1, <2>2, Frame DEF Abstract!Fail, Abstract!Move
  <2>4. QED
    BY <2>3 DEF Abstract!Next
<1>11. ASSUME NEW r \in Request, Finish(r)
      PROVE  Abstract!Next \/ UNCHANGED Abstract!vars
  <2>1. Only(r) /\ Values' = Values /\ req' = req /\ got' = got
    BY <1>11 DEF Finish, Only, Values
  <2>2. /\ stageBar[r] = "applied"
        /\ stageBar'[r] = "ok"
        /\ heldBar'[r] = heldBar[r]
    BY <1>11 DEF Finish, stageBar, AbstractStage, Reads, heldBar, Intact
  <2>3. Abstract!Succeed(r)
    BY <2>1, <2>2, Frame DEF Abstract!Succeed, Abstract!Move
  <2>4. QED
    BY <2>3 DEF Abstract!Next
<1>12. ASSUME NEW r \in Request, Remove(r)
      PROVE  Abstract!Next \/ UNCHANGED Abstract!vars
  <2>1. Only(r) /\ Values' = Values /\ req' = req /\ got' = got
    BY <1>12 DEF Remove, Deleted, Only, Values
  <2>2. /\ stageBar[r] = "applied"
        /\ stageBar'[r] = "ok"
        /\ heldBar'[r] = heldBar[r]
    BY <1>12 DEF Remove, Deleted, stageBar, AbstractStage, Reads, heldBar, Intact
  <2>3. Abstract!Succeed(r)
    BY <2>1, <2>2, Frame DEF Abstract!Succeed, Abstract!Move
  <2>4. QED
    BY <2>3 DEF Abstract!Next
<1>13. ASSUME NEW r \in Request, Receive(r)
      PROVE  Abstract!Next \/ UNCHANGED Abstract!vars
  <2>1. Only(r) /\ Values' = Values /\ got' = got
    BY <1>13 DEF Receive, Only, Values
  <2>2. stageBar[r] = "idle" /\ stageBar'[r] = "begun" /\ heldBar'[r] = heldBar[r]
    BY <1>13 DEF Receive, FirstStep, Call, stageBar, AbstractStage, Reads, heldBar, Intact
  <2>3. \E c \in Abstract!Calls : req' = [req EXCEPT ![r] = c]
    BY <1>13 DEF Receive, Call, Abstract!Calls
  <2>4. Abstract!Begin(r)
    BY <2>1, <2>2, <2>3, Frame, ZenonT(40) DEF Abstract!Begin, Abstract!Move
  <2>5. QED
    BY <2>4 DEF Abstract!Next
<1>14. ASSUME NEW r \in Request, Head(r)
      PROVE  Abstract!Next \/ UNCHANGED Abstract!vars
  <2>1. Only(r) /\ Values' = Values /\ req' = req /\ got' = got
    BY <1>14 DEF Head, Only, Values
  <2>2. /\ KeyOf(r) \in Key
        /\ req[r].op \in {"get", "copy"} /\ Abstract!ReadKey(req[r]) = KeyOf(r)
    BY <1>14, KeyTyped DEF Head, Opening, Call, KeyOf, Abstract!ReadKey
  <2>3. stageBar[r] = "begun" /\ heldBar[r] = None
    BY <1>14 DEF Head, Opening, stageBar, AbstractStage, Reads, heldBar, Intact
  <2>4. CASE meta[KeyOf(r)] = None
    <3>1. stageBar'[r] = "nokey" /\ heldBar'[r] = heldBar[r]
      BY <1>14, <2>3, <2>4 DEF Head, Opening, KeyOf, stageBar, AbstractStage, Reads, heldBar, Intact
    <3>2. Abstract!NoSuchKey(r)
      BY <2>1, <2>2, <2>3, <2>4, <3>1, Frame DEF Abstract!NoSuchKey, Abstract!Move, Values
    <3>3. QED
      BY <3>2 DEF Abstract!Next
  <2>5. CASE meta[KeyOf(r)] # None
    <3>1. stageBar'[r] = stageBar[r] /\ heldBar'[r] = heldBar[r]
      BY <1>14, <2>3, <2>5 DEF Head, Opening, KeyOf, stageBar, AbstractStage, Reads, heldBar, Intact
    <3>2. QED
      BY <2>1, <3>1, Frame DEF Abstract!vars
  <2>6. QED
    BY <2>4, <2>5
<1>15. ASSUME NEW r \in Request, Lookup(r)
      PROVE  Abstract!Next \/ UNCHANGED Abstract!vars
  <2>1. Only(r) /\ Values' = Values /\ req' = req /\ got' = got
    BY <1>15 DEF Lookup, Only, Values
  <2>2. /\ KeyOf(r) \in Key
        /\ req[r].op \in {"get", "copy"} /\ Abstract!ReadKey(req[r]) = KeyOf(r)
    BY <1>15, KeyTyped DEF Lookup, Opening, Call, KeyOf, Abstract!ReadKey
  <2>3. stageBar[r] = "begun" /\ heldBar[r] = None
    BY <1>15 DEF Lookup, Opening, stageBar, AbstractStage, Reads, heldBar, Intact
  <2>4. CASE meta[KeyOf(r)] = None
    <3>1. stageBar'[r] = "nokey" /\ heldBar'[r] = heldBar[r]
      BY <1>15, <2>3, <2>4 DEF Lookup, Opening, KeyOf, stageBar, AbstractStage, Reads, heldBar, Intact
    <3>2. Abstract!NoSuchKey(r)
      BY <2>1, <2>2, <2>3, <2>4, <3>1, Frame DEF Abstract!NoSuchKey, Abstract!Move, Values
    <3>3. QED
      BY <3>2 DEF Abstract!Next
  <2>5. CASE meta[KeyOf(r)] # None
    <3>1. stageBar'[r] = "read" /\ heldBar'[r] = meta[KeyOf(r)].etag
      BY <1>15, <2>2, <2>3, <2>5 DEF Lookup, Opening, KeyOf, stageBar, AbstractStage, Reads, heldBar, Intact
    <3>2. meta[KeyOf(r)].etag # None
      BY <2>2, <2>5 DEF TypeOK, Version
    <3>3. Abstract!Read(r)
      BY <2>1, <2>2, <2>3, <2>5, <3>1, <3>2, Frame DEF Abstract!Read, Abstract!Move, Values
    <3>4. QED
      BY <3>3 DEF Abstract!Next
  <2>6. QED
    BY <2>4, <2>5
<1>16. ASSUME NEW r \in Request, Source(r)
      PROVE  Abstract!Next \/ UNCHANGED Abstract!vars
  <2>1. Only(r) /\ Values' = Values /\ req' = req /\ got' = got
    BY <1>16 DEF Source, Only, Values
  <2>2. /\ req[r].src \in Key
        /\ req[r].op \in {"get", "copy"} /\ Abstract!ReadKey(req[r]) = req[r].src
    BY <1>16, KeyTyped DEF Source, Opening, Call, KeyOf, Abstract!ReadKey
  <2>3. stageBar[r] = "begun" /\ heldBar[r] = None
    BY <1>16 DEF Source, Opening, stageBar, AbstractStage, Reads, heldBar, Intact
  <2>4. CASE meta[req[r].src] = None
    <3>1. stageBar'[r] = "nokey" /\ heldBar'[r] = heldBar[r]
      BY <1>16, <2>3, <2>4 DEF Source, Opening, KeyOf, stageBar, AbstractStage, Reads, heldBar, Intact
    <3>2. Abstract!NoSuchKey(r)
      BY <2>1, <2>2, <2>3, <2>4, <3>1, Frame DEF Abstract!NoSuchKey, Abstract!Move, Values
    <3>3. QED
      BY <3>2 DEF Abstract!Next
  <2>5. CASE meta[req[r].src] # None
    <3>1. stageBar'[r] = "read" /\ heldBar'[r] = meta[req[r].src].etag
      BY <1>16, <2>2, <2>3, <2>5 DEF Source, KeyOf, stageBar, AbstractStage, Reads, heldBar, Intact
    <3>2. meta[req[r].src].etag # None
      BY <2>2, <2>5 DEF TypeOK, Version
    <3>3. Abstract!Read(r)
      BY <2>1, <2>2, <2>3, <2>5, <3>1, <3>2, Frame DEF Abstract!Read, Abstract!Move, Values
    <3>4. QED
      BY <3>3 DEF Abstract!Next
  <2>6. QED
    BY <2>4, <2>5
<1>17. ASSUME NEW r \in Request, Open(r)
      PROVE  Abstract!Next \/ UNCHANGED Abstract!vars
  <2>1. Only(r) /\ Values' = Values /\ req' = req
    BY <1>17 DEF Open, Only, Values
  <2>2. stageBar[r] = "read" /\ stageBar'[r] = "ok" /\ heldBar'[r] = heldBar[r]
    BY <1>17 DEF Open, Opening, stageBar, AbstractStage, Reads, heldBar, Intact
  <2>3. got' = [got EXCEPT ![r] = heldBar[r]] /\ req[r].op = "get"
    <3>1. data[snap[r].file].content = snap[r].etag
      BY <1>17 DEF Open, Contents, Faithful, Files
    <3>2. QED
      BY <1>17, <3>1 DEF Open, Opening, heldBar, Reads
  <2>4. Abstract!Answer(r)
    BY <2>1, <2>2, <2>3, Frame DEF Abstract!Answer, Abstract!Move
  <2>5. QED
    BY <2>4 DEF Abstract!Next
<1>18. ASSUME NEW r \in Request, Install(r)
      PROVE  Abstract!Next \/ UNCHANGED Abstract!vars
  <2>1. Only(r) /\ req' = req /\ got' = got
    BY <1>18 DEF Install, Only
  <2>2. Values' = [Values EXCEPT ![KeyOf(r)] = EtagOf(r)]
    <3>1. meta'[KeyOf(r)] \in Version
      BY <1>18, EtagTyped, KeyTyped DEF Install, Version, TypeOK
    <3>2. QED
      BY <1>18, <3>1 DEF Install, Values
  <2>3. stageBar'[r] = "applied" /\ heldBar'[r] = heldBar[r]
    BY <1>18 DEF Install, stageBar, AbstractStage, Reads, heldBar, Intact
  <2>4. CASE req[r].op = "put"
    <3>1. stageBar[r] = "begun" /\ EtagOf(r) = req[r].body
      BY <1>18, <2>4 DEF Install, EtagOf, stageBar, AbstractStage, Reads, heldBar, Intact
    <3>2. Abstract!ApplyPut(r)
      BY <2>1, <2>2, <2>3, <2>4, <3>1, Frame DEF Abstract!ApplyPut, Abstract!Write, Abstract!Move, KeyOf
    <3>3. QED
      BY <3>2 DEF Abstract!Next
  <2>5. CASE req[r].op = "copy"
    <3>1. stageBar[r] = "read" /\ EtagOf(r) = heldBar[r]
      BY <1>18, <2>5 DEF Install, EtagOf, stageBar, AbstractStage, Reads, heldBar, Intact
    <3>2. Abstract!ApplyCopy(r)
      BY <2>1, <2>2, <2>3, <2>5, <3>1, Frame DEF Abstract!ApplyCopy, Abstract!Write, Abstract!Move, KeyOf
    <3>3. QED
      BY <3>2 DEF Abstract!Next
  <2>6. QED
    BY <1>18, <2>4, <2>5 DEF Install
<1>19. ASSUME NEW r \in Request, Link(r)
      PROVE  Abstract!Next \/ UNCHANGED Abstract!vars
  <2>1. data[snap[r].file].content = snap[r].etag
    BY <1>19 DEF Link, Contents, Faithful, Files
  <2>2. snap[r] \in Version
    BY <1>19 DEF Link, Intact
  <2>3. PICK e \in {snap[r].etag, data[snap[r].file].content} :
          snap' = [snap EXCEPT ![r].etag = e]
    BY <1>19 DEF Link
  <2>4. e = snap[r].etag
    BY <2>1, <2>3
  <2>5. [snap[r] EXCEPT !.etag = e] = snap[r]
    BY <2>2, <2>4 DEF Version
  <2>6. snap' = snap
    BY <2>3, <2>5, <2>2
  <2>7. Only(r) /\ Values' = Values /\ req' = req /\ got' = got
    BY <1>19, <2>6 DEF Link, Only, Values
  <2>8. pc[r] = "link" /\ pc'[r] = "install"
    BY <1>19 DEF Link, Intact
  <2>9. stageBar'[r] = stageBar[r] /\ heldBar'[r] = heldBar[r]
    BY <2>6, <2>7, <2>8 DEF stageBar, AbstractStage, Reads, heldBar
  <2>10. QED
    BY <2>7, <2>9, Frame DEF Abstract!vars
<1>20. ASSUME NEW r \in Request, DeleteMissing(r)
      PROVE  Abstract!Next \/ UNCHANGED Abstract!vars
  <2>1. Only(r) /\ req' = req /\ got' = got
    BY <1>20 DEF DeleteMissing, Deleting, Deleted, Only
  <2>2. Values' = [Values EXCEPT ![KeyOf(r)] = None] /\ Values[KeyOf(r)] = None
    BY <1>20, KeyTyped DEF DeleteMissing, Deleting, Deleted, Values, KeyOf
  <2>3. /\ stageBar[r] = "begun" /\ stageBar'[r] = "ok"
        /\ heldBar'[r] = heldBar[r] /\ req[r].op = "delete"
    BY <1>20 DEF DeleteMissing, Deleting, Deleted, stageBar, AbstractStage, Reads, heldBar, Intact
  <2>4. Abstract!ApplyDelete(r)
    BY <2>1, <2>2, <2>3, Frame DEF Abstract!ApplyDelete, Abstract!Write, Abstract!Move, KeyOf
  <2>5. QED
    BY <2>4 DEF Abstract!Next
<1>21. ASSUME NEW r \in Request, Unlink(r)
      PROVE  Abstract!Next \/ UNCHANGED Abstract!vars
  <2>1. Only(r) /\ req' = req /\ got' = got
    BY <1>21 DEF Unlink, Only
  <2>2. Values' = [Values EXCEPT ![KeyOf(r)] = None]
    BY <1>21, KeyTyped DEF Unlink, Values, KeyOf
  <2>3. /\ stageBar[r] = "begun" /\ stageBar'[r] = "applied"
        /\ heldBar'[r] = heldBar[r] /\ req[r].op = "delete"
    BY <1>21 DEF Unlink, stageBar, AbstractStage, Reads, heldBar, Intact
  <2>4. Abstract!ApplyDelete(r)
    BY <2>1, <2>2, <2>3, Frame DEF Abstract!ApplyDelete, Abstract!Write, Abstract!Move, KeyOf
  <2>5. QED
    BY <2>4 DEF Abstract!Next
<1>22. ASSUME NEW r \in Request, FileFault(r) \/ Drop(r)
      PROVE  FALSE
  BY <1>22 DEF FileFault, RenameFails, InstallFails, CollectFails, CopyFails, UnlinkFails,
     RemoveFails, Drop
<1>23. CASE Crash
  <2>1. stageBar' = [r \in Request |-> IF stageBar[r] \in {"idle"} \cup Abstract!Ended
                                        THEN stageBar[r] ELSE "gone"]
    BY <1>23 DEF Crash, Live, stageBar, AbstractStage, Reads, Abstract!Ended
  <2>2. heldBar' = heldBar /\ Values' = Values
    BY <1>23 DEF Crash, heldBar, Reads, Values
  <2>3. Abstract!Crash
    BY <1>23, <2>1, <2>2 DEF Crash, Abstract!Crash
  <2>4. QED
    BY <2>3 DEF Abstract!Next
<1>24. CASE UNCHANGED vars
  BY <1>24 DEF vars, Abstract!vars, storeBar, Holds, Files, stageBar, AbstractStage,
     heldBar, Reads
<1> QED
  BY <1>1, <1>2, <1>3, <1>4, <1>5, <1>6, <1>7, <1>8, <1>9, <1>10, <1>11,
     <1>12, <1>13, <1>14, <1>15, <1>16, <1>17, <1>18, <1>19, <1>20, <1>21,
     <1>22, <1>23, <1>24
     DEF Next, Upload, Lock, Serve

\* No put is undone, since none carries a body that does not match its digest.
LEMMA NoRollbackStep ==
  ASSUME Sound, TypeInv, NoRollback, [Next]_vars
  PROVE  NoRollback'
<1> USE DEF TypeInv, TypeOK, Control, NoRollback, Sound, Goto, disk
<1>1. ASSUME NEW r \in Request, Receive(r) \/ Upload(r) PROVE NoRollback'
  BY <1>1 DEF Receive, FirstStep, Upload, BodyEnds, BodyFails
<1>2. ASSUME NEW r \in Request, Lock(r) PROVE NoRollback'
  BY <1>2 DEF Lock, Stage, LockTarget, DeleteMissing, DeleteFound, Acquire,
     Deleting, Deleted
<1>3. ASSUME NEW r \in Request, Head(r) \/ Lookup(r) \/ Open(r) \/ OpenFails(r)
      PROVE  NoRollback'
  BY <1>3 DEF Head, Lookup, Open, OpenFails
<1>4. ASSUME NEW r \in Request, Rename(r) \/ Install(r) \/ List(r) \/ Collect(r)
      PROVE  NoRollback'
  BY <1>4 DEF Rename, Install, List, Collect
<1>5. ASSUME NEW r \in Request, Finish(r) PROVE NoRollback'
  BY <1>5 DEF Finish
<1>6. ASSUME NEW r \in Request, Source(r) \/ Link(r) \/ LinkFails(r) PROVE NoRollback'
  BY <1>6 DEF Source, Link, LinkFails
<1>7. ASSUME NEW r \in Request, Unlink(r) \/ Remove(r) PROVE NoRollback'
  BY <1>7 DEF Unlink, Remove, Deleted
<1>8. ASSUME NEW r \in Request, FileFault(r) PROVE NoRollback'
  BY <1>8 DEF FileFault, RenameFails, InstallFails, CollectFails, CopyFails, UnlinkFails,
     RemoveFails, Deleted
<1>9. ASSUME NEW r \in Request, Drop(r) PROVE NoRollback'
  BY <1>9 DEF Drop
<1>10. CASE Crash
  BY <1>10 DEF Crash
<1>11. CASE UNCHANGED vars
  BY <1>11 DEF vars
<1>12. QED
  BY <1>1, <1>2, <1>3, <1>4, <1>5, <1>6, <1>7, <1>8, <1>9, <1>10, <1>11 DEF Next, Serve

LEMMA GoodAlways ==
  ASSUME Reliable, Sound
  PROVE  Spec => []Good
<1>1. Init => NoRollback
  BY DEF Init, NoRollback
<1>2. TypeInv /\ NoRollback /\ [Next]_vars => NoRollback'
  BY NoRollbackStep
<1>3. Spec => [](TypeInv /\ Locked /\ Contents /\ Intact)
  BY IntactAlways
<1>4. TypeInv /\ Locked /\ Contents /\ Intact /\ NoRollback => Good
  BY DEF Good
<1>5. QED
  BY <1>1, <1>2, <1>3, <1>4, PTL DEF Spec

\* Under crashes, but no dropped request, failing file or mismatched digest,
\* the put, copy, delete and get of src/storage.rs take effect atomically.
THEOREM Refines ==
  ASSUME Reliable, Sound
  PROVE  Spec => ImplementsAtomicStore
<1>1. Init => Abstract!Init
  BY DEF Init, Abstract!Init, storeBar, Holds, stageBar, AbstractStage, heldBar
<1>2. Good /\ Good' /\ [Next]_vars => [Abstract!Next]_(Abstract!vars)
  BY StepRefines
<1>3. Spec => []Good
  BY GoodAlways
<1>4. QED
  BY <1>1, <1>2, <1>3, PTL DEF Spec, ImplementsAtomicStore, Abstract!Spec

(***************************************************************************)
(* An acknowledged put survives.                                           *)
(***************************************************************************)
Calls(k) == {r \in Request : req[r] # None /\ KeyOf(r) = k}

\* A put that has installed its version left the key with some version, and so
\* did whoever has overwritten it; only a delete of the key takes it away.
Kept(r) == \/ meta[KeyOf(r)] # None
           \/ \E d \in Calls(KeyOf(r)) : req[d].op = "delete"

Upheld ==
  /\ NoRollback
  /\ \A k \in Key : meta[k] # None =>
       /\ meta[k].file \in Calls(k)
       /\ pc[meta[k].file] \in {"list", "gc", "ok", "gone"}
  /\ \A r \in Request :
       pc[r] \in {"list", "gc", "ok"} /\ req[r].op = "put" => Kept(r)

\* The calls of a key grow by what is received, and change in nothing else.
LEMMA CallsGrow ==
  ASSUME TypeInv, [Next]_vars
  PROVE  \A s \in Request : pc[s] # "idle" => req'[s] = req[s]
<1>1. ASSUME NEW r \in Request, Receive(r)
      PROVE  \A s \in Request : pc[s] # "idle" => req'[s] = req[s]
  BY <1>1 DEF Receive, TypeInv, TypeOK
<1>2. ASSUME NEW r \in Request, Upload(r) \/ Lock(r) \/ Serve(r) \/ FileFault(r) \/ Drop(r)
      PROVE  req' = req
  BY <1>2 DEF Upload, BodyEnds, BodyFails, Lock, Stage, LockTarget, DeleteMissing,
     DeleteFound, Serve, Head, Lookup, Open, OpenFails, Rename, Install, List,
     Collect, Finish, Source, Link, LinkFails, Unlink, Remove, FileFault,
     RenameFails, InstallFails, CollectFails, CopyFails, UnlinkFails, RemoveFails, Drop
<1>3. CASE Crash
  BY <1>3 DEF Crash
<1>4. CASE UNCHANGED vars
  BY <1>4 DEF vars
<1>5. QED
  BY <1>1, <1>2, <1>3, <1>4 DEF Next

\* A step that installs and removes no version, and takes no put further than
\* one that has been installed, keeps what is upheld.
LEMMA QuietlyUpheld ==
  ASSUME TypeInv, Upheld, [Next]_vars, NoRollback', meta' = meta,
         \A s \in Request :
           /\ pc[s] \in {"list", "gc", "ok", "gone"} => pc'[s] \in {"list", "gc", "ok", "gone"}
           /\ pc'[s] \in {"list", "gc", "ok"} => \/ pc[s] \in {"list", "gc", "ok"}
                                                 \/ req[s] # None /\ req[s].op # "put"
  PROVE  Upheld'
<1>1. \A s \in Request : req[s] # None => pc[s] # "idle" /\ req'[s] = req[s]
  BY CallsGrow DEF TypeInv, Control
<1>2. \A k \in Key : Calls(k) \subseteq Calls(k)'
  BY <1>1 DEF Calls, KeyOf
<1>3. \A k \in Key : meta'[k] # None =>
        /\ meta'[k].file \in Calls(k)'
        /\ pc'[meta'[k].file] \in {"list", "gc", "ok", "gone"}
  BY <1>2 DEF Upheld, Calls
<1>4. ASSUME NEW s \in Request, pc'[s] \in {"list", "gc", "ok"}, req'[s].op = "put"
      PROVE  Kept(s)'
  <2>1. pc[s] \in {"list", "gc", "ok"} /\ req[s] # None /\ req'[s] = req[s]
    BY <1>1, <1>4 DEF TypeInv, Control
  <2>2. Kept(s) /\ KeyOf(s) \in Key
    BY <1>4, <2>1, KeyTyped DEF Upheld
  <2>3. QED
    BY <1>1, <2>1, <2>2 DEF Kept, Calls, KeyOf
<1>5. QED
  BY <1>3, <1>4 DEF Upheld

LEMMA UpheldStep ==
  ASSUME Sound, TypeInv, Contents, Upheld, [Next]_vars
  PROVE  Upheld'
<1>0. NoRollback'
  BY NoRollbackStep DEF Upheld
<1> DEFINE Quiet ==
      /\ meta' = meta
      /\ \A s \in Request :
           /\ pc[s] \in {"list", "gc", "ok", "gone"} => pc'[s] \in {"list", "gc", "ok", "gone"}
           /\ pc'[s] \in {"list", "gc", "ok"} => \/ pc[s] \in {"list", "gc", "ok"}
                                                 \/ req[s] # None /\ req[s].op # "put"
<1>q. Quiet => Upheld'
  BY <1>0, QuietlyUpheld
<1> USE DEF TypeInv, TypeOK, Control, Upheld, NoRollback, Goto, disk
<1>1. ASSUME NEW r \in Request, Receive(r) \/ Upload(r) PROVE Quiet
  BY <1>1 DEF Receive, FirstStep, Upload, BodyEnds, BodyFails
<1>2. ASSUME NEW r \in Request, Lock(r) PROVE Quiet
  BY <1>2 DEF Lock, Stage, LockTarget, DeleteMissing, DeleteFound, Acquire,
     Deleting, Deleted
<1>3. ASSUME NEW r \in Request, Head(r) \/ Lookup(r) \/ Open(r) \/ OpenFails(r)
      PROVE  Quiet
  BY <1>3, NoneAssumption DEF Head, Lookup, Open, OpenFails, Opening
<1>4. ASSUME NEW r \in Request, Rename(r) \/ List(r) \/ Collect(r)
      PROVE  Quiet
  BY <1>4 DEF Rename, List, Collect
<1>5. ASSUME NEW r \in Request, Finish(r) PROVE Quiet
  BY <1>5 DEF Finish, Sound
<1>6. ASSUME NEW r \in Request, Source(r) \/ Link(r) \/ LinkFails(r) PROVE Quiet
  BY <1>6 DEF Source, Link, LinkFails
<1>7. ASSUME NEW r \in Request, Remove(r) PROVE Quiet
  BY <1>7 DEF Remove, Deleted
<1>8. ASSUME NEW r \in Request, FileFault(r) PROVE Quiet
  BY <1>8 DEF FileFault, RenameFails, InstallFails, CollectFails, CopyFails, UnlinkFails,
     RemoveFails, Deleted
<1>9. ASSUME NEW r \in Request, Drop(r) PROVE Quiet
  <2>1. meta' = meta /\ \A s \in Request : pc'[s] = "gone" \/ pc'[s] = pc[s]
    BY <1>9 DEF Drop
  <2>2. \A s \in Request : pc[s] \in {"ok", "gone"} => pc'[s] = pc[s]
    BY <1>9 DEF Drop, Live, Ended
  <2>3. QED
    BY <2>1, <2>2
<1>10. ASSUME Crash PROVE Quiet
  <2>1. meta' = meta /\ \A s \in Request : pc'[s] = "gone" \/ pc'[s] = pc[s]
    BY <1>10 DEF Crash
  <2>2. \A s \in Request : pc[s] \in {"ok", "gone"} => pc'[s] = pc[s]
    BY <1>10 DEF Crash, Live, Ended
  <2>3. QED
    BY <2>1, <2>2
<1>11. ASSUME UNCHANGED vars PROVE Quiet
  BY <1>11 DEF vars
<1>12. ASSUME NEW r \in Request, Install(r) PROVE Upheld'
  <2>1. /\ pc[r] = "install" /\ req[r] # None /\ KeyOf(r) \in Key
        /\ req' = req
        /\ pc'[r] \in {"list", "gone"}
        /\ \A s \in Request : s # r => pc'[s] = pc[s]
    BY <1>12, KeyTyped DEF Install
  <2>2. meta'[KeyOf(r)] # None /\ meta'[KeyOf(r)].file = r
    BY <2>1, <1>12, EtagTyped, NoneAssumption DEF Install, Version
  <2>3. \A k \in Key : k # KeyOf(r) => meta'[k] = meta[k]
    BY <1>12 DEF Install
  <2>4. \A k \in Key : meta'[k] # None =>
          /\ meta'[k].file \in Calls(k)'
          /\ pc'[meta'[k].file] \in {"list", "gc", "ok", "gone"}
    BY <2>1, <2>2, <2>3 DEF Calls, KeyOf
  <2>5. ASSUME NEW s \in Request, pc'[s] \in {"list", "gc", "ok"}, req'[s].op = "put"
        PROVE  Kept(s)'
    <3>1. CASE KeyOf(s) = KeyOf(r)
      BY <2>1, <2>2, <3>1 DEF Kept, KeyOf
    <3>2. CASE KeyOf(s) # KeyOf(r)
      <4>1. pc[s] \in {"list", "gc", "ok"} /\ KeyOf(s) \in Key
        BY <2>1, <2>5, <3>2, KeyTyped
      <4>2. QED
        BY <2>1, <2>3, <2>5, <3>2, <4>1 DEF Kept, Calls, KeyOf
    <3>3. QED
      BY <3>1, <3>2
  <2>6. QED
    BY <1>0, <2>4, <2>5
<1>13. ASSUME NEW r \in Request, Unlink(r) PROVE Upheld'
  <2>1. /\ req[r] # None /\ req[r].op = "delete" /\ KeyOf(r) \in Key
        /\ req' = req /\ pc[r] = "unlink"
        /\ pc'[r] \in {"remove", "gone"}
        /\ \A s \in Request : s # r => pc'[s] = pc[s]
    BY <1>13, KeyTyped DEF Unlink
  <2>2. meta'[KeyOf(r)] = None /\ \A k \in Key : k # KeyOf(r) => meta'[k] = meta[k]
    BY <1>13, <2>1 DEF Unlink
  <2>3. \A k \in Key : meta'[k] # None =>
          /\ meta'[k].file \in Calls(k)'
          /\ pc'[meta'[k].file] \in {"list", "gc", "ok", "gone"}
    BY <2>1, <2>2 DEF Calls, KeyOf
  <2>4. ASSUME NEW s \in Request, pc'[s] \in {"list", "gc", "ok"}, req'[s].op = "put"
        PROVE  Kept(s)'
    <3>1. CASE KeyOf(s) = KeyOf(r)
      BY <2>1, <3>1 DEF Kept, Calls, KeyOf
    <3>2. CASE KeyOf(s) # KeyOf(r)
      <4>1. pc[s] \in {"list", "gc", "ok"} /\ KeyOf(s) \in Key
        BY <2>1, <2>4, <3>2, KeyTyped
      <4>2. QED
        BY <2>1, <2>2, <2>4, <3>2, <4>1 DEF Kept, Calls, KeyOf
    <3>3. QED
      BY <3>1, <3>2
  <2>5. QED
    BY <1>0, <2>3, <2>4
<1>14. QED
  BY <1>q, <1>1, <1>2, <1>3, <1>4, <1>5, <1>6, <1>7, <1>8, <1>9, <1>10, <1>11,
     <1>12, <1>13 DEF Next, Serve

\* Under crashes, dropped requests and failing file operations alike, a key with
\* an acknowledged put and no delete keeps a version that was acknowledged or cut
\* off: no failed write takes its place (put_object, copy_object, delete_object).
THEOREM PutSurvives ==
  ASSUME Sound
  PROVE  Spec => []AcknowledgedPutSurvives
<1>1. Init => Upheld
  BY DEF Init, Upheld, NoRollback
<1>2. TypeInv /\ Contents /\ Upheld /\ [Next]_vars => Upheld'
  BY UpheldStep
<1>3. Spec => [](TypeInv /\ Locked /\ Contents)
  BY ContentsAlways
<1>4. TypeInv /\ Upheld => AcknowledgedPutSurvives
  <2> SUFFICES ASSUME TypeInv, Upheld, NEW k \in Key,
                      \A r \in Calls(k) : pc[r] \in Ended /\ req[r].op # "delete",
                      NEW p \in Calls(k), req[p].op = "put", pc[p] = "ok"
               PROVE  meta[k] # None /\ pc[meta[k].file] \in {"ok", "gone"}
    BY DEF AcknowledgedPutSurvives, Calls
  <2>1. meta[k] # None
    BY DEF Upheld, Kept, Calls
  <2>2. QED
    BY <2>1 DEF Upheld, Ended
<1>5. QED
  BY <1>1, <1>2, <1>3, <1>4, PTL DEF Spec

(***************************************************************************)
(* Data files.                                                             *)
(***************************************************************************)
\* A collecting writer has listed every data file of its key but its own.
Gathered ==
  \A r \in Request : pc[r] = "gc" => Files(KeyOf(r)) \subseteq doomed[r] \cup {r}

\* A step that begins no collection, forgets no listed file and adds none to a
\* key that is being collected.
LEMMA QuietlyGathered ==
  ASSUME TypeInv, Gathered, [Next]_vars, doomed' = doomed,
         \A s \in Request : pc'[s] = "gc" =>
           /\ pc[s] = "gc"
           /\ \A f \in Request : data'[f] # None /\ data'[f].dir = KeyOf(s) =>
                data[f] # None /\ data[f].dir = KeyOf(s)
  PROVE  Gathered'
<1>1. ASSUME NEW s \in Request, pc'[s] = "gc"
      PROVE  Files(KeyOf(s))' \subseteq doomed'[s] \cup {s}
  <2>1. KeyOf(s)' = KeyOf(s) /\ pc[s] = "gc"
    BY <1>1, CallsGrow DEF KeyOf
  <2>2. QED
    BY <1>1, <2>1 DEF Gathered, Files
<1>2. QED
  BY <1>1 DEF Gathered

LEMMA GatheredStep ==
  ASSUME Reliable, TypeInv, Locked, Contents, Intact, Gathered, [Next]_vars
  PROVE  Gathered'
<1> DEFINE Quiet ==
      /\ doomed' = doomed
      /\ \A s \in Request : pc'[s] = "gc" =>
           /\ pc[s] = "gc"
           /\ \A f \in Request : data'[f] # None /\ data'[f].dir = KeyOf(s) =>
                data[f] # None /\ data[f].dir = KeyOf(s)
<1>q. Quiet => Gathered'
  BY QuietlyGathered
<1> USE DEF Goto, disk
<1>0. /\ pc \in [Request -> Steps] /\ data \in [Request -> File \cup {None}]
      /\ doomed \in [Request -> SUBSET Request] /\ detached = {}
  BY DEF TypeInv, TypeOK, Intact
<1>a. \A r, s \in Request : pc[r] \in Holding /\ pc[s] \in Holding /\ r # s =>
        KeyOf(r) # KeyOf(s)
  BY <1>0 DEF Locked
<1>1. ASSUME NEW r \in Request, Receive(r) \/ Upload(r) PROVE Quiet
  BY <1>0, <1>1 DEF Receive, FirstStep, Upload, BodyEnds, BodyFails
<1>2. ASSUME NEW r \in Request, Lock(r) PROVE Quiet
  BY <1>0, <1>2 DEF Lock, Stage, LockTarget, DeleteMissing, DeleteFound, Deleted
<1>3. ASSUME NEW r \in Request, Head(r) \/ Lookup(r) \/ Open(r) \/ OpenFails(r)
      PROVE  Quiet
  BY <1>0, <1>3 DEF Head, Lookup, Open, OpenFails
<1>4. ASSUME NEW r \in Request, Rename(r) PROVE Quiet
  <2>1. \A s \in Request : pc[s] = "gc" => s # r /\ KeyOf(s) # KeyOf(r)
    BY <1>4, <1>a DEF Rename, Holding
  <2>2. /\ \A f \in Request : f # r => data'[f] = data[f]
        /\ data'[r] = [dir |-> KeyOf(r), content |-> req[r].body]
        /\ doomed' = doomed
    BY <1>0, <1>4 DEF Rename
  <2>3. \A s \in Request : pc'[s] = "gc" => pc[s] = "gc"
    BY <1>0, <1>4 DEF Rename
  <2>4. QED
    BY <2>1, <2>2, <2>3
<1>5. ASSUME NEW r \in Request, Install(r) PROVE Quiet
  BY <1>0, <1>5 DEF Install
<1>6. ASSUME NEW r \in Request, List(r) PROVE Gathered'
  <2>1. data' = data /\ req' = req
    BY <1>6 DEF List
  <2>2. doomed'[r] = Files(KeyOf(r)) \ {r}
    BY <1>0, <1>6 DEF List
  <2>3. \A s \in Request : s # r => pc'[s] = pc[s] /\ doomed'[s] = doomed[s]
    BY <1>0, <1>6 DEF List
  <2>4. QED
    BY <2>1, <2>2, <2>3 DEF Gathered, Files, KeyOf
<1>7. ASSUME NEW r \in Request, Collect(r) PROVE Gathered'
  <2>1. PICK f \in doomed[r] : /\ data' = [data EXCEPT ![f] = None]
                               /\ doomed' = [doomed EXCEPT ![r] = @ \ {f}]
    BY <1>7 DEF Collect
  <2>2. /\ f \in Request /\ data'[f] = None
        /\ \A g \in Request : g # f => data'[g] = data[g]
    BY <1>0, <2>1
  <2>3. /\ doomed'[r] = doomed[r] \ {f}
        /\ \A s \in Request : s # r => doomed'[s] = doomed[s]
    BY <1>0, <2>1
  <2>4. req' = req /\ pc[r] = "gc" /\ \A s \in Request : pc'[s] = pc[s]
    BY <1>0, <1>7 DEF Collect
  <2>5. QED
    BY <2>2, <2>3, <2>4 DEF Gathered, Files, KeyOf
<1>8. ASSUME NEW r \in Request, Finish(r) PROVE Quiet
  BY <1>0, <1>8 DEF Finish
<1>9. ASSUME NEW r \in Request, Source(r) \/ LinkFails(r) PROVE Quiet
  BY <1>0, <1>9 DEF Source, LinkFails
<1>10. ASSUME NEW r \in Request, Link(r) PROVE Quiet
  <2>1. \A s \in Request : pc[s] = "gc" => s # r /\ KeyOf(s) # KeyOf(r)
    BY <1>10, <1>a DEF Link, Holding
  <2>2. /\ \A f \in Request : f # r => data'[f] = data[f]
        /\ data'[r].dir = KeyOf(r)
        /\ doomed' = doomed
    BY <1>0, <1>10 DEF Link
  <2>3. \A s \in Request : pc'[s] = "gc" => pc[s] = "gc"
    BY <1>0, <1>10 DEF Link
  <2>4. QED
    BY <2>1, <2>2, <2>3
<1>11. ASSUME NEW r \in Request, Unlink(r) \/ Remove(r) PROVE Quiet
  BY <1>0, <1>11 DEF Unlink, Remove, Deleted
<1>12. ASSUME NEW r \in Request, FileFault(r) \/ Drop(r) PROVE FALSE
  BY <1>12 DEF Reliable, FileFault, RenameFails, InstallFails, CollectFails,
     CopyFails, UnlinkFails, RemoveFails, Drop
<1>13. ASSUME Crash PROVE Quiet
  BY <1>0, <1>13 DEF Crash
<1>14. ASSUME UNCHANGED vars PROVE Quiet
  BY <1>14 DEF vars
<1>15. QED
  BY <1>q, <1>1, <1>2, <1>3, <1>4, <1>5, <1>6, <1>7, <1>8, <1>9, <1>10, <1>11,
     <1>12, <1>13, <1>14 DEF Next, Serve

\* A put or copy that succeeds leaves its own data file and no other in the
\* object's directory, whatever crashes left there before (gc_object_dir).
THEOREM WritesCollect ==
  ASSUME Reliable
  PROVE  Spec => WriteCollects
<1> DEFINE Alone == \A r \in Request : pc[r] = "gc" /\ pc'[r] = "ok" =>
                      Files(KeyOf(r))' = {r}
<1>1. Init => Gathered
  BY DEF Init, Gathered
<1>2. TypeInv /\ Locked /\ Contents /\ Intact /\ Gathered /\ [Next]_vars => Gathered'
  BY GatheredStep
<1>3. Spec => [](TypeInv /\ Locked /\ Contents /\ Intact)
  BY IntactAlways
<1>4. TypeInv /\ Contents /\ Intact /\ Gathered /\ [Next]_vars => Alone \/ UNCHANGED vars
  <2> SUFFICES ASSUME TypeInv, Contents, Intact, Gathered, [Next]_vars,
                      NEW r \in Request, pc[r] = "gc", pc'[r] = "ok"
               PROVE  Files(KeyOf(r))' = {r}
    OBVIOUS
  <2>1. ASSUME NEW s \in Request, s # r,
               \/ Receive(s) \/ Upload(s) \/ Lock(s) \/ Serve(s) \/ FileFault(s) \/ Drop(s)
        PROVE  FALSE
    <3>1. pc'[r] = pc[r]
      <4> USE DEF Goto, TypeInv, TypeOK
      <4>1. CASE Receive(s) \/ Upload(s) \/ Lock(s)
        BY <2>1, <4>1 DEF Receive, Upload, BodyEnds, BodyFails, Lock, Stage,
           LockTarget, DeleteMissing, DeleteFound
      <4>2. CASE Head(s) \/ Lookup(s) \/ Open(s) \/ OpenFails(s) \/ Rename(s)
                 \/ Install(s) \/ List(s) \/ Collect(s) \/ Finish(s)
        BY <2>1, <4>2 DEF Head, Lookup, Open, OpenFails, Rename, Install, List,
           Collect, Finish
      <4>3. CASE Source(s) \/ Link(s) \/ LinkFails(s) \/ Unlink(s) \/ Remove(s)
        BY <2>1, <4>3 DEF Source, Link, LinkFails, Unlink, Remove
      <4>4. CASE FileFault(s) \/ Drop(s)
        BY <2>1, <4>4 DEF FileFault, RenameFails, InstallFails, CollectFails,
           CopyFails, UnlinkFails, RemoveFails, Drop
      <4>5. QED
        BY <2>1, <4>1, <4>2, <4>3, <4>4 DEF Serve
    <3>2. QED
      BY <3>1
  <2>2. Finish(r)
    <3>1. pc'[r] # pc[r]
      OBVIOUS
    <3>2. ~Crash
      BY DEF Crash, TypeInv, TypeOK
    <3>3. ~UNCHANGED vars
      BY <3>1 DEF vars
    <3>4. Receive(r) \/ Upload(r) \/ Lock(r) \/ Serve(r) \/ FileFault(r) \/ Drop(r)
      BY <2>1, <3>2, <3>3 DEF Next
    <3>5. ~(Receive(r) \/ Upload(r) \/ Lock(r))
      BY DEF Receive, Upload, BodyEnds, BodyFails, Lock, Stage, LockTarget, Deleting,
         DeleteMissing, DeleteFound
    <3>6. ~(FileFault(r) \/ Drop(r))
      BY DEF FileFault, RenameFails, InstallFails, CollectFails, CopyFails, UnlinkFails, RemoveFails,
         Drop, Goto, TypeInv, TypeOK
    <3>7. ~(\/ Head(r) \/ Lookup(r) \/ Open(r) \/ OpenFails(r) \/ Rename(r) \/ Install(r)
            \/ List(r) \/ Source(r) \/ Link(r) \/ LinkFails(r) \/ Unlink(r) \/ Remove(r))
      BY DEF Head, Lookup, Open, OpenFails, Rename, Install, List, Source, Link, LinkFails,
         Unlink, Remove
    <3>8. ~Collect(r)
      BY <3>1 DEF Collect, Goto, TypeInv, TypeOK
    <3>9. QED
      BY <3>4, <3>5, <3>6, <3>7, <3>8 DEF Serve
  <2>3. doomed[r] = {} /\ data' = data /\ req' = req
    BY <2>2 DEF Finish, disk
  <2>4. Files(KeyOf(r)) \subseteq {r}
    BY <2>3 DEF Gathered
  <2>5. r \in Files(KeyOf(r))
    BY KeyTyped DEF Intact
  <2>6. QED
    BY <2>3, <2>4, <2>5 DEF Files, KeyOf
<1>5. QED
  BY <1>1, <1>2, <1>3, <1>4, PTL DEF Spec, WriteCollects

(***************************************************************************)
(* Without faults.                                                         *)
(***************************************************************************)
Faultless == Faults = {}

Named(k) == IF meta[k] = None THEN {} ELSE {meta[k].file}

\* What the holder of a key's lock knows of its data files.
Settled(k) ==
  LET h == lock[k]
  IN  /\ h = None \/ pc[h] \in {"stream", "rename", "link"} => Files(k) = Named(k)
      /\ h # None =>
           /\ pc[h] \in Holding /\ KeyOf(h) = k
           /\ pc[h] = "unlink" => snap[h] # None /\ snap[h] = meta[k] /\ Files(k) = Named(k)
           /\ pc[h] = "remove" => snap[h] # None /\ Files(k) \subseteq {snap[h].file}

Tidy == /\ tmp = {r \in Request : pc[r] \in {"stream", "rename"}}
        /\ \A k \in Key : Settled(k)

Clean == TypeInv /\ Locked /\ Contents /\ Intact /\ Gathered

\* A key whose lock, metadata and files stay, and whose holder does nothing.
LEMMA SettledStays ==
  ASSUME Clean, Clean', NEW k \in Key, Settled(k), NEW r \in Request, lock[k] # r,
         [Next]_vars, lock'[k] = lock[k], meta'[k] = meta[k],
         \A f \in Request : (data'[f] # None /\ data'[f].dir = k)
                              <=> (data[f] # None /\ data[f].dir = k),
         \A s \in Request \ {r} : pc'[s] = pc[s] /\ snap'[s] = snap[s]
  PROVE  Settled(k)'
<1>1. Files(k)' = Files(k) /\ Named(k)' = Named(k)
  BY DEF Files, Named
<1>2. ASSUME lock[k] # None
      PROVE  /\ lock[k] \in Request \ {r}
             /\ req'[lock[k]] = req[lock[k]]
  <2>1. lock[k] \in Request /\ pc[lock[k]] # "idle"
    BY <1>2, NoneAssumption DEF Clean, TypeInv, TypeOK, Settled, Holding
  <2>2. QED
    BY <2>1, CallsGrow DEF Clean
<1>3. QED
  BY <1>1, <1>2 DEF Settled, KeyOf

\* A request that neither holds a lock nor touches a file.
LEMMA Bystander ==
  ASSUME Clean, Clean', Tidy, [Next]_vars, NEW r \in Request, pc[r] \notin Holding,
         pc'[r] \notin Holding, UNCHANGED <<lock, meta, data, tmp>>,
         \A s \in Request \ {r} : pc'[s] = pc[s] /\ snap'[s] = snap[s]
  PROVE  Tidy'
<1>1. ASSUME NEW k \in Key PROVE Settled(k)'
  <2>1. lock[k] # r
    BY NoneAssumption DEF Tidy, Settled
  <2>2. QED
    BY <2>1, SettledStays DEF Tidy
<1>2. tmp' = {s \in Request : pc'[s] \in {"stream", "rename"}}
  BY DEF Tidy, Holding
<1>3. QED
  BY <1>1, <1>2 DEF Tidy

\* A step of the holder of a key's lock, or of who takes it, is about that key.
LEMMA Holder ==
  ASSUME Clean, Clean', Tidy, [Next]_vars, NEW r \in Request,
         NEW c \in Key, KeyOf(r) = c, lock[c] \in {None, r},
         tmp' = {s \in Request : pc'[s] \in {"stream", "rename"}},
         \A k \in Key \ {c} :
           /\ lock'[k] = lock[k] /\ meta'[k] = meta[k]
           /\ \A f \in Request : (data'[f] # None /\ data'[f].dir = k)
                                   <=> (data[f] # None /\ data[f].dir = k),
         \A s \in Request \ {r} : pc'[s] = pc[s] /\ snap'[s] = snap[s],
         Settled(c)'
  PROVE  Tidy'
<1>1. ASSUME NEW k \in Key, k # c PROVE Settled(k)'
  <2>1. lock[k] # r
    BY <1>1, NoneAssumption DEF Tidy, Settled
  <2>2. QED
    BY <1>1, <2>1, SettledStays DEF Tidy
<1>2. QED
  BY <1>1 DEF Tidy

LEMMA TidyStep ==
  ASSUME Faultless, Clean, Clean', Tidy, [Next]_vars
  PROVE  Tidy'
<1>0. /\ pc \in [Request -> Steps] /\ data \in [Request -> File \cup {None}]
      /\ snap \in [Request -> Version \cup {None}] /\ tmp \subseteq Request
      /\ lock \in [Key -> Request \cup {None}] /\ meta \in [Key -> Version \cup {None}]
      /\ detached = {}
  BY DEF Clean, TypeInv, TypeOK, Intact
<1>n. None \notin Request
  BY NoneAssumption
<1>h. \A r \in Request : pc[r] \in Holding => lock[KeyOf(r)] = r /\ KeyOf(r) \in Key
  BY <1>0, KeyTyped DEF Locked, Clean, Holding
<1>e. \A r \in Request : pc[r] # "idle" => KeyOf(r) \in Key
  BY KeyTyped DEF Clean
<1>l. \A r \in Request, k \in Key : lock[k] = r => pc[r] \in Holding /\ KeyOf(r) = k
  BY <1>n DEF Tidy, Settled
<1>t. tmp = {s \in Request : pc[s] \in {"stream", "rename"}}
  BY DEF Tidy
<1> USE DEF Goto, disk
<1>1. ASSUME NEW r \in Request, Receive(r) PROVE Tidy'
  BY <1>0, <1>1, Bystander DEF Receive, FirstStep, Holding
<1>2. ASSUME NEW r \in Request, Head(r) \/ Lookup(r) \/ Open(r) \/ OpenFails(r) \/ Source(r)
      PROVE  Tidy'
  BY <1>0, <1>2, Bystander DEF Head, Lookup, Open, OpenFails, Source, Holding
<1>3. ASSUME NEW r \in Request, DeleteMissing(r) PROVE Tidy'
  BY <1>0, <1>3, Bystander DEF DeleteMissing, Deleting, Deleted, Holding
<1>4. ASSUME NEW r \in Request, Stage(r) PROVE Tidy'
  <2>1. PICK c \in Key : KeyOf(r) = c /\ lock[c] = None
    BY <1>4, <1>e DEF Stage, Acquire
  <2>2. /\ pc'[r] = "stream" /\ lock'[c] = r /\ req' = req
        /\ \A s \in Request \ {r} : pc'[s] = pc[s] /\ snap'[s] = snap[s]
        /\ \A k \in Key \ {c} : lock'[k] = lock[k]
        /\ meta' = meta /\ data' = data /\ tmp' = tmp \cup {r}
    BY <1>0, <1>4, <2>1 DEF Stage, Acquire
  <2>3. tmp' = {s \in Request : pc'[s] \in {"stream", "rename"}}
    BY <1>0, <1>t, <1>4, <2>2
  <2>4. Settled(c)'
    BY <1>n, <2>1, <2>2 DEF Tidy, Settled, Files, Named, KeyOf, Holding
  <2>5. QED
    BY <2>1, <2>2, <2>3, <2>4, Holder
<1>5. ASSUME NEW r \in Request, BodyEnds(r) PROVE Tidy'
  <2>1. PICK c \in Key : KeyOf(r) = c /\ lock[c] = r
    BY <1>5, <1>h DEF BodyEnds, Holding
  <2>2. /\ pc[r] = "stream" /\ pc'[r] = "rename" /\ req' = req
        /\ \A s \in Request \ {r} : pc'[s] = pc[s] /\ snap'[s] = snap[s]
        /\ UNCHANGED <<lock, meta, data, tmp>>
    BY <1>0, <1>5, <2>1 DEF BodyEnds
  <2>3. tmp' = {s \in Request : pc'[s] \in {"stream", "rename"}}
    BY <1>0, <1>t, <1>5, <2>2
  <2>4. Settled(c)'
    BY <1>n, <2>1, <2>2 DEF Tidy, Settled, Files, Named, KeyOf, Holding
  <2>5. QED
    BY <2>1, <2>2, <2>3, <2>4, Holder
<1>6. ASSUME NEW r \in Request, BodyFails(r) PROVE Tidy'
  <2>1. PICK c \in Key : KeyOf(r) = c /\ lock[c] = r
    BY <1>6, <1>h DEF BodyFails, Holding
  <2>2. /\ pc[r] = "stream" /\ pc'[r] = "failed" /\ lock'[c] = None
        /\ \A s \in Request \ {r} : pc'[s] = pc[s] /\ snap'[s] = snap[s]
        /\ \A k \in Key \ {c} : lock'[k] = lock[k]
        /\ req' = req /\ meta' = meta /\ data' = data /\ tmp' = tmp \ {r}
    BY <1>0, <1>l, <1>6, <2>1 DEF BodyFails, Release
  <2>3. tmp' = {s \in Request : pc'[s] \in {"stream", "rename"}}
    BY <1>0, <1>t, <1>6, <2>2
  <2>4. Settled(c)'
    BY <1>n, <2>1, <2>2 DEF Tidy, Settled, Files, Named, KeyOf, Holding
  <2>5. QED
    BY <2>1, <2>2, <2>3, <2>4, Holder
<1>7. ASSUME NEW r \in Request, Rename(r) PROVE Tidy'
  <2>1. PICK c \in Key : KeyOf(r) = c /\ lock[c] = r
    BY <1>7, <1>h DEF Rename, Holding
  <2>2. /\ pc[r] = "rename" /\ pc'[r] = "install" /\ req' = req
        /\ \A s \in Request \ {r} : pc'[s] = pc[s] /\ snap'[s] = snap[s]
        /\ lock' = lock /\ meta' = meta /\ tmp' = tmp \ {r}
        /\ data'[r].dir = c
        /\ \A f \in Request \ {r} : data'[f] = data[f]
    BY <1>0, <1>7, <2>1 DEF Rename
  <2>3. tmp' = {s \in Request : pc'[s] \in {"stream", "rename"}}
    BY <1>0, <1>t, <1>7, <2>2
  <2>a. data[r] = None
    BY <2>2 DEF Clean, Contents, Drawn, Undrawn
  <2>4. Settled(c)'
    BY <1>n, <2>1, <2>2 DEF Tidy, Settled, Files, Named, KeyOf, Holding
  <2>5. QED
    BY <2>1, <2>2, <2>3, <2>4, <2>a, Holder
<1>8. ASSUME NEW r \in Request, Install(r) PROVE Tidy'
  <2>1. PICK c \in Key : KeyOf(r) = c /\ lock[c] = r
    BY <1>8, <1>h DEF Install, Holding
  <2>2. /\ pc[r] = "install" /\ pc'[r] = "list" /\ req' = req
        /\ \A s \in Request \ {r} : pc'[s] = pc[s] /\ snap'[s] = snap[s]
        /\ lock' = lock /\ data' = data /\ tmp' = tmp
        /\ \A k \in Key \ {c} : meta'[k] = meta[k]
    BY <1>0, <1>8, <2>1 DEF Install
  <2>3. tmp' = {s \in Request : pc'[s] \in {"stream", "rename"}}
    BY <1>0, <1>t, <1>8, <2>2
  <2>4. Settled(c)'
    BY <1>n, <2>1, <2>2 DEF Tidy, Settled, Files, Named, KeyOf, Holding
  <2>5. QED
    BY <2>1, <2>2, <2>3, <2>4, Holder
<1>9. ASSUME NEW r \in Request, List(r) PROVE Tidy'
  <2>1. PICK c \in Key : KeyOf(r) = c /\ lock[c] = r
    BY <1>9, <1>h DEF List, Holding
  <2>2. /\ pc[r] = "list" /\ pc'[r] = "gc" /\ req' = req
        /\ \A s \in Request \ {r} : pc'[s] = pc[s] /\ snap'[s] = snap[s]
        /\ UNCHANGED <<lock, meta, data, tmp>>
    BY <1>0, <1>9, <2>1 DEF List
  <2>3. tmp' = {s \in Request : pc'[s] \in {"stream", "rename"}}
    BY <1>0, <1>t, <1>9, <2>2
  <2>4. Settled(c)'
    BY <1>n, <2>1, <2>2 DEF Tidy, Settled, Files, Named, KeyOf, Holding
  <2>5. QED
    BY <2>1, <2>2, <2>3, <2>4, Holder
<1>10. ASSUME NEW r \in Request, Collect(r) PROVE Tidy'
  <2>1. PICK c \in Key : KeyOf(r) = c /\ lock[c] = r
    BY <1>10, <1>h DEF Collect, Holding
  <2>2. /\ pc[r] = "gc" /\ pc' = pc /\ snap' = snap /\ req' = req
        /\ lock' = lock /\ meta' = meta /\ tmp' = tmp
    BY <1>0, <1>10 DEF Collect
  <2>3. PICK f \in doomed[r] : data' = [data EXCEPT ![f] = None]
    BY <1>10 DEF Collect
  <2>4. f \in Request /\ KeyOf(f) = c
    BY <2>1 DEF Clean, Intact, TypeInv, TypeOK
  <2>5. /\ data'[f] = None /\ \A g \in Request \ {f} : data'[g] = data[g]
        /\ data[f] # None => data[f].dir = c
    BY <1>0, <2>3, <2>4 DEF Clean, Contents
  <2>6. Settled(c)'
    BY <1>n, <2>1, <2>2 DEF Settled, KeyOf, Holding
  <2>7. tmp' = {s \in Request : pc'[s] \in {"stream", "rename"}}
    BY <1>t, <2>2
  <2>8. QED
    BY <2>1, <2>2, <2>4, <2>5, <2>6, <2>7, Holder
<1>11. ASSUME NEW r \in Request, Finish(r) PROVE Tidy'
  <2>1. PICK c \in Key : KeyOf(r) = c /\ lock[c] = r
    BY <1>11, <1>h DEF Finish, Holding
  <2>2. /\ pc[r] = "gc" /\ doomed[r] = {} /\ pc'[r] \in {"ok", "rollback"} /\ lock'[c] = None
        /\ \A s \in Request \ {r} : pc'[s] = pc[s] /\ snap'[s] = snap[s]
        /\ \A k \in Key \ {c} : lock'[k] = lock[k]
        /\ req' = req /\ meta' = meta /\ data' = data /\ tmp' = tmp
    BY <1>0, <1>l, <1>11, <2>1 DEF Finish, Release
  <2>3. tmp' = {s \in Request : pc'[s] \in {"stream", "rename"}}
    BY <1>0, <1>t, <1>11, <2>2
  <2>a. Files(c) = Named(c)
    BY <2>1, <2>2, <1>n DEF Clean, Intact, Gathered, Named
  <2>4. Settled(c)'
    BY <1>n, <2>1, <2>2, <2>a DEF Settled, Files, Named
  <2>5. QED
    BY <2>1, <2>2, <2>3, <2>4, Holder
<1>12. ASSUME NEW r \in Request, LockTarget(r) PROVE Tidy'
  <2>1. PICK c \in Key : KeyOf(r) = c /\ lock[c] = None
    BY <1>12, <1>e DEF LockTarget, Acquire
  <2>2. /\ pc[r] = "wait" /\ pc'[r] = "link" /\ lock'[c] = r /\ req' = req
        /\ \A s \in Request \ {r} : pc'[s] = pc[s] /\ snap'[s] = snap[s]
        /\ \A k \in Key \ {c} : lock'[k] = lock[k]
        /\ UNCHANGED <<meta, data, tmp>>
    BY <1>0, <1>12, <2>1 DEF LockTarget, Acquire
  <2>3. tmp' = {s \in Request : pc'[s] \in {"stream", "rename"}}
    BY <1>0, <1>t, <1>12, <2>2
  <2>4. Settled(c)'
    BY <1>n, <2>1, <2>2 DEF Tidy, Settled, Files, Named, KeyOf, Holding
  <2>5. QED
    BY <2>1, <2>2, <2>3, <2>4, Holder
<1>13. ASSUME NEW r \in Request, Link(r) PROVE Tidy'
  <2>1. PICK c \in Key : KeyOf(r) = c /\ lock[c] = r
    BY <1>13, <1>h DEF Link, Holding
  <2>2. /\ pc[r] = "link" /\ pc'[r] = "install" /\ req' = req
        /\ \A s \in Request \ {r} : pc'[s] = pc[s] /\ snap'[s] = snap[s]
        /\ lock' = lock /\ meta' = meta /\ tmp' = tmp
        /\ data'[r].dir = c
        /\ \A f \in Request \ {r} : data'[f] = data[f]
    BY <1>0, <1>13, <2>1 DEF Link
  <2>3. tmp' = {s \in Request : pc'[s] \in {"stream", "rename"}}
    BY <1>0, <1>t, <1>13, <2>2
  <2>a. data[r] = None
    BY <2>2 DEF Clean, Contents, Drawn, Undrawn
  <2>4. Settled(c)'
    BY <1>n, <2>1, <2>2 DEF Tidy, Settled, Files, Named, KeyOf, Holding
  <2>5. QED
    BY <2>1, <2>2, <2>3, <2>4, <2>a, Holder
<1>14. ASSUME NEW r \in Request, LinkFails(r) PROVE Tidy'
  <2>1. PICK c \in Key : KeyOf(r) = c /\ lock[c] = r
    BY <1>14, <1>h DEF LinkFails, Holding
  <2>2. /\ pc[r] = "link" /\ pc'[r] = "failed" /\ lock'[c] = None
        /\ \A s \in Request \ {r} : pc'[s] = pc[s] /\ snap'[s] = snap[s]
        /\ \A k \in Key \ {c} : lock'[k] = lock[k]
        /\ req' = req /\ meta' = meta /\ data' = data /\ tmp' = tmp
    BY <1>0, <1>l, <1>14, <2>1 DEF LinkFails, Release
  <2>3. tmp' = {s \in Request : pc'[s] \in {"stream", "rename"}}
    BY <1>0, <1>t, <1>14, <2>2
  <2>4. Settled(c)'
    BY <1>n, <2>1, <2>2 DEF Tidy, Settled, Files, Named, KeyOf, Holding
  <2>5. QED
    BY <2>1, <2>2, <2>3, <2>4, Holder
<1>15. ASSUME NEW r \in Request, DeleteFound(r) PROVE Tidy'
  <2>1. PICK c \in Key : KeyOf(r) = c /\ lock[c] = None
    BY <1>15, <1>e DEF DeleteFound, Acquire, Deleting
  <2>2. /\ pc[r] \in {"wait", "rollback"} /\ pc'[r] = "unlink"
        /\ lock'[c] = r /\ meta[c] # None /\ snap'[r] = meta[c] /\ req' = req
        /\ \A s \in Request \ {r} : pc'[s] = pc[s] /\ snap'[s] = snap[s]
        /\ \A k \in Key \ {c} : lock'[k] = lock[k]
        /\ UNCHANGED <<meta, data, tmp>>
    BY <1>0, <1>15, <2>1 DEF DeleteFound, Acquire, Deleting, Faultless
  <2>3. tmp' = {s \in Request : pc'[s] \in {"stream", "rename"}}
    BY <1>0, <1>t, <1>15, <2>2
  <2>4. Settled(c)'
    BY <1>n, <2>1, <2>2 DEF Tidy, Settled, Files, Named, KeyOf, Holding
  <2>5. QED
    BY <2>1, <2>2, <2>3, <2>4, Holder
<1>16. ASSUME NEW r \in Request, Unlink(r) PROVE Tidy'
  <2>1. PICK c \in Key : KeyOf(r) = c /\ lock[c] = r
    BY <1>16, <1>h DEF Unlink, Holding
  <2>2. /\ pc[r] = "unlink" /\ pc'[r] = "remove" /\ snap' = snap /\ req' = req
        /\ \A s \in Request \ {r} : pc'[s] = pc[s] /\ snap'[s] = snap[s]
        /\ UNCHANGED <<lock, data, tmp>>
        /\ \A k \in Key \ {c} : meta'[k] = meta[k]
    BY <1>0, <1>16, <2>1 DEF Unlink
  <2>3. tmp' = {s \in Request : pc'[s] \in {"stream", "rename"}}
    BY <1>0, <1>t, <1>16, <2>2
  <2>4. Settled(c)'
    BY <1>n, <2>1, <2>2 DEF Tidy, Settled, Files, Named, KeyOf, Holding
  <2>5. QED
    BY <2>1, <2>2, <2>3, <2>4, Holder
<1>17. ASSUME NEW r \in Request, Remove(r) PROVE Tidy'
  <2>1. PICK c \in Key : KeyOf(r) = c /\ lock[c] = r
    BY <1>17, <1>h DEF Remove, Holding
  <2>2. /\ pc[r] = "remove" /\ pc'[r] \in {"ok", "failed"} /\ lock'[c] = None
        /\ \A s \in Request \ {r} : pc'[s] = pc[s] /\ snap'[s] = snap[s]
        /\ \A k \in Key \ {c} : lock'[k] = lock[k]
        /\ meta' = meta /\ tmp' = tmp
    BY <1>0, <1>h, <1>l, <1>17, <2>1 DEF Remove, Release, Deleted
  <2>3. meta[c] = None /\ snap[r] # None /\ Files(c) \subseteq {snap[r].file}
    BY <1>n, <2>1, <2>2 DEF Clean, Intact, Tidy, Settled
  <2>4. \A f \in Request : data'[f] = IF f = snap[r].file THEN None ELSE data[f]
    BY <1>17, <2>3 DEF Remove
  <2>5. KeyOf(snap[r].file) = c
    BY <2>1, <2>2, <2>3 DEF Clean, Intact
  <2>6. \A f \in Request : data[f] # None => data[f].dir = KeyOf(f)
    BY DEF Clean, Contents
  <2>7. Files(c)' = {}
    BY <2>3, <2>4 DEF Files
  <2>8. Settled(c)'
    BY <2>2, <2>3, <2>7 DEF Settled, Named
  <2>9. tmp' = {s \in Request : pc'[s] \in {"stream", "rename"}}
    BY <1>t, <2>2
  <2>10. QED
    BY <2>1, <2>2, <2>4, <2>5, <2>6, <2>8, <2>9, Holder
<1>18. ASSUME NEW r \in Request, FileFault(r) \/ Drop(r) PROVE FALSE
  BY <1>18 DEF Faultless, FileFault, RenameFails, InstallFails, CollectFails,
     CopyFails, UnlinkFails, RemoveFails, Drop
<1>19. ASSUME Crash PROVE FALSE
  BY <1>19 DEF Crash, Faultless
<1>20. CASE UNCHANGED vars
  BY <1>20 DEF vars, Tidy, Settled, Files, Named, KeyOf
<1>21. QED
  BY <1>1, <1>2, <1>3, <1>4, <1>5, <1>6, <1>7, <1>8, <1>9, <1>10, <1>11, <1>12,
     <1>13, <1>14, <1>15, <1>16, <1>17, <1>18, <1>19, <1>20
     DEF Next, Upload, Lock, Serve

\* Without faults, a key that nobody is writing has the data file its metadata
\* names and no other, and only uploads in progress are staged under tmp/.
THEOREM NothingLeaks ==
  ASSUME Faultless
  PROVE  Spec => []NoLeakAtRest
<1>1. Init => Tidy
  BY DEF Init, Tidy, Settled, Files, Named
<1>2. Reliable
  BY DEF Faultless, Reliable
<1>3. Init => Gathered
  BY DEF Init, Gathered
<1>4. TypeInv /\ Locked /\ Contents /\ Intact /\ Gathered /\ [Next]_vars => Gathered'
  BY <1>2, GatheredStep
<1>5. Clean /\ Clean' /\ Tidy /\ [Next]_vars => Tidy'
  BY TidyStep
<1>6. Spec => [](TypeInv /\ Locked /\ Contents /\ Intact)
  BY <1>2, IntactAlways
<1>7. TypeInv /\ Locked /\ Contents /\ Intact /\ Gathered <=> Clean
  BY DEF Clean
<1>8. Tidy => NoLeakAtRest
  BY DEF Tidy, Settled, Named, NoLeakAtRest
<1>9. QED
  BY <1>1, <1>3, <1>4, <1>5, <1>6, <1>7, <1>8, PTL DEF Spec
====
