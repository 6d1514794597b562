---- MODULE AtomicStore ----
(***************************************************************************)
(* What the object store promises to its clients, without files or locks:  *)
(* a map from keys to contents on which every request takes effect at one  *)
(* moment.  A request that fails has had no effect; a request cut short by *)
(* the death of the server has had its whole effect or none; a copy reads  *)
(* its source at one moment and writes its target at a later one.  The     *)
(* refinement mapping is in module ObjectStore.                            *)
(***************************************************************************)
CONSTANTS Request,   \* client requests, each sent once
          Key,       \* object keys
          Content,   \* object contents
          None       \* absence of any of the above

VARIABLES store,     \* what each key holds
          stage,     \* how far each request is
          call,      \* what each request asks for
          held,      \* the content a get or a copy has read
          answer     \* the content a get has returned

vars == <<store, stage, call, held, answer>>

Ended == {"ok", "nokey", "failed", "gone"}

Calls == [op : {"put", "delete", "copy", "get"},
          key : Key, src : Key \cup {None}, body : Content \cup {None}]

Init == /\ store = [k \in Key |-> None]
        /\ stage = [r \in Request |-> "idle"]
        /\ call = [r \in Request |-> None]
        /\ held = [r \in Request |-> None]
        /\ answer = [r \in Request |-> None]

Move(r, from, to) == stage[r] \in from /\ stage' = [stage EXCEPT ![r] = to]

Begin(r) == /\ Move(r, {"idle"}, "begun")
            /\ \E c \in Calls : call' = [call EXCEPT ![r] = c]
            /\ UNCHANGED <<store, held, answer>>

Write(r, value) == /\ store' = [store EXCEPT ![call[r].key] = value]
                   /\ UNCHANGED <<call, held, answer>>

ApplyPut(r) == /\ Move(r, {"begun"}, "applied") /\ call[r].op = "put"
               /\ Write(r, call[r].body)

\* Deleting a key that holds nothing succeeds.
ApplyDelete(r) == /\ \/ Move(r, {"begun"}, "applied")
                     \/ Move(r, {"begun"}, "ok") /\ store[call[r].key] = None
                  /\ call[r].op = "delete"
                  /\ Write(r, None)

ReadKey(c) == IF c.op = "copy" THEN c.src ELSE c.key

Read(r) == /\ Move(r, {"begun"}, "read") /\ call[r].op \in {"get", "copy"}
           /\ store[ReadKey(call[r])] # None
           /\ held' = [held EXCEPT ![r] = store[ReadKey(call[r])]]
           /\ UNCHANGED <<store, call, answer>>

NoSuchKey(r) == /\ Move(r, {"begun"}, "nokey") /\ call[r].op \in {"get", "copy"}
                /\ store[ReadKey(call[r])] = None
                /\ UNCHANGED <<store, call, held, answer>>

ApplyCopy(r) == /\ Move(r, {"read"}, "applied") /\ call[r].op = "copy"
                /\ Write(r, held[r])

\* A get may answer only with the content it read.
Answer(r) == /\ Move(r, {"read"}, "ok") /\ call[r].op = "get"
             /\ answer' = [answer EXCEPT ![r] = held[r]]
             /\ UNCHANGED <<store, call, held>>

Succeed(r) == /\ Move(r, {"applied"}, "ok")
              /\ UNCHANGED <<store, call, held, answer>>

\* Only a request that has not taken effect may fail.
Fail(r) == /\ Move(r, {"begun", "read"}, "failed")
           /\ UNCHANGED <<store, call, held, answer>>

Crash == /\ stage' = [r \in Request |->
                        IF stage[r] \in {"idle"} \cup Ended THEN stage[r] ELSE "gone"]
         /\ UNCHANGED <<store, call, held, answer>>

Next == \/ \E r \in Request : \/ Begin(r) \/ ApplyPut(r) \/ ApplyDelete(r)
                              \/ Read(r) \/ NoSuchKey(r) \/ ApplyCopy(r)
                              \/ Answer(r) \/ Succeed(r) \/ Fail(r)
        \/ Crash

Spec == Init /\ [][Next]_vars
====
