---- MODULE AuthenticationProofs ----
(***************************************************************************)
(* Theorems about Credentials for any sets of requests, commands, access   *)
(* keys and secrets and any number of ticks, with the server restarted and *)
(* commands killed at any time; and those of UploadProofs carried over to  *)
(* Authentication, the specification that is model-checked.                *)
(***************************************************************************)
EXTENDS Authentication, UploadProofs

(***************************************************************************)
(* The invariants.                                                         *)
(***************************************************************************)
\* TypeOK and the types it leaves out.  Of signatures it matters only that they are
\* those of files.
FileSignatures == {Signature(f) : f \in {None} \cup File}
TypeInv ==
  /\ TypeOK
  /\ cache \in [map : Map, sig : FileSignatures \cup {None}]
  /\ pc \in [Request -> {"idle", "reload", "lookup"}]
  /\ ask \in [Request -> Ask \cup {None}]
  /\ sig \in [Request -> FileSignatures \cup {None}]
  /\ given \in [Request -> SUBSET (Secret \cup {None})]
  /\ step \in [Command -> {"idle", "read", "truncate", "write", "done"}]
  /\ change \in [Command -> Change \cup {None}]

\* What a request relies on, as long as no two states of the file look alike: the map
\* that is cached under the file's signature is that of the file, and a request that
\* will not reload the cache, or has, finds in it what the file gave its key since it
\* came, or the root's secret where that is nothing.
Overlaid(k, x) == IF x # None THEN x ELSE IF k = root.key THEN root.secret ELSE None
Current(r) == ask[r] # None /\ Parsed(file)[ask[r].key] \in given[r]
Cached(r) == ask[r] # None /\ \E x \in given[r] : cache.map[ask[r].key] = Overlaid(ask[r].key, x)
Fresh ==
  /\ Signature(file) \in seen
  /\ server \in {"load", "up"} => cache.sig \in seen
  /\ server = "up" /\ cache.sig = Signature(file) => cache.map = Overlay(file)
  /\ \A r \in Request :
       /\ pc[r] # "idle" => server = "up" /\ Current(r)
       /\ pc[r] = "reload" => sig[r] \in seen
       /\ pc[r] = "reload" /\ cache.sig = sig[r] => Cached(r)
       /\ pc[r] = "lookup" => Cached(r)
FreshInv == ~again => Fresh

\* Commands that do not overlap: one works at a time, and what it has read, or what is
\* in the file while none has emptied it, is what the commands so far amount to.
Serial ==
  /\ \A c, d \in Command : Working(c) /\ Working(d) => c = d
  /\ \A c \in Command : step[c] \in {"truncate", "write"} => copy[c] = wanted
  /\ (\A c \in Command : step[c] # "write") => Parsed(file) = wanted
SerialInv == /\ disturbed = {} => Serial
             /\ (\A c \in Command : step[c] = "idle") => wanted = NoKeys

\* The server's first write of the file, too, is alone.
StartAlone == server = "fill" /\ disturbed = {} => \A c \in Command : step[c] = "idle"

(***************************************************************************)
(* Operators.                                                              *)
(***************************************************************************)
LEMMA RootTyped ==
  ASSUME NEW g \in Given
  PROVE  RootOf(g) \in [key : AccessKey, secret : Secret]
BY GivenAssumption, EmptyAssumption DEF RootOf

LEMMA FileTyped ==
  ASSUME NEW f \in {None} \cup File, root \in [key : AccessKey, secret : Secret]
  PROVE  /\ Parsed(f) \in Map
         /\ Overlay(f) \in Map
         /\ Overlay(f)[root.key] # None
         /\ Signature(f) \in FileSignatures
<1>1. Parsed(f) \in Map
  BY NoneAssumption DEF Parsed, File, Map, NoKeys
<1>2. Overlay(f) \in Map
  BY <1>1 DEF Overlay, Map
<1>3. Overlay(f)[root.key] # None
  BY <1>1, NoneAssumption DEF Overlay, Map
<1>4. QED
  BY <1>1, <1>2, <1>3 DEF FileSignatures

LEMMA ChangedTyped ==
  ASSUME NEW map \in Map, NEW x \in Change
  PROVE  Changed(map, x) \in Map
<1>1. x.key \in AccessKey /\ (x.op = "add" => x.secret \in Secret)
  BY ChangeAssumption
<1>2. QED
  BY <1>1 DEF Changed, Map

LEMMA NoKeysTyped == NoKeys \in Map
BY DEF NoKeys, Map

\* The server's map, key by key.
LEMMA OverlayIs ==
  ASSUME NEW f, NEW k \in AccessKey
  PROVE  Overlay(f)[k] = Overlaid(k, Parsed(f)[k])
BY DEF Overlay, Overlaid

(***************************************************************************)
(* Types.                                                                  *)
(***************************************************************************)
\* What is written is a file, and is read as it was written.
LEMMA WriteTyped ==
  ASSUME TypeInv, NEW map \in Map \cup {Torn}, Write(map)
  PROVE  /\ file' \in File
         /\ Parsed(file') = IF map = Torn THEN NoKeys ELSE map
         /\ again' \in BOOLEAN
         /\ given' \in [Request -> SUBSET (Secret \cup {None})]
<1>1. file' = [map |-> map, tick |-> clock] /\ file' \in File
  BY DEF Write, TypeInv, TypeOK, File
<1>2. Parsed(file') = IF map = Torn THEN NoKeys ELSE map
  BY <1>1, NoneAssumption, TornAssumption DEF Parsed
<1>3. again' \in BOOLEAN
  BY DEF Write, TypeInv, TypeOK
<1>4. Parsed(file') \in Map
  BY <1>2, NoKeysTyped
<1>5. ASSUME NEW r \in Request, ask[r] # None PROVE Parsed(file')[ask[r].key] \in Secret \cup {None}
  BY <1>4, <1>5, AskAssumption DEF TypeInv, Map
<1>6. given' \in [Request -> SUBSET (Secret \cup {None})]
  BY <1>5 DEF Write, TypeInv
<1>7. QED
  BY <1>1, <1>2, <1>3, <1>6

LEMMA TypeStep ==
  ASSUME TypeInv, [Next]_vars
  PROVE  TypeInv'
<1>n. None \notin Secret /\ None \notin Ask /\ None \notin Change /\ NoKeys \in Map
  BY NoneAssumption, NoKeysTyped
<1>f. /\ file \in {None} \cup File
      /\ Parsed(file) \in Map /\ Overlay(file) \in Map
      /\ Overlay(file)[root.key] # None /\ Signature(file) \in FileSignatures
  BY FileTyped DEF TypeInv, TypeOK
<1> USE <1>n DEF TypeInv, TypeOK, Working, process, requests, commands, history
<1>1. CASE Tick
  BY <1>1, TicksAssumption DEF Tick
<1>2. CASE Open
  BY <1>2 DEF Open
<1>3. CASE Create \/ Fill
  BY <1>3, WriteTyped DEF Create, Fill
<1>4. CASE StatFirst
  BY <1>4, <1>f DEF StatFirst
<1>5. CASE LoadFirst
  BY <1>5, <1>f DEF LoadFirst
<1>6. CASE Restart
  BY <1>6, RootTyped DEF Restart
<1>7. ASSUME NEW r \in Request, Receive(r) PROVE TypeInv'
  <2>1. PICK a \in Ask : /\ ask' = [ask EXCEPT ![r] = a]
                         /\ given' = [given EXCEPT ![r] = IF again THEN {} ELSE {Parsed(file)[a.key]}]
    BY <1>7 DEF Receive
  <2>2. Parsed(file)[a.key] \in Secret \cup {None}
    BY <1>f, AskAssumption DEF Map
  <2>3. QED
    BY <1>7, <2>1, <2>2, <1>f DEF Receive
<1>8. ASSUME NEW r \in Request, Reload(r) PROVE TypeInv'
  <2>1. cache' \in [map : Map, sig : FileSignatures \cup {None}] /\ (server = "up" => cache'.map[root.key] # None)
    BY <1>8, <1>f DEF Reload
  <2>2. QED
    BY <1>8, <2>1 DEF Reload
<1>9. ASSUME NEW r \in Request, Lookup(r) PROVE TypeInv'
  BY <1>9 DEF Lookup
<1>10. ASSUME NEW c \in Command, Begin(c) PROVE TypeInv'
  BY <1>10 DEF Begin
<1>11. ASSUME NEW c \in Command, Read(c) PROVE TypeInv'
  BY <1>11, <1>f DEF Read
<1>12. ASSUME NEW c \in Command, Truncate(c) PROVE TypeInv'
  BY <1>12, WriteTyped DEF Truncate
<1>13. ASSUME NEW c \in Command, Save(c) PROVE TypeInv'
  <2>1. change[c] \in Change /\ copy[c] \in Map
    BY <1>13 DEF Save
  <2>2. Saved(copy[c], change[c]) \in Map /\ Changed(wanted, change[c]) \in Map
    BY <2>1, ChangedTyped DEF Saved
  <2>3. QED
    BY <1>13, <2>2, WriteTyped DEF Save, End
<1>14. ASSUME NEW c \in Command, Kill(c) PROVE TypeInv'
  BY <1>14 DEF Kill, End
<1>15. CASE UNCHANGED vars
  BY <1>15 DEF vars
<1>16. QED
  BY <1>1, <1>2, <1>3, <1>4, <1>5, <1>6, <1>7, <1>8, <1>9, <1>10, <1>11, <1>12, <1>13, <1>14, <1>15 DEF Next

LEMMA TypeInit == Init => TypeInv
<1>1. SUFFICES ASSUME Init PROVE TypeInv
  OBVIOUS
<1>2. file \in {None} \cup File
  <2>1. [map |-> NoKeys, tick |-> 0] \in File
    BY NoKeysTyped, TicksAssumption DEF File
  <2>2. QED
    BY <1>1, <2>1 DEF Init
<1>3. cache \in [map : Map, sig : FileSignatures \cup {None}] /\ cache.map \in Map
  BY <1>1, NoKeysTyped DEF Init
<1>4. TypeOK
  <2>1. clock \in 0 .. Ticks /\ server = "open" /\ root \in [key : AccessKey, secret : Secret]
    BY <1>1, TicksAssumption, RootTyped DEF Init
  <2>2. \A r \in Request : pc[r] = "idle" /\ ask[r] = None
    BY <1>1 DEF Init
  <2>3. \A c \in Command : change[c] = None /\ step[c] = "idle"
    BY <1>1 DEF Init
  <2>4. again \in BOOLEAN /\ disturbed = {}
    BY <1>1 DEF Init
  <2>5. copy \in [Command -> Map] /\ wanted \in Map
    BY <1>1, NoKeysTyped DEF Init
  <2>6. QED
    BY <1>2, <1>3, <2>1, <2>2, <2>3, <2>4, <2>5 DEF TypeOK, Working
<1>5. QED
  BY <1>1, <1>3, <1>4 DEF Init, TypeInv

\* Every variable keeps its type, and a server that is up knows its root key
\* (CredentialStore of src/auth.rs).
THEOREM TypeCorrect == Spec => []TypeOK
<1>1. TypeInv /\ [Next]_vars => TypeInv'
  BY TypeStep
<1>2. TypeInv => TypeOK
  BY DEF TypeInv
<1>3. QED
  BY <1>1, <1>2, TypeInit, PTL DEF Spec

(***************************************************************************)
(* The secrets that requests are checked against.                          *)
(***************************************************************************)
\* A file that is written while no two look alike has a new signature; the cache is
\* not filed under it, and what is in force for a request grows.
LEMMA WriteIsNew ==
  ASSUME TypeInv, FreshInv, NEW map \in Map \cup {Torn}, Write(map), ~again',
         UNCHANGED <<process, cache, pc, ask, sig>>
  PROVE  Fresh'
<1>1. Fresh /\ ~again /\ Signature(file') \notin seen
  BY DEF FreshInv, Write
<1>2. seen' = seen \cup {Signature(file')}
  BY DEF Write
<1>3. Signature(file)' = Signature(file') /\ Parsed(file)' = Parsed(file')
      /\ server' = server /\ root' = root
  BY DEF Signature, Parsed, process
<1>4. \A r \in Request : ask[r] # None => given'[r] = given[r] \cup {Parsed(file')[ask[r].key]}
  BY DEF Write
<1>5. ~(server = "up" /\ cache.sig = Signature(file'))
  BY <1>1 DEF Fresh
<1>6. ASSUME NEW r \in Request, pc[r] # "idle"
      PROVE  /\ server = "up" /\ Current(r)'
             /\ pc[r] = "reload" => sig[r] \in seen'
             /\ (pc[r] = "reload" /\ cache.sig = sig[r]) \/ pc[r] = "lookup" => Cached(r)'
  BY <1>1, <1>2, <1>3, <1>4, <1>6 DEF Fresh, Current, Cached, Overlaid
<1>7. (server \in {"load", "up"} => cache.sig \in seen) /\ Signature(file') \in seen'
  BY <1>1, <1>2 DEF Fresh
<1>8. QED
  BY <1>2, <1>3, <1>5, <1>6, <1>7 DEF Fresh

LEMMA FreshStep ==
  ASSUME TypeInv, FreshInv, [Next]_vars
  PROVE  FreshInv'
<1>1. SUFFICES ASSUME ~again' PROVE Fresh'
  BY DEF FreshInv
<1>f. CASE UNCHANGED <<file, process, cache, requests, seen, again, given>>
  BY <1>f, <1>1 DEF FreshInv, Fresh, Current, Cached, Overlaid, process, requests, Signature, Overlay, Parsed
<1>2. CASE Tick
  BY <1>2, <1>f DEF Tick, history
<1>3. CASE Open
  BY <1>3, <1>1 DEF Open, history, FreshInv, Fresh, requests, Signature
<1>4. CASE Create \/ Fill
  <2>1. /\ Fresh /\ (\E map : Write(map)) /\ UNCHANGED <<cache, pc, ask, sig>>
        /\ server \in {"create", "fill"} /\ server' \in {"fill", "stat"}
    BY <1>4, <1>1 DEF Create, Fill, requests, FreshInv, Write
  <2>2. \A r \in Request : pc[r] = "idle"
    BY <2>1 DEF Fresh
  <2>3. Signature(file)' \in seen'
    BY <2>1, <1>1 DEF Write, Signature
  <2>4. QED
    BY <2>1, <2>2, <2>3 DEF Fresh
<1>5. CASE StatFirst
  <2>1. Fresh /\ server = "stat" /\ server' = "load" /\ cache'.sig = Signature(file)
        /\ UNCHANGED <<file, pc, seen>>
    BY <1>5, <1>1 DEF StatFirst, FreshInv, requests, history, TypeInv
  <2>2. \A r \in Request : pc[r] = "idle"
    BY <2>1 DEF Fresh
  <2>3. QED
    BY <2>1, <2>2 DEF Fresh, Signature
<1>6. CASE LoadFirst
  <2>1. Fresh /\ server = "load" /\ server' = "up" /\ cache'.sig = cache.sig /\ cache'.map = Overlay(file)
        /\ UNCHANGED <<file, root, pc, seen>>
    BY <1>6, <1>1 DEF LoadFirst, FreshInv, requests, history, TypeInv
  <2>2. \A r \in Request : pc[r] = "idle"
    BY <2>1 DEF Fresh
  <2>3. QED
    BY <2>1, <2>2 DEF Fresh, Signature, Overlay, Parsed
<1>7. CASE Restart
  BY <1>7, <1>1 DEF Restart, FreshInv, Fresh, Signature
<1>8. ASSUME NEW r \in Request, Receive(r) PROVE Fresh'
  <2>1. PICK a \in Ask : /\ ask' = [ask EXCEPT ![r] = a]
                         /\ given' = [given EXCEPT ![r] = IF again THEN {} ELSE {Parsed(file)[a.key]}]
    BY <1>8 DEF Receive
  <2>2. /\ Fresh /\ ~again /\ server = "up" /\ UNCHANGED <<file, server, root, cache, seen>>
        /\ pc' = [pc EXCEPT ![r] = "reload"] /\ sig' = [sig EXCEPT ![r] = Signature(file)]
    BY <1>8, <1>1 DEF Receive, FreshInv, process
  <2>3. Signature(file)' = Signature(file) /\ Overlay(file)' = Overlay(file)
    BY <2>2 DEF Signature, Overlay, Parsed
  <2>4. Current(r)' /\ sig'[r] \in seen' /\ (cache'.sig = sig'[r] => Cached(r)') /\ pc'[r] = "reload"
    <3>1. /\ ask'[r] = a /\ a # None /\ a.key \in AccessKey /\ given'[r] = {Parsed(file)[a.key]}
          /\ pc'[r] = "reload" /\ sig'[r] = Signature(file) /\ Parsed(file)' = Parsed(file)
      BY <2>1, <2>2, AskAssumption, NoneAssumption DEF TypeInv, Parsed
    <3>2. cache.sig = Signature(file) => cache.map = Overlay(file)
      BY <2>2 DEF Fresh
    <3>3. cache.sig = Signature(file) => cache.map[a.key] = Overlaid(a.key, Parsed(file)[a.key])
      BY <3>1, <3>2, OverlayIs
    <3>4. Overlaid(a.key, Parsed(file)[a.key])' = Overlaid(a.key, Parsed(file)[a.key])
      BY <2>2 DEF Overlaid, Parsed
    <3>5. QED
      BY <2>2, <3>1, <3>3, <3>4 DEF Current, Cached, Fresh, Overlaid
  <2>5. ASSUME NEW q \in Request \ {r}
        PROVE  pc'[q] = pc[q] /\ sig'[q] = sig[q] /\ (Current(q)' <=> Current(q)) /\ (Cached(q)' <=> Cached(q))
    BY <2>1, <2>2, <2>3 DEF Current, Cached, Overlaid, Parsed, TypeInv
  <2>6. QED
    BY <2>2, <2>3, <2>4, <2>5 DEF Fresh
<1>9. ASSUME NEW r \in Request, Reload(r) PROVE Fresh'
  <2>1. /\ Fresh /\ pc[r] = "reload" /\ pc' = [pc EXCEPT ![r] = "lookup"]
        /\ sig' = [sig EXCEPT ![r] = None]
        /\ UNCHANGED <<file, server, root, ask, seen, given>>
    BY <1>9, <1>1 DEF Reload, FreshInv, history, process
  <2>2. Signature(file)' = Signature(file) /\ Overlay(file)' = Overlay(file)
    BY <2>1 DEF Signature, Overlay, Parsed
  <2>3. \A q \in Request : Current(q)' <=> Current(q)
    BY <2>1, <2>2 DEF Current, Parsed
  <2>4. CASE sig[r] = cache.sig
    <3>1. cache' = cache /\ \A q \in Request : Cached(q)' <=> Cached(q)
      BY <1>9, <2>1, <2>4 DEF Reload, Cached, Overlaid
    <3>2. QED
      BY <2>1, <2>2, <2>3, <2>4, <3>1 DEF Fresh, TypeInv
  <2>5. CASE sig[r] # cache.sig
    <3>1. cache' = [map |-> Overlay(file), sig |-> sig[r]]
      BY <1>9, <2>5 DEF Reload
    <3>2. \A q \in Request : Current(q) => Cached(q)'
      <4>1. SUFFICES ASSUME NEW q \in Request, Current(q) PROVE Cached(q)'
        OBVIOUS
      <4>2. ask[q] # None /\ ask[q].key \in AccessKey
        BY <4>1, AskAssumption DEF Current, TypeInv
      <4>3. Overlay(file)[ask[q].key] = Overlaid(ask[q].key, Parsed(file)[ask[q].key])
        BY <4>2, OverlayIs
      <4>4. QED
        BY <2>1, <3>1, <4>1, <4>2, <4>3 DEF Current, Cached, Overlaid
    <3>3. QED
      BY <2>1, <2>2, <2>3, <3>1, <3>2 DEF Fresh, TypeInv
  <2>6. QED
    BY <2>4, <2>5
<1>10. ASSUME NEW r \in Request, Lookup(r) PROVE Fresh'
  <2>1. /\ Fresh /\ UNCHANGED <<file, server, root, cache, sig, seen>> /\ pc' = [pc EXCEPT ![r] = "idle"]
        /\ ask' = [ask EXCEPT ![r] = None] /\ given' = [given EXCEPT ![r] = {}]
    BY <1>10, <1>1 DEF Lookup, FreshInv, process
  <2>2. Signature(file)' = Signature(file) /\ Overlay(file)' = Overlay(file) /\ pc'[r] = "idle"
    BY <2>1 DEF Signature, Overlay, Parsed, TypeInv
  <2>3. ASSUME NEW q \in Request \ {r}
        PROVE  pc'[q] = pc[q] /\ sig'[q] = sig[q] /\ (Current(q)' <=> Current(q)) /\ (Cached(q)' <=> Cached(q))
    BY <2>1, <2>2 DEF Current, Cached, Overlaid, Parsed, TypeInv
  <2>4. QED
    BY <2>1, <2>2, <2>3 DEF Fresh
<1>11. ASSUME NEW c \in Command, Begin(c) \/ Read(c) \/ Kill(c) PROVE Fresh'
  BY <1>11, <1>f DEF Begin, Read, Kill, requests, history
<1>12. ASSUME NEW c \in Command, Truncate(c) PROVE Fresh'
  BY <1>12, <1>1, WriteIsNew DEF Truncate, requests
<1>13. ASSUME NEW c \in Command, Save(c) PROVE Fresh'
  <2>1. Saved(copy[c], change[c]) \in Map
    BY <1>13, ChangedTyped DEF Save, Saved, TypeInv, TypeOK, Working
  <2>2. QED
    BY <1>13, <1>1, <2>1, WriteIsNew DEF Save, requests
<1>14. CASE UNCHANGED vars
  BY <1>14, <1>f DEF vars, process, requests
<1>15. QED
  BY <1>2, <1>3, <1>4, <1>5, <1>6, <1>7, <1>8, <1>9, <1>10, <1>11, <1>12, <1>13, <1>14 DEF Next

LEMMA FreshInit == Init => FreshInv
BY DEF Init, FreshInv, Fresh

LEMMA FreshAlways == Spec => [](TypeInv /\ FreshInv)
<1>1. TypeInv /\ FreshInv /\ [Next]_vars => (TypeInv /\ FreshInv)'
  BY TypeStep, FreshStep
<1>2. QED
  BY <1>1, TypeInit, FreshInit, PTL DEF Spec

\* What is cached for a request is one of what its key was meant to have, unless the
\* file has given the root key another secret.
LEMMA CachedIsInForce ==
  ASSUME TypeInv, NEW r \in Request, Cached(r), ~Overridden(r)
  PROVE  cache.map[ask[r].key] \in InForce(r)
<1>1. PICK x \in given[r] : cache.map[ask[r].key] = Overlaid(ask[r].key, x)
  BY DEF Cached
<1>2. CASE ask[r].key = root.key
  BY <1>1, <1>2 DEF Overridden, InForce, Overlaid
<1>3. CASE ask[r].key # root.key
  BY <1>1, <1>3 DEF InForce, Overlaid
<1>4. QED
  BY <1>2, <1>3

\* A request is never accepted with a secret that neither the root nor the file gave its
\* key since the request came, however many commands rewrite the file, requests share
\* the cache and restarts there are (reload_if_changed and lookup of src/auth.rs); a
\* file that has looked the same twice is the exception, and a root key that the file
\* gives another secret.
THEOREM AcceptedOnlyInForce == Spec => []AcceptedSecretWasInForce
<1>1. TypeInv /\ FreshInv => AcceptedSecretWasInForce
  <2>1. SUFFICES ASSUME TypeInv, FreshInv, ~again, NEW r \in Request, ~Overridden(r),
                        pc[r] = "lookup", Answer(r) = "accepted"
                 PROVE  ask[r].secret \in InForce(r)
    BY DEF AcceptedSecretWasInForce
  <2>2. cache.map[ask[r].key] \in InForce(r)
    BY <2>1, CachedIsInForce DEF FreshInv, Fresh
  <2>3. cache.map[ask[r].key] = ask[r].secret
    BY <2>1 DEF Answer
  <2>4. QED
    BY <2>2, <2>3
<1>2. QED
  BY <1>1, FreshAlways, PTL

\* A request with the secret that its key has had all the time is accepted, and one with
\* the root's own whatever becomes of the file (the same code and exceptions).
THEOREM InForceIsAccepted == Spec => []SecretInForceIsAccepted
<1>1. TypeInv /\ FreshInv => SecretInForceIsAccepted
  <2>1. SUFFICES ASSUME TypeInv, FreshInv, ~again, NEW r \in Request, ~Overridden(r),
                        pc[r] = "lookup", InForce(r) = {ask[r].secret}
                 PROVE  Answer(r) = "accepted"
    BY DEF SecretInForceIsAccepted
  <2>2. cache.map[ask[r].key] = ask[r].secret
    BY <2>1, CachedIsInForce DEF FreshInv, Fresh
  <2>3. ask[r].secret # None
    BY <2>1, AskAssumption, NoneAssumption DEF TypeInv, TypeOK
  <2>4. QED
    BY <2>2, <2>3 DEF Answer
<1>2. QED
  BY <1>1, FreshAlways, PTL

(***************************************************************************)
(* The commands.                                                           *)
(***************************************************************************)
LEMMA SerialInit == Init => SerialInv
<1>1. SUFFICES ASSUME Init PROVE SerialInv
  OBVIOUS
<1>2. NoKeys # Torn /\ wanted = NoKeys /\ (file = None \/ file.map = NoKeys)
  BY <1>1, NoKeysTyped, TornAssumption DEF Init
<1>3. Parsed(file) = NoKeys
  BY <1>2 DEF Parsed
<1>4. \A c \in Command : step[c] = "idle"
  BY <1>1 DEF Init
<1>5. QED
  BY <1>2, <1>3, <1>4 DEF SerialInv, Serial, Working

LEMMA AloneStep ==
  ASSUME StartAlone, [Next]_vars
  PROVE  StartAlone'
<1>1. CASE Create
  BY <1>1 DEF Create, commands, StartAlone
<1>2. CASE server' # "fill"
  BY <1>2 DEF StartAlone
<1>3. ASSUME NEW c \in Command, Begin(c) PROVE StartAlone'
  BY <1>3 DEF Begin, process, StartAlone
<1>4. ASSUME NEW c \in Command, Read(c) \/ Truncate(c) \/ Save(c) \/ Kill(c) PROVE StartAlone'
  BY <1>4 DEF Read, Truncate, Save, Kill, Working, process, history, StartAlone
<1>5. CASE UNCHANGED <<server, step, disturbed>>
  BY <1>5 DEF StartAlone
<1>6. CASE Tick \/ UNCHANGED vars
  BY <1>5, <1>6 DEF Tick, vars, process, commands, history
<1>7. ASSUME NEW r \in Request, Receive(r) \/ Reload(r) \/ Lookup(r) PROVE StartAlone'
  BY <1>5, <1>7 DEF Receive, Reload, Lookup, process, commands, history
<1>8. QED
  BY <1>1, <1>2, <1>3, <1>4, <1>6, <1>7 DEF Next, Open, Fill, StatFirst, LoadFirst, Restart

LEMMA SerialStep ==
  ASSUME TypeInv, StartAlone, SerialInv, [Next]_vars
  PROVE  SerialInv'
<1>f. CASE UNCHANGED <<file, commands, disturbed, wanted>>
  BY <1>f DEF SerialInv, Serial, Working, commands, Parsed
<1>1. CASE Tick \/ Open \/ StatFirst \/ LoadFirst \/ Restart
  BY <1>1, <1>f DEF Tick, Open, StatFirst, LoadFirst, Restart, history
<1>2. CASE Create \/ Fill
  <2>1. Parsed(file') = NoKeys /\ Parsed(file)' = Parsed(file')
    <3>1. NoKeys # Torn
      BY NoKeysTyped, TornAssumption
    <3>2. QED
      BY <1>2, <3>1, NoKeysTyped, WriteTyped DEF Create, Fill, Parsed
  <2>2. wanted' = wanted /\ step' = step /\ copy' = copy
    BY <1>2 DEF Create, Fill, commands
  <2>3. disturbed' = {} => disturbed = {} /\ \A c \in Command : step[c] = "idle"
    BY <1>2 DEF Create, Fill, StartAlone
  <2>4. QED
    BY <2>1, <2>2, <2>3 DEF SerialInv, Serial, Working
<1>3. ASSUME NEW r \in Request, Receive(r) \/ Reload(r) \/ Lookup(r) PROVE SerialInv'
  BY <1>3, <1>f DEF Receive, Reload, Lookup, history
<1>4. ASSUME NEW c \in Command, Begin(c) PROVE SerialInv'
  <2>1. /\ step' = [step EXCEPT ![c] = "read"] /\ UNCHANGED <<file, copy, wanted>>
        /\ disturbed' = {} => disturbed = {} /\ \A d \in Command : ~Working(d)
    BY <1>4 DEF Begin
  <2>2. step'[c] = "read" /\ \A d \in Command \ {c} : step'[d] = step[d]
    BY <2>1 DEF TypeInv
  <2>3. Parsed(file)' = Parsed(file)
    BY <2>1 DEF Parsed
  <2>4. disturbed' = {} => Serial'
    BY <2>1, <2>2, <2>3 DEF SerialInv, Serial, Working
  <2>5. QED
    BY <2>2, <2>4 DEF SerialInv
<1>5. ASSUME NEW c \in Command, Read(c) PROVE SerialInv'
  <2>1. /\ step[c] = "read" /\ step' = [step EXCEPT ![c] = "truncate"]
        /\ copy' = [copy EXCEPT ![c] = Parsed(file)] /\ UNCHANGED <<file, wanted, disturbed>>
    BY <1>5 DEF Read, history
  <2>2. /\ step'[c] = "truncate" /\ copy'[c] = Parsed(file)
        /\ \A d \in Command \ {c} : step'[d] = step[d] /\ copy'[d] = copy[d]
    BY <2>1 DEF TypeInv, TypeOK
  <2>3. Parsed(file)' = Parsed(file)
    BY <2>1 DEF Parsed
  <2>4. disturbed = {} => Serial'
    BY <2>1, <2>2, <2>3 DEF SerialInv, Serial, Working
  <2>5. QED
    BY <2>1, <2>2, <2>4 DEF SerialInv
<1>6. ASSUME NEW c \in Command, Truncate(c) PROVE SerialInv'
  <2>1. /\ step[c] = "truncate" /\ step' = [step EXCEPT ![c] = "write"]
        /\ UNCHANGED <<copy, wanted, disturbed>>
    BY <1>6 DEF Truncate
  <2>2. step'[c] = "write" /\ \A d \in Command \ {c} : step'[d] = step[d]
    BY <2>1 DEF TypeInv
  <2>3. disturbed = {} => Serial'
    BY <2>1, <2>2 DEF SerialInv, Serial, Working
  <2>4. QED
    BY <2>1, <2>2, <2>3 DEF SerialInv
<1>7. ASSUME NEW c \in Command, Save(c) PROVE SerialInv'
  <2>1. /\ step[c] = "write" /\ step' = [step EXCEPT ![c] = "done"]
        /\ copy' = [copy EXCEPT ![c] = NoKeys]
        /\ wanted' = Changed(wanted, change[c]) /\ UNCHANGED disturbed
        /\ Write(Changed(copy[c], change[c]))
    BY <1>7 DEF Save, End, Saved
  <2>2. /\ step'[c] = "done"
        /\ \A d \in Command \ {c} : step'[d] = step[d] /\ copy'[d] = copy[d]
    BY <2>1 DEF TypeInv, TypeOK
  <2>3. Parsed(file)' = Changed(copy[c], change[c])
    <3>1. Changed(copy[c], change[c]) \in Map
      BY <2>1, ChangedTyped DEF TypeInv, TypeOK, Working
    <3>2. Parsed(file') = Changed(copy[c], change[c])
      BY <2>1, <3>1, WriteTyped, TornAssumption
    <3>3. QED
      BY <3>2 DEF Parsed
  <2>4. disturbed = {} => Serial'
    BY <2>1, <2>2, <2>3 DEF SerialInv, Serial, Working
  <2>5. QED
    BY <2>1, <2>2, <2>4 DEF SerialInv
<1>8. ASSUME NEW c \in Command, Kill(c) PROVE SerialInv'
  BY <1>8 DEF Kill, End, SerialInv, TypeInv
<1>9. CASE UNCHANGED vars
  BY <1>9, <1>f DEF vars, commands
<1>10. QED
  BY <1>1, <1>2, <1>3, <1>4, <1>5, <1>6, <1>7, <1>8, <1>9 DEF Next

\* Commands that ran one after the other have all taken effect, whatever the server
\* did meanwhile (add_key and remove_key, src/auth.rs:82-101).
THEOREM CommandsAreKept == Spec => []CommandsTakeEffect
<1>1. Init => TypeInv /\ StartAlone /\ SerialInv
  <2>1. Init => StartAlone
    BY DEF Init, StartAlone
  <2>2. QED
    BY <2>1, TypeInit, SerialInit
<1>2. TypeInv /\ StartAlone /\ SerialInv /\ [Next]_vars => (TypeInv /\ StartAlone /\ SerialInv)'
  BY TypeStep, AloneStep, SerialStep
<1>3. SerialInv => CommandsTakeEffect
  BY DEF SerialInv, Serial, CommandsTakeEffect, Settled, Working
<1>4. QED
  BY <1>1, <1>2, <1>3, PTL DEF Spec

(***************************************************************************)
(* Keys and uploads side by side.                                          *)
(***************************************************************************)
LEMMA NoUploadInv == NoUpload => UploadInv
<1> SUFFICES ASSUME NoUpload PROVE UploadInv
  OBVIOUS
<1>1. /\ sent = <<>> /\ header = "absent" /\ md5 = FALSE /\ wire = <<>> /\ received = <<>>
      /\ decoder = NewDecoder /\ stored = <<>> /\ answer = "InvalidArgument" /\ faulty = FALSE
  BY DEF NoUpload
<1>2. sent \in Chunks /\ <<>> \in Seq(Tokens(sent))
  BY <1>1 DEF Chunks
<1>3. Body(sent, header) = <<>>
  BY <1>1, <1>2, BodyIs DEF IsFramed
<1>4. received \o wire = <<>>
  BY <1>1
<1>5. header \in Headers /\ Mode(header) = "InvalidArgument"
  BY <1>1 DEF Headers, Mode
<1>6. ~NewDecoder.error /\ NewDecoder.out = <<>>
  BY DEF NewDecoder
<1>7. StreamInv
  BY <1>1, <1>2, <1>3, <1>4, <1>5, <1>6 DEF StreamInv
<1>8. AnswerInv
  BY <1>1, <1>5, <1>6 DEF AnswerInv, Answers
<1>9. QED
  BY <1>7, <1>8 DEF UploadInv

LEMMA UploadAlongside == AuthSpec => []UploadInv
<1>1. AuthInit => UploadInv
  BY NoUploadInv, UploadInitInv DEF AuthInit
<1>2. UploadInv /\ [AuthNext]_<<scene, vars, upload>> => UploadInv'
  <2> SUFFICES ASSUME UploadInv, [AuthNext]_<<scene, vars, upload>> PROVE UploadInv'
    OBVIOUS
  <2>1. [UploadNext]_upload
    BY DEF AuthNext
  <2>2. QED
    BY <2>1, UploadStepInv
<1>3. QED
  BY <1>1, <1>2, PTL DEF AuthSpec

\* Whatever becomes of uploads, the credentials do only what Credentials says.
THEOREM KeysAlongside == AuthSpec => Spec
<1>1. AuthInit => Init
  BY DEF AuthInit
<1>2. [AuthNext]_<<scene, vars, upload>> => [Next]_vars
  BY DEF AuthNext
<1>3. QED
  BY <1>1, <1>2, PTL DEF AuthSpec, Spec

\* The credentials, the upload and its decoder are of their types.
THEOREM BothTyped == AuthSpec => []AuthTypeOK
<1> DEFINE Scene == scene \in {"keys", "upload"}
<1>1. AuthInit => Scene
  BY DEF AuthInit
<1>2. Scene /\ [AuthNext]_<<scene, vars, upload>> => Scene'
  BY DEF AuthNext
<1>3. UploadInv => UploadTypeOK
  BY UploadInvTypes
<1>4. Scene /\ TypeOK /\ UploadTypeOK => AuthTypeOK
  BY DEF AuthTypeOK
<1> HIDE DEF Scene
<1>5. AuthSpec => []Scene
  BY <1>1, <1>2, PTL DEF AuthSpec
<1>6. QED
  BY <1>3, <1>4, <1>5, KeysAlongside, TypeCorrect, UploadAlongside, PTL

\* What UploadProofs says of an upload holds beside the credentials too.
THEOREM UploadsAlongside ==
  AuthSpec => [](SignedUploadsAreWhole /\ VerifiedIsPrefix /\ HonestUploadsSucceed)
<1>1. UploadInv => SignedUploadsAreWhole /\ VerifiedIsPrefix /\ HonestUploadsSucceed
  BY UploadInvWhole, UploadInvPrefix, UploadInvHonest
<1>2. QED
  BY <1>1, UploadAlongside, PTL
====
