---- MODULE Credentials ----
(***************************************************************************)
(* The access keys of src/auth.rs: CredentialStore in the server, and the  *)
(* commands of src/main.rs that add and remove keys from other processes.  *)
(*                                                                         *)
(* They share nothing but keys.json.  The server keeps what it read last   *)
(* and the signature the file had then, its time of modification and its   *)
(* length.  A command reads the file, changes the map and writes the file  *)
(* in place, which empties it first.  Secrets are of one length, so the    *)
(* length of a file is that of its map.  What a request's signature is     *)
(* computed over is left out: it is right if the secret is.                *)
(***************************************************************************)
EXTENDS Integers, FiniteSets

CONSTANTS Request,    \* client connections, each with a request at a time
          Command,    \* commands that change keys, each run once
          AccessKey,
          Secret,
          Given,      \* the keys and secrets that the server may be started with
          Empty,      \* the empty string
          Ask,        \* what a request may present: a key, and the secret that signed it
          Change,     \* what a command may be asked: to add a key, or to remove one
          Ticks,      \* bound: ticks of the file system's clock
          Torn,       \* what a file holds that was emptied and is not yet written
          None        \* absence of a file, a secret, a signature, a request

Map == [AccessKey -> Secret \cup {None}]
NoKeys == [k \in AccessKey |-> None]
File == [map : Map \cup {Torn}, tick : 0 .. Ticks]
ASSUME EmptyAssumption == Empty \in AccessKey \cap Secret
ASSUME GivenAssumption == Given \subseteq [key : AccessKey \cup {None}, secret : Secret \cup {None}]
ASSUME AskAssumption == Ask \subseteq [key : AccessKey, secret : Secret]
ASSUME ChangeAssumption == Change \subseteq [op : {"add"}, key : AccessKey, secret : Secret]
                                            \cup [op : {"remove"}, key : AccessKey]
ASSUME TicksAssumption == Ticks \in Nat
ASSUME TornAssumption == Torn \notin Map
ASSUME NoneAssumption == None \notin Secret \cup File \cup Ask \cup Change

VARIABLES file,       \* keys.json, None if there is none
          clock,      \* the time that a write gives the file
          server,     \* "open", "create", "fill", "stat", "load" or "up"
          root,       \* the key and secret of this life of the server
          cache,      \* the map last read and the signature it was filed under
          pc,         \* the step each request is about to take
          ask,        \* what each request presents
          sig,        \* the signature its stat has returned
          step,       \* the step each command is about to take
          change,     \* what each command is asked to do
          copy,       \* the map it has read
          seen,       \* history: signatures the file has had, as long as they differ
          again,      \* history: it has had one of them twice
          given,      \* history: what the file gave its key since each request came
          disturbed,  \* history: "overlap" of commands, "kill" of one, "start" of the server
          wanted      \* history: what the commands so far amount to

vars == <<file, clock, server, root, cache, pc, ask, sig, step, change, copy, seen, again, given,
          disturbed, wanted>>
process == <<server, root>>
requests == <<pc, ask, sig>>
commands == <<step, change, copy>>
history == <<seen, again, given, disturbed, wanted>>

\* Modification time and length, as metadata() returns them.
Length(m) == IF m = Torn THEN 0 ELSE 1 + Cardinality({k \in AccessKey : m[k] # None})
Signature(f) == IF f = None THEN None ELSE <<f.tick, Length(f.map)>>

\* What the server makes of a file: an unreadable one has no keys.
Parsed(f) == IF f = None \/ f.map = Torn THEN NoKeys ELSE f.map

\* Without both a key and a secret, or with an empty one, the server is started with the
\* empty key and secret.
RootOf(g) == IF g.key \in {None, Empty} \/ g.secret \in {None, Empty}
             THEN [key |-> Empty, secret |-> Empty] ELSE g

\* Mutant: the root key is only used where there is no file.
OverlayFileOnly(f) == IF f = None THEN [NoKeys EXCEPT ![root.key] = root.secret] ELSE Parsed(f)

\* The root key goes in first, the keys of the file after it and over it.
Overlay(f) == [k \in AccessKey |-> IF Parsed(f)[k] # None THEN Parsed(f)[k]
                                   ELSE IF k = root.key THEN root.secret ELSE None]

Working(c) == step[c] \in {"read", "truncate", "write"}

Init == /\ file \in {None, [map |-> NoKeys, tick |-> 0]}
        /\ clock = 0
        /\ server = "open"
        /\ root \in {RootOf(g) : g \in Given}
        /\ cache = [map |-> NoKeys, sig |-> None]
        /\ pc = [r \in Request |-> "idle"]
        /\ ask = [r \in Request |-> None]
        /\ sig = [r \in Request |-> None]
        /\ step = [c \in Command |-> "idle"]
        /\ change = [c \in Command |-> None]
        /\ copy = [c \in Command |-> NoKeys]
        /\ seen = {Signature(file)}
        /\ again = FALSE
        /\ given = [r \in Request |-> {}]
        /\ disturbed = {}
        /\ wanted = NoKeys

Tick == /\ clock < Ticks
        /\ clock' = clock + 1
        /\ UNCHANGED <<file, process, cache, requests, commands, history>>

\* keys.json gets new contents, now.
Write(map) == /\ file' = [map |-> map, tick |-> clock]
              /\ again' = (again \/ Signature(file') \in seen)
              /\ seen' = IF again' THEN {} ELSE seen \cup {Signature(file')}
              /\ given' = [r \in Request |-> IF ask[r] = None \/ again' THEN {}
                                          ELSE given[r] \cup {Parsed(file')[ask[r].key]}]

(***************************************************************************)
(* The start of the server: Storage::open, then CredentialStore::new.      *)
(***************************************************************************)
Open == /\ server = "open"
        /\ server' = IF file = None THEN "create" ELSE "stat"
        /\ UNCHANGED <<file, clock, root, cache, requests, commands, history>>

Create == /\ server = "create"
          /\ Write(Torn)
          /\ server' = "fill"
          /\ disturbed' = disturbed \cup (IF \E c \in Command : step[c] # "idle" THEN {"start"} ELSE {})
          /\ UNCHANGED <<clock, root, cache, requests, commands, wanted>>

Fill == /\ server = "fill"
        /\ Write(NoKeys)
        /\ server' = "stat"
        /\ UNCHANGED <<clock, root, cache, requests, commands, disturbed, wanted>>

StatFirst == /\ server = "stat"
             /\ cache' = [cache EXCEPT !.sig = Signature(file)]
             /\ server' = "load"
             /\ UNCHANGED <<file, clock, root, requests, commands, history>>

LoadFirst == /\ server = "load"
             /\ cache' = [cache EXCEPT !.map = Overlay(file)]
             /\ server' = "up"
             /\ UNCHANGED <<file, clock, root, requests, commands, history>>

\* The process is killed, while it starts or later, and started again: with the same
\* key and secret or with others.
Restart == /\ server # "open"
           /\ server' = "open"
           /\ root' \in {RootOf(g) : g \in Given}
           /\ cache' = [map |-> NoKeys, sig |-> None]
           /\ pc' = [r \in Request |-> "idle"]
           /\ ask' = [r \in Request |-> None]
           /\ sig' = [r \in Request |-> None]
           /\ given' = [r \in Request |-> {}]
           /\ UNCHANGED <<file, clock, commands, seen, again, disturbed, wanted>>

(***************************************************************************)
(* A request: verify_request up to the look-up of its key's secret.        *)
(***************************************************************************)
\* The file is looked at before the lock of the cache is taken.
Receive(r) ==
  /\ server = "up" /\ pc[r] = "idle"
  /\ pc' = [pc EXCEPT ![r] = "reload"]
  /\ sig' = [sig EXCEPT ![r] = Signature(file)]
  /\ \E a \in Ask : /\ ask' = [ask EXCEPT ![r] = a]
                    /\ given' = [given EXCEPT ![r] = IF again THEN {} ELSE {Parsed(file)[a.key]}]
  /\ UNCHANGED <<file, clock, process, cache, commands, seen, again, disturbed, wanted>>

\* Mutant: only the time is compared.
ReloadIfLater(r) ==
  /\ pc[r] = "reload"
  /\ cache' = IF sig[r] # None /\ cache.sig # None /\ sig[r][1] = cache.sig[1] THEN cache
              ELSE [map |-> Overlay(file), sig |-> sig[r]]
  /\ pc' = [pc EXCEPT ![r] = "lookup"]
  /\ sig' = [sig EXCEPT ![r] = None]
  /\ UNCHANGED <<file, clock, process, ask, commands, history>>

\* Mutant: only the length is compared.
ReloadIfLonger(r) ==
  /\ pc[r] = "reload"
  /\ cache' = IF sig[r] # None /\ cache.sig # None /\ sig[r][2] = cache.sig[2] THEN cache
              ELSE [map |-> Overlay(file), sig |-> sig[r]]
  /\ pc' = [pc EXCEPT ![r] = "lookup"]
  /\ sig' = [sig EXCEPT ![r] = None]
  /\ UNCHANGED <<file, clock, process, ask, commands, history>>

Reload(r) == /\ pc[r] = "reload"
             /\ cache' = IF sig[r] = cache.sig THEN cache
                         ELSE [map |-> Overlay(file), sig |-> sig[r]]
             /\ pc' = [pc EXCEPT ![r] = "lookup"]
             /\ sig' = [sig EXCEPT ![r] = None]
             /\ UNCHANGED <<file, clock, process, ask, commands, history>>

\* The answer of lookup and of the comparison of signatures.
Answer(r) == CASE cache.map[ask[r].key] = None -> "InvalidAccessKeyId"
               [] cache.map[ask[r].key] = ask[r].secret -> "accepted"
               [] OTHER -> "SignatureDoesNotMatch"

\* The request goes on, or is answered; either way it is done with the credentials.
Lookup(r) == /\ pc[r] = "lookup"
             /\ pc' = [pc EXCEPT ![r] = "idle"]
             /\ ask' = [ask EXCEPT ![r] = None]
             /\ given' = [given EXCEPT ![r] = {}]
             /\ UNCHANGED <<file, clock, process, cache, sig, commands, seen, again, disturbed, wanted>>

(***************************************************************************)
(* add_key and remove_key, each in a process of its own.                   *)
(***************************************************************************)
Begin(c) == /\ step[c] = "idle"
            /\ \E x \in Change : change' = [change EXCEPT ![c] = x]
            /\ step' = [step EXCEPT ![c] = "read"]
            /\ disturbed' = disturbed \cup (IF \E d \in Command : Working(d) THEN {"overlap"} ELSE {})
                                    \cup (IF server \in {"create", "fill"} THEN {"start"} ELSE {})
            /\ UNCHANGED <<file, clock, process, cache, requests, copy, seen, again, given, wanted>>

Read(c) == /\ step[c] = "read"
           /\ copy' = [copy EXCEPT ![c] = Parsed(file)]
           /\ step' = [step EXCEPT ![c] = "truncate"]
           /\ UNCHANGED <<file, clock, process, cache, requests, change, history>>

Truncate(c) == /\ step[c] = "truncate"
               /\ Write(Torn)
               /\ step' = [step EXCEPT ![c] = "write"]
               /\ UNCHANGED <<clock, process, cache, requests, change, copy, disturbed, wanted>>

Changed(map, x) == [map EXCEPT ![x.key] = IF x.op = "add" THEN x.secret ELSE None]

\* Mutant: a key that is there keeps its secret.
SavedUnlessThere(map, x) == IF x.op = "add" /\ map[x.key] # None THEN map ELSE Changed(map, x)

\* What a command writes for the map it has read.
Saved(map, x) == Changed(map, x)

End(c) == /\ step' = [step EXCEPT ![c] = "done"]
          /\ change' = [change EXCEPT ![c] = None]
          /\ copy' = [copy EXCEPT ![c] = NoKeys]

Save(c) == /\ step[c] = "write"
           /\ Write(Saved(copy[c], change[c]))
           /\ End(c)
           /\ wanted' = Changed(wanted, change[c])
           /\ UNCHANGED <<clock, process, cache, requests, disturbed>>

\* Between emptying the file and writing it, too.
Kill(c) == /\ Working(c)
           /\ End(c)
           /\ disturbed' = disturbed \cup {"kill"}
           /\ UNCHANGED <<file, clock, process, cache, requests, seen, again, given, wanted>>

Next == \/ Tick \/ Open \/ Create \/ Fill \/ StatFirst \/ LoadFirst \/ Restart
        \/ \E r \in Request : Receive(r) \/ Reload(r) \/ Lookup(r)
        \/ \E c \in Command : Begin(c) \/ Read(c) \/ Truncate(c) \/ Save(c) \/ Kill(c)

Spec == Init /\ [][Next]_vars

----
\* The types of the variables; what the server has read is a file's map and the root.
TypeOK == /\ file \in {None} \cup File
          /\ clock \in 0 .. Ticks
          /\ server \in {"open", "create", "fill", "stat", "load", "up"}
          /\ root \in [key : AccessKey, secret : Secret]
          /\ cache.map \in Map
          /\ server = "up" => cache.map[root.key] # None
          /\ \A r \in Request : /\ pc[r] \in {"idle", "reload", "lookup"}
                                /\ ask[r] = None <=> pc[r] = "idle"
          /\ \A c \in Command : change[c] = None <=> ~Working(c)
          /\ again \in BOOLEAN /\ disturbed \subseteq {"overlap", "kill", "start"}
          /\ copy \in [Command -> Map] /\ wanted \in Map

\* What a request's key was meant to have since the request came: the root's own secret,
\* or what the file gave it, None included.
InForce(r) == IF ask[r].key = root.key THEN {root.secret} ELSE given[r]

\* The file gave the root key another secret.
Overridden(r) == ask[r].key = root.key /\ ~(given[r] \subseteq {None, root.secret})

\* A request is accepted only with the root's own secret, if it has the root key, or with
\* one that the file gave its key at some time since the request came: no cached secret
\* outlives its removal, nor the reload of another request.  A root key that the file
\* gives another secret is the exception (RootAlwaysWins), and a file that got the same
\* signature twice, by two writes of one length within a tick.
AcceptedSecretWasInForce ==
  \A r \in Request : pc[r] = "lookup" /\ Answer(r) = "accepted" =>
                       ask[r].secret \in InForce(r) \/ Overridden(r) \/ again

\* A request with the secret that its key has had since the request came is not
\* refused, and with the root's own not even while there is no file or half of one.
\* The same exceptions hold.
SecretInForceIsAccepted ==
  \A r \in Request : pc[r] = "lookup" /\ InForce(r) = {ask[r].secret} =>
                       Answer(r) = "accepted" \/ Overridden(r) \/ again

\* "root always wins on conflict" (src/auth.rs:49): whatever the file says of the
\* root key, it is accepted with the secret the server was started with and no other.
RootAlwaysWins ==
  \A r \in Request : pc[r] = "lookup" /\ ask[r].key = root.key =>
                       (Answer(r) = "accepted" <=> ask[r].secret = root.secret)

\* No command is at work, nor the first write of the file.
Settled == (\A c \in Command : ~Working(c)) /\ server \notin {"create", "fill"}

\* Commands that ran one after the other, and to the end, have all taken effect.
CommandsTakeEffect == disturbed = {} /\ Settled => Parsed(file) = wanted
====
