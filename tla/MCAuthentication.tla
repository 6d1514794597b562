---- MODULE MCAuthentication ----
EXTENDS Authentication, TLC

CONSTANTS top, key, s1, s2, a, b

\* The server is started with a root key and secret, or without the secret.
SomeGiven == {[key |-> top, secret |-> s1], [key |-> top, secret |-> None]}

\* The root key is asked for with its own secret and with the other one.
SomeAsks == [key : {top}, secret : {s1, s2}] \cup {[key |-> key, secret |-> s1]}

\* The file may give the root key the other secret.
SomeChanges == [op : {"add"}, key : {key}, secret : {s1, s2}]
               \cup {[op |-> "add", key |-> top, secret |-> s2], [op |-> "remove", key |-> key]}

\* No content, one chunk, two chunks with the same data, two of different sizes.
SomeChunked == {<<>>, <<<<a>>>>, <<<<a>>, <<a>>>>, <<<<a, b>>, <<b>>>>}

Symmetry == Permutations(Request) \cup Permutations(Command)
====
