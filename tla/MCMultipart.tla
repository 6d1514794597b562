---- MODULE MCMultipart ----
EXTENDS Multipart, TLC

CONSTANTS big, small

\* Nothing, one part, two in order, in the wrong order, and with a small first.
ListsOfTwo == {<<>>, <<<<1, big>>>>, <<<<1, big>>, <<2, small>>>>,
               <<<<2, small>>, <<1, big>>>>, <<<<1, small>>, <<2, big>>>>}

Symmetry == Permutations(Request)
====
