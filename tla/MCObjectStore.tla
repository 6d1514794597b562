---- MODULE MCObjectStore ----
EXTENDS ObjectStore, TLC

\* Requests are told apart only by what they ask for, keys and contents by
\* their names, so each is interchangeable as long as none is singled out.
Symmetry == Permutations(Request) \cup Permutations(Key)
SymmetryOfContents == Symmetry \cup Permutations(Content)
====
