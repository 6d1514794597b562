---- MODULE MCBuckets ----
EXTENDS Buckets, TLC

Symmetry == Permutations(Request) \cup Permutations(Key)
====
