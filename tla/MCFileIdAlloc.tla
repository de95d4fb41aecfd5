---------------------------- MODULE MCFileIdAlloc ----------------------------
EXTENDS FileIdAlloc, TLC

\* Threads and files are interchangeable in every property but OpsComplete.
Symmetry == Permutations(Threads) \cup Permutations(Files)
====
