------------------------------ MODULE MCAtomicFile ------------------------------
EXTENDS AtomicFile, TLC

Interchangeable == Permutations(Writers) \cup Permutations(Values)
=================================================================================
