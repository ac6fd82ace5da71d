------------------------ MODULE MCRestoreTransaction ------------------------
EXTENDS RestoreTransaction, TLC

\* The planned paths are interchangeable, and so are the others, and the restorers.
Interchangeable ==
    {f \in Permutations(Paths) : \A p \in Paths : f[p] \in Planned <=> p \in Planned}
        \cup Permutations(Restorers)
=============================================================================
