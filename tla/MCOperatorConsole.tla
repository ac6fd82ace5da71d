-------------------------- MODULE MCOperatorConsole --------------------------
EXTENDS OperatorConsole, TLC

Symmetry == Permutations(Tabs) \cup Permutations(Threads) \cup Permutations(Paths)

\* Plans of pages differ in their paths already.
FewChanges == [s \in Surfaces |-> IF s = "gui" THEN 0 ELSE 2]

NoChanges == [s \in Surfaces |-> 0]
=============================================================================
