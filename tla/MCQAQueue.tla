------------------------------ MODULE MCQAQueue ------------------------------
EXTENDS QAQueue, TLC
CONSTANTS r1, r2, r3, u1, n1, n2
MCRequests == {r1, r2, r3}
MCUsers == {u1}
MCNodes == {n1, n2}
OneNode == {n1}
MCUserOf == [r \in MCRequests |-> u1]
Symmetry == Permutations(MCRequests) \cup Permutations(MCNodes)
=============================================================================
