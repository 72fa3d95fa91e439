---------------------------- MODULE MCWikiQueue ----------------------------
EXTENDS WikiQueue, TLC
CONSTANTS d1, d2, b1, b2
MCDocs == {d1, d2}
MCBatches == {b1, b2}
MCDeletes == {d1}
MCReparses == {d2}
Symmetry == Permutations(MCBatches)
=============================================================================
