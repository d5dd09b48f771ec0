--------------------------- MODULE MCSinglePlayer ---------------------------
EXTENDS SinglePlayer, TLC

CONSTANTS x1, x2

\* Interchangeable identities; the transactions only when none is special.
Symmetry == Permutations(Loops) \cup Permutations(Handlers)

FullSymmetry == Symmetry \cup Permutations(Txns)
=============================================================================
