----------------------- MODULE MCTransactionCompletion -----------------------
EXTENDS TransactionCompletion, TLC

\* Calls of pollQueue and edits have no order of their own.
Symmetry == Permutations(Loops) \cup Permutations(Txns)
=============================================================================
