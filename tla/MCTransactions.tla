--------------------------- MODULE MCTransactions ---------------------------
EXTENDS Transactions, TLC

\* Threads and workers of a kind are alike.
Symmetry == Permutations(Threads) \cup Permutations(Workers)
=============================================================================
