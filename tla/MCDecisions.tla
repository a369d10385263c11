----------------------------- MODULE MCDecisions -----------------------------
EXTENDS Decisions, TLC

\* Neither pre-approvals nor members differ but by their names.
Symmetry == Permutations(Approvals) \cup Permutations(Members)
=============================================================================
