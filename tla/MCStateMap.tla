----------------------------- MODULE MCStateMap -----------------------------
EXTENDS DiffVec

\* Keys and values are only compared for equality.
Symmetry == Permutations(Keys) \cup Permutations(Vals)
=============================================================================
