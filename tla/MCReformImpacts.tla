-------------------------- MODULE MCReformImpacts --------------------------
EXTENDS ReformImpacts, TLC
Symmetry == Permutations(Gets) \union Permutations(Jobs)
=============================================================================
