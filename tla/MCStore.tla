------------------------------ MODULE MCStore -------------------------------
EXTENDS Store, TLC

Symmetry == Permutations(Proc) \union Permutations(Key)
=============================================================================
