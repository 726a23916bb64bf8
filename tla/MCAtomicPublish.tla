-------------------------- MODULE MCAtomicPublish --------------------------
EXTENDS AtomicPublish, TLC
Symmetry == Permutations(Chunk)
=============================================================================
