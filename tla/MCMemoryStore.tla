---------------------------- MODULE MCMemoryStore -----------------------------
EXTENDS MemoryStore, TLC

MCSymmetry == Permutations(Procs)
===============================================================================
