---------------------------- MODULE InputQueueMC ----------------------------
EXTENDS InputQueue, TLC
Interchangeable == Permutations(Messages)
=============================================================================
