-------------------------- MODULE MCPageAllocator --------------------------
\* Instances of PageAllocator for TLC: a pool of a few pages of two bytes.
EXTENDS PageAllocator, TLC

HandleSymmetry == Permutations(Handle)
============================================================================
