------------------------- MODULE MCParallelBarrier -------------------------
\* Instances of ParallelBarrier for TLC.
EXTENDS ParallelBarrier
=============================================================================
