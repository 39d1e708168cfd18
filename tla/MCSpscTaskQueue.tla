-------------------------- MODULE MCSpscTaskQueue --------------------------
\* Instances of SpscTaskQueue for TLC: the ring of the code, which hosts one
\* task, and a longer one.
EXTENDS SpscTaskQueue
============================================================================
