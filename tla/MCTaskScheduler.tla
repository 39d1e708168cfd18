-------------------------- MODULE MCTaskScheduler --------------------------
\* Instances of TaskScheduler for TLC.
EXTENDS TaskScheduler
============================================================================
