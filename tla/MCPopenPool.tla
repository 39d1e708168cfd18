---------------------------- MODULE MCPopenPool ----------------------------
EXTENDS PopenPool
============================================================================
