--------------------------- MODULE MCMicroSession ---------------------------
\* Instances of MicroSession for TLC.
EXTENDS MicroSession
=============================================================================
