------------------------------- MODULE MCTabLock -------------------------------
EXTENDS TabLock, TLC
CONSTANTS t1, t2, s1, s2
=============================================================================
