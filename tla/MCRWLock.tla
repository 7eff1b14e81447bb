------------------------------ MODULE MCRWLock ------------------------------
EXTENDS RWLockProps
=============================================================================
