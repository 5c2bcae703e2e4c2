---------------------------- MODULE MCStartLock ----------------------------
EXTENDS StartLock

CONSTANTS d, a, b, c

=============================================================================
