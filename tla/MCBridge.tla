------------------------------ MODULE MCBridge ------------------------------
EXTENDS Bridge

CONSTANTS caller1, caller2
=============================================================================
