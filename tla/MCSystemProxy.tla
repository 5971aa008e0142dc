------------------------------ MODULE MCSystemProxy ------------------------------
EXTENDS SystemProxy

CONSTANTS k1, k2, own, other
================================================================================
