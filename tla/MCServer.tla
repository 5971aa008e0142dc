-------------------------------- MODULE MCServer --------------------------------
EXTENDS ServerProperties

CONSTANTS c1, c2, w1, w2
================================================================================
