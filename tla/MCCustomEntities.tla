--------------------------- MODULE MCCustomEntities ---------------------------
EXTENDS CustomEntities, TLC

CONSTANTS d1, d2, f1, f2, v1, v2, e1, e2
=============================================================================
