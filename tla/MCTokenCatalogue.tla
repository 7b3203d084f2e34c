--------------------------- MODULE MCTokenCatalogue ---------------------------
EXTENDS TokenCatalogue

CONSTANTS t1, t2, e1, e2, c1, c2, c3, a1, a2, r1, r2
=============================================================================
