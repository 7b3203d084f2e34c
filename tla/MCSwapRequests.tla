---------------------------- MODULE MCSwapRequests ----------------------------
(* Small instances of SwapRequests.                                          *)
EXTENDS SwapRequests

CONSTANTS c1, c2, a1, a2, s1, s2, s3, s4, s5, w1, w2, w3    \* model values
=============================================================================
