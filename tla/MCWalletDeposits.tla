--------------------------- MODULE MCWalletDeposits ---------------------------
(* Small instances of WalletDeposits.                                        *)
EXTENDS WalletDeposits

CONSTANTS g1, g2, w1, w2, r1, r2    \* model values

=============================================================================
