---------------------------- MODULE MCWalletDeploy ----------------------------
(* Small instances of WalletDeploy.                                          *)
EXTENDS WalletDeploy, TLC

CONSTANTS g, w1, w2    \* model values
=============================================================================
