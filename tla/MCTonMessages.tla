---------------------------- MODULE MCTonMessages ----------------------------
(* Small instances of TonMessages.                                           *)
EXTENDS TonMessages, TLC

CONSTANTS minter, giver, c1, c2, c3     \* model values

\* Two mint jobs of the minter wallet, and a job of the giver wallet.
Own == [c \in Callers |-> IF c = c3 THEN giver ELSE minter]
=============================================================================
