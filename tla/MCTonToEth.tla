----------------------------- MODULE MCTonToEth -----------------------------
(* Small instances of TonToEth.                                              *)
EXTENDS TonToEth

CONSTANTS s1, s2, w1, w2, alice, bob

\* All swaps pay the same person.
SameRecipient == [s \in Swaps |-> alice]
=============================================================================
