--------------------------- MODULE MCWalletBalances ---------------------------
(* Small instances of WalletBalances.                                        *)
EXTENDS WalletBalances

CONSTANTS s1, s2, w1, w2, r1, r2, a1, a2

\* One debit each: on TON the burn, which goes the way of the fee before it.
Fee == <<1>>
Burn == <<2>>

\* A number, and a body without a balance.
Bodies == {[balance |-> 0], [disabled |-> TRUE]}
=============================================================================
