----------------------------- MODULE MCEthToTon -----------------------------
(* Small instances of EthToTon.                                              *)
EXTENDS EthToTon, TLC, SequencesExt

CONSTANTS s1, s2, w1, w2, alice, bob

\* All swaps pay the same person.
SameRecipient == [s \in Swaps |-> alice]

\* Sound for the invariants when the swaps have one recipient.
SwapSymmetry == Permutations(Swaps)

\* The mints among what came in.
Executed == SelectSeq(ton, LAMBDA transfer : transfer.mint # 0)

\* The bridge mints no more than it has received: README, "allows users to swap
\* fungible tokens between the Ethereum (ERC-20) and the TON (Jetton) blockchains".
MintsAreCovered ==
  FoldLeft(LAMBDA sum, transfer : sum + mints[transfer.mint].amount, 0, Executed)
    <= FoldLeft(LAMBDA sum, block : sum + block.amount, 0, chain)

\* A mint of the swap was executed when the swap reads completed:
\* onGetTonMintTransactionCompleted logs "Mint transaction found" of it.
CompletedIsMinted ==
  \A s \in Swaps :
    swap[s].status = "completed"
      => \E i \in 1..Len(Executed) : mints[Executed[i].mint].swap = s
=============================================================================
