----------------------------- MODULE SwapPromise -----------------------------
(* What the bridge promises of its swaps, in whichever direction: tokens     *)
(* are paid out only for what has been received, at the rate of the bridge,  *)
(* to the address the swap was ordered for, and a swap is charged only once  *)
(* a payment of its own was handed to the other chain.                       *)
(*                                                                           *)
(* A payment is what was handed over.  That it was carried out is no part of *)
(* the promise: a message may be lost and a transaction reverted, and the    *)
(* bridge cannot tell.                                                       *)
(*                                                                           *)
(* It does not promise that a swap is paid once, that a payment is of one    *)
(* swap alone, or that a canceled swap is not paid: retries, a second swap   *)
(* of the address and a DELETE that comes late see to that.                  *)
EXTENDS Naturals, Sequences

CONSTANTS Swaps,
          RecipientOf,  \* the address each swap was ordered for
          Quotes        \* what is paid for what: [source |-> , destination |-> ]

VARIABLES received,     \* the amounts received at the address of each swap
          payouts,      \* payments handed to the other chain, in order
          charged       \* the swaps whose fee was taken

vars == <<received, payouts, charged>>

Init ==
  /\ received = [s \in Swaps |-> {}]
  /\ payouts = <<>>
  /\ charged = {}

\* Tokens arrive; two swaps that were given one address receive them both.
Receive ==
  /\ DOMAIN received' = Swaps
  /\ \A s \in Swaps : received[s] \subseteq received'[s]
  /\ UNCHANGED <<payouts, charged>>

\* A payment that is repeated is the same payment.
Pay(s) ==
  /\ \E q \in Quotes :
       /\ q.source \in received[s]
       /\ \A i \in 1..Len(payouts) : payouts[i].swap = s => payouts[i].amount = q.destination
       /\ payouts' = Append(payouts, [swap |-> s, to |-> RecipientOf[s],
                                      amount |-> q.destination])
  /\ UNCHANGED <<received, charged>>

Charge(s) ==
  /\ \E i \in 1..Len(payouts) : payouts[i].swap = s
  /\ charged' = charged \cup {s}
  /\ UNCHANGED <<received, payouts>>

Next == Receive \/ \E s \in Swaps : Pay(s) \/ Charge(s)

Spec == Init /\ [][Next]_vars
=============================================================================
