--------------------------- MODULE TonToEth_proofs ---------------------------
(* The proofs about TonToEth: its types, that every payment is backed by     *)
(* jettons received, and that nothing is charged to a swap before a payment  *)
(* of it was broadcast.                                                      *)
(* IInv is inductive; the actions of SwapJobs preserve it by what            *)
(* SwapJobs_proofs says of them, and there is one lemma per action of its own.*)
EXTENDS TonToEth, SwapJobs_proofs, SequenceTheorems

-----------------------------------------------------------------------------
(* What an action has to show.                                               *)

\* The job of t is past its confirmation: payments are possible.
Paying(t) == job[t].name \notin {"none", "confirm"}

\* A swap past its confirmation stays there, and its row keeps its backing.
KeepsBacking(s) == Paying(s) => Paying(s)' /\ KeepsRow(s)

\* Something was sent from a source wallet, or recorded, in the name of t.
Charged(t) ==
  \/ \E i \in 1..Len(ton) : ton[i].by = t
  \/ swap[t].status = "completed"
  \/ swap[t].collected
  \/ swap[t].burned

\* The transactions of TON stay, and the new ones are of users or of the given
\* swaps; what arrives at a source wallet is a transfer of a user.
TonGrows(by) ==
  /\ Len(ton) \in Nat /\ Len(ton') \in Nat /\ Len(ton) <= Len(ton')
  /\ \A i \in 1..Len(ton) : ton'[i] = ton[i]
  /\ \A i \in 1..Len(ton') :
       \/ i \in 1..Len(ton)
       \/ /\ ton'[i].by \in Senders \cup by
          /\ ton'[i].at \in Wallets /\ ton'[i].op = "INTERNAL_TRANSFER"
               => ton'[i].amount \in Transferred

\* The payments stay, and a new one is a payment of s.
EthGrows(s) ==
  /\ Len(eth) \in Nat /\ Len(eth') \in Nat /\ Len(eth) <= Len(eth')
  /\ \A i \in 1..Len(eth) : eth'[i] = eth[i]
  /\ \A i \in 1..Len(eth') :
       \/ i \in 1..Len(eth)
       \/ /\ eth'[i].swap = s
          /\ eth'[i].to = RecipientOf[s]
          /\ eth'[i].amount = swap'[s].destinationAmount
          /\ Paying(s)'
          /\ Backed(s)'

\* What the handlers of s send to TON: one operation of a source wallet at the most,
\* and nothing that a source wallet receives.
OwnTransactions(s, op) ==
  {new \in Seq(Transactions) :
     \A i \in 1..Len(new) :
       /\ new[i].by = s /\ ~(new[i].at \in Wallets /\ new[i].op = "INTERNAL_TRANSFER")
       /\ new[i].op = IF i = 1 THEN op ELSE "INTERNAL_TRANSFER"}

\* A chain that stays as it is has grown by nothing.
LEMMA SameTon ==
  ASSUME TypeOK, NEW by, ton' = ton
  PROVE  TonGrows(by)
<1>1. Len(ton) \in Nat
  BY LenProperties DEF TypeOK
<1> QED
  BY <1>1 DEF TonGrows

\* Payments that stay as they are have grown by nothing.
LEMMA SameEth ==
  ASSUME TypeOK, NEW s, eth' = eth
  PROVE  EthGrows(s)
<1>1. Len(eth) \in Nat
  BY LenProperties DEF TypeOK
<1> QED
  BY <1>1 DEF EthGrows

\* Transactions added to the end of the chain.
LEMMA TonAppended ==
  ASSUME TypeOK, NEW by, NEW new \in Seq(Transactions), ton' = ton \o new,
         \A i \in 1..Len(new) :
           /\ new[i].by \in Senders \cup by
           /\ new[i].at \in Wallets /\ new[i].op = "INTERNAL_TRANSFER"
                => new[i].amount \in Transferred
  PROVE  TonGrows(by) /\ ton' \in Seq(Transactions)
<1>1. ton \in Seq(Transactions)
  BY DEF TypeOK
<1>2. Len(ton) \in Nat /\ Len(new) \in Nat
  BY <1>1, LenProperties
<1>3. /\ ton' \in Seq(Transactions)
      /\ Len(ton') = Len(ton) + Len(new)
      /\ \A i \in 1..(Len(ton) + Len(new)) :
           ton'[i] = IF i <= Len(ton) THEN ton[i] ELSE new[i - Len(ton)]
  BY <1>1, ConcatProperties
<1>4. ASSUME NEW i \in 1..Len(ton'), i \notin 1..Len(ton)
      PROVE  /\ ton'[i].by \in Senders \cup by
             /\ ton'[i].at \in Wallets /\ ton'[i].op = "INTERNAL_TRANSFER"
                  => ton'[i].amount \in Transferred
  <2>1. i - Len(ton) \in 1..Len(new) /\ ton'[i] = new[i - Len(ton)]
    BY <1>2, <1>3, <1>4
  <2> QED
    BY <2>1
<1>5. \A i \in 1..Len(ton) : ton'[i] = ton[i]
  BY <1>2, <1>3
<1> QED
  BY <1>2, <1>3, <1>4, <1>5 DEF TonGrows

\* A payment that was broadcast stays so.
LEMMA PaidStays ==
  ASSUME NEW s, NEW t, EthGrows(s), PayoutSent(t)
  PROVE  PayoutSent(t)'
<1>1. PICK i \in 1..Len(eth) : eth[i].swap = t
  BY DEF PayoutSent
<1>2. i \in 1..Len(eth') /\ eth'[i].swap = t
  BY <1>1 DEF EthGrows
<1> QED
  BY <1>2 DEF PayoutSent

\* The transfers a swap may be paid for stay, as long as its row does.
LEMMA BackingStays ==
  ASSUME TablesOK, NEW t \in Swaps, NEW by, TonGrows(by), KeepsRow(t), Backed(t)
  PROVE  Backed(t)'
<1>1. PICK i \in (swap[t].createdAt + 1)..Len(ton) :
            /\ ton[i].at = swap[t].sourceWallet
            /\ ton[i].op = "INTERNAL_TRANSFER"
            /\ ton[i].amount = swap[t].sourceAmount
  BY DEF Backed, Incoming
<1>2. swap[t].createdAt \in Nat
  BY DEF TablesOK, Rows
<1>3. i \in 1..Len(ton) /\ i \in (swap'[t].createdAt + 1)..Len(ton')
  BY <1>1, <1>2 DEF TonGrows, KeepsRow
<1>4. /\ ton'[i].at = swap'[t].sourceWallet
      /\ ton'[i].op = "INTERNAL_TRANSFER"
      /\ ton'[i].amount = swap'[t].sourceAmount
  BY <1>1, <1>3 DEF TonGrows, KeepsRow
<1>5. Incoming(t)' # {}
  BY <1>3, <1>4 DEF Incoming
<1>6. Quoted(t)'
  BY DEF Backed, Quoted, KeepsRow
<1> QED
  BY <1>5, <1>6 DEF Backed

\* What is invariant of a swap is not disturbed from outside, by a payment of
\* another swap or by a transaction.
LEMMA UndisturbedSwap ==
  ASSUME TablesOK, NEW t \in Swaps, SwapInv(t), NEW s, NEW by,
         TonGrows(by), EthGrows(s),
         swap'[t] = swap[t], job'[t] = job[t], run'[t] = run[t],
         request'[t] = request[t], cancel'[t] = cancel[t]
  PROVE  SwapInv(t)'
<1>1. RequestInv(t)' /\ ExitInv(t)'
  BY DEF SwapInv, RequestInv, ExitInv, Quoted
<1>2. KeepsRow(t)
  BY DEF KeepsRow
<1>3. Backed(t) => Backed(t)'
  BY <1>2, BackingStays
<1>4. PayoutSent(t) => PayoutSent(t)'
  BY PaidStays
<1>5. ConfirmInv(t)'
  <2>1. ConfirmInv(t)
    BY DEF SwapInv
  <2>2. swap[t].createdAt \in Nat
    BY DEF TablesOK, Rows
  <2>3. ASSUME At(t, "confirm", "outgoing")
        PROVE  /\ run'[t].tx \in (swap'[t].createdAt + 1)..Len(ton')
               /\ ton'[run'[t].tx].at = swap'[t].sourceWallet
               /\ ton'[run'[t].tx].op = "INTERNAL_TRANSFER"
    BY <2>1, <2>2, <2>3 DEF ConfirmInv, TonGrows
  <2> QED
    BY <1>3, <2>1, <2>3 DEF ConfirmInv, At
<1>6. PipelineInv(t)'
  BY <1>3, <1>4 DEF SwapInv, PipelineInv, At
<1> QED
  BY <1>1, <1>5, <1>6 DEF SwapInv

\* What arrived at the wallets of the service is still made of whole base units.
LEMMA TransfersStay ==
  ASSUME TransfersInv, NEW by, TonGrows(by)
  PROVE  TransfersInv'
<1>1. SUFFICES ASSUME NEW i \in 1..Len(ton'), ton'[i].at \in Wallets,
                      ton'[i].op = "INTERNAL_TRANSFER"
               PROVE  ton'[i].amount \in Transferred
  BY DEF TransfersInv
<1>2. CASE i \in 1..Len(ton)
  BY <1>1, <1>2 DEF TransfersInv, TonGrows
<1>3. CASE i \notin 1..Len(ton)
  BY <1>1, <1>3 DEF TonGrows
<1> QED
  BY <1>2, <1>3

\* Nobody is charged by transactions of users or of other swaps.
LEMMA ChargesStay ==
  ASSUME NEW t \in Swaps, NEW by, TonGrows(by), t \notin by, swap'[t] = swap[t],
         Charged(t)'
  PROVE  Charged(t)
<1>1. ASSUME NEW i \in 1..Len(ton'), ton'[i].by = t
      PROVE  i \in 1..Len(ton) /\ ton[i].by = t
  <2>1. t \notin Senders
    BY AccountAssumption
  <2> QED
    BY <1>1, <2>1 DEF TonGrows
<1> QED
  BY <1>1 DEF Charged

\* An action on s (all handlers, listeners and requests) preserves IInv if it
\* preserves the types and the part of the invariant that is about s, and if s is
\* charged by it only when a payment of it was broadcast.
LEMMA OwnStep ==
  ASSUME IInv, NEW s \in Swaps, TypeOK', SwapInv(s)', OnlyOf(s), KeepsBacking(s),
         TonGrows({s}), EthGrows(s), Charged(s)' => Charged(s) \/ PayoutSent(s)
  PROVE  IInv'
<1>0. TablesOK /\ TransfersInv /\ PayoutInv /\ ChargedAfterPayout
  BY DEF IInv, TypeOK
<1>1. ASSUME NEW t \in Swaps
      PROVE  SwapInv(t)'
  <2>1. CASE t = s
    BY <2>1
  <2>2. CASE t # s
    <3>1. SwapInv(t)
      BY DEF IInv
    <3>2. /\ swap'[t] = swap[t]
          /\ job'[t] = job[t]
          /\ run'[t] = run[t]
          /\ request'[t] = request[t]
          /\ cancel'[t] = cancel[t]
      BY <2>2 DEF OnlyOf
    <3> QED
      BY <1>0, <3>1, <3>2, UndisturbedSwap
  <2> QED
    BY <2>1, <2>2
<1>2. TransfersInv'
  BY <1>0, TransfersStay
<1>3. PayoutInv'
  <2>1. SUFFICES ASSUME NEW i \in 1..Len(eth'), NEW t \in Swaps, eth'[i].swap = t
                 PROVE  /\ Paying(t)'
                        /\ Backed(t)'
                        /\ eth'[i].to = RecipientOf[t]
                        /\ eth'[i].amount = swap'[t].destinationAmount
    BY DEF PayoutInv, Paying
  <2>2. CASE i \in 1..Len(eth)
    <3>1. /\ eth'[i] = eth[i]
          /\ Paying(t)
          /\ Backed(t)
          /\ eth[i].to = RecipientOf[t]
          /\ eth[i].amount = swap[t].destinationAmount
      BY <1>0, <2>1, <2>2 DEF PayoutInv, Paying, EthGrows
    <3>2. Paying(t)' /\ KeepsRow(t)
      BY <3>1 DEF KeepsBacking, OnlyOf, Paying, KeepsRow
    <3>3. Backed(t)'
      BY <1>0, <3>1, <3>2, BackingStays
    <3> QED
      BY <3>1, <3>2, <3>3 DEF KeepsRow
  <2>3. CASE i \notin 1..Len(eth)
    BY <2>1, <2>3 DEF EthGrows
  <2> QED
    BY <2>2, <2>3
<1>4. ChargedAfterPayout'
  <2>1. ASSUME NEW t \in Swaps, Charged(t)'
        PROVE  PayoutSent(t)'
    <3>1. Charged(t) \/ PayoutSent(t)
      <4>1. CASE t = s
        BY <2>1, <4>1
      <4>2. CASE t # s
        BY <2>1, <4>2, ChargesStay DEF OnlyOf
      <4> QED
        BY <4>1, <4>2
    <3>2. PayoutSent(t)
      BY <1>0, <3>1 DEF ChargedAfterPayout, Charged, PayoutSent
    <3> QED
      BY <3>2, PaidStays
  <2> QED
    BY <2>1 DEF ChargedAfterPayout, Charged, PayoutSent
<1> QED
  BY <1>1, <1>2, <1>3, <1>4 DEF IInv

\* The actions of createSwap, cancelSwap, SwapsHelper, the clock, and a handler that
\* throws, none of which knows of the chains, preserve IInv.
LEMMA SharedStep ==
  ASSUME IInv, NEW s \in Swaps, Effect(s), GainsNothing(s), UNCHANGED world
  PROVE  IInv'
<1>0. TypeOK /\ TablesOK /\ SwapInv(s) /\ UNCHANGED <<ton, eth, reserve>>
  BY DEF IInv, TypeOK, world
<1>1. TypeOK'
  BY <1>0 DEF Effect, TypeOK
<1>2. RequestInv(s)' /\ ExitInv(s)' /\ OnlyOf(s)
  BY DEF Effect
<1>3. job[s].name # "none" => KeepsRow(s)
  BY <1>0 DEF Effect, SwapInv, RequestInv
<1>4. TonGrows({s}) /\ EthGrows(s)
  BY <1>0, SameTon, SameEth
<1>5. Backed(s) /\ KeepsRow(s) => Backed(s)'
  BY <1>0, <1>4, BackingStays
<1>6. PayoutSent(s) => PayoutSent(s)'
  BY <1>4, PaidStays
<1>7. ConfirmInv(s)'
  <2>1. ConfirmInv(s) /\ JobEffect(s)
    BY <1>0 DEF Effect, SwapInv
  <2> QED
    BY <1>0, <1>3, <1>5, <2>1 DEF JobEffect, ConfirmInv, At, KeepsRow
<1>8. PipelineInv(s)'
  <2>1. PipelineInv(s) /\ JobEffect(s)
    BY <1>0 DEF Effect, SwapInv
  <2> QED
    BY <1>3, <1>5, <1>6, <2>1 DEF JobEffect, PipelineInv, At
<1>9. KeepsBacking(s)
  BY <1>3 DEF Effect, JobEffect, KeepsBacking, Paying
<1>10. Charged(s)' => Charged(s)
  BY <1>0 DEF GainsNothing, Charged
<1> QED
  BY <1>1, <1>2, <1>4, <1>7, <1>8, <1>9, <1>10, OwnStep DEF SwapInv

-----------------------------------------------------------------------------
(* The handler and the listeners of the confirm job.                         *)

\* No step of a confirm job pays, charges or completes a swap.
LEMMA ConfirmStep ==
  ASSUME IInv, NEW s \in Swaps, job[s].name = "confirm", TypeOK', SwapInv(s)',
         OnlyOf(s), GainsNothing(s), UNCHANGED <<ton, eth>>
  PROVE  IInv'
<1>1. TypeOK
  BY DEF IInv
<1>2. TonGrows({s}) /\ EthGrows(s)
  BY <1>1, SameTon, SameEth
<1>3. KeepsBacking(s)
  BY DEF KeepsBacking, Paying
<1>4. Charged(s)' => Charged(s)
  BY DEF GainsNothing, Charged
<1> QED
  BY <1>2, <1>3, <1>4, OwnStep

\* Reading the row of the swap leaves a confirm job to settle it or to look for its
\* transfer (conifrmTonTransfer).
LEMMA ConfirmReadStep ==
  ASSUME IInv, NEW s \in Swaps, ConfirmRead(s)
  PROVE  IInv'
<1>0. TypeOK /\ TablesOK /\ SwapInv(s)
  BY DEF IInv, TypeOK
<1>1. "scan" \in Stages
  BY DEF Stages
<1>2. /\ job[s].name = "confirm"
      /\ JobTyped(s)
      /\ job' = job
      /\ \/ /\ run'[s].stage = "exitRow"
            /\ run'[s].result \in {"canceled", "expired"}
         \/ run'[s].stage = "scan"
  BY <1>0, <1>1, ConfirmReadsFields DEF ConfirmRead, SwapInv
<1>3. UNCHANGED <<ton, eth, reserve, swap, wallet, request, cancel, age, faults>>
  BY DEF ConfirmRead, ConfirmReads, world
<1>4. TypeOK'
  BY <1>0, <1>2, <1>3 DEF TypeOK, TablesOK, JobTyped
<1>5. SwapInv(s)'
  BY <1>0, <1>2, <1>3 DEF SwapInv, RequestInv, ExitInv, ConfirmInv, PipelineInv,
     Quoted, At
<1>6. OnlyOf(s) /\ GainsNothing(s)
  BY <1>2, <1>3 DEF JobTyped, OnlyOf, GainsNothing
<1> QED
  BY <1>2, <1>3, <1>4, <1>5, <1>6, ConfirmStep

\* A search that finds an incoming transfer holds its place (conifrmTonTransfer).
LEMMA ConfirmIncomingStep ==
  ASSUME IInv, NEW s \in Swaps, ConfirmIncoming(s)
  PROVE  IInv'
<1>0. TypeOK /\ TablesOK /\ SwapInv(s)
  BY DEF IInv, TypeOK
<1>1. job[s].name = "confirm" /\ "failed" \in Statuses
  BY DEF ConfirmIncoming, At, Statuses
<1>2. /\ JobTyped(s)
      /\ job'[s].name = "confirm"
      /\ \/ run'[s].stage \in {"idle", "failed"}
         \/ run'[s].stage = "exitRow" /\ run'[s].result = "failed"
         \/ /\ run'[s].stage = "outgoing"
            /\ run'[s].tx \in (swap[s].createdAt + 1)..Len(ton)
            /\ ton[run'[s].tx].at = swap[s].sourceWallet
            /\ ton[run'[s].tx].op = "INTERNAL_TRANSFER"
  <2>1. CASE Fails(s, "notFound")
    BY <1>0, <1>1, <2>1, FailsFields
  <2>2. CASE Exit(s, "failed")
    BY <1>0, <1>1, <2>2, ExitFields
  <2>3. ASSUME NEW i \in Found(s, swap[s].sourceWallet, "INTERNAL_TRANSFER"),
               run' = [run EXCEPT ![s].stage = "outgoing", ![s].tx = i], UNCHANGED job
        PROVE  /\ JobTyped(s)
               /\ job'[s].name = "confirm"
               /\ run'[s].stage = "outgoing"
               /\ run'[s].tx \in (swap[s].createdAt + 1)..Len(ton)
               /\ ton[run'[s].tx].at = swap[s].sourceWallet
               /\ ton[run'[s].tx].op = "INTERNAL_TRANSFER"
    <3>1. /\ i \in (swap[s].createdAt + 1)..Len(ton)
          /\ ton[i].at = swap[s].sourceWallet
          /\ ton[i].op = "INTERNAL_TRANSFER"
      BY <2>3 DEF Found
    <3>2. swap[s].createdAt \in Nat
      BY <1>0 DEF TablesOK, Rows
    <3>3. i \in Nat
      BY <3>1, <3>2
    <3> DEFINE next == [run[s] EXCEPT !.stage = "outgoing", !.tx = i]
    <3>4. run \in [Swaps -> Runs] /\ job \in [Swaps -> Jobs] /\ "outgoing" \in Stages
      BY <1>0 DEF TablesOK, Stages
    <3>5. run' = [run EXCEPT ![s] = next] /\ job' = job
      BY <2>3, <3>4
    <3>6. next \in Runs /\ next.stage = "outgoing" /\ next.tx = i
      BY <3>3, <3>4 DEF Runs
    <3> HIDE DEF next
    <3>7. JobTyped(s) /\ run'[s] = next
      BY <3>4, <3>5, <3>6 DEF JobTyped
    <3> QED
      BY <1>1, <3>1, <3>5, <3>6, <3>7
  <2> QED
    BY <2>1, <2>2, <2>3 DEF ConfirmIncoming
<1>3. UNCHANGED <<ton, eth, reserve, swap, wallet, request, cancel, age, faults>>
  BY DEF ConfirmIncoming
<1>4. TypeOK'
  BY <1>0, <1>2, <1>3 DEF TypeOK, TablesOK, JobTyped
<1>5. SwapInv(s)'
  BY <1>0, <1>1, <1>2, <1>3 DEF SwapInv, RequestInv, ExitInv, ConfirmInv, PipelineInv,
     Quoted, At
<1>6. OnlyOf(s) /\ GainsNothing(s)
  BY <1>2, <1>3 DEF JobTyped, OnlyOf, GainsNothing
<1> QED
  BY <1>1, <1>3, <1>4, <1>5, <1>6, ConfirmStep

\* The row written holds the amounts computed from the transfer found
\* (conifrmTonTransfer).
LEMMA ConfirmOutgoingStep ==
  ASSUME IInv, NEW s \in Swaps, ConfirmOutgoing(s)
  PROVE  IInv'
<1>0. TypeOK /\ TablesOK /\ SwapInv(s) /\ TransfersInv
  BY DEF IInv, TypeOK
<1>1. job[s].name = "confirm" /\ run[s].stage = "outgoing" /\ "credit" \in Stages
  BY DEF ConfirmOutgoing, At, Stages
<1>2. UNCHANGED <<ton, eth, reserve, wallet, request, cancel, age, faults>>
  BY DEF ConfirmOutgoing
<1>3. CASE Fails(s, "notFound") /\ UNCHANGED swap
  <2>1. /\ JobTyped(s)
        /\ job'[s].name = "confirm"
        /\ run'[s].stage \in {"idle", "failed"}
    BY <1>0, <1>1, <1>3, FailsFields
  <2>2. TypeOK'
    BY <1>0, <1>2, <1>3, <2>1 DEF TypeOK, TablesOK, JobTyped
  <2>3. SwapInv(s)'
    BY <1>0, <1>1, <1>2, <1>3, <2>1 DEF SwapInv, RequestInv, ExitInv, ConfirmInv,
       PipelineInv, Quoted, At
  <2>4. OnlyOf(s) /\ GainsNothing(s)
    BY <1>2, <1>3, <2>1 DEF JobTyped, OnlyOf, GainsNothing
  <2> QED
    BY <1>1, <1>2, <2>2, <2>3, <2>4, ConfirmStep
<1>4. ASSUME NEW i \in Found(s, ton[run[s].tx].by, "TRANSFER"),
             ConfirmWrite(s, i), Goto(s, "credit")
      PROVE  IInv'
  <2> DEFINE tx == run[s].tx
             amount == ton[tx].amount
  <2>1. /\ tx \in (swap[s].createdAt + 1)..Len(ton)
        /\ ton[tx].at = swap[s].sourceWallet
        /\ ton[tx].op = "INTERNAL_TRANSFER"
        /\ swap[s].sourceWallet \in Wallets
        /\ Quoted(s)
    BY <1>0, <1>1 DEF SwapInv, RequestInv, ConfirmInv, At
  <2>2. swap[s].createdAt \in Nat
    BY <1>0 DEF TablesOK, Rows
  <2>3. amount \in Transferred /\ i \in Nat
    <3>1. i \in (swap[s].createdAt + 1)..Len(ton)
      BY <1>4 DEF Found
    <3> QED
      BY <1>0, <2>1, <2>2, <3>1 DEF TransfersInv
  <2>4. swap' = [swap EXCEPT ![s] = ConfirmedRow(s, amount, i)]
    BY <1>4 DEF ConfirmWrite
  <2>5. /\ JobTyped(s)
        /\ job' = job
        /\ run'[s].stage = "credit"
    BY <1>0, <1>1, <1>4, GotoFields
  <2> HIDE DEF tx, amount
  <2>6. /\ swap' \in [Swaps -> Rows]
        /\ \A t \in Swaps \ {s} : swap'[t] = swap[t]
        /\ swap'[s].status = "confirmed"
        /\ swap'[s].sourceWallet = swap[s].sourceWallet
        /\ swap'[s].createdAt = swap[s].createdAt
        /\ swap'[s].sourceAmount = amount
        /\ swap'[s].collected = swap[s].collected
        /\ swap'[s].burned = swap[s].burned
        /\ Quoted(s)'
    BY <1>0, <2>1, <2>3, <2>4, ConfirmedRowFields
  <2>7. Backed(s)'
    <3>1. tx \in Incoming(s)'
      BY <1>2, <2>1, <2>6 DEF Incoming, amount
    <3> QED
      BY <2>6, <3>1 DEF Backed
  <2>8. TypeOK'
    BY <1>0, <1>2, <2>5, <2>6 DEF TypeOK, TablesOK, JobTyped
  <2>9. SwapInv(s)'
    BY <1>0, <1>1, <1>2, <2>1, <2>5, <2>6, <2>7 DEF SwapInv, RequestInv, ExitInv,
       ConfirmInv, PipelineInv, At
  <2>10. OnlyOf(s) /\ GainsNothing(s)
    BY <1>2, <2>5, <2>6 DEF JobTyped, OnlyOf, GainsNothing
  <2> QED
    BY <1>1, <1>2, <2>8, <2>9, <2>10, ConfirmStep
<1> QED
  BY <1>3, <1>4 DEF ConfirmOutgoing

\* The credit of the wallet ends the confirm job with its transfer in the row
\* (conifrmTonTransfer).
LEMMA ConfirmCreditStep ==
  ASSUME IInv, NEW s \in Swaps, ConfirmCredit(s), UNCHANGED world
  PROVE  IInv'
<1>0. TypeOK /\ TablesOK /\ SwapInv(s)
  BY DEF IInv, TypeOK
<1>1. job[s].name = "confirm" /\ run[s].stage = "credit" /\ Backed(s)
  BY <1>0 DEF ConfirmCredit, At, SwapInv, ConfirmInv
<1>2. /\ WalletTyped
      /\ JobTyped(s)
      /\ job' = job
      /\ run'[s].stage = "completed"
  BY <1>0, ConfirmCreditFields
<1>3. UNCHANGED <<ton, eth, reserve, swap, request, cancel, age, faults>>
  BY DEF ConfirmCredit, world
<1>4. TypeOK'
  BY <1>0, <1>2, <1>3 DEF TypeOK, TablesOK, JobTyped, WalletTyped
<1>5. Backed(s)'
  BY <1>1, <1>3 DEF Backed, Incoming, Quoted
<1>6. SwapInv(s)'
  BY <1>0, <1>1, <1>2, <1>3, <1>5 DEF SwapInv, RequestInv, ExitInv, ConfirmInv,
     PipelineInv, Quoted, At
<1>7. OnlyOf(s) /\ GainsNothing(s)
  BY <1>2, <1>3 DEF JobTyped, OnlyOf, GainsNothing
<1> QED
  BY <1>1, <1>3, <1>4, <1>6, <1>7, ConfirmStep

\* The failed listener of a confirm job adds another (onConfirmTonTransferFailed).
LEMMA OnConfirmFailedStep ==
  ASSUME IInv, NEW s \in Swaps, OnConfirmFailed(s)
  PROVE  IInv'
<1>0. TypeOK /\ TablesOK /\ SwapInv(s)
  BY DEF IInv, TypeOK
<1>1. job[s].name = "confirm"
  BY DEF OnConfirmFailed, At
<1>2. NextConfirm(s) \in Jobs /\ NextConfirm(s).name = "confirm"
  <2>1. "confirm" \in JobNames /\ 0 \in Nat /\ 1 \in Nat
    BY DEF JobNames
  <2> QED
    BY <2>1, NewJobFields DEF NextConfirm
<1>3. JobTyped(s) /\ job'[s].name = "confirm" /\ run'[s].stage = "idle"
  BY <1>0, <1>2, RestFields, EnqueueFields DEF OnConfirmFailed
<1>4. UNCHANGED <<ton, eth, reserve, swap, wallet, request, cancel, age, faults>>
  BY DEF OnConfirmFailed
<1>5. TypeOK'
  BY <1>0, <1>3, <1>4 DEF TypeOK, TablesOK, JobTyped
<1>6. SwapInv(s)'
  BY <1>0, <1>1, <1>3, <1>4 DEF SwapInv, RequestInv, ExitInv, ConfirmInv, PipelineInv,
     Quoted, At
<1>7. OnlyOf(s) /\ GainsNothing(s)
  BY <1>3, <1>4 DEF JobTyped, OnlyOf, GainsNothing
<1> QED
  BY <1>1, <1>4, <1>5, <1>6, <1>7, ConfirmStep

\* A payment job follows a confirm job that found its transfer
\* (onConfirmTonTransferCompleted).
LEMMA OnConfirmCompletedStep ==
  ASSUME IInv, NEW s \in Swaps, OnConfirmCompleted(s)
  PROVE  IInv'
<1>0. TypeOK /\ TablesOK /\ SwapInv(s)
  BY DEF IInv, TypeOK
<1>1. job[s].name = "confirm" /\ run[s].stage = "completed"
  BY DEF OnConfirmCompleted, At
<1>2. LET new == NewJob("pay", 0, 0, ExtendedAttempts)
      IN  new \in Jobs /\ new.name = "pay"
  <2>1. "pay" \in JobNames /\ 0 \in Nat /\ ExtendedAttempts \in Nat
    BY AttemptAssumption DEF JobNames
  <2> QED
    BY <2>1, NewJobFields
<1>3. /\ JobTyped(s)
      /\ run'[s].stage = "idle"
      /\ \/ job'[s].name = "ended"
         \/ job'[s].name = "pay" /\ Processable(run[s].result)
  <2>1. CASE ~Processable(run[s].result)
    BY <1>0, <2>1, RestFields, EnqueueFields DEF OnConfirmCompleted
  <2>2. CASE Processable(run[s].result)
    BY <1>0, <1>2, <2>2, RestFields, EnqueueFields DEF OnConfirmCompleted
  <2> QED
    BY <2>1, <2>2
<1>4. UNCHANGED <<ton, eth, reserve, swap, wallet, request, cancel, age, faults>>
  BY DEF OnConfirmCompleted
<1>5. TypeOK'
  BY <1>0, <1>3, <1>4 DEF TypeOK, TablesOK, JobTyped
<1>6. Backed(s) => Backed(s)'
  BY <1>4 DEF Backed, Incoming, Quoted
<1>7. SwapInv(s)'
  BY <1>0, <1>1, <1>3, <1>4, <1>6 DEF SwapInv, RequestInv, ExitInv, ConfirmInv,
     PipelineInv, Quoted, At
<1>8. OnlyOf(s) /\ GainsNothing(s)
  BY <1>3, <1>4 DEF JobTyped, OnlyOf, GainsNothing
<1> QED
  BY <1>1, <1>4, <1>5, <1>7, <1>8, ConfirmStep

-----------------------------------------------------------------------------
(* The jobs that pay, charge and burn.                                       *)

\* The jobs that follow the payment.
Charges == {"fee", "getFee", "burn", "getBurn"}

\* A handler or listener of the jobs after the confirm job goes on with one of them
\* or ends, its row keeps its backing, and it is past the payment only when there
\* is one.
LEMMA LateStep ==
  ASSUME IInv, NEW s \in Swaps, TypeOK', JobTyped(s), RowTyped(s),
         TonGrows({s}), EthGrows(s), UNCHANGED <<request, cancel>>,
         job[s].name \in Charges \cup {"pay"},
         job'[s].name \in Charges \cup {"pay", "ended", "lost"},
         swap'[s].status \in {swap[s].status, "completed"},
         run'[s].stage = "exitRow" => run'[s].result = "expired",
         run'[s].stage # "exitWallet",
         PayoutSent(s) \/ UNCHANGED <<swap, ton>>,
         \/ PayoutSent(s)'
         \/ /\ job'[s].name \notin Charges
            /\ run'[s].stage \notin {"await", "completed"}
  PROVE  IInv'
<1>1. SwapInv(s) /\ KeepsRow(s) /\ TablesOK
  BY DEF IInv, TypeOK, RowTyped
<1>2. job[s].name # "none" /\ job'[s].name # "none"
  BY DEF Charges
<1>3. RequestInv(s)'
  BY <1>1, <1>2, HandlerKeepsRequest DEF SwapInv
<1>4. ExitInv(s)' /\ ConfirmInv(s)'
  BY DEF ExitInv, ConfirmInv, At, Charges
<1>5. Backed(s)
  BY <1>1 DEF SwapInv, PipelineInv, Charges
<1>6. Backed(s)'
  BY <1>1, <1>5, BackingStays
<1>7. PipelineInv(s)'
  BY <1>6 DEF PipelineInv, At, Charges
<1>8. OnlyOf(s)
  BY DEF JobTyped, RowTyped, OnlyOf
<1>9. KeepsBacking(s)
  BY <1>1 DEF KeepsBacking, Paying, Charges
<1>10. Charged(s)' => Charged(s) \/ PayoutSent(s)
  BY DEF Charged
<1> QED
  BY <1>3, <1>4, <1>7, <1>8, <1>9, <1>10, OwnStep DEF SwapInv

\* A payment job whose row is read settles the swap or goes on to send
\* (transferEthTokens).
LEMMA PayReadStep ==
  ASSUME IInv, NEW s \in Swaps, PayRead(s)
  PROVE  IInv'
<1>0. TypeOK /\ TablesOK
  BY DEF IInv, TypeOK
<1>1. job[s].name = "pay" /\ "expired" \in Statuses /\ "send" \in Stages
  BY DEF PayRead, Takes, Statuses, Stages
<1>2. /\ JobTyped(s)
      /\ job' = job
      /\ \/ run'[s].stage = "exitRow" /\ run'[s].result = "expired"
         \/ run'[s].stage = "send"
  BY <1>0, <1>1, ExitFields, GotoFields DEF PayRead
<1>3. UNCHANGED <<ton, eth, reserve, swap, wallet, request, cancel, age, faults>>
  BY DEF PayRead
<1>4. TypeOK'
  BY <1>0, <1>2, <1>3 DEF TypeOK, TablesOK, JobTyped
<1>5. TonGrows({s}) /\ EthGrows(s) /\ RowTyped(s)
  BY <1>0, <1>3, SameTon, SameEth, SameRow
<1> QED
  BY <1>1, <1>2, <1>3, <1>4, <1>5, LateStep DEF Charges

\* A payment is sent for the amount of a row that is backed, to the recipient of its
\* swap (transferEthTokens).
LEMMA PaySendStep ==
  ASSUME IInv, NEW s \in Swaps, PaySend(s)
  PROVE  IInv'
<1> DEFINE amount == swap[s].destinationAmount
           executed == amount <= reserve
           payout == [swap |-> s, to |-> RecipientOf[s], amount |-> amount,
                      executed |-> executed]
<1>0. TypeOK /\ TablesOK /\ SwapInv(s)
  BY DEF IInv, TypeOK
<1>1. job[s].name = "pay" /\ "await" \in Stages /\ Backed(s)
  BY <1>0 DEF PaySend, At, Stages, SwapInv, PipelineInv
<1>2. UNCHANGED <<ton, swap, wallet, request, cancel, age>>
  BY DEF PaySend
<1>3. /\ JobTyped(s)
      /\ job'[s].name \in {"pay", "lost"}
      /\ \/ run'[s].stage = "idle"
         \/ run'[s].stage = "await" /\ Broadcast(s)
      /\ faults' \in Nat
  <2>1. CASE Broadcast(s) /\ Goto(s, "await") /\ UNCHANGED faults
    BY <1>0, <1>1, <2>1, GotoFields DEF TablesOK
  <2>2. CASE Fails(s, "error") /\ Fault
    BY <1>0, <1>1, <2>2, FailsFields DEF TablesOK, Fault
  <2> QED
    BY <2>1, <2>2 DEF PaySend
<1>4. Broadcast(s) \/ UNCHANGED <<eth, reserve>>
  BY DEF PaySend
<1>5. TonGrows({s}) /\ RowTyped(s) /\ swap'[s].status = swap[s].status
  BY <1>0, <1>2, SameTon, SameRow
<1>6. Backed(s)' /\ Paying(s)'
  BY <1>0, <1>1, <1>3, <1>5, BackingStays DEF RowTyped, Paying
<1>7. CASE Broadcast(s)
  <2>1. amount \in Nat /\ payout \in Payouts
    BY <1>0, RecipientAssumption DEF TablesOK, Rows, Payouts
  <2>2. eth' = Append(eth, payout)
    BY <1>7 DEF Broadcast
  <2> HIDE DEF payout
  <2>3. eth \in Seq(Payouts) /\ Len(eth) \in Nat
    BY <1>0, LenProperties DEF TypeOK
  <2>4. /\ eth' \in Seq(Payouts)
        /\ Len(eth') = Len(eth) + 1
        /\ \A i \in 1..Len(eth) : eth'[i] = eth[i]
        /\ eth'[Len(eth) + 1] = payout
    BY <2>1, <2>2, <2>3, AppendProperties
  <2>5. /\ payout.swap = s
        /\ payout.to = RecipientOf[s]
        /\ payout.amount = swap'[s].destinationAmount
    BY <1>2 DEF payout
  <2>6. EthGrows(s)
    BY <1>6, <2>3, <2>4, <2>5 DEF EthGrows
  <2>7. PayoutSent(s)'
    BY <2>3, <2>4, <2>5 DEF PayoutSent
  <2>8. reserve' \in 0..Reserve
    BY <1>0, <1>7, <2>1, ReserveAssumption DEF Broadcast, TypeOK
  <2>9. TypeOK'
    BY <1>0, <1>2, <1>3, <2>4, <2>8 DEF TypeOK, TablesOK, JobTyped
  <2> QED
    BY <1>1, <1>2, <1>3, <1>5, <2>6, <2>7, <2>9, LateStep DEF Charges
<1>8. CASE UNCHANGED <<eth, reserve>> /\ run'[s].stage = "idle"
  <2>1. TypeOK'
    BY <1>0, <1>2, <1>3, <1>8 DEF TypeOK, TablesOK, JobTyped
  <2>2. EthGrows(s)
    BY <1>0, <1>8, SameEth
  <2> QED
    BY <1>1, <1>2, <1>3, <1>5, <1>8, <2>1, <2>2, LateStep DEF Charges
<1> QED
  BY <1>3, <1>4, <1>7, <1>8

\* A swap is completed when its payment was sent (transferEthTokens).
LEMMA PayWriteRowStep ==
  ASSUME IInv, NEW s \in Swaps, PayWriteRow(s)
  PROVE  IInv'
<1>0. TypeOK /\ TablesOK /\ SwapInv(s)
  BY DEF IInv, TypeOK
<1>1. job[s].name = "pay" /\ "completed" \in Statuses /\ PayoutSent(s)
  BY <1>0 DEF PayWriteRow, At, Statuses, SwapInv, PipelineInv
<1>2. JobTyped(s) /\ job' = job /\ run'[s].stage = "completed"
  BY <1>0, <1>1, ReturnFields DEF PayWriteRow
<1>3. RowTyped(s) /\ swap'[s].status = "completed"
  BY <1>0, <1>1, StatusFields DEF PayWriteRow
<1>4. UNCHANGED <<ton, eth, reserve, wallet, request, cancel, age, faults>>
  BY DEF PayWriteRow
<1>5. TypeOK'
  BY <1>0, <1>2, <1>3, <1>4 DEF TypeOK, TablesOK, JobTyped, RowTyped
<1>6. TonGrows({s}) /\ EthGrows(s)
  BY <1>0, <1>4, SameTon, SameEth
<1>7. PayoutSent(s)'
  BY <1>1, <1>6, PaidStays
<1> QED
  BY <1>1, <1>2, <1>3, <1>4, <1>5, <1>6, <1>7, LateStep DEF Charges

\* A fee job follows a payment job that sent its payment
\* (onTransferEthTokensCompleted).
LEMMA OnPayCompletedStep ==
  ASSUME IInv, NEW s \in Swaps, OnPayCompleted(s)
  PROVE  IInv'
<1>0. TypeOK /\ TablesOK /\ SwapInv(s)
  BY DEF IInv, TypeOK
<1>1. /\ job[s].name = "pay"
      /\ Processable(run[s].result) => PayoutSent(s)
  BY <1>0 DEF OnPayCompleted, At, SwapInv, PipelineInv
<1>2. LET new == NewJob("fee", 0, 0, UltimateAttempts)
      IN  new \in Jobs /\ new.name = "fee"
  <2>1. "fee" \in JobNames /\ 0 \in Nat /\ UltimateAttempts \in Nat
    BY AttemptAssumption DEF JobNames
  <2> QED
    BY <2>1, NewJobFields
<1>3. /\ JobTyped(s)
      /\ run'[s].stage = "idle"
      /\ \/ job'[s].name = "ended"
         \/ job'[s].name = "fee" /\ PayoutSent(s)
  BY <1>0, <1>1, <1>2, RestFields, EnqueueFields DEF OnPayCompleted
<1>4. UNCHANGED <<ton, eth, reserve, swap, wallet, request, cancel, age, faults>>
  BY DEF OnPayCompleted
<1>5. TypeOK'
  BY <1>0, <1>3, <1>4 DEF TypeOK, TablesOK, JobTyped
<1>6. TonGrows({s}) /\ EthGrows(s) /\ RowTyped(s)
  BY <1>0, <1>4, SameTon, SameEth, SameRow
<1>7. PayoutSent(s) => PayoutSent(s)'
  BY <1>6, PaidStays
<1> QED
  BY <1>1, <1>3, <1>4, <1>5, <1>6, <1>7, LateStep DEF Charges

\* A handler or listener of the jobs after the payment goes on with one of them or
\* ends, and its row keeps its backing and its status.
LEMMA ChargeStep ==
  ASSUME IInv, NEW s \in Swaps, TypeOK', JobTyped(s), RowTyped(s), TonGrows({s}),
         UNCHANGED <<eth, request, cancel>>,
         job[s].name \in Charges, job'[s].name \in Charges \cup {"ended", "lost"},
         swap'[s].status = swap[s].status,
         run'[s].stage \notin {"exitRow", "exitWallet"}
  PROVE  IInv'
<1>1. TypeOK /\ SwapInv(s)
  BY DEF IInv
<1>2. EthGrows(s)
  BY <1>1, SameEth
<1>3. PayoutSent(s)
  BY <1>1 DEF SwapInv, PipelineInv, Charges
<1>4. PayoutSent(s)'
  BY <1>2, <1>3, PaidStays
<1> QED
  BY <1>2, <1>3, <1>4, LateStep

\* The handlers that send take their job and go on to send or return
\* (transferTonFee, burnTonJettons).
LEMMA SendReadStep ==
  ASSUME IInv, NEW s \in Swaps, NEW name \in Charges, SendRead(s, name)
  PROVE  IInv'
<1>0. TypeOK /\ TablesOK
  BY DEF IInv, TypeOK
<1>1. job[s].name = name /\ "none" \in Statuses /\ "send" \in Stages
  BY DEF SendRead, Takes, Statuses, Stages
<1>2. JobTyped(s) /\ job' = job /\ run'[s].stage \in {"completed", "send"}
  BY <1>0, <1>1, ReturnFields, GotoFields DEF SendRead
<1>3. UNCHANGED <<ton, eth, reserve, swap, wallet, request, cancel, age, faults>>
  BY DEF SendRead
<1>4. TypeOK'
  BY <1>0, <1>2, <1>3 DEF TypeOK, TablesOK, JobTyped
<1>5. TonGrows({s}) /\ RowTyped(s)
  BY <1>0, <1>3, SameTon, SameRow
<1> QED
  BY <1>1, <1>2, <1>3, <1>4, <1>5, ChargeStep

\* What they send is a transaction of their swap, and none that a source wallet
\* receives (transferTonFee, burnTonJettons).
LEMMA SendsStep ==
  ASSUME IInv, NEW s \in Swaps, NEW name \in Charges,
         NEW op, NEW transactions \in SUBSET OwnTransactions(s, op),
         Sends(s, name, transactions)
  PROVE  IInv'
<1>0. TypeOK /\ TablesOK
  BY DEF IInv, TypeOK
<1>1. job[s].name = name /\ "none" \in Statuses
  BY DEF Sends, At, Statuses
<1>2. /\ JobTyped(s)
      /\ job'[s].name \in Charges \cup {"lost"}
      /\ run'[s].stage \in {"completed", "idle", "failed"}
      /\ faults' \in Nat
  <2>1. CASE Return(s, "none") /\ UNCHANGED faults
    BY <1>0, <1>1, <2>1, ReturnFields DEF TablesOK
  <2>2. CASE Fails(s, "error") /\ Fault
    BY <1>0, <1>1, <2>2, FailsFields DEF TablesOK, Fault
  <2> QED
    BY <2>1, <2>2 DEF Sends
<1>3. UNCHANGED <<eth, reserve, swap, wallet, request, cancel, age>>
  BY DEF Sends
<1>4. PICK new \in {<<>>} \cup transactions : ton' = ton \o new
  BY DEF Sends
<1>5. /\ new \in Seq(Transactions)
      /\ \A i \in 1..Len(new) :
           new[i].by = s /\ ~(new[i].at \in Wallets /\ new[i].op = "INTERNAL_TRANSFER")
  <2>1. CASE new = <<>>
    BY <2>1
  <2>2. CASE new \in transactions
    BY <2>2 DEF OwnTransactions
  <2> QED
    BY <2>1, <2>2
<1>6. TonGrows({s}) /\ ton' \in Seq(Transactions)
  <2> DEFINE by == {s}
  <2>1. \A i \in 1..Len(new) :
          /\ new[i].by \in Senders \cup by
          /\ new[i].at \in Wallets /\ new[i].op = "INTERNAL_TRANSFER"
               => new[i].amount \in Transferred
    BY <1>5
  <2> HIDE DEF by
  <2>2. TonGrows(by) /\ ton' \in Seq(Transactions)
    BY <1>0, <1>4, <1>5, <2>1, TonAppended
  <2> QED
    BY <2>2 DEF by
<1>7. TypeOK'
  BY <1>0, <1>2, <1>3, <1>6 DEF TypeOK, TablesOK, JobTyped
<1>8. RowTyped(s) /\ swap'[s].status = swap[s].status
  BY <1>0, <1>3, SameRow
<1> QED
  BY <1>1, <1>2, <1>3, <1>6, <1>7, <1>8, ChargeStep

\* Their listeners, and the one of the fee search, add the next job
\* (onTransferTonFeeCompleted, onGetTonFeeTransactionCompleted,
\* onBurnTonJettonsCompleted).
LEMMA OnNextStep ==
  ASSUME IInv, NEW s \in Swaps, NEW name \in Charges, NEW next \in Charges,
         OnNext(s, name, next)
  PROVE  IInv'
<1>0. TypeOK /\ TablesOK
  BY DEF IInv, TypeOK
<1>1. /\ job[s].name = name
      /\ next \in JobNames
      /\ 0 \in Nat
      /\ UltimateAttempts \in Nat
  BY AttemptAssumption DEF OnNext, At, Charges, JobNames
<1>2. LET new == NewJob(next, 0, 0, UltimateAttempts)
      IN  new \in Jobs /\ new.name = next
  BY <1>1, NewJobFields
<1>3. JobTyped(s) /\ job'[s].name = next /\ run'[s].stage = "idle"
  BY <1>0, <1>2, RestFields, EnqueueFields DEF OnNext
<1>4. UNCHANGED <<ton, eth, reserve, swap, wallet, request, cancel, age, faults>>
  BY DEF OnNext
<1>5. TypeOK'
  BY <1>0, <1>3, <1>4 DEF TypeOK, TablesOK, JobTyped
<1>6. TonGrows({s}) /\ RowTyped(s)
  BY <1>0, <1>4, SameTon, SameRow
<1> QED
  BY <1>1, <1>3, <1>4, <1>5, <1>6, ChargeStep

\* The fee goes to the collector (transferTonFee).
LEMMA FeeSends ==
  ASSUME IInv, NEW s \in Swaps, FeeSend(s)
  PROVE  \E transactions \in SUBSET OwnTransactions(s, "TRANSFER") :
           Sends(s, "fee", transactions)
<1> DEFINE from == swap[s].sourceWallet
           fee == swap[s].fee
           transfer == Transfer(from, Collector, fee, s)
           refused == SubSeq(transfer, 1, 1)
<1>0. TypeOK /\ TablesOK /\ SwapInv(s)
  BY DEF IInv, TypeOK
<1>1. job[s].name = "fee" /\ from \in Wallets /\ fee \in Nat
  BY <1>0 DEF FeeSend, Sends, At, SwapInv, RequestInv, TablesOK, Rows
<1>2. Sends(s, "fee", {transfer, refused})
  BY DEF FeeSend
<1> HIDE DEF from, fee
<1>3. /\ Transaction(from, "TRANSFER", fee, s) \in Transactions
      /\ Transaction(Collector, "INTERNAL_TRANSFER", fee, s) \in Transactions
  BY <1>1 DEF Transaction, Transactions, Operations
<1>4. /\ transfer \in Seq(Transactions)
      /\ Len(transfer) = 2
      /\ transfer[1] = Transaction(from, "TRANSFER", fee, s)
      /\ transfer[2] = Transaction(Collector, "INTERNAL_TRANSFER", fee, s)
  BY <1>3 DEF Transfer
<1> HIDE DEF transfer
<1>5. /\ refused \in Seq(Transactions)
      /\ Len(refused) = 1
      /\ refused[1] = transfer[1]
  <2>1. \A i \in 1..1 : transfer[i] \in Transactions
    BY <1>3, <1>4
  <2>2. /\ refused \in Seq(Transactions)
        /\ Len(refused) = IF 1 <= 1 THEN 1 - 1 + 1 ELSE 0
        /\ \A i \in 1..(1 - 1 + 1) : refused[i] = transfer[1 + i - 1]
    BY <2>1, SubSeqProperties
  <2> QED
    BY <2>2
<1> HIDE DEF refused
<1>6. ASSUME NEW new \in {transfer, refused}, NEW i \in 1..Len(new)
      PROVE  /\ new[i].by = s
             /\ ~(new[i].at \in Wallets /\ new[i].op = "INTERNAL_TRANSFER")
             /\ new[i].op = IF i = 1 THEN "TRANSFER" ELSE "INTERNAL_TRANSFER"
  <2>1. Collector \notin Wallets
    BY AccountAssumption
  <2>2. CASE new = transfer
    <3>1. i \in 1..2
      BY <1>4, <1>6, <2>2
    <3>2. i = 1 \/ i = 2
      BY <3>1
    <3> QED
      BY <1>4, <2>1, <2>2, <3>2 DEF Transaction
  <2>3. CASE new = refused
    <3>1. i \in 1..1
      BY <1>5, <1>6, <2>3
    <3> QED
      BY <1>4, <1>5, <2>3, <3>1 DEF Transaction
  <2> QED
    BY <2>2, <2>3
<1> DEFINE transactions == {transfer, refused}
<1>7. transactions \in SUBSET Seq(Transactions)
  BY <1>4, <1>5
<1>8. Sends(s, "fee", transactions)
  BY <1>2
<1>9. \A new \in transactions : \A i \in 1..Len(new) :
        /\ new[i].by = s
        /\ ~(new[i].at \in Wallets /\ new[i].op = "INTERNAL_TRANSFER")
        /\ new[i].op = IF i = 1 THEN "TRANSFER" ELSE "INTERNAL_TRANSFER"
  BY <1>6
<1> HIDE DEF transactions
<1> QED
  BY <1>7, <1>8, <1>9 DEF OwnTransactions

\* A burn is a transaction of the source wallet that brings it nothing
\* (burnTonJettons).
LEMMA BurnSends ==
  ASSUME IInv, NEW s \in Swaps, BurnSend(s)
  PROVE  \E transactions \in SUBSET OwnTransactions(s, "BURN") :
           Sends(s, "burn", transactions)
<1> DEFINE tx == Transaction(swap[s].sourceWallet, "BURN",
                             swap[s].destinationAmount, s)
           burn == <<tx>>
           transactions == {burn}
<1>0. TablesOK /\ SwapInv(s)
  BY DEF IInv, TypeOK
<1>1. /\ job[s].name = "burn"
      /\ swap[s].sourceWallet \in Wallets
      /\ swap[s].destinationAmount \in Nat
  BY <1>0 DEF BurnSend, Sends, At, SwapInv, RequestInv, TablesOK, Rows
<1>4. Sends(s, "burn", transactions)
  BY DEF BurnSend
<1>5. tx \in Transactions /\ tx.by = s /\ tx.op = "BURN"
  BY <1>1 DEF Transaction, Transactions, Operations
<1> HIDE DEF tx
<1>2. transactions \in SUBSET Seq(Transactions)
  BY <1>5
<1>3. \A new \in transactions : \A i \in 1..Len(new) :
        /\ new[i].by = s
        /\ ~(new[i].at \in Wallets /\ new[i].op = "INTERNAL_TRANSFER")
        /\ new[i].op = IF i = 1 THEN "BURN" ELSE "INTERNAL_TRANSFER"
  <2>1. Len(burn) = 1 /\ burn[1] = tx
    OBVIOUS
  <2> HIDE DEF burn
  <2>2. ASSUME NEW new \in transactions, NEW i \in 1..Len(new)
        PROVE  i = 1 /\ new[i] = tx
    <3>1. new = burn
      OBVIOUS
    <3>2. i \in 1..1
      BY <2>1, <2>2, <3>1
    <3> QED
      BY <2>1, <3>1, <3>2
  <2> QED
    BY <1>5, <2>2
<1> HIDE DEF transactions
<1> QED
  BY <1>2, <1>3, <1>4 DEF OwnTransactions

\* Neither disturbs the invariant (transferTonFee, burnTonJettons).
LEMMA SendStep ==
  ASSUME IInv, NEW s \in Swaps, FeeSend(s) \/ BurnSend(s)
  PROVE  IInv'
<1>1. PICK name \in Charges, op \in Operations :
        \E transactions \in SUBSET OwnTransactions(s, op) :
          Sends(s, name, transactions)
  BY FeeSends, BurnSends DEF Charges, Operations
<1> QED
  BY <1>1, SendsStep

\* A search whose row is read goes on with the balance it has read, or returns
\* (getTonFeeTransaction).
LEMMA GetFeeReadStep ==
  ASSUME IInv, NEW s \in Swaps, GetFeeRead(s)
  PROVE  IInv'
<1>0. TypeOK /\ TablesOK /\ SwapInv(s)
  BY DEF IInv, TypeOK
<1>1. /\ job[s].name = "getFee"
      /\ swap[s].sourceWallet \in Wallets
      /\ "none" \in Statuses
      /\ "find" \in Stages
  BY <1>0 DEF GetFeeRead, Takes, SwapInv, RequestInv, Statuses, Stages
<1>2. JobTyped(s) /\ job' = job /\ run'[s].stage \in {"completed", "find"}
  BY <1>0, <1>1, ReturnFields, GotoWithBalanceFields DEF GetFeeRead
<1>3. UNCHANGED <<ton, eth, reserve, swap, wallet, request, cancel, age, faults>>
  BY DEF GetFeeRead
<1>4. TypeOK'
  BY <1>0, <1>2, <1>3 DEF TypeOK, TablesOK, JobTyped
<1>5. TonGrows({s}) /\ RowTyped(s)
  BY <1>0, <1>3, SameTon, SameRow
<1> QED
  BY <1>1, <1>2, <1>3, <1>4, <1>5, ChargeStep DEF Charges

\* A fee that was found is recorded (getTonFeeTransaction).
LEMMA GetFeeFindStep ==
  ASSUME IInv, NEW s \in Swaps, GetFeeFind(s)
  PROVE  IInv'
<1>0. TypeOK /\ TablesOK
  BY DEF IInv, TypeOK
<1>1. job[s].name = "getFee" /\ "debit" \in Stages
  BY DEF GetFeeFind, At, Stages
<1>2. /\ JobTyped(s)
      /\ RowTyped(s)
      /\ swap'[s].status = swap[s].status
      /\ job'[s].name \in {"getFee", "lost"}
      /\ run'[s].stage \in {"idle", "debit"}
  <2>1. CASE swap' = [swap EXCEPT ![s].collected = TRUE] /\ Goto(s, "debit")
    BY <1>0, <1>1, <2>1, CollectedFields, GotoFields
  <2>2. CASE UNCHANGED swap /\ Fails(s, "error")
    BY <1>0, <1>1, <2>2, SameRow, FailsFields
  <2> QED
    BY <2>1, <2>2 DEF GetFeeFind
<1>3. UNCHANGED <<ton, eth, reserve, wallet, request, cancel, age, faults>>
  BY DEF GetFeeFind
<1>4. TypeOK'
  BY <1>0, <1>2, <1>3 DEF TypeOK, TablesOK, JobTyped, RowTyped
<1>5. TonGrows({s})
  BY <1>0, <1>3, SameTon
<1> QED
  BY <1>1, <1>2, <1>3, <1>4, <1>5, ChargeStep DEF Charges

\* The balance debited is never negative (getTonFeeTransaction).
LEMMA GetFeeDebitStep ==
  ASSUME IInv, NEW s \in Swaps, GetFeeDebit(s)
  PROVE  IInv'
<1>0. TypeOK /\ TablesOK
  BY DEF IInv, TypeOK
<1>1. job[s].name = "getFee" /\ "none" \in Statuses /\ swap[s].fee \in Nat
  BY <1>0 DEF GetFeeDebit, At, Statuses, TablesOK, Rows
<1>2. /\ JobTyped(s)
      /\ job'[s].name \in {"getFee", "lost"}
      /\ run'[s].stage \in {"idle", "completed"}
  <2>1. CASE Return(s, "none")
    BY <1>0, <1>1, <2>1, ReturnFields
  <2>2. CASE DebitRefused(s, swap[s].fee)
    BY <1>0, <1>1, <2>2, FailsFields DEF DebitRefused
  <2> QED
    BY <2>1, <2>2 DEF GetFeeDebit
<1>3. WalletTyped
  BY <1>0, <1>1, DebitTyped DEF GetFeeDebit
<1>4. UNCHANGED <<ton, eth, reserve, swap, request, cancel, age, faults>>
  BY DEF GetFeeDebit
<1>5. TypeOK'
  BY <1>0, <1>2, <1>3, <1>4 DEF TypeOK, TablesOK, JobTyped, WalletTyped
<1>6. TonGrows({s}) /\ RowTyped(s)
  BY <1>0, <1>4, SameTon, SameRow
<1> QED
  BY <1>1, <1>2, <1>4, <1>5, <1>6, ChargeStep DEF Charges

\* A search whose row is read goes on with the balance it has read, or ends
\* (getTonBurnTransaction).
LEMMA GetBurnReadStep ==
  ASSUME IInv, NEW s \in Swaps, GetBurnRead(s)
  PROVE  IInv'
<1>0. TypeOK /\ TablesOK /\ SwapInv(s)
  BY DEF IInv, TypeOK
<1>1. job[s].name = "getBurn" /\ swap[s].sourceWallet \in Wallets /\ "find" \in Stages
  BY <1>0 DEF GetBurnRead, Takes, SwapInv, RequestInv, Stages
<1>2. /\ JobTyped(s)
      /\ job'[s].name \in {"getBurn", "ended"}
      /\ run'[s].stage \in {"idle", "find"}
  <2>1. CASE Enqueue(s, EndedJob)
    BY <1>0, <2>1, RestFields, EnqueueFields
  <2>2. CASE GotoWithBalance(s, "find")
    BY <1>0, <1>1, <2>2, GotoWithBalanceFields
  <2> QED
    BY <2>1, <2>2 DEF GetBurnRead
<1>3. UNCHANGED <<ton, eth, reserve, swap, wallet, request, cancel, age, faults>>
  BY DEF GetBurnRead
<1>4. TypeOK'
  BY <1>0, <1>2, <1>3 DEF TypeOK, TablesOK, JobTyped
<1>5. TonGrows({s}) /\ RowTyped(s)
  BY <1>0, <1>3, SameTon, SameRow
<1> QED
  BY <1>1, <1>2, <1>3, <1>4, <1>5, ChargeStep DEF Charges

\* A burn that was found is recorded (getTonBurnTransaction).
LEMMA GetBurnFindStep ==
  ASSUME IInv, NEW s \in Swaps, GetBurnFind(s)
  PROVE  IInv'
<1>0. TypeOK /\ TablesOK
  BY DEF IInv, TypeOK
<1>1. job[s].name = "getBurn" /\ "debit" \in Stages
  BY DEF GetBurnFind, At, Stages
<1>2. /\ JobTyped(s)
      /\ RowTyped(s)
      /\ swap'[s].status = swap[s].status
      /\ job'[s].name \in {"getBurn", "lost"}
      /\ run'[s].stage \in {"idle", "debit"}
  <2>1. CASE swap' = [swap EXCEPT ![s].burned = TRUE] /\ Goto(s, "debit")
    BY <1>0, <1>1, <2>1, BurnedFields, GotoFields
  <2>2. CASE UNCHANGED swap /\ Fails(s, "error")
    BY <1>0, <1>1, <2>2, SameRow, FailsFields
  <2> QED
    BY <2>1, <2>2 DEF GetBurnFind
<1>3. UNCHANGED <<ton, eth, reserve, wallet, request, cancel, age, faults>>
  BY DEF GetBurnFind
<1>4. TypeOK'
  BY <1>0, <1>2, <1>3 DEF TypeOK, TablesOK, JobTyped, RowTyped
<1>5. TonGrows({s})
  BY <1>0, <1>3, SameTon
<1> QED
  BY <1>1, <1>2, <1>3, <1>4, <1>5, ChargeStep DEF Charges

\* The balance debited is never negative (getTonBurnTransaction).
LEMMA GetBurnDebitStep ==
  ASSUME IInv, NEW s \in Swaps, GetBurnDebit(s)
  PROVE  IInv'
<1>0. TypeOK /\ TablesOK
  BY DEF IInv, TypeOK
<1>1. job[s].name = "getBurn" /\ swap[s].destinationAmount \in Nat
  BY <1>0 DEF GetBurnDebit, At, TablesOK, Rows
<1>2. /\ JobTyped(s)
      /\ job'[s].name \in {"getBurn", "ended", "lost"}
      /\ run'[s].stage = "idle"
  <2>1. CASE Enqueue(s, EndedJob)
    BY <1>0, <2>1, RestFields, EnqueueFields
  <2>2. CASE DebitRefused(s, swap[s].destinationAmount)
    BY <1>0, <1>1, <2>2, FailsFields DEF DebitRefused
  <2> QED
    BY <2>1, <2>2 DEF GetBurnDebit
<1>3. WalletTyped
  BY <1>0, <1>1, DebitTyped DEF GetBurnDebit
<1>4. UNCHANGED <<ton, eth, reserve, swap, request, cancel, age, faults>>
  BY DEF GetBurnDebit
<1>5. TypeOK'
  BY <1>0, <1>2, <1>3, <1>4 DEF TypeOK, TablesOK, JobTyped, WalletTyped
<1>6. TonGrows({s}) /\ RowTyped(s)
  BY <1>0, <1>4, SameTon, SameRow
<1> QED
  BY <1>1, <1>2, <1>4, <1>5, <1>6, ChargeStep DEF Charges

-----------------------------------------------------------------------------
(* The actions that reach beyond one row: a transfer of a user and a crash.  *)

\* Users pay with whole base units, and never in the name of a swap.
LEMMA UserTransferGrows ==
  ASSUME IInv, UserTransfer
  PROVE  TonGrows({}) /\ ton' \in Seq(Transactions)
<1>0. TypeOK /\ TablesOK
  BY DEF IInv, TypeOK
<1>2. PICK from \in Senders, amount \in Transferred,
           to \in Senders \cup {Collector}
              \cup {swap[s].sourceWallet : s \in {t \in Swaps : RequestAt(t, "done")}} :
        to # NoWallet /\ ton' = ton \o Transfer(from, to, amount, from)
  BY DEF UserTransfer
<1> DEFINE sent == Transaction(from, "TRANSFER", amount, from)
           arrived == Transaction(to, "INTERNAL_TRANSFER", amount, from)
           new == <<sent, arrived>>
           by == {}
<1>3. to \in Wallets \cup Senders \cup {Collector} /\ amount \in Nat
  <2>1. \A s \in Swaps : swap[s].sourceWallet \in Wallets \cup {NoWallet}
    BY <1>0 DEF TablesOK, Rows
  <2> QED
    BY <1>2, <2>1, AmountAssumption
<1>4. /\ sent \in Transactions /\ sent.by = from /\ sent.op = "TRANSFER"
      /\ arrived \in Transactions /\ arrived.by = from /\ arrived.amount = amount
  BY <1>3 DEF Transaction, Transactions, Operations
<1>5. ton' = ton \o new
  BY <1>2 DEF Transfer
<1> HIDE DEF sent, arrived
<1>6. new \in Seq(Transactions) /\ Len(new) = 2 /\ new[1] = sent /\ new[2] = arrived
  BY <1>4
<1> HIDE DEF new
<1>7. \A i \in 1..Len(new) :
        /\ new[i].by \in Senders \cup by
        /\ new[i].at \in Wallets /\ new[i].op = "INTERNAL_TRANSFER"
             => new[i].amount \in Transferred
  <2>1. ASSUME NEW i \in 1..Len(new)
        PROVE  i = 1 \/ i = 2
    <3>1. i \in 1..2
      BY <1>6, <2>1
    <3> QED
      BY <3>1
  <2> QED
    BY <1>4, <1>6, <2>1
<1> HIDE DEF by
<1>8. TonGrows(by) /\ ton' \in Seq(Transactions)
  BY <1>0, <1>5, <1>6, <1>7, TonAppended
<1> QED
  BY <1>8 DEF by

\* A transfer of a user disturbs no swap.
LEMMA UserTransferStep ==
  ASSUME IInv, UserTransfer
  PROVE  IInv'
<1> DEFINE by == {}
<1>0. /\ TypeOK /\ TablesOK /\ TransfersInv /\ PayoutInv /\ ChargedAfterPayout
      /\ \A t \in Swaps : SwapInv(t)
  BY DEF IInv, TypeOK
<1>1. UNCHANGED <<eth, reserve, swap, wallet, job, run, request, cancel, age, faults>>
  BY DEF UserTransfer
<1>8. TonGrows(by) /\ ton' \in Seq(Transactions)
  BY UserTransferGrows
<1> HIDE DEF by
<1>9. TypeOK'
  BY <1>0, <1>1, <1>8 DEF TypeOK, TablesOK
<1>10. ASSUME NEW t \in Swaps
       PROVE  SwapInv(t)' /\ (Backed(t) => Backed(t)')
  <2>1. EthGrows(t) /\ KeepsRow(t)
    BY <1>0, <1>1, SameEth DEF KeepsRow
  <2>2. SwapInv(t)'
    BY <1>0, <1>1, <1>8, <2>1, UndisturbedSwap
  <2>3. Backed(t) => Backed(t)'
    BY <1>0, <1>8, <2>1, BackingStays
  <2> QED
    BY <2>2, <2>3
<1>11. TransfersInv'
  BY <1>0, <1>8, TransfersStay
<1>12. PayoutInv'
  BY <1>0, <1>1, <1>10 DEF PayoutInv
<1>13. ChargedAfterPayout'
  <2>1. ASSUME NEW t \in Swaps, Charged(t)'
        PROVE  PayoutSent(t)'
    <3>1. t \notin by /\ swap'[t] = swap[t]
      BY <1>1 DEF by
    <3>2. Charged(t)
      BY <1>8, <2>1, <3>1, ChargesStay
    <3>3. PayoutSent(t)
      BY <1>0, <3>2 DEF ChargedAfterPayout, Charged, PayoutSent
    <3> QED
      BY <1>1, <3>3 DEF PayoutSent
  <2> QED
    BY <2>1 DEF ChargedAfterPayout, Charged, PayoutSent
<1> QED
  BY <1>9, <1>10, <1>11, <1>12, <1>13 DEF IInv

\* A crash loses what the handlers hold; a job it leaves in Redis is the job it was,
\* or is over.
LEMMA CrashStep ==
  ASSUME IInv, Crash, UNCHANGED world
  PROVE  IInv'
<1>0. TypeOK /\ TablesOK /\ TransfersInv /\ PayoutInv /\ ChargedAfterPayout
  BY DEF IInv, TypeOK
<1>1. UNCHANGED <<ton, eth, reserve, swap, wallet>> /\ TablesOK'
  BY <1>0, CrashEffect DEF world
<1>2. ASSUME NEW t \in Swaps
      PROVE  /\ RequestInv(t) => RequestInv(t)'
             /\ run'[t].stage = "idle"
             /\ CrashedJob(t)
  BY <1>0, CrashEffect
<1>3. TypeOK'
  BY <1>0, <1>1 DEF TypeOK
<1>4. ASSUME NEW t \in Swaps
      PROVE  (Backed(t) => Backed(t)') /\ (PayoutSent(t) => PayoutSent(t)')
  BY <1>1 DEF Backed, Incoming, Quoted, PayoutSent
<1>5. ASSUME NEW t \in Swaps
      PROVE  SwapInv(t)'
  <2>1. SwapInv(t)
    BY DEF IInv
  <2>2. RequestInv(t)'
    BY <1>2, <2>1 DEF SwapInv
  <2>3. ExitInv(t)' /\ ConfirmInv(t)'
    BY <1>2 DEF ExitInv, ConfirmInv, At
  <2>4. PipelineInv(t)'
    BY <1>2, <1>4, <2>1 DEF SwapInv, PipelineInv, CrashedJob, At
  <2> QED
    BY <2>2, <2>3, <2>4 DEF SwapInv
<1>6. PayoutInv'
  <2>1. ASSUME NEW t \in Swaps, Paying(t)
        PROVE  Paying(t)'
    BY <1>2, <2>1 DEF Paying, CrashedJob
  <2> QED
    BY <1>0, <1>1, <1>4, <2>1 DEF PayoutInv, Paying
<1>7. TransfersInv' /\ ChargedAfterPayout'
  BY <1>0, <1>1 DEF TransfersInv, ChargedAfterPayout
<1> QED
  BY <1>3, <1>5, <1>6, <1>7 DEF IInv

-----------------------------------------------------------------------------
(* The invariant holds.                                                      *)

\* Before any request there is no row, no job and no payment.
LEMMA InitInv == Init => IInv
<1> SUFFICES ASSUME Init
             PROVE  IInv
  OBVIOUS
<1>1. TablesOK /\ \A s \in Swaps : RequestInv(s) /\ run[s].stage = "idle"
  BY InitTablesOK DEF Init
<1>2. TypeOK
  <2>1. ton \in Seq(Transactions) /\ eth \in Seq(Payouts)
    BY DEF Init
  <2>2. reserve \in 0..Reserve
    BY ReserveAssumption DEF Init
  <2> QED
    BY <1>1, <2>1, <2>2 DEF TypeOK
<1>3. ASSUME NEW s \in Swaps
      PROVE  SwapInv(s)
  <2>1. job[s].name = "none"
    BY DEF Init, InitTables, NoJob, NewJob
  <2> QED
    BY <1>1, <2>1 DEF SwapInv, ExitInv, ConfirmInv, PipelineInv, At
<1>4. TransfersInv /\ PayoutInv
  BY DEF Init, TransfersInv, PayoutInv
<1>5. ASSUME NEW s \in Swaps
      PROVE  ~Charged(s)
  <2>1. swap[s] = NoSwap
    BY DEF Init, InitTables
  <2>2. NoSwap.status # "completed" /\ ~NoSwap.collected /\ ~NoSwap.burned
    BY DEF NoSwap
  <2>3. 1..Len(ton) = {}
    BY DEF Init
  <2> QED
    BY <2>1, <2>2, <2>3 DEF Charged
<1>6. ChargedAfterPayout
  BY <1>5 DEF ChargedAfterPayout, Charged
<1> QED
  BY <1>2, <1>3, <1>4, <1>6 DEF IInv

\* Every step preserves the invariant.
LEMMA NextInv == IInv /\ [Next]_vars => IInv'
<1> SUFFICES ASSUME IInv, [Next]_vars
             PROVE  IInv'
  OBVIOUS
<1>1. CASE UNCHANGED vars
  <2>1. TypeOK'
    BY <1>1 DEF IInv, TypeOK, TablesOK, vars
  <2>2. ASSUME NEW s \in Swaps
        PROVE  SwapInv(s)'
    <3>1. SwapInv(s) /\ TypeOK /\ TablesOK
      BY DEF IInv, TypeOK
    <3>2. TonGrows({s}) /\ EthGrows(s)
      BY <1>1, <3>1, SameTon, SameEth DEF vars
    <3> QED
      BY <1>1, <3>1, <3>2, UndisturbedSwap DEF vars
  <2>3. TransfersInv' /\ ChargedAfterPayout'
    BY <1>1 DEF IInv, vars, TransfersInv, ChargedAfterPayout
  <2>4. PayoutInv'
    BY <1>1 DEF IInv, vars, PayoutInv, Backed, Incoming, Quoted
  <2> QED
    BY <2>1, <2>2, <2>3, <2>4 DEF IInv
<1>2. CASE UserTransfer
  BY <1>2, UserTransferStep
<1>3. CASE Crash /\ UNCHANGED world
  BY <1>3, CrashStep
<1>4. ASSUME NEW s \in Swaps, Confirm(s)
      PROVE  IInv'
  BY <1>4, ConfirmReadStep, ConfirmIncomingStep, ConfirmOutgoingStep,
     ConfirmCreditStep, OnConfirmFailedStep, OnConfirmCompletedStep DEF Confirm
<1>5. ASSUME NEW s \in Swaps, Pay(s)
      PROVE  IInv'
  BY <1>5, PayReadStep, PaySendStep, PayWriteRowStep, OnPayCompletedStep DEF Pay
<1>6. "fee" \in Charges /\ "getFee" \in Charges /\ "burn" \in Charges
      /\ "getBurn" \in Charges
  BY DEF Charges
<1>7. ASSUME NEW s \in Swaps, Fee(s)
      PROVE  IInv'
  BY <1>6, <1>7, SendReadStep, SendStep, OnNextStep, GetFeeReadStep, GetFeeFindStep,
     GetFeeDebitStep DEF Fee, FeeRead, OnFeeCompleted, OnGetFeeCompleted
<1>8. ASSUME NEW s \in Swaps, Burn(s)
      PROVE  IInv'
  BY <1>6, <1>8, SendReadStep, SendStep, OnNextStep, GetBurnReadStep,
     GetBurnFindStep, GetBurnDebitStep DEF Burn, BurnRead, OnBurnCompleted
<1>9. ASSUME NEW s \in Swaps
      PROVE  TablesOK /\ RequestInv(s) /\ ExitInv(s) /\ Len(ton) \in Nat /\ 0 \in Nat
  BY LenProperties DEF IInv, TypeOK, SwapInv
<1>10. ASSUME NEW s \in Swaps, Create(s)
       PROVE  IInv'
  <2>1. Effect(s)
    BY <1>9, <1>10, PickWalletEffect, MarkWalletEffect, InsertSwapEffect,
       AddConfirmJobEffect DEF Create
  <2>2. UNCHANGED swap \/ InsertSwap(s, Len(ton))
    BY <1>10 DEF Create, PickWallet, MarkWallet, AddConfirmJob
  <2>3. GainsNothing(s)
    BY <1>9, <2>2, SharedGainsNothing
  <2> QED
    BY <1>10, <2>1, <2>3, SharedStep DEF Create
<1>11. ASSUME NEW s \in Swaps, CreateFails(s)
       PROVE  IInv'
  <2>1. Effect(s)
    BY <1>9, <1>11, InsertFailsEffect, AddConfirmJobFailsEffect, FailSwapEffect,
       ReleaseRequestedEffect, RequestThrowsEffect DEF CreateFails
  <2>2. UNCHANGED swap \/ FailSwap(s)
    BY <1>11 DEF CreateFails, InsertFails, AddConfirmJobFails, ReleaseRequested,
       RequestThrows
  <2>3. GainsNothing(s)
    BY <1>9, <2>2, SharedGainsNothing
  <2> QED
    BY <1>11, <2>1, <2>3, SharedStep DEF CreateFails
<1>12. ASSUME NEW s \in Swaps, Cancel(s) \/ Settle(s)
       PROVE  IInv'
  <2>1. Effect(s)
    BY <1>9, <1>12, CancelReadEffect, CancelWriteEffect, ExitRowEffect,
       ExitWalletEffect DEF Cancel, Settle
  <2>2. UNCHANGED swap \/ CancelWrite(s) \/ ExitRow(s)
    BY <1>12 DEF Cancel, Settle, CancelRead, ExitWallet
  <2>3. GainsNothing(s)
    BY <1>9, <2>2, SharedGainsNothing
  <2> QED
    BY <1>12, <2>1, <2>3, SharedStep DEF Cancel, Settle
<1>13. ASSUME NEW s \in Swaps, HandlerThrows(s) \/ Tick(s), UNCHANGED world
       PROVE  IInv'
  <2>1. Effect(s)
    BY <1>9, <1>13, HandlerThrowsEffect, TickEffect
  <2>2. UNCHANGED swap
    BY <1>13 DEF HandlerThrows, Tick
  <2>3. GainsNothing(s)
    BY <1>9, <2>2, SharedGainsNothing
  <2> QED
    BY <1>13, <2>1, <2>3, SharedStep
<1> QED
  BY <1>1, <1>2, <1>3, <1>4, <1>5, <1>7, <1>8, <1>10, <1>11, <1>12, <1>13 DEF Next

\* The invariant holds in every state the program reaches.
THEOREM Invariance == Spec => []IInv
<1> QED
  BY InitInv, NextInv, PTL DEF Spec

\* The rows, the jobs, what the handlers hold and the two chains keep their types,
\* and the destination wallet is never overdrawn.
THEOREM TypesHold == Spec => []TypeOK
<1>1. IInv => TypeOK
  BY DEF IInv
<1> QED
  BY <1>1, Invariance, PTL

\* The swap of a payment is one of the swaps.
LEMMA PayoutSwap ==
  ASSUME IInv, NEW i \in 1..Len(eth)
  PROVE  eth[i].swap \in Swaps
<1>1. eth \in Seq(Payouts)
  BY DEF IInv, TypeOK
<1>2. eth[i] \in Payouts
  BY <1>1, ElementOfSeq
<1> QED
  BY <1>2 DEF Payouts

\* transferEthTokens checks nothing, and every payment is backed all the same:
\* whatever is retried, redelivered, canceled or expired, the source wallet of its
\* swap has received jettons since the swap was created, and the payment is for the
\* amount computed from them.
THEOREM PayoutsAreBacked == Spec => []PayoutBacked
<1>1. ASSUME IInv
      PROVE  PayoutBacked
  <2>1. SUFFICES ASSUME NEW i \in 1..Len(eth)
                 PROVE  LET s == eth[i].swap
                        IN  /\ Incoming(s) # {}
                            /\ Quoted(s)
                            /\ eth[i].to = RecipientOf[s]
                            /\ eth[i].amount = swap[s].destinationAmount
    BY DEF PayoutBacked
  <2>2. PICK s \in Swaps : eth[i].swap = s
    BY <1>1, PayoutSwap
  <2>3. /\ Backed(s)
        /\ eth[i].to = RecipientOf[s]
        /\ eth[i].amount = swap[s].destinationAmount
    BY <1>1, <2>2 DEF IInv, PayoutInv
  <2> QED
    BY <2>2, <2>3 DEF Backed
<1> QED
  BY <1>1, Invariance, PTL

\* Together, a payment and the fee its row keeps stay below the transfer that backs
\* the payment plus one unit of the source token (createSwap computes both from the
\* amount before it is rounded).
THEOREM PayoutsStayWithinTransfers == Spec => []PayoutWithinTransfer
<1>1. ASSUME IInv
      PROVE  PayoutWithinTransfer
  <2>1. SUFFICES ASSUME NEW i \in 1..Len(eth), NEW j \in Incoming(eth[i].swap)
                 PROVE  eth[i].amount + swap[eth[i].swap].fee
                          < ton[j].amount + SourceUnit
    BY DEF PayoutWithinTransfer
  <2>2. PICK s \in Swaps : eth[i].swap = s
    BY <1>1, PayoutSwap
  <2>3. /\ eth[i].amount = swap[s].destinationAmount
        /\ Quoted(s)
    BY <1>1, <2>2 DEF IInv, PayoutInv, Backed
  <2>4. ton[j].amount = swap[s].sourceAmount
    BY <2>2 DEF Incoming
  <2>5. PICK amount \in Asked \cup Transferred :
          /\ swap[s].sourceAmount = StoredSource(amount)
          /\ swap[s].destinationAmount = StoredDestination(amount)
          /\ swap[s].fee = StoredFee(amount)
    BY <2>3 DEF Quoted
  <2>6. amount \in Nat
    BY AmountAssumption
  <2>7. StoredFee(amount) + StoredDestination(amount)
          < StoredSource(amount) + SourceUnit
    BY <2>6, QuoteOverpaidBelowUnit DEF OverpaidBelowUnit
  <2>8. StoredFee(amount) \in Nat /\ StoredDestination(amount) \in Nat
    BY <2>6, StoredAmounts
  <2> QED
    BY <2>2, <2>3, <2>4, <2>5, <2>7, <2>8
<1> QED
  BY <1>1, Invariance, PTL

\* No fee leaves a source wallet, no jetton is burned and nothing is recorded of
\* either before a payment of the swap was broadcast, be it executed or reverted,
\* although neither transferTonFee nor burnTonJettons looks at the status of the swap.
THEOREM ChargesFollowPayouts == Spec => []ChargedAfterPayout
<1>1. IInv => ChargedAfterPayout
  BY DEF IInv
<1> QED
  BY <1>1, Invariance, PTL
-----------------------------------------------------------------------------
(* TonToEth implements SwapPromise: every step pays, charges, or receives.   *)

\* What an action on s does to the rows, the payments and the charges.
LEMMA OriginsKept ==
  ASSUME IInv, NEW s \in Swaps,
         \/ Create(s) \/ CreateFails(s) \/ Cancel(s) \/ Settle(s) \/ Confirm(s)
         \/ Pay(s) \/ Fee(s) \/ Burn(s) \/ HandlerThrows(s) \/ Tick(s)
  PROVE  \A t \in Swaps : KeepsOrigin(t)
<1>0. TypeOK /\ TablesOK /\ SwapInv(s) /\ RequestInv(s) /\ ExitInv(s)
  BY DEF IInv, TypeOK, SwapInv
<1>1. CASE Create(s) \/ CreateFails(s) \/ Cancel(s) \/ Settle(s)
  <2>1. \/ UNCHANGED swap \/ InsertSwap(s, Len(ton))
        \/ FailSwap(s) \/ CancelWrite(s) \/ ExitRow(s)
    BY <1>1 DEF Create, CreateFails, Cancel, Settle, PickWallet, MarkWallet,
       AddConfirmJob, InsertFails, AddConfirmJobFails, ReleaseRequested,
       RequestThrows, CancelRead, ExitWallet
  <2> QED
    BY <1>0, <2>1, SharedKeepsOrigin
<1>2. CASE Confirm(s)
  <2>1. \/ UNCHANGED swap
        \/ \E i \in Nat : ConfirmWrite(s, i)
        \/ \E i \in Found(s, ton[run[s].tx].by, "TRANSFER") : ConfirmWrite(s, i)
    BY <1>2 DEF Confirm, ConfirmRead, ConfirmReads, ConfirmIncoming, ConfirmOutgoing,
       ConfirmCredit, OnConfirmFailed, OnConfirmCompleted
  <2> QED
    BY <1>0, <2>1, SameRowsKeepOrigin, ConfirmedRowKeepsOrigin DEF ConfirmWrite
<1>3. CASE Pay(s)
  <2>1. CASE UNCHANGED swap
    BY <2>1, SameRowsKeepOrigin
  <2>2. CASE PayWriteRow(s)
    <3>1. RowTyped(s) /\ swap'[s].status = "completed"
      BY <1>0, <2>2, StatusFields DEF PayWriteRow, Statuses
    <3> QED
      BY <3>1, RowKeepsOrigin
  <2> QED
    BY <1>3, <2>1, <2>2 DEF Pay, PayRead, PaySend, OnPayCompleted
<1>4. CASE Fee(s) \/ Burn(s)
  <2>1. CASE UNCHANGED swap
    BY <2>1, SameRowsKeepOrigin
  <2>2. CASE GetFeeFind(s) \/ GetBurnFind(s)
    <3>1. swap[s].status # "none"
      BY <1>0, <2>2 DEF GetFeeFind, GetBurnFind, At, RequestInv
    <3>2. UNCHANGED swap \/ (RowTyped(s) /\ swap'[s].status = swap[s].status)
      BY <1>0, <2>2, CollectedFields, BurnedFields DEF GetFeeFind, GetBurnFind
    <3> QED
      BY <3>1, <3>2, SameRowsKeepOrigin, RowKeepsOrigin
  <2> QED
    BY <1>4, <2>1, <2>2 DEF Fee, Burn, FeeRead, FeeSend, OnFeeCompleted, GetFeeRead,
       GetFeeDebit, OnGetFeeCompleted, BurnRead, BurnSend, OnBurnCompleted,
       GetBurnRead, GetBurnDebit, SendRead, Sends, OnNext
<1>5. CASE HandlerThrows(s) \/ Tick(s)
  BY <1>5, SameRowsKeepOrigin DEF HandlerThrows, Tick
<1> QED
  BY <1>1, <1>2, <1>3, <1>4, <1>5

\* What a swap received stays received.
LEMMA ReceivedGrows ==
  ASSUME TypeOK, NEW by, TonGrows(by), \A t \in Swaps : KeepsOrigin(t)
  PROVE  /\ DOMAIN received' = Swaps
         /\ \A t \in Swaps : received[t] \subseteq received'[t]
<1>1. ASSUME NEW t \in Swaps, NEW amount \in received[t]
      PROVE  amount \in received'[t]
  <2>1. PICK i \in (swap[t].createdAt + 1)..Len(ton) :
               /\ amount = ton[i].amount
               /\ swap[t].status # "none"
               /\ ton[i].at = swap[t].sourceWallet
               /\ ton[i].op = "INTERNAL_TRANSFER"
    BY <1>1 DEF received
  <2>2. swap[t].createdAt \in Nat
    BY DEF TypeOK, TablesOK, Rows
  <2>3. i \in 1..Len(ton) /\ i \in (swap'[t].createdAt + 1)..Len(ton')
    BY <2>1, <2>2 DEF TonGrows, KeepsOrigin
  <2>4. /\ ton'[i] = ton[i]
        /\ swap'[t].status # "none"
        /\ swap'[t].sourceWallet = swap[t].sourceWallet
    BY <2>1, <2>3 DEF TonGrows, KeepsOrigin
  <2> QED
    BY <2>1, <2>3, <2>4 DEF received
<1> QED
  BY <1>1 DEF received

\* A step that pays nothing and sends nothing for a swap is one of receiving.
LEMMA ReceiveStep ==
  ASSUME IInv, TonGrows({}), eth' = eth, \A t \in Swaps : KeepsOrigin(t)
  PROVE  Promise!Receive
<1>1. TypeOK
  BY DEF IInv
<1> DEFINE by == {}
<1>2. TonGrows(by)
  OBVIOUS
<1> HIDE DEF by
<1>3. /\ DOMAIN received' = Swaps
      /\ \A t \in Swaps : received[t] \subseteq received'[t]
  BY <1>1, <1>2, ReceivedGrows
<1>4. payouts' = payouts
  BY DEF payouts
<1>5. charged' = charged
  <2>1. ASSUME NEW t \in Swaps
        PROVE  (\E i \in 1..Len(ton) : ton[i].by = t)
                 <=> (\E i \in 1..Len(ton') : ton'[i].by = t)
    <3>1. t \notin Senders
      BY AccountAssumption
    <3> QED
      BY <3>1 DEF TonGrows
  <2> QED
    BY <2>1 DEF charged
<1> QED
  BY <1>3, <1>4, <1>5 DEF Promise!Receive
\* The payment of transferEthTokens is one for tokens received, at the rate of the
\* bridge, and the same as any the swap has had before.
LEMMA PayRefines ==
  ASSUME IInv, NEW s \in Swaps, PaySend(s), Broadcast(s)
  PROVE  Promise!Pay(s)
<1>0. TypeOK /\ TablesOK /\ SwapInv(s) /\ PayoutInv
  BY DEF IInv, TypeOK
<1>1. Backed(s) /\ swap[s].status # "none"
  BY <1>0 DEF PaySend, At, SwapInv, PipelineInv, RequestInv
<1>2. PICK a \in Asked \cup Transferred :
        /\ swap[s].sourceAmount = StoredSource(a)
        /\ swap[s].destinationAmount = StoredDestination(a)
  BY <1>1 DEF Backed, Quoted
<1> DEFINE q == [source |-> StoredSource(a), destination |-> StoredDestination(a)]
<1>3. q \in Quotes
  BY DEF Quotes
<1>4. q.source \in received[s]
  <2>1. PICK j \in Incoming(s) : TRUE
    BY <1>1 DEF Backed
  <2>2. /\ j \in (swap[s].createdAt + 1)..Len(ton)
        /\ ton[j].at = swap[s].sourceWallet
        /\ ton[j].op = "INTERNAL_TRANSFER"
        /\ ton[j].amount = swap[s].sourceAmount
    BY DEF Incoming
  <2> QED
    BY <1>1, <1>2, <2>2 DEF received
<1>5. eth \in Seq(Payouts) /\ Len(eth) \in Nat
  BY <1>0, LenProperties DEF TypeOK
<1>6. /\ payouts \in Seq([swap : Swaps, to : Recipients, amount : Nat])
      /\ Len(payouts) = Len(eth)
      /\ \A i \in 1..Len(eth) :
           payouts[i] = [swap |-> eth[i].swap, to |-> eth[i].to, amount |-> eth[i].amount]
  <2>1. \A i \in 1..Len(eth) : eth[i] \in Payouts
    BY <1>5, ElementOfSeq
  <2>2. \A i \in 1..Len(eth) :
          [swap |-> eth[i].swap, to |-> eth[i].to, amount |-> eth[i].amount]
            \in [swap : Swaps, to : Recipients, amount : Nat]
    BY <2>1 DEF Payouts
  <2> DEFINE Payments == [swap : Swaps, to : Recipients, amount : Nat]
  <2>3. payouts \in [1..Len(eth) -> Payments]
    BY <2>2 DEF payouts
  <2> HIDE DEF Payments
  <2>4. payouts \in Seq(Payments) /\ Len(payouts) = Len(eth)
    BY <1>5, <2>3
  <2> QED
    BY <2>4 DEF payouts, Payments
<1>7. \A i \in 1..Len(payouts) :
        payouts[i].swap = s => payouts[i].amount = q.destination
  <2>1. ASSUME NEW i \in 1..Len(payouts), payouts[i].swap = s
        PROVE  payouts[i].amount = StoredDestination(a)
    <3> DEFINE payment == [swap |-> eth[i].swap, to |-> eth[i].to,
                           amount |-> eth[i].amount]
    <3>1. i \in 1..Len(eth) /\ payouts[i] = payment
      BY <1>6
    <3>2. payment.swap = eth[i].swap /\ payment.amount = eth[i].amount
      OBVIOUS
    <3> HIDE DEF payment
    <3>3. i \in 1..Len(eth) /\ eth[i].swap = s /\ payouts[i].amount = eth[i].amount
      BY <2>1, <3>1, <3>2
    <3> QED
      BY <1>0, <1>2, <3>3 DEF PayoutInv
  <2> QED
    BY <2>1
<1> DEFINE payment == [swap |-> s, to |-> RecipientOf[s], amount |-> q.destination]
<1>8. payouts' = Append(payouts, payment)
  <2> DEFINE paid == [swap |-> s, to |-> RecipientOf[s],
                      amount |-> swap[s].destinationAmount,
                      executed |-> swap[s].destinationAmount <= reserve]
  <2>1. eth' = Append(eth, paid)
    BY DEF Broadcast
  <2>2. paid.swap = s /\ paid.to = RecipientOf[s] /\ paid.amount = q.destination
    BY <1>2
  <2>3. paid \in Payouts
    BY <1>0, RecipientAssumption DEF Payouts, TablesOK, Rows
  <2> HIDE DEF paid
  <2>4. /\ Len(eth') = Len(eth) + 1
        /\ \A i \in 1..Len(eth) : eth'[i] = eth[i]
        /\ eth'[Len(eth) + 1] = paid
    BY <1>5, <2>1, <2>3, AppendProperties
  <2>5. payouts' = [i \in 1..(Len(eth) + 1) |-> IF i <= Len(eth) THEN payouts[i] ELSE payment]
    <3>1. ASSUME NEW i \in 1..(Len(eth) + 1)
          PROVE  [swap |-> eth'[i].swap, to |-> eth'[i].to, amount |-> eth'[i].amount]
                   = IF i <= Len(eth) THEN payouts[i] ELSE payment
      BY <1>5, <1>6, <2>2, <2>4, <3>1
    <3> QED
      BY <2>4, <3>1 DEF payouts
  <2> DEFINE Payments == [swap : Swaps, to : Recipients, amount : Nat]
             longer == [i \in 1..(Len(eth) + 1) |->
                          IF i <= Len(eth) THEN payouts[i] ELSE payment]
  <2>6. payment \in Payments
    BY <2>2, <2>3 DEF Payouts, paid
  <2> HIDE DEF payment
  <2>7. \A i \in 1..Len(payouts) : payouts[i] \in Payments
    BY <1>6, ElementOfSeq
  <2>8. \A i \in 1..(Len(eth) + 1) :
          (IF i <= Len(eth) THEN payouts[i] ELSE payment) \in Payments
    BY <1>5, <1>6, <2>6, <2>7
  <2>9. longer \in [1..(Len(eth) + 1) -> Payments]
    BY <2>8
  <2>10. longer \in Seq(Payments) /\ Len(longer) = Len(eth) + 1
    BY <1>5, <2>9
  <2>11. /\ Append(payouts, payment) \in Seq(Payments)
         /\ Len(Append(payouts, payment)) = Len(payouts) + 1
         /\ \A i \in 1..Len(payouts) : Append(payouts, payment)[i] = payouts[i]
         /\ Append(payouts, payment)[Len(payouts) + 1] = payment
    BY <1>6, <2>6, AppendProperties
  <2>12. \A i \in 1..Len(longer) : longer[i] = Append(payouts, payment)[i]
    BY <1>5, <1>6, <2>10, <2>11
  <2>13. longer = Append(payouts, payment)
    BY <1>6, <2>10, <2>11, <2>12, SeqEqual
  <2> QED
    BY <2>5, <2>13
<1>9. UNCHANGED <<received, charged>>
  BY DEF PaySend, received, charged
<1> HIDE DEF q
<1> QED
  BY <1>3, <1>4, <1>7, <1>8, <1>9 DEF Promise!Pay

\* The fee and the burn charge a swap a payment of which was broadcast (transferTonFee,
\* burnTonJettons), and bring no source wallet anything.
LEMMA ChargeRefines ==
  ASSUME IInv, NEW s \in Swaps, FeeSend(s) \/ BurnSend(s), ton' # ton
  PROVE  Promise!Charge(s)
<1>0. TypeOK /\ TablesOK /\ SwapInv(s) /\ PayoutInv
  BY DEF IInv, TypeOK
<1>a. PICK op \in Operations :
         \E name \in {"fee", "burn"}, transactions \in SUBSET OwnTransactions(s, op) :
           Sends(s, name, transactions)
  BY FeeSends, BurnSends DEF Operations
<1>1. PICK name \in {"fee", "burn"}, transactions \in SUBSET OwnTransactions(s, op) :
        Sends(s, name, transactions)
  BY <1>a
<1>2. PICK new \in transactions : ton' = ton \o new
  <2>1. PICK new \in {<<>>} \cup transactions : ton' = ton \o new
    BY <1>1 DEF Sends
  <2>2. new # <<>>
    BY <1>0, <2>1, ConcatEmptySeq DEF TypeOK
  <2> QED
    BY <2>1, <2>2
<1>3. /\ new \in Seq(Transactions)
      /\ \A i \in 1..Len(new) :
           new[i].by = s /\ ~(new[i].at \in Wallets /\ new[i].op = "INTERNAL_TRANSFER")
  BY <1>2 DEF OwnTransactions
<1>4. ton \in Seq(Transactions) /\ Len(ton) \in Nat /\ Len(new) \in Nat
  BY <1>0, <1>3, LenProperties DEF TypeOK
<1>5. /\ Len(ton') = Len(ton) + Len(new)
      /\ \A i \in 1..(Len(ton) + Len(new)) :
           ton'[i] = IF i <= Len(ton) THEN ton[i] ELSE new[i - Len(ton)]
  BY <1>2, <1>3, <1>4, ConcatProperties
<1>6. Len(new) > 0
  <2>1. new # <<>>
    BY <1>0, <1>2, ConcatEmptySeq DEF TypeOK
  <2> QED
    BY <1>3, <1>4, <2>1, EmptySeq
<1>7. ASSUME NEW i \in 1..Len(ton'), i \notin 1..Len(ton)
      PROVE  ton'[i].by = s /\ ~(ton'[i].at \in Wallets /\ ton'[i].op = "INTERNAL_TRANSFER")
  <2>1. i - Len(ton) \in 1..Len(new) /\ ton'[i] = new[i - Len(ton)]
    BY <1>4, <1>5, <1>7
  <2> QED
    BY <1>3, <2>1
<1>8. \A i \in 1..Len(ton) : i \in 1..Len(ton') /\ ton'[i] = ton[i]
  BY <1>4, <1>5
<1>9. UNCHANGED <<eth, swap>>
  BY <1>1 DEF Sends
<1>10. received' = received
  <2>1. ASSUME NEW t \in Swaps
        PROVE  received'[t] = received[t]
    <3>1. swap[t].createdAt \in Nat /\ swap[t].sourceWallet \in Wallets \cup {NoWallet}
      BY <1>0 DEF TablesOK, Rows
    <3>2. swap[t].status # "none" => swap[t].sourceWallet \in Wallets
      BY DEF IInv, SwapInv, RequestInv
    <3> DEFINE arrived(i) == /\ swap[t].status # "none"
                             /\ ton[i].at = swap[t].sourceWallet
                             /\ ton[i].op = "INTERNAL_TRANSFER"
    <3>3. \A i \in (swap[t].createdAt + 1)..Len(ton) :
            i \in (swap[t].createdAt + 1)..Len(ton') /\ ton'[i] = ton[i]
      BY <1>4, <1>5, <1>8, <3>1
    <3>4. \A i \in (swap[t].createdAt + 1)..Len(ton') :
            /\ swap[t].status # "none"
            /\ ton'[i].at = swap[t].sourceWallet
            /\ ton'[i].op = "INTERNAL_TRANSFER"
            => i \in (swap[t].createdAt + 1)..Len(ton)
      BY <1>4, <1>5, <1>7, <3>1, <3>2
    <3> QED
      BY <1>9, <3>3, <3>4 DEF received
  <2> QED
    BY <2>1 DEF received
<1>11. payouts' = payouts
  BY <1>9 DEF payouts
<1>12. charged' = charged \cup {s}
  <2>1. Len(ton') \in 1..Len(ton') /\ Len(ton') \notin 1..Len(ton)
    BY <1>4, <1>5, <1>6
  <2>2. ton'[Len(ton')].by = s
    BY <1>7, <2>1
  <2>3. ASSUME NEW t \in Swaps
        PROVE  (\E i \in 1..Len(ton') : ton'[i].by = t)
                 <=> (\E i \in 1..Len(ton) : ton[i].by = t) \/ t = s
    BY <1>7, <1>8, <2>1, <2>2
  <2> QED
    BY <2>3 DEF charged
<1>13. \E i \in 1..Len(payouts) : payouts[i].swap = s
  <2>1. PICK i \in 1..Len(eth) : eth[i].swap = s
    BY <1>0, <1>1 DEF Sends, At, SwapInv, PipelineInv, PayoutSent
  <2>2. Len(eth) \in Nat
    BY <1>0, LenProperties DEF TypeOK
  <2>3. Len(payouts) = Len(eth) /\ payouts[i].swap = eth[i].swap
    BY <2>2 DEF payouts
  <2> QED
    BY <2>1, <2>3
<1> QED
  BY <1>10, <1>11, <1>12, <1>13 DEF Promise!Charge

\* Every step of the pipeline is one the promise allows.
LEMMA StepRefines ==
  ASSUME IInv, Next
  PROVE  Promise!Next
<1>0. TypeOK /\ TablesOK
  BY DEF IInv, TypeOK
<1>1. UNCHANGED ton => TonGrows({})
  BY <1>0, SameTon
<1>2. CASE UserTransfer \/ (Crash /\ UNCHANGED world)
  <2>1. TonGrows({})
    BY <1>1, <1>2, UserTransferGrows DEF world
  <2>2. UNCHANGED <<eth, swap>>
    BY <1>2 DEF UserTransfer, Crash, world
  <2> QED
    BY <2>1, <2>2, SameRowsKeepOrigin, ReceiveStep DEF Promise!Next
<1>3. ASSUME NEW s \in Swaps,
             \/ Create(s) \/ CreateFails(s) \/ Cancel(s) \/ Settle(s) \/ Confirm(s)
             \/ Pay(s) \/ Fee(s) \/ Burn(s)
             \/ HandlerThrows(s) /\ UNCHANGED world
             \/ Tick(s) /\ UNCHANGED world
      PROVE  Promise!Next
  <2>1. \A t \in Swaps : KeepsOrigin(t)
    BY <1>3, OriginsKept
  <2>2. CASE UNCHANGED <<ton, eth>>
    BY <1>1, <2>1, <2>2, ReceiveStep DEF Promise!Next
  <2>3. CASE PaySend(s) /\ Broadcast(s)
    BY <2>3, PayRefines DEF Promise!Next
  <2>4. CASE (FeeSend(s) \/ BurnSend(s)) /\ ton' # ton
    BY <2>4, ChargeRefines DEF Promise!Next
  <2>5. CASE (FeeSend(s) \/ BurnSend(s)) /\ ton' = ton
    BY <2>2, <2>5 DEF FeeSend, BurnSend, Sends
  <2>6. CASE \/ Create(s) \/ CreateFails(s) \/ Cancel(s) \/ Settle(s)
             \/ HandlerThrows(s) /\ UNCHANGED world
             \/ Tick(s) /\ UNCHANGED world
    BY <2>2, <2>6 DEF Create, CreateFails, Cancel, Settle, world
  <2>7. CASE Confirm(s)
    BY <2>2, <2>7 DEF Confirm, ConfirmRead, ConfirmIncoming, ConfirmOutgoing,
       OnConfirmFailed, OnConfirmCompleted, world
  <2>8. CASE Pay(s)
    <3>1. UNCHANGED <<ton, eth>> \/ (PaySend(s) /\ Broadcast(s))
      BY <2>8 DEF Pay, PayRead, PaySend, PayWriteRow, OnPayCompleted
    <3> QED
      BY <2>2, <2>3, <3>1
  <2>9. CASE Fee(s) \/ Burn(s)
    <3>1. UNCHANGED <<ton, eth>> \/ FeeSend(s) \/ BurnSend(s)
      BY <2>9 DEF Fee, Burn, FeeRead, OnFeeCompleted, GetFeeRead, GetFeeFind,
         GetFeeDebit, OnGetFeeCompleted, BurnRead, OnBurnCompleted, GetBurnRead,
         GetBurnFind, GetBurnDebit, SendRead, OnNext
    <3> QED
      BY <2>2, <2>4, <2>5, <3>1
  <2> QED
    BY <1>3, <2>6, <2>7, <2>8, <2>9
<1>4. CASE \E s \in Swaps :
             \/ Create(s) \/ CreateFails(s) \/ Cancel(s) \/ Settle(s) \/ Confirm(s)
             \/ Pay(s) \/ Fee(s) \/ Burn(s)
             \/ HandlerThrows(s) /\ UNCHANGED world
             \/ Tick(s) /\ UNCHANGED world
  BY <1>3, <1>4
<1> HIDE DEF Promise!Next
<1> QED
  BY <1>2, <1>4 DEF Next

\* A TON source swap keeps what the bridge promises: whatever fails, is retried,
\* redelivered or canceled, tokens are paid for jettons received, at the rate of the
\* bridge, to the address the swap was ordered for, and a swap is charged only once a
\* payment of its own was broadcast.  That the payment is executed is not promised.
THEOREM KeepsThePromise == Spec => ImplementsPromise
<1>1. Init => Promise!Init
  <2>1. ASSUME Init
        PROVE  /\ received = [s \in Swaps |-> {}]
               /\ payouts = <<>>
               /\ charged = {}
    <3>1. 1..Len(eth) = {} /\ 1..Len(ton) = {}
      BY <2>1 DEF Init
    <3>2. \A s \in Swaps : swap[s].status = "none"
      BY <2>1 DEF Init, InitTables, NoSwap
    <3> QED
      BY <2>1, <3>1, <3>2 DEF Init, received, payouts, charged
  <2> QED
    BY <2>1 DEF Promise!Init
<1>2. IInv /\ [Next]_vars => [Promise!Next]_Promise!vars
  <2>1. ASSUME UNCHANGED vars
        PROVE  UNCHANGED Promise!vars
    BY <2>1 DEF vars, Promise!vars, received, payouts, charged
  <2> QED
    BY <2>1, StepRefines
<1> QED
  BY <1>1, <1>2, Invariance, PTL DEF Spec, ImplementsPromise, Promise!Spec

-----------------------------------------------------------------------------
(* Wallets in use are held.                                                  *)

\* The handlers and listeners of TonToEth are about one swap.
LEMMA HandlersKeepOthers ==
  ASSUME IInv, NEW s \in Swaps, Confirm(s) \/ Pay(s) \/ Fee(s) \/ Burn(s)
  PROVE  OnlyOf(s) /\ UNCHANGED <<request, cancel>>
<1>0. /\ swap \in [Swaps -> Rows]
      /\ job \in [Swaps -> Jobs] /\ run \in [Swaps -> Runs]
  BY DEF IInv, TypeOK, TablesOK
<1>1. ASSUME NEW t \in Swaps \ {s}
      PROVE  /\ \A stage : Goto(s, stage) => job'[t] = job[t] /\ run'[t] = run[t]
             /\ \A stage : GotoWithBalance(s, stage) => job'[t] = job[t] /\ run'[t] = run[t]
             /\ \A result : Return(s, result) => job'[t] = job[t] /\ run'[t] = run[t]
             /\ \A result : Exit(s, result) => job'[t] = job[t] /\ run'[t] = run[t]
             /\ \A new : Enqueue(s, new) => job'[t] = job[t] /\ run'[t] = run[t]
             /\ \A why : Fails(s, why) => job'[t] = job[t] /\ run'[t] = run[t]
  BY <1>0 DEF Goto, GotoWithBalance, Return, Exit, Enqueue, Fails
<1>2. UNCHANGED <<request, cancel>>
  BY DEF Confirm, Pay, Fee, Burn, ConfirmRead, ConfirmReads, ConfirmIncoming,
     ConfirmOutgoing, ConfirmCredit, OnConfirmFailed, OnConfirmCompleted, PayRead,
     PaySend, PayWriteRow, OnPayCompleted, FeeRead, FeeSend, OnFeeCompleted,
     GetFeeRead, GetFeeFind, GetFeeDebit, OnGetFeeCompleted, BurnRead, BurnSend,
     OnBurnCompleted, GetBurnRead, GetBurnFind, GetBurnDebit, SendRead, Sends, OnNext
<1>3. ASSUME NEW t \in Swaps \ {s}
      PROVE  job'[t] = job[t] /\ run'[t] = run[t]
  <2>1. CASE Confirm(s)
    <3>1. ASSUME NEW n, run' = [run EXCEPT ![s].stage = "outgoing", ![s].tx = n],
                 job' = job
          PROVE  job'[t] = job[t] /\ run'[t] = run[t]
      BY <1>0, <3>1
    <3> QED
      BY <1>1, <2>1, <3>1 DEF Confirm, ConfirmRead, ConfirmReads, ConfirmIncoming,
         ConfirmOutgoing, ConfirmCredit, OnConfirmFailed, OnConfirmCompleted
  <2>2. CASE Pay(s)
    BY <1>1, <2>2 DEF Pay, PayRead, PaySend, PayWriteRow, OnPayCompleted
  <2>3. CASE Fee(s) \/ Burn(s)
    BY <1>1, <2>3 DEF Fee, Burn, FeeRead, FeeSend, OnFeeCompleted, GetFeeRead,
       GetFeeFind, GetFeeDebit, OnGetFeeCompleted, BurnRead, BurnSend,
       OnBurnCompleted, GetBurnRead, GetBurnFind, GetBurnDebit, SendRead, Sends,
       OnNext, DebitRefused
  <2> QED
    BY <2>1, <2>2, <2>3
<1>4. ASSUME NEW t \in Swaps \ {s}
      PROVE  swap'[t] = swap[t]
  <2>1. CASE Confirm(s)
    BY <1>0, <2>1 DEF Confirm, ConfirmRead, ConfirmReads, ConfirmIncoming,
       ConfirmOutgoing, ConfirmWrite, ConfirmCredit, OnConfirmFailed,
       OnConfirmCompleted
  <2>2. CASE Pay(s)
    BY <1>0, <2>2 DEF Pay, PayRead, PaySend, PayWriteRow, OnPayCompleted
  <2>3. CASE Fee(s) \/ Burn(s)
    BY <1>0, <2>3 DEF Fee, Burn, FeeRead, FeeSend, OnFeeCompleted, GetFeeRead,
       GetFeeFind, GetFeeDebit, OnGetFeeCompleted, BurnRead, BurnSend,
       OnBurnCompleted, GetBurnRead, GetBurnFind, GetBurnDebit, SendRead, Sends,
       OnNext
  <2> QED
    BY <2>1, <2>2, <2>3
<1> QED
  BY <1>2, <1>3, <1>4 DEF OnlyOf

\* The handlers after the confirmation leave wallets marked as they are
\* (EthDestinationSwapsProcessor, TonSourceSwapsProcessor after it).
LEMMA LateKeepsHold ==
  ASSUME IInv, NEW s \in Swaps, Pay(s) \/ Fee(s) \/ Burn(s)
  PROVE  KeepsHold(s)
<1>0. TablesOK /\ RequestInv(s) /\ UNCHANGED request
  BY HandlersKeepOthers DEF IInv, TypeOK, SwapInv
<1>1. job[s].name \in {"pay", "fee", "getFee", "burn", "getBurn"}
  BY DEF Pay, Fee, Burn, PayRead, PaySend, PayWriteRow, OnPayCompleted, FeeRead,
     FeeSend, OnFeeCompleted, GetFeeRead, GetFeeFind, GetFeeDebit, OnGetFeeCompleted,
     BurnRead, BurnSend, OnBurnCompleted, GetBurnRead, GetBurnFind, GetBurnDebit,
     SendRead, Sends, OnNext, Takes, At
<1>2. job' = job \/ run'[s] = Idle
  <2>1. ASSUME NEW new, Enqueue(s, new)
        PROVE  run'[s] = Idle
    BY <1>0, <2>1 DEF Enqueue, TablesOK
  <2>2. ASSUME Fails(s, "error")
        PROVE  run'[s] = Idle
    BY <1>0, <1>1, <2>2 DEF Fails, TablesOK
  <2> QED
    BY <2>1, <2>2 DEF Pay, Fee, Burn, PayRead, PaySend, PayWriteRow, OnPayCompleted,
       FeeRead, FeeSend, OnFeeCompleted, GetFeeRead, GetFeeFind, GetFeeDebit,
       OnGetFeeCompleted, BurnRead, BurnSend, OnBurnCompleted, GetBurnRead,
       GetBurnFind, GetBurnDebit, SendRead, Sends, OnNext, DebitRefused, Exit, Goto,
       GotoWithBalance, Return
<1>3. \A w \in Wallets : wallet'[w].inUse => wallet[w].inUse
  <2>1. CASE UNCHANGED wallet
    BY <2>1
  <2>2. ASSUME NEW amount, Debit(s, amount)
        PROVE  \A w \in Wallets : wallet'[w].inUse => wallet[w].inUse
    BY <1>0, <2>2 DEF Debit, TablesOK
  <2> QED
    BY <2>1, <2>2 DEF Pay, Fee, Burn, PayRead, PaySend, PayWriteRow, OnPayCompleted,
       FeeRead, FeeSend, OnFeeCompleted, GetFeeRead, GetFeeFind, GetFeeDebit,
       OnGetFeeCompleted, BurnRead, BurnSend, OnBurnCompleted, GetBurnRead,
       GetBurnFind, GetBurnDebit, SendRead, Sends, OnNext, DebitRefused
<1> QED
  BY <1>0, <1>1, <1>2, <1>3, RestFields, LateHolds DEF LostInv

\* The confirm job holds its wallet until the handler has credited it
\* (conifrmTonTransfer and its listeners).
LEMMA ConfirmKeepsHold ==
  ASSUME IInv, NEW s \in Swaps, Confirm(s)
  PROVE  KeepsHold(s)
<1>0. /\ TablesOK /\ RequestInv(s) /\ UNCHANGED request
      /\ job[s].name = "confirm"
  BY DEF IInv, TypeOK, SwapInv, Confirm, ConfirmRead, ConfirmReads, ConfirmIncoming,
     ConfirmOutgoing, ConfirmCredit, OnConfirmFailed, OnConfirmCompleted, Takes, At
<1>1. swap'[s].sourceWallet = swap[s].sourceWallet
  BY <1>0, OriginsKept DEF KeepsOrigin, RequestInv
<1>2. CASE ConfirmRead(s)
  <2>1. job' = job /\ run'[s].stage \in {"exitRow", "scan"}
    BY <1>0, <1>2, ConfirmReadsFields DEF ConfirmRead, Stages
  <2> QED
    BY <1>0, <1>1, <1>2, <2>1, ConfirmHolds DEF ConfirmRead, ConfirmReads
<1>3. ASSUME Fails(s, "notFound")
      PROVE  job'[s].name = "confirm" /\ run'[s].stage \in {"idle", "failed"}
  BY <1>0, <1>3, FailsFields
<1>4. CASE ConfirmIncoming(s)
  <2>1. /\ job'[s].name = "confirm"
        /\ run'[s].stage \in {"idle", "failed", "outgoing", "exitRow"}
    <3>1. ASSUME Exit(s, "failed")
          PROVE  job' = job /\ run'[s].stage = "exitRow"
      BY <1>0, <3>1, ExitFields DEF Statuses
    <3>2. ASSUME NEW n, run' = [run EXCEPT ![s].stage = "outgoing", ![s].tx = n]
          PROVE  run'[s].stage = "outgoing"
      BY <1>0, <3>2 DEF TablesOK, Runs
    <3> QED
      BY <1>0, <1>3, <1>4, <3>1, <3>2 DEF ConfirmIncoming
  <2> QED
    BY <1>0, <1>1, <1>4, <2>1, ConfirmHolds DEF ConfirmIncoming
<1>5. CASE ConfirmOutgoing(s)
  <2>1. job'[s].name = "confirm" /\ run'[s].stage \in {"idle", "failed", "credit"}
    BY <1>0, <1>3, <1>5, GotoFields DEF ConfirmOutgoing, Stages
  <2> QED
    BY <1>0, <1>1, <1>5, <2>1, ConfirmHolds DEF ConfirmOutgoing
<1>6. CASE ConfirmCredit(s)
  <2>1. job' = job
    BY <1>0, <1>6, ConfirmCreditFields
  <2>2. \A w \in Wallets :
          wallet'[w].inUse => wallet[w].inUse /\ w # swap[s].sourceWallet
    BY <1>0, <1>6 DEF ConfirmCredit, TablesOK
  <2> QED
    BY <1>0, <1>1, <2>1, <2>2, ConfirmHolds
<1>7. CASE OnConfirmFailed(s)
  <2>1. job'[s] = NextConfirm(s) /\ run'[s] = Idle
    BY <1>0, <1>7 DEF OnConfirmFailed, Enqueue, TablesOK
  <2>2. NextConfirm(s).name = "confirm" /\ Idle.stage = "idle"
    BY DEF NextConfirm, NewJob, Idle, NewRun
  <2> QED
    BY <1>0, <1>1, <1>7, <2>1, <2>2, ConfirmHolds DEF OnConfirmFailed
<1>8. CASE OnConfirmCompleted(s)
  <2>1. /\ EndedJob.name = "ended"
        /\ NewJob("pay", 0, 0, ExtendedAttempts).name = "pay"
    BY DEF EndedJob, NewJob
  <2>2. job'[s].name \in {"ended", "pay"}
    BY <1>0, <1>8, <2>1 DEF OnConfirmCompleted, Enqueue, TablesOK
  <2> QED
    BY <1>0, <1>1, <1>8, <2>2, ConfirmHolds DEF OnConfirmCompleted, At
<1> QED
  BY <1>2, <1>4, <1>5, <1>6, <1>7, <1>8 DEF Confirm

\* Every step keeps the wallets in use held.
LEMMA HeldNext == IInv /\ HeldInv /\ [Next]_vars => HeldInv'
<1> SUFFICES ASSUME IInv, HeldInv, [Next]_vars
             PROVE  HeldInv'
  OBVIOUS
<1>0. TablesOK
  BY DEF IInv, TypeOK
<1>1. ASSUME NEW s \in Swaps,
             \/ Create(s) \/ CreateFails(s) \/ Cancel(s) \/ Settle(s)
             \/ HandlerThrows(s) \/ Tick(s)
      PROVE  HeldInv'
  <2>1. /\ RequestInv(s) /\ ExitInv(s) /\ MarkedInv(s) /\ LostInv(s)
        /\ Len(ton) \in Nat /\ 0 \in Nat
    BY LenProperties DEF IInv, SwapInv, HeldInv, TypeOK
  <2>2. KeepsHold(s)
    BY <1>0, <1>1, <2>1, CreateHolds, CreateFailsHolds, CancelHolds, SettleHolds
       DEF Create, CreateFails, Cancel, Settle
  <2>3. Effect(s)
    <3>1. CASE Create(s)
      BY <1>0, <2>1, <3>1, PickWalletEffect, MarkWalletEffect, InsertSwapEffect,
         AddConfirmJobEffect DEF Create
    <3>2. CASE CreateFails(s)
      BY <1>0, <2>1, <3>2, InsertFailsEffect, AddConfirmJobFailsEffect,
         FailSwapEffect, ReleaseRequestedEffect, RequestThrowsEffect DEF CreateFails
    <3>3. CASE Cancel(s) \/ Settle(s)
      BY <1>0, <2>1, <3>3, CancelReadEffect, CancelWriteEffect, ExitRowEffect,
         ExitWalletEffect DEF Cancel, Settle
    <3>4. CASE HandlerThrows(s) \/ Tick(s)
      BY <1>0, <2>1, <3>4, HandlerThrowsEffect, TickEffect
    <3> QED
      BY <1>1, <3>1, <3>2, <3>3, <3>4
  <2> QED
    BY <2>2, <2>3, HeldStep DEF Effect
<1>2. ASSUME NEW s \in Swaps, Confirm(s) \/ Pay(s) \/ Fee(s) \/ Burn(s)
      PROVE  HeldInv'
  BY <1>2, HandlersKeepOthers, LateKeepsHold, ConfirmKeepsHold, HeldStep
<1>3. CASE UserTransfer \/ UNCHANGED vars
  BY <1>3 DEF UserTransfer, vars, HeldInv, InUseIsHeld, Holds, MarkedInv, LostInv
<1>4. CASE Crash
  BY <1>0, <1>4, CrashHolds
<1> QED
  BY <1>1, <1>2, <1>3, <1>4 DEF Next

\* However requests, cancellations, deadlines, failures and crashes interleave, a
\* wallet in use belongs to a request or a job that has still to release it, or to
\* one that was cut off (createSwap, conifrmTonTransfer, SwapsHelper).
THEOREM WalletsAreHeld == Spec => []InUseIsHeld
<1>1. Init => HeldInv
  BY InitHeld DEF Init
<1>2. HeldInv => InUseIsHeld
  BY DEF HeldInv
<1> QED
  BY <1>1, <1>2, InitInv, NextInv, HeldNext, PTL DEF Spec

-----------------------------------------------------------------------------
(* Payments, fees and burns are repeated no more often than attempts and     *)
(* stalls allow.                                                             *)

\* The steps of SwapJobs that TonToEth takes as they are.
Shared(s) ==
  \/ Create(s) \/ CreateFails(s) \/ Cancel(s) \/ Settle(s)
  \/ (HandlerThrows(s) \/ Tick(s)) /\ UNCHANGED world

\* They touch neither chain, and of the tables and queues only what is of s.
LEMMA SharedEffect ==
  ASSUME IInv, NEW s \in Swaps, Shared(s)
  PROVE  Effect(s) /\ UNCHANGED world
<1>1. TablesOK /\ RequestInv(s) /\ ExitInv(s)
  BY DEF IInv, TypeOK, SwapInv
<1>2. Len(ton) \in Nat /\ 0 \in Nat
  BY LenProperties DEF IInv, TypeOK
<1>3. CASE Create(s)
  BY <1>1, <1>2, <1>3, PickWalletEffect, MarkWalletEffect, InsertSwapEffect,
     AddConfirmJobEffect DEF Create
<1>4. CASE CreateFails(s)
  BY <1>1, <1>2, <1>4, InsertFailsEffect, AddConfirmJobFailsEffect, FailSwapEffect,
     ReleaseRequestedEffect, RequestThrowsEffect DEF CreateFails
<1>5. CASE Cancel(s) \/ Settle(s)
  BY <1>1, <1>5, CancelReadEffect, CancelWriteEffect, ExitRowEffect,
     ExitWalletEffect DEF Cancel, Settle
<1>6. CASE (HandlerThrows(s) \/ Tick(s)) /\ UNCHANGED world
  BY <1>1, <1>6, HandlerThrowsEffect, TickEffect
<1> QED
  BY <1>3, <1>4, <1>5, <1>6 DEF Shared

\* A job that sends something, with the attempts it is added with, the jobs there are
\* before it, and the stages of its handler after the sending.
Budget(name, attempts, before, spent) ==
  [name |-> name, attempts |-> attempts, before |-> before, spent |-> spent]

PayBudget == Budget("pay", ExtendedAttempts, {"none", "confirm"}, {"await", "completed"})
FeeBudget == Budget("fee", UltimateAttempts, {"none", "confirm", "pay"}, {"completed"})
BurnBudget ==
  Budget("burn", UltimateAttempts, {"none", "confirm", "pay", "fee", "getFee"}, {"completed"})
Budgets == {PayBudget, FeeBudget, BurnBudget}

\* What was sent `count` times is within the budget of the job that sends it, and
\* nothing was sent before that job began.
Keeps(b, count, j, stage) ==
  /\ count <= b.attempts + MaxStalls
  /\ j.name \in b.before => count = 0
  /\ j.name = b.name => Within(count, b.attempts, j, stage \in b.spent)

PaymentsOf(s) == {i \in 1..Len(eth) : eth[i].swap = s}
SentBy(s, op) == {i \in 1..Len(ton) : ton[i].by = s /\ ton[i].op = op}

BudgetInv(s) ==
  /\ Keeps(PayBudget, Cardinality(PaymentsOf(s)), job[s], run[s].stage)
  /\ Keeps(FeeBudget, Cardinality(SentBy(s, "TRANSFER")), job[s], run[s].stage)
  /\ Keeps(BurnBudget, Cardinality(SentBy(s, "BURN")), job[s], run[s].stage)

Budgeted == \A s \in Swaps : BudgetInv(s)

\* What the three budgets have in common.
LEMMA BudgetFields ==
  ASSUME NEW b \in Budgets
  PROVE  /\ b.attempts \in Nat \ {0}
         /\ b.name \in {"pay", "fee", "burn"} /\ b.name \notin b.before
         /\ {"none", "confirm"} \subseteq b.before
         /\ b.before \cap {"burn", "getBurn", "ended", "lost"} = {}
         /\ "completed" \in b.spent /\ b.spent \subseteq {"await", "completed"}
BY AttemptAssumption DEF Budgets, PayBudget, FeeBudget, BurnBudget, Budget

\* Payments, transfers and burns are counted.
LEMMA CountsTyped ==
  ASSUME TypeOK, NEW s \in Swaps
  PROVE  /\ Cardinality(PaymentsOf(s)) \in Nat
         /\ \A op : Cardinality(SentBy(s, op)) \in Nat
<1>1. Len(eth) \in Nat /\ Len(ton) \in Nat
  BY LenProperties DEF TypeOK
<1>2. /\ PaymentsOf(s) \subseteq 1..Len(eth)
      /\ \A op : SentBy(s, op) \subseteq 1..Len(ton)
  BY DEF PaymentsOf, SentBy
<1> QED
  BY <1>1, <1>2, OneMore

\* Chains that stay as they are hold as many of each.
LEMMA SameCounts ==
  ASSUME NEW s, UNCHANGED <<eth, ton>>
  PROVE  PaymentsOf(s)' = PaymentsOf(s) /\ \A op : SentBy(s, op)' = SentBy(s, op)
BY DEF PaymentsOf, SentBy

\* A handler that goes on, and not back before what it sent, keeps every budget.
LEMMA GoesOn ==
  ASSUME NEW b \in Budgets, NEW count \in Nat, NEW j \in Jobs, NEW stage, NEW next,
         Keeps(b, count, j, stage),
         j.name = b.name /\ stage \in b.spent => next \in b.spent
  PROVE  Keeps(b, count, j, next)
<1>1. /\ j.left \in Nat /\ j.stalls \in Nat /\ MaxStalls \in Nat
      /\ b.attempts \in Nat
  BY BudgetFields, AttemptAssumption DEF Jobs
<1> QED
  BY <1>1 DEF Keeps, Within

\* A job that is added has sent nothing if it is one that sends.
LEMMA AddedKeeps ==
  ASSUME NEW b \in Budgets, NEW count \in Nat, NEW j, NEW stage, NEW next,
         Keeps(b, count, j, stage), NEW new,
         new.name \in b.before => j.name \in b.before,
         new.name = b.name => j.name \in b.before /\ new = NewJob(b.name, 0, 0, b.attempts)
  PROVE  Keeps(b, count, new, next)
<1>1. CASE new.name = b.name
  <2> DEFINE spent == next \in b.spent
  <2>1. count = 0 /\ spent \in BOOLEAN /\ b.attempts \in Nat \ {0} /\ b.name \in JobNames
    BY <1>1, BudgetFields DEF Keeps, JobNames
  <2> HIDE DEF spent
  <2>2. Within(0, b.attempts, new, spent)
    BY <1>1, <2>1, NewWithin
  <2> QED
    BY <1>1, <2>1, <2>2 DEF Keeps, spent
<1>2. CASE new.name # b.name
  BY <1>2 DEF Keeps
<1> QED
  BY <1>1, <1>2

\* An attempt that throws keeps the budgets, be it after one thing more was sent.
LEMMA ThrownKeeps ==
  ASSUME TablesOK, NEW s \in Swaps, NEW why \in {"error", "notFound"}, Fails(s, why),
         NEW b \in Budgets, NEW count \in Nat, NEW more \in Nat,
         Keeps(b, count, job[s], run[s].stage),
         more = count \/ (At(s, b.name, "send") /\ more <= count + 1)
  PROVE  Keeps(b, more, job'[s], run'[s].stage)
<1> DEFINE spent == run[s].stage \in b.spent
<1>1. /\ spent \in BOOLEAN /\ b.attempts \in Nat /\ MaxStalls \in Nat
      /\ At(s, b.name, "send") => ~spent
  BY BudgetFields, AttemptAssumption DEF At
<1>2. \/ /\ job'[s].name = job[s].name
         /\ job[s].name = "confirm" \/ run'[s].stage = "idle"
      \/ job'[s].name = "lost"
  BY FailsFields
<1>3. CASE job[s].name = b.name
  <2>1. job[s].name # "confirm" /\ Within(count, b.attempts, job[s], spent)
    BY <1>3, BudgetFields DEF Keeps
  <2> HIDE DEF spent
  <2>2. /\ more <= b.attempts + MaxStalls
        /\ job'[s].name = "lost" \/ Within(more, b.attempts, job'[s], FALSE)
    BY <1>1, <2>1, FailsWithin
  <2>3. run'[s].stage \notin b.spent \/ job'[s].name = "lost"
    BY <1>2, <2>1, BudgetFields
  <2> QED
    BY <1>2, <1>3, <2>2, <2>3, BudgetFields DEF Keeps, Within
<1>4. CASE job[s].name # b.name
  <2>1. more = count
    BY <1>4 DEF At
  <2> QED
    BY <1>2, <1>4, <2>1, BudgetFields DEF Keeps
<1> QED
  BY <1>3, <1>4

\* An attempt that goes on after it has sent one thing more has spent its turn.
LEMMA SentKeeps ==
  ASSUME TablesOK, NEW s \in Swaps, NEW b \in Budgets, NEW count \in Nat,
         NEW more \in Nat, Keeps(b, count, job[s], run[s].stage),
         At(s, b.name, "send"), more <= count + 1,
         NEW next \in b.spent
  PROVE  Keeps(b, more, job[s], next)
<1>1. /\ job[s].left \in Nat /\ job[s].stalls \in Nat /\ MaxStalls \in Nat
      /\ b.attempts \in Nat /\ job[s].name = b.name /\ job[s].name \notin b.before
  BY BudgetFields, AttemptAssumption DEF TablesOK, Jobs, At
<1>2. Within(count, b.attempts, job[s], FALSE)
  BY BudgetFields DEF Keeps, At, Within
<1>3. Within(more, b.attempts, job[s], TRUE)
  BY <1>1, <1>2 DEF Within
<1>4. more <= b.attempts + MaxStalls
  BY <1>1, <1>3 DEF Within
<1> QED
  BY <1>1, <1>3, <1>4 DEF Keeps, Within

\* A job that a crash stalled keeps them with one stall more.
LEMMA CrashedKeeps ==
  ASSUME TablesOK, Crash, NEW t \in Swaps, NEW b \in Budgets, NEW count \in Nat,
         Keeps(b, count, job[t], run[t].stage)
  PROVE  Keeps(b, count, job'[t], run'[t].stage)
<1>1. /\ run'[t].stage = "idle"
      /\ \/ job'[t].name = job[t].name
         \/ job'[t].name \in {"ended", "lost"}
  BY CrashEffect DEF CrashedJob
<1>2. CASE job[t].name = b.name /\ job'[t].name = b.name
  <2> DEFINE spent == run[t].stage \in b.spent
  <2>1. /\ Within(count, b.attempts, job[t], spent)
        /\ spent \in BOOLEAN /\ (spent => run[t].stage # "idle")
        /\ b.attempts \in Nat /\ job[t].name \notin {"confirm", "ended", "lost"}
    BY <1>2, BudgetFields DEF Keeps
  <2> HIDE DEF spent
  <2>2. Within(count, b.attempts, job'[t], FALSE)
    BY <1>2, <2>1, CrashWithin
  <2> QED
    BY <1>1, <1>2, <2>2, BudgetFields DEF Keeps, Within
<1> QED
  BY <1>1, <1>2, BudgetFields DEF Keeps

\* What a step that sends nothing does to the job of s: its handler goes on, throws,
\* or leaves the queue with another job.
Quiet(s) ==
  \/ /\ job'[s] = job[s]
     /\ \/ run[s].stage \notin {"await", "completed"}
        \/ run'[s].stage \in {run[s].stage, "completed"}
  \/ \E why \in {"error", "notFound"} : Fails(s, why)
  \/ \E new \in Jobs :
       /\ Enqueue(s, new)
       /\ \A b \in Budgets :
            /\ new.name \in b.before => job[s].name \in b.before
            /\ new.name = b.name =>
                 job[s].name \in b.before /\ new = NewJob(b.name, 0, 0, b.attempts)

\* It keeps every budget.
LEMMA QuietKeeps ==
  ASSUME TablesOK, NEW s \in Swaps, Quiet(s), NEW b \in Budgets, NEW count \in Nat,
         Keeps(b, count, job[s], run[s].stage)
  PROVE  Keeps(b, count, job'[s], run'[s].stage)
<1>0. job[s] \in Jobs
  BY DEF TablesOK
<1>1. CASE /\ job'[s] = job[s]
           /\ \/ run[s].stage \notin {"await", "completed"}
              \/ run'[s].stage \in {run[s].stage, "completed"}
  <2>1. run[s].stage \in b.spent => run'[s].stage \in b.spent
    BY <1>1, BudgetFields
  <2> QED
    BY <1>0, <1>1, <2>1, GoesOn
<1>2. CASE \E why \in {"error", "notFound"} : Fails(s, why)
  BY <1>2, ThrownKeeps
<1>3. CASE \E new \in Jobs :
             /\ Enqueue(s, new)
             /\ new.name \in b.before => job[s].name \in b.before
             /\ new.name = b.name =>
                  job[s].name \in b.before /\ new = NewJob(b.name, 0, 0, b.attempts)
  <2>1. PICK new \in Jobs :
             /\ Enqueue(s, new)
             /\ new.name \in b.before => job[s].name \in b.before
             /\ new.name = b.name =>
                  job[s].name \in b.before /\ new = NewJob(b.name, 0, 0, b.attempts)
    BY <1>3
  <2>2. job'[s] = new
    BY <2>1, EnqueueFields
  <2>3. Keeps(b, count, new, run'[s].stage)
    BY <2>1, AddedKeeps
  <2> QED
    BY <2>2, <2>3
<1> QED
  BY <1>1, <1>2, <1>3 DEF Quiet

\* So the swap stays within its budgets.
LEMMA QuietStep ==
  ASSUME IInv, NEW s \in Swaps, BudgetInv(s), Quiet(s), UNCHANGED <<eth, ton>>
  PROVE  BudgetInv(s)'
<1>1. TypeOK /\ TablesOK
  BY DEF IInv, TypeOK
<1>2. /\ Cardinality(PaymentsOf(s)) \in Nat
      /\ Cardinality(SentBy(s, "TRANSFER")) \in Nat
      /\ Cardinality(SentBy(s, "BURN")) \in Nat
  BY <1>1, CountsTyped
<1>3. /\ PaymentsOf(s)' = PaymentsOf(s)
      /\ SentBy(s, "TRANSFER")' = SentBy(s, "TRANSFER")
      /\ SentBy(s, "BURN")' = SentBy(s, "BURN")
  BY SameCounts
<1>4. PayBudget \in Budgets /\ FeeBudget \in Budgets /\ BurnBudget \in Budgets
  BY DEF Budgets
<1>5. /\ Keeps(PayBudget, Cardinality(PaymentsOf(s)), job'[s], run'[s].stage)
      /\ Keeps(FeeBudget, Cardinality(SentBy(s, "TRANSFER")), job'[s], run'[s].stage)
      /\ Keeps(BurnBudget, Cardinality(SentBy(s, "BURN")), job'[s], run'[s].stage)
  BY <1>1, <1>2, <1>4, QuietKeeps DEF BudgetInv
<1> QED
  BY <1>3, <1>5 DEF BudgetInv, Keeps, Within, PayBudget, FeeBudget, BurnBudget

\* Requests, the helpers and the clock are quiet.
LEMMA SharedQuiet ==
  ASSUME IInv, NEW s \in Swaps, Shared(s)
  PROVE  Quiet(s)
<1>0. TablesOK /\ RequestInv(s)
  BY DEF IInv, TypeOK, SwapInv
<1>1. CASE UNCHANGED <<job, run>>
  BY <1>1 DEF Quiet
<1>2. CASE AddConfirmJob(s, 0) \/ AddConfirmJobFails(s, 0)
  <2> DEFINE new == NewJob("confirm", 0, 0, 1)
  <2>1. job[s].name = "none"
    BY <1>0, <1>2 DEF AddConfirmJob, AddConfirmJobFails, RequestAt, RequestInv
  <2>2. new \in Jobs /\ new.name = "confirm"
    <3>1. "confirm" \in JobNames /\ 0 \in Nat /\ 1 \in Nat
      BY DEF JobNames
    <3> QED
      BY <3>1, NewJobFields
  <2>3. UNCHANGED <<job, run>> \/ Enqueue(s, new)
    BY <1>2 DEF AddConfirmJob, AddConfirmJobFails
  <2> HIDE DEF new
  <2> QED
    BY <1>1, <2>1, <2>2, <2>3, BudgetFields DEF Quiet
<1>3. CASE Settle(s)
  <2>1. job' = job /\ run[s].stage \in {"exitRow", "exitWallet"}
    BY <1>3 DEF Settle, ExitRow, ExitWallet, Goto, Return
  <2> QED
    BY <2>1 DEF Quiet
<1>4. CASE HandlerThrows(s)
  BY <1>4 DEF HandlerThrows, Quiet
<1> QED
  BY <1>1, <1>2, <1>3, <1>4 DEF Shared, Create, CreateFails, Cancel, Settle,
     PickWallet, MarkWallet, InsertSwap, InsertFails, FailSwap, ReleaseRequested,
     RequestThrows, CancelRead, CancelWrite, Tick

\* The jobs that are added have sent nothing before.
LEMMA AddedJobs ==
  ASSUME TablesOK, NEW s \in Swaps, NEW new, Enqueue(s, new),
         \/ new = EndedJob
         \/ new = NewJob("confirm", 0, 0, 1) /\ job[s].name = "confirm"
         \/ new = NewJob("pay", 0, 0, ExtendedAttempts) /\ job[s].name = "confirm"
         \/ new = NewJob("fee", 0, 0, UltimateAttempts) /\ job[s].name = "pay"
         \/ new = NewJob("getFee", 0, 0, UltimateAttempts) /\ job[s].name = "fee"
         \/ new = NewJob("burn", 0, 0, UltimateAttempts) /\ job[s].name = "getFee"
         \/ new = NewJob("getBurn", 0, 0, UltimateAttempts) /\ job[s].name = "burn"
  PROVE  Quiet(s)
<1>0. /\ 0 \in Nat /\ 1 \in Nat /\ ExtendedAttempts \in Nat /\ UltimateAttempts \in Nat
      /\ {"confirm", "pay", "fee", "getFee", "burn", "getBurn"} \subseteq JobNames
  BY AttemptAssumption DEF JobNames
<1>1. \A name \in JobNames, attempts \in Nat :
        /\ NewJob(name, 0, 0, attempts) \in Jobs
        /\ NewJob(name, 0, 0, attempts).name = name
  BY <1>0, NewJobFields
<1>2. EndedJob \in Jobs /\ EndedJob.name = "ended"
  BY RestFields
<1>3. new \in Jobs
  BY <1>0, <1>1, <1>2
<1>4. ASSUME NEW b \in {PayBudget, FeeBudget, BurnBudget}
      PROVE  /\ new.name \in b.before => job[s].name \in b.before
             /\ new.name = b.name =>
                  job[s].name \in b.before /\ new = NewJob(b.name, 0, 0, b.attempts)
  BY <1>0, <1>1, <1>2 DEF PayBudget, FeeBudget, BurnBudget, Budget
<1> QED
  BY <1>3, <1>4 DEF Quiet, Budgets

\* Whatever of the handlers and listeners does not send is quiet.
LEMMA HandlersQuiet ==
  ASSUME IInv, NEW s \in Swaps, Confirm(s) \/ Pay(s) \/ Fee(s) \/ Burn(s),
         ~PaySend(s), ~FeeSend(s), ~BurnSend(s)
  PROVE  Quiet(s) /\ UNCHANGED <<eth, ton>>
<1>0. TablesOK
  BY DEF IInv, TypeOK
<1>1. ASSUME job' = job, run[s].stage \notin {"await", "completed"}
      PROVE  Quiet(s)
  BY <1>1 DEF Quiet
<1>2. ASSUME Fails(s, "error") \/ Fails(s, "notFound")
      PROVE  Quiet(s)
  BY <1>2 DEF Quiet
<1>3. UNCHANGED <<eth, ton>>
  BY DEF Confirm, Pay, Fee, Burn, ConfirmRead, ConfirmIncoming, ConfirmOutgoing,
     OnConfirmFailed, OnConfirmCompleted, PayRead, PayWriteRow, OnPayCompleted,
     FeeRead, OnFeeCompleted, GetFeeRead, GetFeeFind, GetFeeDebit, OnGetFeeCompleted,
     BurnRead, OnBurnCompleted, GetBurnRead, GetBurnFind, GetBurnDebit, SendRead,
     OnNext, world
<1> SUFFICES Quiet(s)
  BY <1>3
<1>4. CASE Confirm(s)
  <2>1. CASE ConfirmRead(s) \/ ConfirmCredit(s)
    BY <1>1, <2>1 DEF ConfirmRead, ConfirmReads, ConfirmCredit, Takes, At, Exit,
       GotoWithBalance, Return
  <2>4. CASE ConfirmIncoming(s) \/ ConfirmOutgoing(s)
    <3>1. \/ job' = job
          \/ Fails(s, "notFound")
      BY <2>4 DEF ConfirmIncoming, ConfirmOutgoing, Exit, Goto
    <3>2. run[s].stage \in {"scan", "outgoing"}
      BY <2>4 DEF ConfirmIncoming, ConfirmOutgoing, At
    <3> QED
      BY <1>1, <1>2, <3>1, <3>2
  <2>2. CASE OnConfirmFailed(s)
    BY <1>0, <2>2, AddedJobs DEF OnConfirmFailed, NextConfirm, At
  <2>3. CASE OnConfirmCompleted(s)
    BY <1>0, <2>3, AddedJobs DEF OnConfirmCompleted, At
  <2> QED
    BY <1>4, <2>1, <2>2, <2>3, <2>4 DEF Confirm
<1>5. CASE Pay(s)
  <2>1. CASE PayRead(s)
    BY <1>1, <2>1 DEF PayRead, Takes, Exit, Goto
  <2>2. CASE PayWriteRow(s)
    <3>1. "completed" \in Statuses /\ Return(s, "completed")
      BY <2>2 DEF PayWriteRow, Statuses
    <3>2. job'[s] = job[s] /\ run'[s].stage = "completed"
      BY <1>0, <3>1, ReturnFields
    <3> QED
      BY <3>2 DEF Quiet
  <2>3. CASE OnPayCompleted(s)
    BY <1>0, <2>3, AddedJobs DEF OnPayCompleted, At
  <2> QED
    BY <1>5, <2>1, <2>2, <2>3 DEF Pay
<1>6. CASE Fee(s)
  <2>1. CASE FeeRead(s) \/ GetFeeRead(s) \/ GetFeeFind(s) \/ GetFeeDebit(s)
    BY <1>1, <1>2, <2>1 DEF FeeRead, SendRead, GetFeeRead, GetFeeFind, GetFeeDebit,
       DebitRefused, Takes, At, Goto, GotoWithBalance, Return
  <2>2. CASE OnFeeCompleted(s)
    BY <1>0, <2>2, AddedJobs DEF OnFeeCompleted, OnNext, At
  <2>3. CASE OnGetFeeCompleted(s)
    BY <1>0, <2>3, AddedJobs DEF OnGetFeeCompleted, OnNext, At
  <2> QED
    BY <1>6, <2>1, <2>2, <2>3 DEF Fee
<1>7. CASE Burn(s)
  <2>1. ASSUME Enqueue(s, EndedJob)
        PROVE  Quiet(s)
    BY <1>0, <2>1, AddedJobs
  <2>2. CASE BurnRead(s) \/ GetBurnRead(s) \/ GetBurnFind(s) \/ GetBurnDebit(s)
    BY <1>1, <1>2, <2>1, <2>2 DEF BurnRead, SendRead, GetBurnRead, GetBurnFind,
       GetBurnDebit, DebitRefused, Takes, At, Goto, GotoWithBalance, Return
  <2>3. CASE OnBurnCompleted(s)
    BY <1>0, <2>3, AddedJobs DEF OnBurnCompleted, OnNext, At
  <2> QED
    BY <1>7, <2>2, <2>3 DEF Burn
<1> QED
  BY <1>4, <1>5, <1>6, <1>7

\* A call of transferTokens adds one payment of its swap at the most.
LEMMA PaymentCounts ==
  ASSUME IInv, NEW s \in Swaps, PaySend(s)
  PROVE  /\ Cardinality(PaymentsOf(s)') \in Nat
         /\ Cardinality(PaymentsOf(s)') <= Cardinality(PaymentsOf(s)) + 1
         /\ \A t \in Swaps \ {s} : PaymentsOf(t)' = PaymentsOf(t)
         /\ \A t, op : SentBy(t, op)' = SentBy(t, op)
<1>0. TypeOK /\ eth \in Seq(Payouts) /\ Len(eth) \in Nat /\ UNCHANGED ton
  BY LenProperties DEF IInv, TypeOK, PaySend
<1>1. \A t, op : SentBy(t, op)' = SentBy(t, op)
  BY <1>0 DEF SentBy
<1>2. CASE UNCHANGED eth
  <2>1. \A t \in Swaps : PaymentsOf(t)' = PaymentsOf(t)
    BY <1>2 DEF PaymentsOf
  <2>2. Cardinality(PaymentsOf(s)) \in Nat
    BY <1>0, CountsTyped
  <2> QED
    BY <1>1, <2>1, <2>2
<1>3. CASE Broadcast(s)
  <2> DEFINE payout == [swap |-> s, to |-> RecipientOf[s],
                        amount |-> swap[s].destinationAmount,
                        executed |-> swap[s].destinationAmount <= reserve]
  <2>1. eth' = Append(eth, payout) /\ payout.swap = s
    BY <1>3 DEF Broadcast
  <2> HIDE DEF payout
  <2>2. /\ Len(eth') = Len(eth) + 1
        /\ eth'[Len(eth) + 1] = payout
        /\ \A i \in 1..Len(eth) : eth'[i] = eth[i]
    BY <1>0, <2>1
  <2>3. /\ PaymentsOf(s) \subseteq 1..Len(eth)
        /\ PaymentsOf(s)' \subseteq PaymentsOf(s) \cup {Len(eth) + 1}
    BY <1>0, <2>2 DEF PaymentsOf
  <2>4. ASSUME NEW t \in Swaps \ {s}
        PROVE  PaymentsOf(t)' = PaymentsOf(t)
    BY <1>0, <2>1, <2>2 DEF PaymentsOf
  <2> QED
    BY <1>0, <1>1, <2>3, <2>4, OneMore
<1> QED
  BY <1>2, <1>3 DEF PaySend

\* The messages of a fee or a burn add one operation of their swap at the most.
LEMMA SentCounts ==
  ASSUME IInv, NEW s \in Swaps, NEW name, NEW op \in {"TRANSFER", "BURN"},
         NEW transactions \in SUBSET OwnTransactions(s, op),
         Sends(s, name, transactions)
  PROVE  /\ Cardinality(SentBy(s, op)') \in Nat
         /\ Cardinality(SentBy(s, op)') <= Cardinality(SentBy(s, op)) + 1
         /\ \A t \in Swaps, o \in {"TRANSFER", "BURN"} :
              t # s \/ o # op => SentBy(t, o)' = SentBy(t, o)
         /\ \A t \in Swaps : PaymentsOf(t)' = PaymentsOf(t)
<1>1. PICK new \in {<<>>} \cup transactions : ton' = ton \o new
  BY DEF Sends
<1>2. /\ new \in Seq(Transactions)
      /\ \A i \in 1..Len(new) :
           new[i].by = s /\ new[i].op = IF i = 1 THEN op ELSE "INTERNAL_TRANSFER"
  <2>1. CASE new = <<>>
    BY <2>1
  <2>2. CASE new \in transactions
    BY <2>2 DEF OwnTransactions
  <2> QED
    BY <2>1, <2>2
<1>3. ton \in Seq(Transactions) /\ Len(ton) \in Nat /\ Len(new) \in Nat
  BY <1>2, LenProperties DEF IInv, TypeOK
<1>4. /\ Len(ton') = Len(ton) + Len(new)
      /\ \A i \in 1..(Len(ton) + Len(new)) :
           ton'[i] = IF i <= Len(ton) THEN ton[i] ELSE new[i - Len(ton)]
  BY <1>1, <1>2, <1>3, ConcatProperties
<1>5. \A i \in 1..Len(ton) : i \in 1..Len(ton') /\ ton'[i] = ton[i]
  BY <1>3, <1>4
<1>6. ASSUME NEW i \in 1..Len(ton'), i \notin 1..Len(ton)
      PROVE  /\ ton'[i].by = s
             /\ ton'[i].op = IF i = Len(ton) + 1 THEN op ELSE "INTERNAL_TRANSFER"
  <2>1. i - Len(ton) \in 1..Len(new) /\ ton'[i] = new[i - Len(ton)]
    BY <1>3, <1>4, <1>6
  <2>2. i - Len(ton) = 1 <=> i = Len(ton) + 1
    BY <1>3, <1>4, <1>6
  <2> QED
    BY <1>2, <2>1, <2>2
<1>7. /\ SentBy(s, op) \subseteq 1..Len(ton)
      /\ SentBy(s, op)' \subseteq SentBy(s, op) \cup {Len(ton) + 1}
  BY <1>5, <1>6 DEF SentBy
<1>8. ASSUME NEW t \in Swaps, NEW o \in {"TRANSFER", "BURN"}, t # s \/ o # op
      PROVE  SentBy(t, o)' = SentBy(t, o)
  BY <1>5, <1>6, <1>8 DEF SentBy
<1>9. \A t \in Swaps : PaymentsOf(t)' = PaymentsOf(t)
  BY DEF Sends, PaymentsOf
<1> QED
  BY <1>3, <1>7, <1>8, <1>9, OneMore

\* Jettons that users transfer are nobody's payment, fee or burn.
LEMMA UserCounts ==
  ASSUME IInv, UserTransfer, NEW t \in Swaps
  PROVE  PaymentsOf(t)' = PaymentsOf(t) /\ \A op : SentBy(t, op)' = SentBy(t, op)
<1>1. TonGrows({}) /\ UNCHANGED eth
  BY UserTransferGrows DEF UserTransfer
<1>2. \A i \in 1..Len(ton) : i \in 1..Len(ton') /\ ton'[i] = ton[i]
  BY <1>1 DEF TonGrows
<1>3. \A i \in 1..Len(ton') : i \in 1..Len(ton) \/ ton'[i].by \in Senders
  BY <1>1 DEF TonGrows
<1>4. t \notin Senders
  BY AccountAssumption
<1>5. ASSUME NEW op
      PROVE  SentBy(t, op)' = SentBy(t, op)
  BY <1>2, <1>3, <1>4 DEF SentBy
<1> QED
  BY <1>1, <1>5 DEF PaymentsOf

\* A call of transferTokens costs its job the turn of an attempt (transferEthTokens).
LEMMA PaySendBudget ==
  ASSUME IInv, NEW s \in Swaps, BudgetInv(s), PaySend(s)
  PROVE  BudgetInv(s)'
<1> DEFINE paid == Cardinality(PaymentsOf(s))
           more == Cardinality(PaymentsOf(s)')
<1>0. TypeOK /\ TablesOK /\ At(s, "pay", "send")
  BY DEF IInv, TypeOK, PaySend
<1>1. /\ paid \in Nat /\ more \in Nat /\ more <= paid + 1
      /\ SentBy(s, "TRANSFER")' = SentBy(s, "TRANSFER")
      /\ SentBy(s, "BURN")' = SentBy(s, "BURN")
      /\ Cardinality(SentBy(s, "TRANSFER")) \in Nat
      /\ Cardinality(SentBy(s, "BURN")) \in Nat
  BY <1>0, CountsTyped, PaymentCounts
<1>2. /\ PayBudget \in Budgets /\ FeeBudget \in Budgets /\ BurnBudget \in Budgets
      /\ PayBudget.name = "pay" /\ "await" \in PayBudget.spent
  BY DEF Budgets, PayBudget, Budget
<1>3. Keeps(PayBudget, paid, job[s], run[s].stage)
  BY DEF BudgetInv
<1> HIDE DEF paid, more
<1>4. Keeps(PayBudget, more, job'[s], run'[s].stage)
  <2>1. CASE Fails(s, "error")
    BY <1>0, <1>1, <1>2, <1>3, <2>1, ThrownKeeps
  <2>2. CASE Goto(s, "await")
    <3>1. job' = job /\ run'[s].stage = "await"
      BY <1>0, <2>2, GotoFields DEF Stages
    <3>2. Keeps(PayBudget, more, job[s], "await")
      BY <1>0, <1>1, <1>2, <1>3, SentKeeps
    <3> QED
      BY <3>1, <3>2
  <2> QED
    BY <2>1, <2>2 DEF PaySend
<1>5. Quiet(s)
  BY <1>0 DEF Quiet, PaySend, Goto, At
<1>6. /\ Keeps(FeeBudget, Cardinality(SentBy(s, "TRANSFER")), job'[s], run'[s].stage)
      /\ Keeps(BurnBudget, Cardinality(SentBy(s, "BURN")), job'[s], run'[s].stage)
  BY <1>0, <1>1, <1>2, <1>5, QuietKeeps DEF BudgetInv
<1> QED
  BY <1>1, <1>4, <1>6 DEF BudgetInv, Keeps, Within, PayBudget, FeeBudget, BurnBudget,
     more

\* So does a message of a fee or a burn (transferTonFee, burnTonJettons).
LEMMA SendsKeeps ==
  ASSUME IInv, NEW s \in Swaps, NEW b \in {FeeBudget, BurnBudget},
         NEW op \in {"TRANSFER", "BURN"},
         NEW transactions \in SUBSET OwnTransactions(s, op),
         Sends(s, b.name, transactions),
         Keeps(b, Cardinality(SentBy(s, op)), job[s], run[s].stage)
  PROVE  /\ Keeps(b, Cardinality(SentBy(s, op)'), job'[s], run'[s].stage)
         /\ Quiet(s)
<1> DEFINE sent == Cardinality(SentBy(s, op))
           more == Cardinality(SentBy(s, op)')
<1>0. TypeOK /\ TablesOK /\ At(s, b.name, "send") /\ b \in Budgets
  BY DEF IInv, TypeOK, Sends, Budgets
<1>1. sent \in Nat /\ more \in Nat /\ more <= sent + 1
  BY <1>0, CountsTyped, SentCounts
<1>2. Keeps(b, sent, job[s], run[s].stage)
  OBVIOUS
<1> HIDE DEF sent, more
<1>3. Keeps(b, more, job'[s], run'[s].stage)
  <2>1. CASE Fails(s, "error")
    BY <1>0, <1>1, <1>2, <2>1, ThrownKeeps
  <2>2. CASE Return(s, "none")
    <3>1. job' = job /\ run'[s].stage = "completed" /\ "completed" \in b.spent
      BY <1>0, <2>2, ReturnFields, BudgetFields DEF Statuses
    <3>2. Keeps(b, more, job[s], "completed")
      BY <1>0, <1>1, <1>2, <3>1, SentKeeps
    <3> QED
      BY <3>1, <3>2
  <2> QED
    BY <2>1, <2>2 DEF Sends
<1>4. Quiet(s)
  BY <1>0 DEF Quiet, Sends, Return, At
<1> QED
  BY <1>3, <1>4 DEF more

\* Neither disturbs the other budgets of its swap (transferTonFee, burnTonJettons).
LEMMA ChargeBudget ==
  ASSUME IInv, NEW s \in Swaps, BudgetInv(s), FeeSend(s) \/ BurnSend(s)
  PROVE  BudgetInv(s)'
<1>0. /\ TypeOK /\ TablesOK
      /\ Cardinality(PaymentsOf(s)) \in Nat
      /\ Cardinality(SentBy(s, "TRANSFER")) \in Nat
      /\ Cardinality(SentBy(s, "BURN")) \in Nat
      /\ PayBudget \in Budgets /\ FeeBudget \in Budgets /\ BurnBudget \in Budgets
  BY CountsTyped DEF IInv, TypeOK, Budgets
<1>1. ASSUME Quiet(s)
      PROVE  /\ Keeps(PayBudget, Cardinality(PaymentsOf(s)), job'[s], run'[s].stage)
             /\ Keeps(FeeBudget, Cardinality(SentBy(s, "TRANSFER")), job'[s], run'[s].stage)
             /\ Keeps(BurnBudget, Cardinality(SentBy(s, "BURN")), job'[s], run'[s].stage)
  BY <1>0, <1>1, QuietKeeps DEF BudgetInv
<1>2. CASE FeeSend(s)
  <2>1. PICK transactions \in SUBSET OwnTransactions(s, "TRANSFER") :
          Sends(s, FeeBudget.name, transactions)
    BY <1>2, FeeSends DEF FeeBudget, Budget
  <2>2. /\ Keeps(FeeBudget, Cardinality(SentBy(s, "TRANSFER")'), job'[s], run'[s].stage)
        /\ Quiet(s)
    BY <2>1, SendsKeeps DEF BudgetInv
  <2>3. PaymentsOf(s)' = PaymentsOf(s) /\ SentBy(s, "BURN")' = SentBy(s, "BURN")
    BY <2>1, SentCounts
  <2> QED
    BY <1>1, <2>2, <2>3 DEF BudgetInv, Keeps, Within, PayBudget, FeeBudget, BurnBudget
<1>3. CASE BurnSend(s)
  <2>1. PICK transactions \in SUBSET OwnTransactions(s, "BURN") :
          Sends(s, BurnBudget.name, transactions)
    BY <1>3, BurnSends DEF BurnBudget, Budget
  <2>2. /\ Keeps(BurnBudget, Cardinality(SentBy(s, "BURN")'), job'[s], run'[s].stage)
        /\ Quiet(s)
    BY <2>1, SendsKeeps DEF BudgetInv
  <2>3. PaymentsOf(s)' = PaymentsOf(s) /\ SentBy(s, "TRANSFER")' = SentBy(s, "TRANSFER")
    BY <2>1, SentCounts
  <2> QED
    BY <1>1, <2>2, <2>3 DEF BudgetInv, Keeps, Within, PayBudget, FeeBudget, BurnBudget
<1> QED
  BY <1>2, <1>3

\* Every step stays within the budgets.
LEMMA BudgetedNext == IInv /\ Budgeted /\ [Next]_vars => Budgeted'
<1> SUFFICES ASSUME IInv, Budgeted, [Next]_vars
             PROVE  Budgeted'
  OBVIOUS
<1>0. TypeOK /\ TablesOK
  BY DEF IInv, TypeOK
<1>1. ASSUME NEW s \in Swaps, OnlyOf(s), BudgetInv(s)',
             \A t \in Swaps \ {s} :
               /\ PaymentsOf(t)' = PaymentsOf(t)
               /\ \A op \in {"TRANSFER", "BURN"} : SentBy(t, op)' = SentBy(t, op)
      PROVE  Budgeted'
  <2>1. ASSUME NEW t \in Swaps \ {s}
        PROVE  BudgetInv(t)'
    BY <1>1 DEF Budgeted, BudgetInv, OnlyOf, Keeps, Within, PayBudget, FeeBudget,
       BurnBudget
  <2> QED
    BY <1>1, <2>1 DEF Budgeted
<1>2. ASSUME NEW s \in Swaps, OnlyOf(s), Quiet(s), UNCHANGED <<eth, ton>>
      PROVE  Budgeted'
  BY <1>1, <1>2, QuietStep, SameCounts DEF Budgeted
<1>3. ASSUME NEW s \in Swaps, Shared(s)
      PROVE  Budgeted'
  BY <1>2, <1>3, SharedEffect, SharedQuiet DEF Effect, world
<1>4. ASSUME NEW s \in Swaps, PaySend(s)
      PROVE  Budgeted'
  <2>1. OnlyOf(s)
    BY <1>4, HandlersKeepOthers DEF Pay
  <2> QED
    BY <1>1, <1>4, <2>1, PaySendBudget, PaymentCounts DEF Budgeted
<1>5. ASSUME NEW s \in Swaps, FeeSend(s) \/ BurnSend(s)
      PROVE  Budgeted'
  <2>1. OnlyOf(s) /\ BudgetInv(s)'
    BY <1>5, HandlersKeepOthers, ChargeBudget DEF Fee, Burn, Budgeted
  <2>2. ASSUME NEW t \in Swaps \ {s}
        PROVE  /\ PaymentsOf(t)' = PaymentsOf(t)
               /\ \A op \in {"TRANSFER", "BURN"} : SentBy(t, op)' = SentBy(t, op)
    BY <1>5, FeeSends, BurnSends, SentCounts
  <2> QED
    BY <1>1, <2>1, <2>2
<1>6. ASSUME NEW s \in Swaps, Confirm(s) \/ Pay(s) \/ Fee(s) \/ Burn(s)
      PROVE  Budgeted'
  BY <1>2, <1>4, <1>5, <1>6, HandlersQuiet, HandlersKeepOthers
<1>7. CASE UserTransfer \/ UNCHANGED vars
  <2>1. ASSUME NEW t \in Swaps
        PROVE  /\ job'[t] = job[t] /\ run'[t] = run[t]
               /\ PaymentsOf(t)' = PaymentsOf(t)
               /\ \A op : SentBy(t, op)' = SentBy(t, op)
    BY <1>7, UserCounts, SameCounts DEF UserTransfer, vars
  <2> QED
    BY <2>1 DEF Budgeted, BudgetInv, Keeps, Within, PayBudget, FeeBudget, BurnBudget
<1>8. CASE Crash /\ UNCHANGED world
  <2>1. ASSUME NEW t \in Swaps
        PROVE  BudgetInv(t)'
    <3>1. /\ Cardinality(PaymentsOf(t)) \in Nat
          /\ Cardinality(SentBy(t, "TRANSFER")) \in Nat
          /\ Cardinality(SentBy(t, "BURN")) \in Nat
          /\ PayBudget \in Budgets /\ FeeBudget \in Budgets /\ BurnBudget \in Budgets
      BY <1>0, CountsTyped DEF Budgets
    <3>2. /\ PaymentsOf(t)' = PaymentsOf(t)
          /\ \A op : SentBy(t, op)' = SentBy(t, op)
      BY <1>8, SameCounts DEF world
    <3>3. /\ Keeps(PayBudget, Cardinality(PaymentsOf(t)), job'[t], run'[t].stage)
          /\ Keeps(FeeBudget, Cardinality(SentBy(t, "TRANSFER")), job'[t], run'[t].stage)
          /\ Keeps(BurnBudget, Cardinality(SentBy(t, "BURN")), job'[t], run'[t].stage)
      BY <1>0, <1>8, <3>1, CrashedKeeps DEF Budgeted, BudgetInv
    <3> QED
      BY <3>2, <3>3 DEF BudgetInv, Keeps, Within, PayBudget, FeeBudget, BurnBudget
  <2> QED
    BY <2>1 DEF Budgeted
<1> QED
  BY <1>3, <1>6, <1>7, <1>8 DEF Next, Shared

\* Before any request nothing was sent.
LEMMA BudgetedInit == Init => Budgeted
<1> SUFFICES ASSUME Init, NEW s \in Swaps
             PROVE  BudgetInv(s)
  BY DEF Budgeted
<1>1. /\ PaymentsOf(s) = {} /\ SentBy(s, "TRANSFER") = {} /\ SentBy(s, "BURN") = {}
      /\ job[s].name = "none"
  BY DEF Init, InitTables, PaymentsOf, SentBy, NoJob, NewJob
<1>2. \A b \in Budgets : b.name # "none" /\ b.attempts + MaxStalls >= 0
  BY BudgetFields, AttemptAssumption
<1> QED
  BY <1>1, <1>2, FS_EmptySet DEF BudgetInv, Keeps, Budgets

\* However often jobs are retried and redelivered, a swap is paid, charged its fee and
\* burned for no more often than those jobs have attempts and stalls
\* (transferEthTokens, transferTonFee, burnTonJettons: none looks for what it did).
THEOREM RepeatsStayBounded == Spec => []RepeatsAreBounded
<1>1. Budgeted => RepeatsAreBounded
  BY DEF Budgeted, BudgetInv, Keeps, PaymentsOf, SentBy, PayBudget, FeeBudget,
     BurnBudget, Budget, RepeatsAreBounded
<1> QED
  BY <1>1, InitInv, NextInv, BudgetedInit, BudgetedNext, PTL DEF Spec
-----------------------------------------------------------------------------
(* A status of completed or expired is final but for latecomers.             *)

\* The deadline that the handlers of the job of s compare has passed.
PastDeadline(s) ==
  /\ job[s].name = "confirm" => Expired(s)
  /\ job[s].name = "pay" => ExtendedExpired(s)

Exiting(s) == run[s].stage \in {"exitRow", "exitWallet"}

\* A swap reads completed only from its pay job on, which is at work on it again only
\* when it was delivered again.  It reads expired only when the deadline of its job has
\* passed, so that the job can do nothing but expire it again.
FinalInv(s) ==
  /\ Exiting(s) =>
       /\ job[s].name \in {"confirm", "pay"}
       /\ run[s].result = "expired" => PastDeadline(s)
  /\ swap[s].status = "completed" =>
       /\ job[s].name \in {"pay", "fee", "getFee", "burn", "getBurn", "ended", "lost"}
       /\ job[s].name = "pay" => job[s].stalls > 0 \/ run[s].stage = "completed"
  /\ swap[s].status = "expired" =>
       /\ job[s].name \in {"confirm", "pay", "ended", "lost"}
       /\ PastDeadline(s)
       /\ run[s].stage \in {"idle", "exitRow", "exitWallet", "completed", "failed"}
       /\ run[s].stage \in {"exitRow", "exitWallet", "completed"} =>
            run[s].result = "expired"

Finals == \A s \in Swaps : FinalInv(s)

\* No clock goes back.
AgesGrow == \A t \in Swaps : age'[t] \in Nat /\ age'[t] >= age[t]

LEMMA AgesKept ==
  ASSUME TablesOK, UNCHANGED age
  PROVE  AgesGrow
  BY AttemptAssumption DEF TablesOK, AgesGrow

LEMMA DeadlinesStay ==
  ASSUME TablesOK, NEW s \in Swaps, AgesGrow
  PROVE  /\ Expired(s) => Expired(s)'
         /\ ExtendedExpired(s) => ExtendedExpired(s)'
<1>1. age[s] \in Nat /\ age'[s] \in Nat /\ age'[s] >= age[s]
  BY AttemptAssumption DEF TablesOK, AgesGrow
<1> QED
  BY <1>1 DEF Expired, ExtendedExpired

\* A step that leaves the row, the job and the handler of t.
LEMMA FinalKept ==
  ASSUME TablesOK, NEW t \in Swaps, FinalInv(t), AgesGrow,
         swap'[t] = swap[t], job'[t] = job[t], run'[t] = run[t]
  PROVE  FinalInv(t)'
  BY DeadlinesStay DEF FinalInv, PastDeadline, Exiting

\* An action on s alone leaves those of the other swaps.
LEMMA FinalStep ==
  ASSUME TablesOK, Finals, NEW s \in Swaps, FinalInv(s)', AgesGrow,
         \A t \in Swaps \ {s} :
           swap'[t] = swap[t] /\ job'[t] = job[t] /\ run'[t] = run[t]
  PROVE  Finals'
<1>1. ASSUME NEW t \in Swaps \ {s}
      PROVE  FinalInv(t)'
  BY FinalKept DEF Finals
<1> QED
  BY <1>1 DEF Finals

\* Requests, the helpers, the clock and a throw: only a helper writes expired, once
\* the deadline has passed (swapExpired).
LEMMA SharedFinal ==
  ASSUME IInv, NEW s \in Swaps, FinalInv(s), Shared(s)
  PROVE  FinalInv(s)' /\ AgesGrow
<1>0. TablesOK /\ RequestInv(s) /\ ExitInv(s)
  BY DEF IInv, TypeOK, SwapInv
<1>1. CASE Tick(s)
  <2>1. AgesGrow
    BY <1>0, <1>1, AttemptAssumption DEF Tick, AgesGrow, TablesOK
  <2> QED
    BY <1>0, <1>1, <2>1, FinalKept DEF Tick
<1> DEFINE Still == \/ PickWallet(s) \/ MarkWallet(s) \/ InsertFails(s)
                    \/ ReleaseRequested(s) \/ RequestThrows(s) \/ CancelRead(s)
<1>2. CASE Still
  <2>1. UNCHANGED <<swap, job, run, age>>
    BY <1>2 DEF PickWallet, MarkWallet, InsertFails, ReleaseRequested, RequestThrows,
       CancelRead
  <2> QED
    BY <1>0, <2>1, AgesKept, FinalKept
<1>3. CASE InsertSwap(s, Len(ton)) \/ FailSwap(s) \/ CancelWrite(s)
  <2>1. UNCHANGED <<job, run, age>>
    BY <1>3 DEF InsertSwap, FailSwap, CancelWrite
  <2>2. swap'[s].status \in {"pending", "failed", "canceled"}
    <3>1. swap \in [Swaps -> Rows]
      BY <1>0 DEF TablesOK
    <3>2. CASE InsertSwap(s, Len(ton))
      BY <3>1, <3>2 DEF InsertSwap, NoSwap
    <3>3. CASE FailSwap(s) \/ CancelWrite(s)
      BY <3>1, <3>3 DEF FailSwap, CancelWrite, Rows
    <3> QED
      BY <1>3, <3>2, <3>3
  <2> QED
    BY <1>0, <2>1, <2>2, AgesKept, DeadlinesStay DEF FinalInv, PastDeadline, Exiting
<1>4. CASE AddConfirmJob(s, 0) \/ AddConfirmJobFails(s, 0)
  <2>1. /\ job[s].name = "none" /\ run[s].stage = "idle" /\ UNCHANGED <<swap, age>>
    BY <1>0, <1>4 DEF AddConfirmJob, AddConfirmJobFails, RequestAt, RequestInv
  <2>2. CASE UNCHANGED <<job, run>>
    BY <1>0, <2>1, <2>2, AgesKept, FinalKept
  <2>3. CASE Enqueue(s, NewJob("confirm", 0, 0, 1))
    <3>1. run'[s].stage = "idle"
      BY <1>0, <2>3, RestFields DEF Enqueue, TablesOK
    <3> QED
      BY <1>0, <2>1, <3>1, AgesKept DEF FinalInv, Exiting
  <2> QED
    BY <1>4, <2>2, <2>3 DEF AddConfirmJob, AddConfirmJobFails
<1>5. CASE ExitRow(s)
  <2>1. /\ job' = job /\ run'[s].stage = "exitWallet" /\ run'[s].result = run[s].result
        /\ UNCHANGED age
    BY <1>0, <1>5, GotoFields DEF ExitRow, Stages
  <2>2. swap'[s].status = run[s].result /\ run[s].result # "completed"
    BY <1>0, <1>5 DEF ExitRow, ExitInv, TablesOK, Rows
  <2> QED
    BY <1>0, <1>5, <2>1, <2>2, AgesKept, DeadlinesStay
       DEF ExitRow, FinalInv, PastDeadline, Exiting
<1>6. CASE ExitWallet(s)
  <2>1. /\ job' = job /\ run'[s].stage = "completed" /\ run'[s].result = run[s].result
        /\ UNCHANGED <<swap, age>>
    BY <1>0, <1>6 DEF ExitWallet, Return, NewRun, TablesOK
  <2> QED
    BY <1>0, <1>6, <2>1, AgesKept, DeadlinesStay
       DEF ExitWallet, FinalInv, PastDeadline, Exiting
<1>7. CASE HandlerThrows(s)
  <2>1. /\ \/ /\ job'[s].name = job[s].name /\ job'[s].stalls = job[s].stalls
              /\ run'[s].stage \in {"idle", "failed"}
           \/ job'[s].name = "lost" /\ run'[s].stage = "idle"
        /\ run[s].stage # "completed" /\ UNCHANGED <<swap, age>>
    BY <1>0, <1>7, FailsFields DEF HandlerThrows, Listening
  <2> QED
    BY <1>0, <2>1, AgesKept, DeadlinesStay DEF FinalInv, PastDeadline, Exiting
<1> QED
  BY <1>1, <1>2, <1>3, <1>4, <1>5, <1>6, <1>7
     DEF Shared, Create, CreateFails, Cancel, Settle

\* Of a swap that reads neither, only what its handler settles with matters.
LEMMA LiveFinal ==
  ASSUME NEW s \in Swaps, swap'[s].status \notin {"completed", "expired"},
         Exiting(s)' => /\ job'[s].name \in {"confirm", "pay"}
                        /\ run'[s].result # "expired"
  PROVE  FinalInv(s)'
  BY DEF FinalInv

\* The confirm job goes on with no swap that has expired, and its listeners add no job
\* to one but the confirm job itself (conifrmTonTransfer and its listeners).
LEMMA ConfirmFinal ==
  ASSUME IInv, NEW s \in Swaps, FinalInv(s), Confirm(s)
  PROVE  FinalInv(s)' /\ swap'[s].status \in {swap[s].status, "confirmed"}
         /\ (swap[s].status = "expired" => swap'[s].status = "expired")
<1>0. /\ TablesOK /\ RequestInv(s) /\ job[s].name = "confirm" /\ UNCHANGED age
      /\ swap[s].status # "completed"
  BY DEF IInv, TypeOK, SwapInv, FinalInv, Confirm, ConfirmRead, ConfirmReads,
     ConfirmIncoming, ConfirmOutgoing, ConfirmCredit, OnConfirmFailed,
     OnConfirmCompleted, Takes, At, world
<1>a. swap[s].status = "expired" => Expired(s)
  BY <1>0 DEF FinalInv, PastDeadline
<1>b. Expired(s)' <=> Expired(s)
  BY <1>0 DEF Expired
<1>1. CASE ConfirmRead(s)
  <2>1. job' = job /\ swap' = swap
    BY <1>0, <1>1, ConfirmReadsFields DEF ConfirmRead, ConfirmReads, Stages
  <2>2. CASE swap[s].status = "canceled" /\ Exit(s, "canceled")
    <3>1. run'[s].result = "canceled"
      BY <1>0, <2>2, ExitFields DEF Statuses
    <3> QED
      BY <1>0, <2>1, <2>2, <3>1, LiveFinal
  <2>3. CASE Expired(s) /\ Exit(s, "expired")
    <3>1. run'[s].stage = "exitRow" /\ run'[s].result = "expired"
      BY <1>0, <2>3, ExitFields DEF Statuses
    <3> QED
      BY <1>0, <1>b, <2>1, <2>3, <3>1 DEF FinalInv, PastDeadline, Exiting
  <2>4. CASE ~Expired(s) /\ GotoWithBalance(s, "scan")
    <3>1. run'[s].stage = "scan"
      BY <1>0, <2>4 DEF GotoWithBalance, TablesOK, NewRun
    <3> QED
      BY <1>0, <1>a, <2>1, <2>4, <3>1, LiveFinal DEF Exiting
  <2> QED
    BY <1>1, <2>1, <2>2, <2>3, <2>4 DEF ConfirmRead, ConfirmReads
<1>2. CASE ConfirmIncoming(s)
  <2>1. swap[s].status # "expired" /\ swap' = swap
    BY <1>2 DEF ConfirmIncoming, At, FinalInv
  <2>2. ASSUME Fails(s, "notFound")
        PROVE  ~Exiting(s)'
    BY <1>0, <2>2, FailsFields DEF Exiting
  <2>3. ASSUME NEW n, run' = [run EXCEPT ![s].stage = "outgoing", ![s].tx = n]
        PROVE  ~Exiting(s)'
    BY <1>0, <2>3 DEF TablesOK, Runs, Exiting
  <2>4. ASSUME Exit(s, "failed")
        PROVE  job' = job /\ run'[s].result = "failed"
    BY <1>0, <2>4, ExitFields DEF Statuses
  <2> QED
    BY <1>0, <1>2, <2>1, <2>2, <2>3, <2>4, LiveFinal DEF ConfirmIncoming
<1>3. CASE ConfirmOutgoing(s)
  <2>1. swap[s].status # "expired"
    BY <1>3 DEF ConfirmOutgoing, At, FinalInv
  <2>2. CASE Fails(s, "notFound") /\ UNCHANGED swap
    <3>1. ~Exiting(s)'
      BY <1>0, <2>2, FailsFields DEF Exiting
    <3> QED
      BY <1>0, <2>1, <2>2, <3>1, LiveFinal
  <2>3. ASSUME NEW i, ConfirmWrite(s, i), Goto(s, "credit")
        PROVE  FinalInv(s)' /\ swap'[s].status = "confirmed"
    <3> DEFINE amount == ton[run[s].tx].amount
    <3>1. swap'[s] = ConfirmedRow(s, amount, i)
      BY <1>0, <2>3 DEF ConfirmWrite, TablesOK
    <3>2. run'[s].stage = "credit"
      BY <1>0, <2>3, GotoFields DEF Stages
    <3> HIDE DEF amount
    <3>3. swap'[s].status = "confirmed"
      BY <1>0, <3>1, ConfirmedRowStatus
    <3> QED
      BY <3>2, <3>3, LiveFinal DEF Exiting
  <2>4. \/ Fails(s, "notFound") /\ UNCHANGED swap
        \/ \E i : ConfirmWrite(s, i) /\ Goto(s, "credit")
    BY <1>3 DEF ConfirmOutgoing
  <2> QED
    BY <2>1, <2>2, <2>3, <2>4
<1>4. CASE ConfirmCredit(s)
  <2>1. swap[s].status # "expired" /\ swap' = swap
    BY <1>4 DEF ConfirmCredit, At, FinalInv
  <2>2. run'[s].stage = "completed"
    BY <1>0, <1>4, ConfirmCreditFields
  <2> QED
    BY <1>0, <2>1, <2>2, LiveFinal DEF Exiting
<1>5. CASE OnConfirmFailed(s)
  <2>1. job'[s].name = "confirm" /\ run'[s].stage = "idle" /\ swap' = swap
    BY <1>0, <1>5, RestFields DEF OnConfirmFailed, Enqueue, TablesOK, NextConfirm, NewJob
  <2> QED
    BY <1>0, <1>a, <1>b, <2>1 DEF FinalInv, PastDeadline, Exiting
<1>6. CASE OnConfirmCompleted(s)
  <2>1. run'[s].stage = "idle" /\ swap' = swap
    BY <1>0, <1>6, RestFields DEF OnConfirmCompleted, Enqueue, TablesOK
  <2>2. swap[s].status = "expired" => job'[s].name = "ended"
    <3>1. swap[s].status = "expired" => ~Processable(run[s].result)
      BY <1>6 DEF OnConfirmCompleted, At, FinalInv, Processable
    <3> QED
      BY <1>0, <1>6, <3>1, RestFields DEF OnConfirmCompleted, Enqueue, TablesOK
  <2> QED
    BY <1>0, <2>1, <2>2 DEF FinalInv, PastDeadline, Exiting
<1> QED
  BY <1>1, <1>2, <1>3, <1>4, <1>5, <1>6 DEF Confirm

\* The pay job goes on with no swap that has expired, and completes one only when it
\* has paid it (transferEthTokens).
LEMMA PayFinal ==
  ASSUME IInv, NEW s \in Swaps, FinalInv(s), Pay(s)
  PROVE  /\ FinalInv(s)'
         /\ swap'[s].status # swap[s].status =>
              swap[s].status \notin {"completed", "expired"}
<1>0. /\ TablesOK /\ job[s].name = "pay" /\ UNCHANGED age
      /\ swap[s].status = "expired" => ExtendedExpired(s)
  BY DEF IInv, TypeOK, FinalInv, PastDeadline, Pay, PayRead, PaySend, PayWriteRow,
     OnPayCompleted, Takes, At
<1>b. ExtendedExpired(s)' <=> ExtendedExpired(s)
  BY <1>0 DEF ExtendedExpired
<1>1. CASE PayRead(s)
  <2>1. swap' = swap /\ run[s].stage = "idle"
    BY <1>1 DEF PayRead, Takes
  <2>2. CASE ExtendedExpired(s) /\ Exit(s, "expired")
    <3>1. job' = job /\ run'[s].stage = "exitRow" /\ run'[s].result = "expired"
      BY <1>0, <2>2, ExitFields DEF Statuses
    <3> QED
      BY <1>0, <1>b, <2>1, <2>2, <3>1 DEF FinalInv, PastDeadline, Exiting
  <2>3. CASE ~ExtendedExpired(s) /\ Goto(s, "send")
    <3>1. job' = job /\ run'[s].stage = "send"
      BY <1>0, <2>3, GotoFields DEF Stages
    <3> QED
      BY <1>0, <2>1, <2>3, <3>1 DEF FinalInv, PastDeadline, Exiting
  <2> QED
    BY <1>1, <2>1, <2>2, <2>3 DEF PayRead
<1>2. CASE PaySend(s)
  <2>1. swap' = swap /\ run[s].stage = "send" /\ swap[s].status # "expired"
    BY <1>2 DEF PaySend, At, FinalInv
  <2>2. CASE Goto(s, "await")
    <3>1. job' = job /\ run'[s].stage = "await"
      BY <1>0, <2>2, GotoFields DEF Stages
    <3> QED
      BY <1>0, <2>1, <3>1 DEF FinalInv, Exiting
  <2>3. CASE Fails(s, "error")
    <3>1. /\ run'[s].stage = "idle"
          /\ \/ job'[s].name = job[s].name /\ job'[s].stalls = job[s].stalls
             \/ job'[s].name = "lost"
      BY <1>0, <2>3, FailsFields
    <3> QED
      BY <1>0, <2>1, <3>1 DEF FinalInv, Exiting
  <2> QED
    BY <1>2, <2>1, <2>2, <2>3 DEF PaySend
<1>3. CASE PayWriteRow(s)
  <2>1. /\ run[s].stage = "await" /\ swap[s].status # "expired"
        /\ swap' = [swap EXCEPT ![s].status = "completed"] /\ Return(s, "completed")
    BY <1>3 DEF PayWriteRow, At, FinalInv
  <2>2. job' = job /\ run'[s].stage = "completed" /\ swap'[s].status = "completed"
    BY <1>0, <2>1, ReturnFields, StatusFields DEF Statuses
  <2> QED
    BY <1>0, <2>1, <2>2 DEF FinalInv, Exiting
<1>4. CASE OnPayCompleted(s)
  <2>1. run'[s].stage = "idle" /\ swap' = swap /\ run[s].stage = "completed"
    BY <1>0, <1>4, RestFields DEF OnPayCompleted, Enqueue, TablesOK, At
  <2>2. swap[s].status = "expired" => ~Processable(run[s].result)
    BY <2>1 DEF FinalInv, Processable
  <2>3. /\ swap[s].status = "expired" => job'[s].name = "ended"
        /\ job'[s].name \in {"fee", "ended"}
    <3>1. NewJob("fee", 0, 0, UltimateAttempts).name = "fee"
      BY DEF NewJob
    <3> QED
      BY <1>0, <1>4, <2>2, <3>1, RestFields DEF OnPayCompleted, Enqueue, TablesOK
  <2> QED
    BY <1>0, <2>1, <2>3 DEF FinalInv, PastDeadline, Exiting
<1> QED
  BY <1>1, <1>2, <1>3, <1>4 DEF Pay

\* The jobs of the fee and of the burn write no status, and only lead to one another.
LEMMA ChargeFinal ==
  ASSUME IInv, NEW s \in Swaps, FinalInv(s), Fee(s) \/ Burn(s)
  PROVE  FinalInv(s)' /\ swap'[s].status = swap[s].status
<1> DEFINE Jobs4 == {"fee", "getFee", "burn", "getBurn"}
<1>0. /\ TablesOK /\ job[s].name \in Jobs4 /\ UNCHANGED age
      /\ swap[s].status # "expired"
  BY DEF IInv, TypeOK, FinalInv, Fee, Burn, FeeRead, FeeSend, OnFeeCompleted,
     GetFeeRead, GetFeeFind, GetFeeDebit, OnGetFeeCompleted, BurnRead, BurnSend,
     OnBurnCompleted, GetBurnRead, GetBurnFind, GetBurnDebit, SendRead, Sends, OnNext,
     Takes, At
<1>1. swap'[s].status = swap[s].status
  <2>1. CASE GetFeeFind(s)
    BY <1>0, <2>1, CollectedFields DEF GetFeeFind
  <2>2. CASE GetBurnFind(s)
    BY <1>0, <2>2, BurnedFields DEF GetBurnFind
  <2> QED
    BY <2>1, <2>2 DEF Fee, Burn, FeeRead, FeeSend, OnFeeCompleted, GetFeeRead,
       GetFeeDebit, OnGetFeeCompleted, BurnRead, BurnSend, OnBurnCompleted, GetBurnRead,
       GetBurnDebit, SendRead, Sends, OnNext
<1>2. job'[s].name \in Jobs4 \cup {"ended", "lost"} /\ ~Exiting(s)'
  <2>1. ASSUME Fails(s, "error")
        PROVE  job'[s].name \in Jobs4 \cup {"lost"} /\ run'[s].stage = "idle"
    BY <1>0, <2>1, FailsFields
  <2>2. ASSUME Enqueue(s, EndedJob)
        PROVE  job'[s].name = "ended" /\ run'[s].stage = "idle"
    BY <1>0, <2>2, RestFields DEF Enqueue, TablesOK
  <2>3. ASSUME NEW stage \in {"send", "debit"}, Goto(s, stage)
        PROVE  job' = job /\ run'[s].stage = stage
    BY <1>0, <2>3, GotoFields DEF Stages
  <2>4. ASSUME GotoWithBalance(s, "find")
        PROVE  job' = job /\ run'[s].stage = "find"
    BY <1>0, <2>4 DEF GotoWithBalance, TablesOK, NewRun
  <2>5. ASSUME Return(s, "none")
        PROVE  job' = job /\ run'[s].stage = "completed"
    BY <1>0, <2>5, ReturnFields DEF Statuses
  <2>6. ASSUME NEW name \in Jobs4, NEW next \in Jobs4, OnNext(s, name, next)
        PROVE  job'[s].name = next /\ run'[s].stage = "idle"
    BY <1>0, <2>6, RestFields DEF OnNext, Enqueue, TablesOK, NewJob
  <2>7. CASE OnFeeCompleted(s) \/ OnGetFeeCompleted(s) \/ OnBurnCompleted(s)
    BY <2>6, <2>7 DEF OnFeeCompleted, OnGetFeeCompleted, OnBurnCompleted, Exiting
  <2>8. CASE FeeRead(s) \/ BurnRead(s) \/ FeeSend(s) \/ BurnSend(s)
    BY <1>0, <2>1, <2>3, <2>5, <2>8
       DEF FeeRead, BurnRead, FeeSend, BurnSend, SendRead, Sends, Exiting
  <2>9. CASE GetFeeRead(s) \/ GetFeeFind(s) \/ GetFeeDebit(s)
    BY <1>0, <2>1, <2>3, <2>4, <2>5, <2>9
       DEF GetFeeRead, GetFeeFind, GetFeeDebit, DebitRefused, Exiting
  <2>10. CASE GetBurnRead(s) \/ GetBurnFind(s) \/ GetBurnDebit(s)
    BY <1>0, <2>1, <2>2, <2>3, <2>4, <2>10
       DEF GetBurnRead, GetBurnFind, GetBurnDebit, DebitRefused, Exiting
  <2> QED
    BY <2>7, <2>8, <2>9, <2>10 DEF Fee, Burn
<1> QED
  BY <1>0, <1>1, <1>2 DEF FinalInv

\* After a crash a job that is delivered again has stalled.
LEMMA CrashFinal ==
  ASSUME IInv, NEW s \in Swaps, FinalInv(s), Crash
  PROVE  FinalInv(s)'
<1>0. TablesOK /\ UNCHANGED <<swap, age>> /\ CrashedJob(s) /\ run'[s].stage = "idle"
  BY CrashEffect DEF IInv, TypeOK, Crash
<1>1. job'[s].name \in {job[s].name, "ended", "lost"}
  BY <1>0 DEF CrashedJob
<1>2. swap[s].status = "completed" /\ job'[s].name = "pay" => job'[s].stalls > 0
  <2>1. job[s].stalls \in Nat
    BY <1>0 DEF TablesOK, Jobs
  <2>2. ASSUME swap[s].status = "completed", job'[s].name = "pay"
        PROVE  job'[s].stalls > 0
    <3>1. job[s].name = "pay" /\ (job[s].stalls > 0 \/ run[s].stage = "completed")
      BY <1>1, <2>2 DEF FinalInv
    <3>2. \/ run[s].stage = "idle" /\ job'[s].stalls = job[s].stalls
          \/ job'[s].stalls = job[s].stalls + 1
      BY <1>0, <2>2, <3>1, CrashStalls
    <3> QED
      BY <2>1, <3>1, <3>2
  <2> QED
    BY <2>2
<1>3. PastDeadline(s) => PastDeadline(s)'
  BY <1>0, <1>1 DEF PastDeadline, Expired, ExtendedExpired
<1> QED
  BY <1>0, <1>1, <1>2, <1>3 DEF FinalInv, Exiting

\* Every step keeps that.
LEMMA FinalsNext == IInv /\ Finals /\ [Next]_vars => Finals'
<1> SUFFICES ASSUME IInv, Finals, [Next]_vars
             PROVE  Finals'
  OBVIOUS
<1>0. TablesOK
  BY DEF IInv, TypeOK
<1>1. ASSUME NEW s \in Swaps, Shared(s)
      PROVE  Finals'
  <2>1. OnlyOf(s)
    BY <1>1, SharedEffect DEF Effect
  <2> QED
    BY <1>0, <1>1, <2>1, SharedFinal, FinalStep DEF Finals, OnlyOf
<1>2. ASSUME NEW s \in Swaps, Confirm(s) \/ Pay(s) \/ Fee(s) \/ Burn(s)
      PROVE  Finals'
  <2>1. UNCHANGED age
    BY <1>2 DEF Confirm, Pay, Fee, Burn, ConfirmRead, ConfirmReads, ConfirmIncoming,
       ConfirmOutgoing, ConfirmCredit, OnConfirmFailed, OnConfirmCompleted, PayRead,
       PaySend, PayWriteRow, OnPayCompleted, FeeRead, FeeSend, OnFeeCompleted,
       GetFeeRead, GetFeeFind, GetFeeDebit, OnGetFeeCompleted, BurnRead, BurnSend,
       OnBurnCompleted, GetBurnRead, GetBurnFind, GetBurnDebit, SendRead, Sends, OnNext
  <2>2. FinalInv(s)'
    BY <1>2, ConfirmFinal, PayFinal, ChargeFinal DEF Finals
  <2> QED
    BY <1>0, <1>2, <2>1, <2>2, AgesKept, HandlersKeepOthers, FinalStep DEF OnlyOf
<1>3. CASE UserTransfer \/ UNCHANGED vars
  BY <1>0, <1>3, AgesKept, FinalKept DEF UserTransfer, vars, Finals
<1>4. CASE Crash /\ UNCHANGED world
  BY <1>4, CrashFinal DEF Finals
<1> QED
  BY <1>1, <1>2, <1>3, <1>4 DEF Next, Shared

\* Before any request no swap reads anything.
LEMMA FinalsInit == Init => Finals
BY DEF Init, InitTables, Finals, FinalInv, Exiting, NoSwap, Idle, NewRun

\* What may still change a status of completed or expired.
Latecomer(s) ==
  \/ cancel[s] = "write"
  \/ RequestAt(s, "failRow")
  \/ /\ swap[s].status = "completed"
     /\ job[s].name = "pay" /\ job[s].stalls > 0

OnlyLatecomers ==
  \A s \in Swaps :
    swap[s].status \in {"completed", "expired"} /\ swap'[s].status # swap[s].status
      => Latecomer(s)

\* A helper that goes back on completed is one of a job delivered again (SwapsHelper).
LEMMA SharedLatecomers ==
  ASSUME IInv, NEW s \in Swaps, FinalInv(s), Shared(s),
         swap[s].status \in {"completed", "expired"}, swap'[s].status # swap[s].status
  PROVE  Latecomer(s)
<1>0. TablesOK /\ RequestInv(s)
  BY DEF IInv, TypeOK, SwapInv
<1>1. InsertSwap(s, Len(ton)) \/ FailSwap(s) \/ CancelWrite(s) \/ ExitRow(s)
  BY DEF Shared, Create, CreateFails, Cancel, Settle, PickWallet, MarkWallet,
     AddConfirmJob, InsertFails, AddConfirmJobFails, ReleaseRequested, RequestThrows,
     CancelRead, ExitWallet, HandlerThrows, Tick
<1>2. CASE InsertSwap(s, Len(ton))
  BY <1>0, <1>2 DEF InsertSwap, RequestAt, RequestInv
<1>3. CASE FailSwap(s) \/ CancelWrite(s)
  BY <1>3 DEF FailSwap, CancelWrite, Latecomer
<1>4. CASE ExitRow(s)
  <2>1. run[s].stage = "exitRow" /\ swap'[s].status = run[s].result
    BY <1>0, <1>4 DEF ExitRow, TablesOK, Rows
  <2> QED
    BY <2>1 DEF FinalInv, Exiting, Latecomer
<1> QED
  BY <1>1, <1>2, <1>3, <1>4

\* No handler of the pipeline goes back on either status.
LEMMA LatecomersOnly == IInv /\ Finals /\ [Next]_vars => [OnlyLatecomers]_vars
<1> SUFFICES ASSUME IInv, Finals, Next,
                    NEW s \in Swaps, swap[s].status \in {"completed", "expired"},
                    swap'[s].status # swap[s].status
             PROVE  Latecomer(s)
  BY DEF OnlyLatecomers
<1>1. ASSUME NEW t \in Swaps, Shared(t)
      PROVE  Latecomer(s)
  <2>1. t = s
    BY <1>1, SharedEffect DEF Effect, OnlyOf
  <2> QED
    BY <1>1, <2>1, SharedLatecomers DEF Finals
<1>2. ASSUME NEW t \in Swaps, Confirm(t) \/ Pay(t) \/ Fee(t) \/ Burn(t)
      PROVE  FALSE
  <2>1. t = s
    BY <1>2, HandlersKeepOthers DEF OnlyOf
  <2>2. CASE Confirm(s)
    <3>1. job[s].name = "confirm"
      BY <2>2 DEF Confirm, ConfirmRead, ConfirmReads, ConfirmIncoming, ConfirmOutgoing,
         ConfirmCredit, OnConfirmFailed, OnConfirmCompleted, Takes, At
    <3> QED
      BY <2>2, <3>1, ConfirmFinal DEF Finals, FinalInv
  <2>3. CASE Pay(s) \/ Fee(s) \/ Burn(s)
    BY <2>3, PayFinal, ChargeFinal DEF Finals
  <2> QED
    BY <1>2, <2>1, <2>2, <2>3
<1>3. CASE UserTransfer \/ Crash
  BY <1>3 DEF UserTransfer, Crash
<1> QED
  BY <1>1, <1>2, <1>3 DEF Next, Shared

\* Once a swap reads completed or expired, no retry, listener or expiry check goes back
\* on it: only a DELETE or a POST that was under way, or a transferEthTokens job
\* delivered a second time (TonSourceSwapsProcessor, EthDestinationSwapsProcessor).
THEOREM FinalStatusesStay == Spec => FinalButForLatecomers
<1>1. Spec => []Finals
  BY InitInv, NextInv, FinalsInit, FinalsNext, PTL DEF Spec
<1>2. Spec => [][OnlyLatecomers]_vars
  BY <1>1, Invariance, LatecomersOnly, PTL DEF Spec
<1>3. [OnlyLatecomers]_vars =>
        [\A s \in Swaps :
           /\ swap[s].status \in {"completed", "expired"}
           /\ swap'[s].status # swap[s].status
           => \/ cancel[s] = "write"
              \/ RequestAt(s, "failRow")
              \/ /\ swap[s].status = "completed"
                 /\ job[s].name = "pay" /\ job[s].stalls > 0]_vars
  BY DEF OnlyLatecomers, Latecomer
<1> QED
  BY <1>2, <1>3, PTL DEF FinalButForLatecomers

-----------------------------------------------------------------------------
(* No swap is forgotten.                                                     *)

\* Requests, the helpers, the clock and a throw.
LEMMA SharedSettles ==
  ASSUME IInv, NEW s \in Swaps, SettledInv(s), Shared(s)
  PROVE  SettledInv(s)'
<1>1. TablesOK /\ RequestInv(s) /\ ExitInv(s) /\ Len(ton) \in Nat /\ 0 \in Nat
  BY LenProperties DEF IInv, TypeOK, SwapInv
<1> QED
  BY <1>1, QuietSettles, RequestWriteSettles, ExitSettles, ThrowSettles
     DEF Shared, Create, CreateFails, Cancel, Settle

\* The confirm job stays until it returns, and its listeners add it anew, add the pay
\* job, or end a chain that has settled the swap (conifrmTonTransfer, its listeners).
LEMMA ConfirmSettles ==
  ASSUME IInv, NEW s \in Swaps, SettledInv(s), Confirm(s)
  PROVE  SettledInv(s)'
<1>0. TablesOK /\ RequestInv(s) /\ job[s].name = "confirm" /\ UNCHANGED request
  BY DEF IInv, TypeOK, SwapInv, Confirm, ConfirmRead, ConfirmReads, ConfirmIncoming,
     ConfirmOutgoing, ConfirmCredit, OnConfirmFailed, OnConfirmCompleted, Takes, At
<1>1. CASE ConfirmRead(s) \/ ConfirmCredit(s)
  BY <1>0, <1>1, ConfirmSharedSettles DEF ConfirmRead
<1>2. CASE ConfirmIncoming(s)
  <2>1. UNCHANGED swap
    BY <1>2 DEF ConfirmIncoming
  <2>2. ASSUME NEW n, run' = [run EXCEPT ![s].stage = "outgoing", ![s].tx = n],
               job' = job
        PROVE  SettledInv(s)'
    <3>1. run'[s].stage = "outgoing"
      BY <1>0, <2>2 DEF TablesOK, Runs
    <3> QED
      BY <1>0, <2>2, <3>1, AttendedJob DEF Attending
  <2>3. CASE Exit(s, "failed")
    <3>1. job' = job /\ run'[s].stage = "exitRow"
      BY <1>0, <2>3, ExitFields DEF Statuses
    <3> QED
      BY <1>0, <3>1, AttendedJob DEF Attending
  <2> QED
    BY <1>0, <1>2, <2>1, <2>2, <2>3, FailsSettles DEF ConfirmIncoming
<1>3. CASE ConfirmOutgoing(s)
  <2>1. CASE Goto(s, "credit")
    <3>1. job' = job /\ run'[s].stage = "credit"
      BY <1>0, <2>1, GotoFields DEF Stages
    <3> QED
      BY <1>0, <3>1, AttendedJob DEF Attending
  <2> QED
    BY <1>0, <1>3, <2>1, FailsSettles DEF ConfirmOutgoing
<1>4. CASE OnConfirmFailed(s)
  <2>1. job'[s].name = "confirm" /\ run'[s].stage = "idle"
    BY <1>0, <1>4, RestFields DEF OnConfirmFailed, Enqueue, TablesOK, NextConfirm, NewJob
  <2> QED
    BY <2>1, AttendedJob DEF Attending
<1>5. CASE OnConfirmCompleted(s)
  <2>1. run'[s].stage = "idle" /\ UNCHANGED swap /\ run[s].stage = "completed"
    BY <1>0, <1>5, RestFields DEF OnConfirmCompleted, Enqueue, TablesOK, At
  <2>2. Processable(run[s].result) => job'[s].name = "pay"
    BY <1>0, <1>5 DEF OnConfirmCompleted, Enqueue, TablesOK, NewJob
  <2> QED
    BY <1>0, <2>1, <2>2, ListenerSettles DEF Attending
<1> QED
  BY <1>1, <1>2, <1>3, <1>4, <1>5 DEF Confirm

\* A swap whose pay job goes on to the fee was completed by it (transferEthTokens and
\* its listener).
LEMMA PaySettles ==
  ASSUME IInv, NEW s \in Swaps, SettledInv(s), Pay(s)
  PROVE  SettledInv(s)'
<1>0. TablesOK /\ job[s].name = "pay" /\ UNCHANGED request
  BY DEF IInv, TypeOK, Pay, PayRead, PaySend, PayWriteRow, OnPayCompleted, Takes, At
<1>1. CASE PayRead(s)
  <2>1. job' = job /\ run'[s].stage \in {"exitRow", "send"}
    BY <1>0, <1>1, ExitFields, GotoFields DEF PayRead, Statuses, Stages
  <2> QED
    BY <1>0, <2>1, AttendedJob DEF Attending
<1>2. CASE PaySend(s)
  <2>1. CASE Goto(s, "await")
    <3>1. job' = job /\ run'[s].stage = "await"
      BY <1>0, <2>1, GotoFields DEF Stages
    <3> QED
      BY <1>0, <3>1, AttendedJob DEF Attending
  <2> QED
    BY <1>0, <1>2, <2>1, FailsSettles DEF PaySend
<1>3. CASE PayWriteRow(s)
  <2>1. swap'[s].status = "completed"
    BY <1>0, <1>3, StatusFields DEF PayWriteRow, Statuses
  <2> QED
    BY <2>1, SettledRow DEF Settled
<1>4. CASE OnPayCompleted(s)
  <2>1. run'[s].stage = "idle" /\ UNCHANGED swap /\ run[s].stage = "completed"
    BY <1>0, <1>4, RestFields DEF OnPayCompleted, Enqueue, TablesOK, At
  <2> QED
    BY <1>0, <2>1, ListenerSettles
<1> QED
  BY <1>1, <1>2, <1>3, <1>4 DEF Pay

\* The jobs of the fee and of the burn write no status.
LEMMA ChargeSettles ==
  ASSUME IInv, NEW s \in Swaps, SettledInv(s), Fee(s) \/ Burn(s)
  PROVE  SettledInv(s)'
<1> DEFINE Jobs4 == {"fee", "getFee", "burn", "getBurn"}
           Rest == /\ job'[s].name \in Jobs4 \cup {"ended", "lost"}
                   /\ run'[s].stage # "exitWallet"
                   /\ run'[s].stage = "completed" => Processable(run'[s].result)
<1>0. TablesOK /\ job[s].name \in Jobs4 /\ UNCHANGED request
  BY DEF IInv, TypeOK, Fee, Burn, FeeRead, FeeSend, OnFeeCompleted,
     GetFeeRead, GetFeeFind, GetFeeDebit, OnGetFeeCompleted, BurnRead, BurnSend,
     OnBurnCompleted, GetBurnRead, GetBurnFind, GetBurnDebit, SendRead, Sends, OnNext,
     Takes, At
<1>1. swap'[s].status = swap[s].status
  <2>1. CASE GetFeeFind(s)
    BY <1>0, <2>1, CollectedFields DEF GetFeeFind
  <2>2. CASE GetBurnFind(s)
    BY <1>0, <2>2, BurnedFields DEF GetBurnFind
  <2> QED
    BY <2>1, <2>2 DEF Fee, Burn, FeeRead, FeeSend, OnFeeCompleted, GetFeeRead,
       GetFeeDebit, OnGetFeeCompleted, BurnRead, BurnSend, OnBurnCompleted, GetBurnRead,
       GetBurnDebit, SendRead, Sends, OnNext
<1>2. Rest
  <2>1. ASSUME Fails(s, "error")
        PROVE  Rest
    BY <1>0, <2>1, FailsFields
  <2>2. ASSUME Enqueue(s, EndedJob)
        PROVE  Rest
    BY <1>0, <2>2, RestFields DEF Enqueue, TablesOK
  <2>3. ASSUME NEW stage \in {"send", "debit"}, Goto(s, stage)
        PROVE  Rest
    BY <1>0, <2>3, GotoFields DEF Stages
  <2>4. ASSUME GotoWithBalance(s, "find")
        PROVE  Rest
    BY <1>0, <2>4 DEF GotoWithBalance, TablesOK, NewRun
  <2>5. ASSUME Return(s, "none")
        PROVE  Rest
    BY <1>0, <2>5, ReturnFields DEF Statuses, Processable
  <2>6. ASSUME NEW name \in Jobs4, NEW next \in Jobs4, OnNext(s, name, next)
        PROVE  Rest
    BY <1>0, <2>6, RestFields DEF OnNext, Enqueue, TablesOK, NewJob
  <2> HIDE DEF Rest
  <2>7. CASE OnFeeCompleted(s) \/ OnGetFeeCompleted(s) \/ OnBurnCompleted(s)
    BY <2>6, <2>7 DEF OnFeeCompleted, OnGetFeeCompleted, OnBurnCompleted
  <2>8. CASE FeeRead(s) \/ BurnRead(s) \/ FeeSend(s) \/ BurnSend(s)
    BY <2>1, <2>3, <2>5, <2>8 DEF FeeRead, BurnRead, FeeSend, BurnSend, SendRead, Sends
  <2>9. CASE GetFeeRead(s) \/ GetFeeFind(s) \/ GetFeeDebit(s)
    BY <2>1, <2>3, <2>4, <2>5, <2>9
       DEF GetFeeRead, GetFeeFind, GetFeeDebit, DebitRefused
  <2>10. CASE GetBurnRead(s) \/ GetBurnFind(s) \/ GetBurnDebit(s)
    BY <2>1, <2>2, <2>3, <2>4, <2>10
       DEF GetBurnRead, GetBurnFind, GetBurnDebit, DebitRefused
  <2> QED
    BY <2>7, <2>8, <2>9, <2>10 DEF Fee, Burn
<1> QED
  BY <1>0, <1>1, <1>2, LateJobSettles DEF Attending

\* Every step keeps that.
LEMMA SettlingNext == IInv /\ Settling /\ [Next]_vars => Settling'
<1> SUFFICES ASSUME IInv, Settling, [Next]_vars
             PROVE  Settling'
  OBVIOUS
<1>1. ASSUME NEW s \in Swaps, Shared(s)
      PROVE  Settling'
  <2>1. OnlyOf(s)
    BY <1>1, SharedEffect DEF Effect
  <2> QED
    BY <1>1, <2>1, SharedSettles, SettledStep DEF Settling, OnlyOf
<1>2. ASSUME NEW s \in Swaps, Confirm(s) \/ Pay(s) \/ Fee(s) \/ Burn(s)
      PROVE  Settling'
  <2>1. SettledInv(s)'
    BY <1>2, ConfirmSettles, PaySettles, ChargeSettles DEF Settling
  <2> QED
    BY <1>2, <2>1, HandlersKeepOthers, SettledStep DEF OnlyOf
<1>3. CASE UserTransfer \/ UNCHANGED vars
  BY <1>3, SettledKept DEF UserTransfer, vars, Settling
<1>4. CASE Crash /\ UNCHANGED world
  BY <1>4, CrashSettles DEF IInv, TypeOK, Settling
<1> QED
  BY <1>1, <1>2, <1>3, <1>4 DEF Next, Shared

\* However handlers fail, are retried, redelivered or meet a late DELETE, a swap that
\* reads pending or confirmed has a request or a job that is to settle it, unless its
\* chain of jobs was cut off (TonSourceSwapsProcessor, EthDestinationSwapsProcessor).
THEOREM NoSwapStaysBehind == Spec => []NoSwapIsForgotten
<1>1. Init => Settling
  BY SettledInit DEF Init
<1>2. Settling => NoSwapIsForgotten
  BY DEF Settling, SettledInv, NoSwapIsForgotten
<1> QED
  BY <1>1, <1>2, InitInv, NextInv, SettlingNext, PTL DEF Spec
=============================================================================
