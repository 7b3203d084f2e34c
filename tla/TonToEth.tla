------------------------------ MODULE TonToEth ------------------------------
(* A swap from the TON (jetton) side to the Ethereum (ERC-20) side: the Bull *)
(* jobs of TonSourceSwapsProcessor and EthDestinationSwapsProcessor, on top  *)
(* of what SwapJobs has of requests, tables and queues.                      *)
(*                                                                           *)
(* Nothing is scanned here: a transfer, the fee and the burn are looked for  *)
(* as the latest transaction of a jetton wallet (findTransaction), so the    *)
(* model keeps the transactions of all jetton wallets in one order and reads *)
(* the times that are compared as positions in it.                           *)
EXTENDS SwapJobs

CONSTANTS Senders,              \* jetton owners who pay for swaps
          Collector,            \* the collector wallet of the swaps
          Reserve               \* tokens of the destination wallet, in grains

ASSUME AccountAssumption ==
  /\ Senders \cap (Wallets \cup {Collector, NoWallet}) = {}
  /\ Collector \notin Wallets \cup {NoWallet}
  /\ Senders \cap Swaps = {}
ASSUME ReserveAssumption == Reserve \in Nat

VARIABLES
  ton,      \* TON: the transactions of the jetton wallets, in order
  eth,      \* Ethereum: the token transfers broadcast for swaps, in order
  reserve   \* Ethereum: the tokens left in the destination wallet

world == <<ton, eth, reserve>>

vars == <<ton, eth, reserve, swap, wallet, job, run, request, cancel, age, faults>>

\* A jetton transfer is a TRANSFER at the wallet that sends and an
\* INTERNAL_TRANSFER at the one that receives.  The field by is the owner who
\* sent it, or the swap it was sent for.
Operations == {"TRANSFER", "INTERNAL_TRANSFER", "BURN"}
Transaction(at, op, amount, by) == [at |-> at, op |-> op, amount |-> amount, by |-> by]

Transfer(from, to, amount, by) ==
  <<Transaction(from, "TRANSFER", amount, by),
    Transaction(to, "INTERNAL_TRANSFER", amount, by)>>

Init ==
  /\ ton = <<>>
  /\ eth = <<>>
  /\ reserve = Reserve
  /\ InitTables

-----------------------------------------------------------------------------
\* What findTransaction(at, swap.createdAt, op) returns: the latest transaction of
\* a jetton wallet, if it is of that kind and not older than the swap, or nothing.
Found(s, at, op) ==
  {i \in (swap[s].createdAt + 1)..Len(ton) :
     /\ ton[i].at = at
     /\ ton[i].op = op
     /\ \A j \in (i + 1)..Len(ton) : ton[j].at # at}

-----------------------------------------------------------------------------
(* CONFIRM_TON_TRANSFER_JOB                                                  *)

ConfirmRead(s) == ConfirmReads(s, "scan") /\ UNCHANGED world

\* The latest transaction of the source wallet has to be an incoming transfer.
\* Whether a minter wallet is found is up to the administrators.
ConfirmIncoming(s) ==
  /\ At(s, "confirm", "scan")
  /\ \/ /\ Found(s, swap[s].sourceWallet, "INTERNAL_TRANSFER") = {}
        /\ Fails(s, "notFound")
     \/ \E i \in Found(s, swap[s].sourceWallet, "INTERNAL_TRANSFER") :
          \/ Exit(s, "failed")
          \/ /\ ton[i].amount = swap[s].sourceAmount \/ Recalculable(ton[i].amount)
             /\ run' = [run EXCEPT ![s].stage = "outgoing", ![s].tx = i]
             /\ UNCHANGED job
  /\ UNCHANGED <<ton, eth, reserve, swap, wallet, request, cancel, age, faults>>

\* Mutant: the row keeps the amounts of the request.
ConfirmWriteAsAsked(s, i) ==
  swap' = [swap EXCEPT ![s].sourceTransactionId = i, ![s].status = "confirmed",
                       ![s].confirmations = 1]

\* The row gets the amounts of the incoming and the id of the outgoing transaction.
ConfirmWrite(s, i) ==
  swap' = [swap EXCEPT ![s] = ConfirmedRow(s, ton[run[s].tx].amount, i)]

\* The latest transaction of the sender's jetton wallet has to be an outgoing one.
ConfirmOutgoing(s) ==
  /\ At(s, "confirm", "outgoing")
  /\ LET sender == ton[run[s].tx].by
         outgoing == Found(s, sender, "TRANSFER")
     IN  \/ /\ outgoing = {}
            /\ Fails(s, "notFound")
            /\ UNCHANGED swap
         \/ \E i \in outgoing : ConfirmWrite(s, i) /\ Goto(s, "credit")
  /\ UNCHANGED <<ton, eth, reserve, wallet, request, cancel, age, faults>>

\* Mutant: the listener is bound to another job name.
NeverAgain(s) == EndedJob

\* The block number that the job carries is read by nobody.
NextConfirm(s) == NewJob("confirm", 0, 0, 1)

\* onConfirmTonTransferFailed
OnConfirmFailed(s) ==
  /\ At(s, "confirm", "failed")
  /\ Enqueue(s, NextConfirm(s))
  /\ UNCHANGED <<ton, eth, reserve, swap, wallet, request, cancel, age, faults>>

OnConfirmCompleted(s) ==
  /\ At(s, "confirm", "completed")
  /\ Enqueue(s, IF Processable(run[s].result)
                THEN NewJob("pay", 0, 0, ExtendedAttempts)
                ELSE EndedJob)
  /\ UNCHANGED <<ton, eth, reserve, swap, wallet, request, cancel, age, faults>>

-----------------------------------------------------------------------------
(* TRANSFER_ETH_TOKENS_JOB                                                   *)

PayRead(s) ==
  /\ Takes(s, "pay")
  /\ IF ExtendedExpired(s) THEN Exit(s, "expired") ELSE Goto(s, "send")
  /\ UNCHANGED <<ton, eth, reserve, swap, wallet, request, cancel, age, faults>>

\* The gas limit is given, so nothing is estimated and a transfer of more than the
\* destination wallet holds is broadcast all the same, and reverts.
Broadcast(s) ==
  LET amount == swap[s].destinationAmount
      executed == amount <= reserve
  IN  /\ eth' = Append(eth, [swap |-> s, to |-> RecipientOf[s],
                             amount |-> amount, executed |-> executed])
      /\ reserve' = IF executed THEN reserve - amount ELSE reserve

\* transferTokens may throw before or after the transaction is broadcast.
PaySend(s) ==
  /\ At(s, "pay", "send")
  /\ \/ Broadcast(s) /\ Goto(s, "await") /\ UNCHANGED faults
     \/ (Broadcast(s) \/ UNCHANGED <<eth, reserve>>) /\ Fails(s, "error") /\ Fault
  /\ UNCHANGED <<ton, swap, wallet, request, cancel, age>>

\* waitForTransaction resolves with the receipt, executed or reverted, and the
\* handler does not look at it.
PayWriteRow(s) ==
  /\ At(s, "pay", "await")
  /\ swap' = [swap EXCEPT ![s].status = "completed"]
  /\ Return(s, "completed")
  /\ UNCHANGED <<ton, eth, reserve, wallet, request, cancel, age, faults>>

OnPayCompleted(s) ==
  /\ At(s, "pay", "completed")
  /\ Enqueue(s, IF Processable(run[s].result)
                THEN NewJob("fee", 0, 0, UltimateAttempts)
                ELSE EndedJob)
  /\ UNCHANGED <<ton, eth, reserve, swap, wallet, request, cancel, age, faults>>

-----------------------------------------------------------------------------
(* TRANSFER_TON_FEE_JOB, GET_TON_FEE_TRANSACTION_JOB, BURN_TON_JETTONS_JOB   *)
(* and GET_TON_BURN_TRANSACTION_JOB.                                         *)

\* The two handlers that send begin alike: past the last deadline, or without a
\* minter wallet, they return and their listeners go on all the same.
SendRead(s, name) ==
  /\ Takes(s, name)
  /\ \/ Return(s, "none")
     \/ ~UltimateExpired(s) /\ Goto(s, "send")
  /\ UNCHANGED <<ton, eth, reserve, swap, wallet, request, cancel, age, faults>>

\* The external message may or may not be executed on the TON side, and the
\* call may throw after it has left.  No row is written.
Sends(s, name, transactions) ==
  /\ At(s, name, "send")
  /\ \E executed \in {<<>>} \cup transactions : ton' = ton \o executed
  /\ \/ Return(s, "none") /\ UNCHANGED faults
     \/ Fails(s, "error") /\ Fault
  /\ UNCHANGED <<eth, reserve, swap, wallet, request, cancel, age>>

\* The listeners of these jobs take no result: they always add the next job.
OnNext(s, name, next) ==
  /\ At(s, name, "completed")
  /\ Enqueue(s, NewJob(next, 0, 0, UltimateAttempts))
  /\ UNCHANGED <<ton, eth, reserve, swap, wallet, request, cancel, age, faults>>

FeeRead(s) == SendRead(s, "fee")

\* The jetton wallet may refuse: then nothing arrives at the collector.
FeeSend(s) ==
  LET transfer == Transfer(swap[s].sourceWallet, Collector, swap[s].fee, s)
  IN  Sends(s, "fee", {transfer, SubSeq(transfer, 1, 1)})

OnFeeCompleted(s) == OnNext(s, "fee", "getFee")

GetFeeRead(s) ==
  /\ Takes(s, "getFee")
  /\ IF UltimateExpired(s) THEN Return(s, "none") ELSE GotoWithBalance(s, "find")
  /\ UNCHANGED <<ton, eth, reserve, swap, wallet, request, cancel, age, faults>>

\* Any transfer to the collector that is not older than the swap will do.
GetFeeFind(s) ==
  /\ At(s, "getFee", "find")
  /\ IF Found(s, Collector, "INTERNAL_TRANSFER") # {}
     THEN swap' = [swap EXCEPT ![s].collected = TRUE] /\ Goto(s, "debit")
     ELSE UNCHANGED swap /\ Fails(s, "error")
  /\ UNCHANGED <<ton, eth, reserve, wallet, request, cancel, age, faults>>

GetFeeDebit(s) ==
  /\ At(s, "getFee", "debit")
  /\ \/ Debit(s, swap[s].fee) /\ Return(s, "none")
     \/ DebitRefused(s, swap[s].fee)
  /\ UNCHANGED <<ton, eth, reserve, swap, request, cancel, age, faults>>

OnGetFeeCompleted(s) == OnNext(s, "getFee", "burn")

BurnRead(s) == SendRead(s, "burn")

\* A burn the jetton wallet refuses is a transaction of it as well.
BurnSend(s) ==
  Sends(s, "burn", {<<Transaction(swap[s].sourceWallet, "BURN",
                                  swap[s].destinationAmount, s)>>})

OnBurnCompleted(s) == OnNext(s, "burn", "getBurn")

GetBurnRead(s) ==
  /\ Takes(s, "getBurn")
  /\ \/ Enqueue(s, EndedJob)
     \/ ~UltimateExpired(s) /\ GotoWithBalance(s, "find")
  /\ UNCHANGED <<ton, eth, reserve, swap, wallet, request, cancel, age, faults>>

GetBurnFind(s) ==
  /\ At(s, "getBurn", "find")
  /\ IF Found(s, swap[s].sourceWallet, "BURN") # {}
     THEN swap' = [swap EXCEPT ![s].burned = TRUE] /\ Goto(s, "debit")
     ELSE UNCHANGED swap /\ Fails(s, "error")
  /\ UNCHANGED <<ton, eth, reserve, wallet, request, cancel, age, faults>>

\* No listener follows.
GetBurnDebit(s) ==
  /\ At(s, "getBurn", "debit")
  /\ \/ Debit(s, swap[s].destinationAmount) /\ Enqueue(s, EndedJob)
     \/ DebitRefused(s, swap[s].destinationAmount)
  /\ UNCHANGED <<ton, eth, reserve, swap, request, cancel, age, faults>>

-----------------------------------------------------------------------------
(* The world outside.                                                        *)

\* Owners of jettons pay the wallets they were told of, and whomever they like.
UserTransfer ==
  /\ Cardinality({i \in 1..Len(ton) : ton[i].op = "TRANSFER" /\ ton[i].by \in Senders})
       < MaxTransfers
  /\ \E from \in Senders, amount \in Transferred,
        to \in Senders \cup {Collector}
               \cup {swap[s].sourceWallet : s \in {t \in Swaps : RequestAt(t, "done")}} :
       /\ to # NoWallet
       /\ ton' = ton \o Transfer(from, to, amount, from)
  /\ UNCHANGED <<eth, reserve, swap, wallet, job, run, request, cancel, age, faults>>

-----------------------------------------------------------------------------
\* The steps of SwapJobs touch neither chain.  createSwap promises what the wallet
\* table shows of the destination wallet, which payments do not update.
Create(s) ==
  /\ \/ /\ PickWallet(s)
        /\ ExactDestination(request'[s].amount) <= Reserve * FeeDen
     \/ MarkWallet(s) \/ InsertSwap(s, Len(ton)) \/ AddConfirmJob(s, 0)
  /\ UNCHANGED world

CreateFails(s) ==
  /\ \/ InsertFails(s) \/ AddConfirmJobFails(s, 0) \/ FailSwap(s)
     \/ ReleaseRequested(s) \/ RequestThrows(s)
  /\ UNCHANGED world

Cancel(s) == (CancelRead(s) \/ CancelWrite(s)) /\ UNCHANGED world

Settle(s) == (ExitRow(s) \/ ExitWallet(s)) /\ UNCHANGED world

Confirm(s) ==
  \/ ConfirmRead(s) \/ ConfirmIncoming(s) \/ ConfirmOutgoing(s)
  \/ ConfirmCredit(s) /\ UNCHANGED world
  \/ OnConfirmFailed(s) \/ OnConfirmCompleted(s)

Pay(s) == PayRead(s) \/ PaySend(s) \/ PayWriteRow(s) \/ OnPayCompleted(s)

Fee(s) ==
  \/ FeeRead(s) \/ FeeSend(s) \/ OnFeeCompleted(s)
  \/ GetFeeRead(s) \/ GetFeeFind(s) \/ GetFeeDebit(s) \/ OnGetFeeCompleted(s)

Burn(s) ==
  \/ BurnRead(s) \/ BurnSend(s) \/ OnBurnCompleted(s)
  \/ GetBurnRead(s) \/ GetBurnFind(s) \/ GetBurnDebit(s)

Next ==
  \/ UserTransfer
  \/ Crash /\ UNCHANGED world
  \/ \E s \in Swaps :
       \/ Create(s) \/ CreateFails(s)
       \/ Cancel(s) \/ Settle(s)
       \/ Confirm(s) \/ Pay(s) \/ Fee(s) \/ Burn(s)
       \/ HandlerThrows(s) /\ UNCHANGED world
       \/ Tick(s) /\ UNCHANGED world

Spec == Init /\ [][Next]_vars

-----------------------------------------------------------------------------
(* Properties.                                                               *)

Transactions == [at : Wallets \cup Senders \cup {Collector}, op : Operations,
                 amount : Nat, by : Senders \cup Swaps]
Payouts == [swap : Swaps, to : Recipients, amount : Nat, executed : BOOLEAN]

\* The two chains hold what the contracts execute or refuse, and the tables, the
\* queue and the memory what SwapJobs says of them.
TypeOK ==
  /\ ton \in Seq(Transactions)
  /\ eth \in Seq(Payouts)
  /\ reserve \in 0..Reserve
  /\ TablesOK

\* The transactions the swap may be paid for: transfers to its source wallet since
\* it was created, of the amount the row holds.
Incoming(s) ==
  {i \in (swap[s].createdAt + 1)..Len(ton) :
     /\ ton[i].at = swap[s].sourceWallet
     /\ ton[i].op = "INTERNAL_TRANSFER"
     /\ ton[i].amount = swap[s].sourceAmount}

\* Every token paid out is backed by jettons the swap received: whatever is retried,
\* redelivered, canceled or expired meanwhile, a payment goes to the recipient of
\* the swap, for the destination amount of a transfer made to its source wallet
\* after it was created (transferEthTokens itself checks nothing of it).
PayoutBacked ==
  \A i \in 1..Len(eth) :
    LET s == eth[i].swap
    IN  /\ Incoming(s) # {}
        /\ Quoted(s)
        /\ eth[i].to = RecipientOf[s]
        /\ eth[i].amount = swap[s].destinationAmount

\* A payment and the fee stay within the jettons received, but for what createSwap
\* rounds off the amount as asked, less than one unit of it.
PayoutWithinTransfer ==
  \A i \in 1..Len(eth) :
    LET s == eth[i].swap
    IN  \A j \in Incoming(s) :
          eth[i].amount + swap[s].fee < ton[j].amount + SourceUnit

\* What leaves a source wallet in the name of a swap, be it the fee or the burn,
\* leaves it after a payment of the swap was broadcast, and so do the records of it: a
\* listener that goes on after a swap expired would charge for what nobody tried to
\* pay.  A payment that was reverted counts: the handler does not look at the receipt
\* (PayWriteRow), and the swap is charged all the same; that is CompletedIsPaid.
ChargedAfterPayout ==
  \A s \in Swaps :
    \/ \E i \in 1..Len(ton) : ton[i].by = s
    \/ swap[s].status = "completed"
    \/ swap[s].collected
    \/ swap[s].burned
    => \E i \in 1..Len(eth) : eth[i].swap = s

\* Retries and redeliveries may pay a swap, charge its fee and burn its jettons
\* again: never more often than the job has attempts and stalls.
RepeatsAreBounded ==
  \A s \in Swaps :
    /\ Cardinality({i \in 1..Len(eth) : eth[i].swap = s})
         <= ExtendedAttempts + MaxStalls
    /\ \A op \in {"TRANSFER", "BURN"} :
         Cardinality({i \in 1..Len(ton) : ton[i].by = s /\ ton[i].op = op})
           <= UltimateAttempts + MaxStalls

\* A status of completed or expired is final but for three latecomers: a DELETE that
\* read the swap pending, a POST whose queue call failed after the job was added,
\* and, for completed alone, a transferEthTokens job delivered a second time.
FinalButForLatecomers ==
  [][\A s \in Swaps :
       /\ swap[s].status \in {"completed", "expired"}
       /\ swap'[s].status # swap[s].status
       => \/ cancel[s] = "write"
          \/ RequestAt(s, "failRow")
          \/ /\ swap[s].status = "completed"
             /\ job[s].name = "pay" /\ job[s].stalls > 0]_vars

\* The chains as the promise of the bridge sees them: what the source wallet of a
\* swap received since it was created, the payments broadcast, and the swaps in whose
\* name something left a source wallet.
received ==
  [s \in Swaps |->
     {ton[i].amount : i \in {j \in (swap[s].createdAt + 1)..Len(ton) :
        /\ swap[s].status # "none"
        /\ ton[j].at = swap[s].sourceWallet
        /\ ton[j].op = "INTERNAL_TRANSFER"}}]
payouts ==
  [i \in 1..Len(eth) |->
     [swap |-> eth[i].swap, to |-> eth[i].to, amount |-> eth[i].amount]]
charged == {s \in Swaps : \E i \in 1..Len(ton) : ton[i].by = s}

Promise == INSTANCE SwapPromise
             WITH received <- received, payouts <- payouts, charged <- charged

\* The pipeline keeps what the bridge promises: payments for jettons received, at
\* the rate of the bridge, and a fee or a burn only once a payment was broadcast,
\* which SwapPromise does not require to be executed.
ImplementsPromise == Promise!Spec

\* A swap that reads completed was paid: the listener of transferEthTokens logs
\* "Tokens transferred" of every one of them.
CompletedIsPaid ==
  \A s \in Swaps :
    swap[s].status = "completed" =>
      \E i \in 1..Len(eth) : eth[i].swap = s /\ eth[i].executed

-----------------------------------------------------------------------------
(* The inductive invariant that PayoutBacked, ChargedAfterPayout and TypeOK    *)
(* rest on: how far the request, the row, the handler and the job of each    *)
(* swap have come together.                                                  *)

\* Users transfer whole numbers of base units to the wallets of the service.
TransfersInv ==
  \A i \in 1..Len(ton) :
    ton[i].at \in Wallets /\ ton[i].op = "INTERNAL_TRANSFER"
      => ton[i].amount \in Transferred

\* The amounts of the row are those of a transfer the swap received.
Backed(s) == Incoming(s) # {} /\ Quoted(s)

\* A payment of the swap was broadcast, be it executed or reverted.
PayoutSent(s) == \E i \in 1..Len(eth) : eth[i].swap = s

\* What the handler of the confirm job has found or written.
ConfirmInv(s) ==
  LET tx == run[s].tx
  IN  /\ At(s, "confirm", "outgoing") =>
           /\ tx \in (swap[s].createdAt + 1)..Len(ton)
           /\ ton[tx].at = swap[s].sourceWallet
           /\ ton[tx].op = "INTERNAL_TRANSFER"
      /\ \/ At(s, "confirm", "credit")
         \/ At(s, "confirm", "completed") /\ Processable(run[s].result)
         => Backed(s)

\* What the jobs after it may rely on.
PipelineInv(s) ==
  /\ job[s].name \in {"pay", "fee", "getFee", "burn", "getBurn"} => Backed(s)
  /\ \/ job[s].name \in {"fee", "getFee", "burn", "getBurn"}
     \/ At(s, "pay", "await")
     \/ At(s, "pay", "completed") /\ Processable(run[s].result)
     => PayoutSent(s)

\* Payments belong to swaps whose confirm job is over for good.
PayoutInv ==
  \A i \in 1..Len(eth), s \in Swaps :
    eth[i].swap = s =>
      /\ job[s].name \notin {"none", "confirm"}
      /\ Backed(s)
      /\ eth[i].to = RecipientOf[s]
      /\ eth[i].amount = swap[s].destinationAmount

SwapInv(s) == RequestInv(s) /\ ExitInv(s) /\ ConfirmInv(s) /\ PipelineInv(s)

\* Type correctness, the backing of payments and the order of payment and charge,
\* made inductive (createSwap, TonSourceSwapsProcessor,
\* EthDestinationSwapsProcessor).
IInv ==
  /\ TypeOK
  /\ TransfersInv
  /\ \A s \in Swaps : SwapInv(s)
  /\ PayoutInv
  /\ ChargedAfterPayout

-----------------------------------------------------------------------------
(* Liveness.                                                                 *)

\* Workers, listeners and requests take their steps and time passes.  Nothing is
\* fair about faults: MaxFaults says they end.
Fairness ==
  \A s \in Swaps :
    /\ WF_vars(Tick(s) /\ UNCHANGED world)
    /\ WF_vars(Create(s) /\ ~RequestAt(s, "new"))
    /\ WF_vars((FailSwap(s) \/ ReleaseRequested(s)) /\ UNCHANGED world)
    /\ WF_vars(CancelWrite(s) /\ UNCHANGED world)
    /\ WF_vars(Confirm(s) \/ Pay(s) \/ Fee(s) \/ Burn(s))
    /\ WF_vars(Settle(s))

FairSpec == Spec /\ Fairness
=============================================================================
