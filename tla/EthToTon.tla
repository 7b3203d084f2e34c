------------------------------ MODULE EthToTon ------------------------------
(* A swap from the Ethereum (ERC-20) side to the TON (jetton) side, from the *)
(* request that creates it to the transfer of the fee: the Bull jobs of      *)
(* EthSourceSwapsProcessor and TonDestinationSwapsProcessor, on top of what  *)
(* SwapJobs has of requests, tables and queues.                              *)
EXTENDS SwapJobs

CONSTANTS TotalConfirmations,   \* ETH_TOTAL_CONFIRMATIONS
          LookBack,             \* the 5 of getLogs(number - 5, number)
          MaxBlock,             \* bound: blocks mined
          MaxIncoming,          \* bound: jetton transfers to the users,
          MaxOthers             \* and those among them that are no mints

ASSUME ConfirmationAssumption ==
  TotalConfirmations \in Nat /\ TotalConfirmations >= 2
ASSUME BlockAssumption ==
  LookBack \in Nat /\ MaxBlock \in Nat /\ MaxIncoming \in Nat /\ MaxOthers \in Nat

VARIABLES
  chain,    \* Ethereum: block n holds the transfer chain[n], or none
  mints,    \* TON: the mint messages handed to it, in order
  ton,      \* TON: what came in at the users' jetton wallets, in order
  fees      \* Ethereum: the fee transfers broadcast for each swap

world == <<chain, mints, ton, fees>>

vars == <<chain, mints, ton, fees, swap, wallet, job, run, request, cancel, age, faults>>

NoTransfer == [to |-> NoWallet, amount |-> 0]
Transfers == [to : Wallets, amount : Transferred]

Init ==
  /\ chain = <<NoTransfer>>
  /\ mints = <<>>
  /\ ton = <<>>
  /\ fees = [s \in Swaps |-> 0]
  /\ InitTables

-----------------------------------------------------------------------------
(* CONFIRM_ETH_TRANSFER_JOB                                                  *)

ConfirmRead(s) == ConfirmReads(s, "scan") /\ UNCHANGED world

\* Mutant: the logs are asked for from the first block on.
WindowFromStart(s) == 1..job[s].arg

\* The blocks whose logs the handler asks for, and those that pay the swap.
Window(s) == {n \in 1..job[s].arg : n >= job[s].arg - LookBack}
Payments(s) == {n \in Window(s) : chain[n].to = swap[s].sourceWallet}

\* The block is not there yet, it is there and its window has no transfer to
\* the source wallet, or the first such transfer decides.
ConfirmScan(s) ==
  /\ At(s, "confirm", "scan")
  /\ \/ /\ job[s].arg > Len(chain)
        /\ Fails(s, "error")
     \/ /\ job[s].arg <= Len(chain)
        /\ Payments(s) = {}
        /\ Fails(s, "notFound")
     \/ /\ job[s].arg <= Len(chain)
        /\ \E n \in Payments(s) :
             /\ \A m \in Payments(s) : n <= m
             /\ IF \/ chain[n].amount = swap[s].sourceAmount
                   \/ Recalculable(chain[n].amount)
                THEN /\ run' = [run EXCEPT ![s].stage = "row", ![s].tx = n]
                     /\ UNCHANGED job
                ELSE Exit(s, "failed")
  /\ UNCHANGED <<chain, mints, ton, fees, swap, wallet, request, cancel, age, faults>>

ConfirmWriteRow(s) ==
  /\ At(s, "confirm", "row")
  /\ swap' = [swap EXCEPT ![s] = ConfirmedRow(s, chain[run[s].tx].amount, run[s].tx)]
  /\ Goto(s, "credit")
  /\ UNCHANGED <<chain, mints, ton, fees, wallet, request, cancel, age, faults>>

\* Mutant: the scan moves on whatever the error was.
NextBlockAlways(s) == job[s].arg + 1

\* The scan moves to the next block only when this one was read and held no
\* transfer: the message of the error ends with "transaction not found".
NextBlock(s) ==
  IF run[s].result = "notFound" THEN job[s].arg + 1 ELSE job[s].arg

\* Mutant: the listener is bound to another job name.
NeverAgain(s) == EndedJob

NextConfirm(s) == NewJob("confirm", NextBlock(s), 0, 1)

\* onConfirmEthTransferFailed
OnConfirmFailed(s) ==
  /\ At(s, "confirm", "failed")
  /\ Enqueue(s, NextConfirm(s))
  /\ UNCHANGED <<chain, mints, ton, fees, swap, wallet, request, cancel, age, faults>>

OnConfirmCompleted(s) ==
  /\ At(s, "confirm", "completed")
  /\ Enqueue(s, IF Processable(run[s].result)
                THEN NewJob("wait", 2, run[s].tx, NormalAttempts)
                ELSE EndedJob)
  /\ UNCHANGED <<chain, mints, ton, fees, swap, wallet, request, cancel, age, faults>>

-----------------------------------------------------------------------------
(* WAIT_FOR_ETH_TRANSFER_CONFIRMATION                                        *)

WaitRead(s) ==
  /\ Takes(s, "wait")
  /\ IF Expired(s) THEN Exit(s, "expired") ELSE Goto(s, "await")
  /\ UNCHANGED <<chain, mints, ton, fees, swap, wallet, request, cancel, age, faults>>

\* Mutant: the block of the transaction is not counted.
BuriedOneLess(tx, confirmations) == Len(chain) >= tx + confirmations - 2

\* waitForTransaction resolves: the block of the transaction is the first of the
\* confirmations asked for.
Buried(tx, confirmations) == Len(chain) >= tx + confirmations - 1

\* The row is written whatever it holds by now.
WaitConfirmed(s) ==
  /\ At(s, "wait", "await")
  /\ Buried(job[s].tx, job[s].arg)
  /\ swap' = [swap EXCEPT ![s].status = "confirmed",
                          ![s].confirmations = job[s].arg]
  /\ Return(s, "confirmed")
  /\ UNCHANGED <<chain, mints, ton, fees, wallet, request, cancel, age, faults>>

\* Only the first wait job is given attempts: the next ones have a single one.
OnWaitCompleted(s) ==
  /\ At(s, "wait", "completed")
  /\ Enqueue(s, IF ~Processable(run[s].result) THEN EndedJob
                ELSE IF job[s].arg < TotalConfirmations
                     THEN NewJob("wait", job[s].arg + 1, job[s].tx, 1)
                     ELSE NewJob("mint", 0, 0, ExtendedAttempts))
  /\ UNCHANGED <<chain, mints, ton, fees, swap, wallet, request, cancel, age, faults>>

-----------------------------------------------------------------------------
(* MINT_TON_JETTONS_JOB and GET_TON_MINT_TRANSACTION_JOB                     *)

\* Both handlers begin alike.  Whether a minter wallet is found is up to the
\* administrators, who attach, disable and detach wallets at any time.
MinterRead(s, name, stage) ==
  /\ Takes(s, name)
  /\ IF ExtendedExpired(s) THEN Exit(s, "expired")
                           ELSE Exit(s, "failed") \/ Goto(s, stage)
  /\ UNCHANGED <<chain, mints, ton, fees, swap, wallet, request, cancel, age, faults>>

MintRead(s) == MinterRead(s, "mint", "send")
GetMintRead(s) == MinterRead(s, "getMint", "find")

\* The message that mints what the row says.
MintOf(s) == [swap |-> s, to |-> RecipientOf[s], amount |-> swap[s].destinationAmount]

\* The call returns once the message is handed over, executed or not, and may throw
\* before or after that.  No row is written.
MintSend(s) ==
  /\ At(s, "mint", "send")
  /\ \/ /\ mints' = Append(mints, MintOf(s))
        /\ Return(s, "confirmed")
        /\ UNCHANGED faults
     \/ /\ mints' \in {mints, Append(mints, MintOf(s))}
        /\ Fails(s, "error")
        /\ Fault
  /\ UNCHANGED <<chain, ton, fees, swap, wallet, request, cancel, age>>

OnMintCompleted(s) ==
  /\ At(s, "mint", "completed")
  /\ Enqueue(s, IF Processable(run[s].result)
                THEN NewJob("getMint", 0, 0, ExtendedAttempts)
                ELSE EndedJob)
  /\ UNCHANGED <<chain, mints, ton, fees, swap, wallet, request, cancel, age, faults>>

\* Mutant: the age of the transaction is not compared.
MintFoundAtAnyTime(s) == \E i \in 1..Len(ton) : ton[i].to = RecipientOf[s]

\* What findTransaction can return: the latest transaction of the recipient's
\* jetton wallet, when it is an incoming transfer and not older than the swap.
\* Neither its sender nor its amount is looked at.
MintFound(s) ==
  \E i \in 1..Len(ton) : ton[i].to = RecipientOf[s] /\ i > swap[s].createdAt

\* The handler throws while the mint is not executed, and also when the recipient
\* has used the jetton wallet since: only its latest transaction is looked at.
GetMintFind(s) ==
  /\ At(s, "getMint", "find")
  /\ \/ /\ MintFound(s)
        /\ swap' = [swap EXCEPT ![s].status = "completed"]
        /\ Return(s, "completed")
     \/ /\ UNCHANGED swap
        /\ Fails(s, "error")
  /\ UNCHANGED <<chain, mints, ton, fees, wallet, request, cancel, age, faults>>

OnGetMintCompleted(s) ==
  /\ At(s, "getMint", "completed")
  /\ Enqueue(s, IF Processable(run[s].result)
                THEN NewJob("fee", 0, 0, UltimateAttempts)
                ELSE EndedJob)
  /\ UNCHANGED <<chain, mints, ton, fees, swap, wallet, request, cancel, age, faults>>

-----------------------------------------------------------------------------
(* TRANSFER_ETH_FEE_JOB, which has no listener.                              *)

FeeRead(s) ==
  /\ Takes(s, "fee")
  /\ IF UltimateExpired(s) THEN Enqueue(s, EndedJob) ELSE GotoWithBalance(s, "send")
  /\ UNCHANGED <<chain, mints, ton, fees, swap, wallet, request, cancel, age, faults>>

\* transferTokens may throw before or after the transaction is broadcast.
FeeSend(s) ==
  /\ At(s, "fee", "send")
  /\ \/ fees' = [fees EXCEPT ![s] = @ + 1] /\ Goto(s, "collect") /\ UNCHANGED faults
     \/ fees' \in {fees, [fees EXCEPT ![s] = @ + 1]} /\ Fails(s, "error") /\ Fault
  /\ UNCHANGED <<chain, mints, ton, swap, wallet, request, cancel, age>>

\* waitForTransaction has resolved for the fee transfer.
FeeWriteRow(s) ==
  /\ At(s, "fee", "collect")
  /\ swap' = [swap EXCEPT ![s].collected = TRUE]
  /\ Goto(s, "debit")
  /\ UNCHANGED <<chain, mints, ton, fees, wallet, request, cancel, age, faults>>

FeeDebit(s) ==
  /\ At(s, "fee", "debit")
  /\ \/ Debit(s, swap[s].fee) /\ Enqueue(s, EndedJob)
     \/ DebitRefused(s, swap[s].fee)
  /\ UNCHANGED <<chain, mints, ton, fees, swap, request, cancel, age, faults>>

-----------------------------------------------------------------------------
(* The world outside.                                                        *)

\* Transfers are made to the wallets users were told of, at most one in a
\* block, and early enough for their confirmations to fit under MaxBlock.
MineBlock ==
  /\ Len(chain) < MaxBlock
  /\ \E block \in {NoTransfer} \cup Transfers :
       /\ block # NoTransfer =>
            /\ \E s \in Swaps : /\ RequestAt(s, "done")
                               /\ swap[s].sourceWallet = block.to
            /\ Cardinality({n \in 1..Len(chain) : chain[n] # NoTransfer})
                 < MaxTransfers
            /\ Len(chain) + TotalConfirmations <= MaxBlock
       /\ chain' = Append(chain, block)
  /\ UNCHANGED <<mints, ton, fees, swap, wallet, job, run, request, cancel, age, faults>>

\* A jetton transfer comes in at a user's jetton wallet, or nobody sees it: mint is
\* the message it executes, 0 for what anybody else sends the user.
Incoming(to, mint) ==
  /\ Len(ton) < MaxIncoming
  /\ ton' = Append(ton, [to |-> to, mint |-> mint])
  /\ UNCHANGED <<chain, mints, fees, swap, wallet, job, run, request, cancel, age, faults>>

\* A message is executed at most once, at any time after it was handed over; that
\* it ever is nothing says.
MintExecuted ==
  \E i \in 1..Len(mints) :
    /\ \A n \in 1..Len(ton) : ton[n].mint # i
    /\ Incoming(mints[i].to, i)

OthersPay ==
  /\ Cardinality({n \in 1..Len(ton) : ton[n].mint = 0}) < MaxOthers
  /\ \E s \in Swaps : Incoming(RecipientOf[s], 0)

-----------------------------------------------------------------------------
\* The steps of SwapJobs touch neither chain.
Create(s) ==
  /\ \/ PickWallet(s) \/ MarkWallet(s) \/ InsertSwap(s, Len(ton))
     \/ AddConfirmJob(s, Len(chain))
  /\ UNCHANGED world

CreateFails(s) ==
  /\ \/ InsertFails(s) \/ AddConfirmJobFails(s, Len(chain)) \/ FailSwap(s)
     \/ ReleaseRequested(s) \/ RequestThrows(s)
  /\ UNCHANGED world

Cancel(s) == (CancelRead(s) \/ CancelWrite(s)) /\ UNCHANGED world

Settle(s) == (ExitRow(s) \/ ExitWallet(s)) /\ UNCHANGED world

Confirm(s) ==
  \/ ConfirmRead(s) \/ ConfirmScan(s) \/ ConfirmWriteRow(s)
  \/ ConfirmCredit(s) /\ UNCHANGED world
  \/ OnConfirmFailed(s) \/ OnConfirmCompleted(s)

Wait(s) == WaitRead(s) \/ WaitConfirmed(s) \/ OnWaitCompleted(s)

Mint(s) ==
  \/ MintRead(s) \/ MintSend(s) \/ OnMintCompleted(s)
  \/ GetMintRead(s) \/ GetMintFind(s) \/ OnGetMintCompleted(s)

Fee(s) == FeeRead(s) \/ FeeSend(s) \/ FeeWriteRow(s) \/ FeeDebit(s)

Next ==
  \/ MineBlock \/ MintExecuted \/ OthersPay
  \/ Crash /\ UNCHANGED world
  \/ \E s \in Swaps :
       \/ Create(s) \/ CreateFails(s)
       \/ Cancel(s) \/ Settle(s)
       \/ Confirm(s) \/ Wait(s) \/ Mint(s) \/ Fee(s)
       \/ HandlerThrows(s) /\ UNCHANGED world
       \/ Tick(s) /\ UNCHANGED world

Spec == Init /\ [][Next]_vars

-----------------------------------------------------------------------------
(* Properties.                                                               *)

Mints == [swap : Swaps, to : Recipients, amount : Nat]
Arrivals == [to : Recipients, mint : Nat]

\* The two chains hold transfers and mints of the kinds the contracts execute, and
\* the tables, the queue and the memory what SwapJobs says of them.
TypeOK ==
  /\ chain \in Seq(Transfers \cup {NoTransfer})
  /\ mints \in Seq(Mints)
  /\ ton \in Seq(Arrivals)
  /\ fees \in [Swaps -> Nat]
  /\ TablesOK

\* The row of s names a transfer of the Ethereum chain that went to the source
\* wallet of the swap, and the amounts of the row are those of that transfer.
Backed(s) ==
  LET tx == swap[s].sourceTransactionId
  IN  /\ tx \in 1..Len(chain)
      /\ chain[tx].to = swap[s].sourceWallet
      /\ chain[tx].amount = swap[s].sourceAmount
      /\ Quoted(s)

\* Every mint handed to TON is backed by a transfer the chain shows: whatever is
\* retried, redelivered, canceled or expired meanwhile, a mint for a swap goes to
\* its recipient, for the destination amount of a transfer to its source wallet
\* that has TotalConfirmations blocks (mintTonJettons itself checks nothing of it).
MintBacked ==
  \A i \in 1..Len(mints) :
    LET s == mints[i].swap
    IN  /\ Backed(s)
        /\ Len(chain) >= swap[s].sourceTransactionId + TotalConfirmations - 1
        /\ mints[i].to = RecipientOf[s]
        /\ mints[i].amount = swap[s].destinationAmount

\* A mint and the fee together stay within the transfer that backs the mint, but
\* for what createSwap rounds off the amount as asked, less than one unit of it.
MintWithinTransfer ==
  \A i \in 1..Len(mints) :
    LET row == swap[mints[i].swap]
    IN  mints[i].amount + row.fee
          < chain[row.sourceTransactionId].amount + SourceUnit

\* The scan of confirmEthTransfer passes over no transfer: as long as the row has
\* taken none, no block from the one the scan began at to the one before its
\* current block paid the source wallet, however often Infura lags or fails and the
\* job is added anew by its failed listener.
NoTransferPassedOver ==
  \A s \in Swaps :
    job[s].name = "confirm" /\ swap[s].sourceTransactionId = 0
      => \A n \in request[s].block..(job[s].arg - 1) :
           n \in 1..Len(chain) => chain[n].to # swap[s].sourceWallet

\* A wallet goes to the next swap as soon as it is released, and the scan of that
\* swap looks back: two swaps can take the same transfer, but then they share the
\* wallet and the transfer was not older than LookBack blocks when the scan began.
SharedTransferIsRecent ==
  \A s, t \in Swaps :
    LET tx == swap[s].sourceTransactionId
    IN  s # t /\ tx # 0 /\ tx = swap[t].sourceTransactionId
          => /\ swap[s].sourceWallet = swap[t].sourceWallet
             /\ tx + LookBack >= request[s].block

\* A mint of the swap was handed to TON.
Sent(s) == \E i \in 1..Len(mints) : mints[i].swap = s

\* Jettons have come in for the recipient since the swap was created.
Arrived(s) ==
  \E i \in 1..Len(ton) : ton[i].to = RecipientOf[s] /\ i > swap[s].createdAt

\* A swap that reads completed, and one whose fee was charged, has handed a mint of
\* its own to TON, and jettons have come in for its recipient since it was created:
\* the mint and the search are jobs apart, each retried and redelivered, and two
\* swaps of one recipient see the same jetton wallet.  It does not say that the
\* mint was executed, which getTonMintTransaction cannot tell.
ChargedAfterMint ==
  \A s \in Swaps :
    swap[s].status = "completed" \/ fees[s] > 0 => Sent(s) /\ Arrived(s)

\* Retries and redeliveries may mint and charge a swap again: never more often
\* than its job has attempts and stalls.
RepeatsAreBounded ==
  \A s \in Swaps :
    /\ Cardinality({i \in 1..Len(mints) : mints[i].swap = s})
         <= ExtendedAttempts + MaxStalls
    /\ fees[s] <= UltimateAttempts + MaxStalls

\* A status of completed or expired is final but for three latecomers: a DELETE that
\* read the swap pending, a POST whose queue call failed after the job was added,
\* and, for completed alone, a getTonMintTransaction job delivered a second time.
\* No retry, listener or expiry check of the pipeline itself goes back on it.
FinalButForLatecomers ==
  [][\A s \in Swaps :
       /\ swap[s].status \in {"completed", "expired"}
       /\ swap'[s].status # swap[s].status
       => \/ cancel[s] = "write"
          \/ RequestAt(s, "failRow")
          \/ /\ swap[s].status = "completed"
             /\ job[s].name = "getMint" /\ job[s].stalls > 0]_vars

\* What a row has of its transfer.
Taken(s) ==
  <<swap[s].sourceTransactionId, swap[s].sourceWallet, swap[s].sourceAmount,
    swap[s].destinationAmount, swap[s].fee>>

\* A swap that took a transfer keeps it, and the amounts computed from it: a confirm
\* job that is delivered or added again after the row was written finds the same
\* transfer and writes the same amounts.  The confirmations a user is shown only go
\* up, and never above those the chain shows.
TransferIsKept ==
  [][\A s \in Swaps :
       LET tx == swap[s].sourceTransactionId
       IN  tx # 0 =>
             /\ Taken(s)' = Taken(s)
             /\ swap'[s].confirmations
                  \in swap[s].confirmations..(Len(chain') + 1 - tx)]_vars

\* The chains as the promise of the bridge sees them: what the source wallet of a
\* swap received, and the swaps that were charged.
received ==
  [s \in Swaps |->
     {chain[n].amount : n \in {m \in 1..Len(chain) :
        swap[s].status # "none" /\ chain[m].to = swap[s].sourceWallet}}]
charged == {s \in Swaps : fees[s] > 0}

Promise == INSTANCE SwapPromise
             WITH received <- received, payouts <- mints, charged <- charged

\* The pipeline keeps what the bridge promises: mints for what was received, at the
\* rate of the bridge, and a fee only once a mint of the swap was handed to TON.
ImplementsPromise == Promise!Spec

-----------------------------------------------------------------------------
(* The inductive invariant that MintBacked and TypeOK rest on: how far the   *)
(* request, the row, the handler and the job of each swap have come together.*)

\* What the handler of the confirm job has found or written.
ConfirmInv(s) ==
  LET tx == run[s].tx
  IN  /\ At(s, "confirm", "row") =>
           /\ tx \in 1..Len(chain)
           /\ chain[tx].to = swap[s].sourceWallet
      /\ \/ At(s, "confirm", "credit")
         \/ At(s, "confirm", "completed") /\ Processable(run[s].result)
         => Backed(s) /\ tx = swap[s].sourceTransactionId

\* The depth the transfer of the row is known to have.
Deep(s, confirmations) ==
  Len(chain) >= swap[s].sourceTransactionId + confirmations - 1

\* What the jobs after it may rely on.
PipelineInv(s) ==
  /\ job[s].name = "wait" =>
       /\ Backed(s)
       /\ job[s].tx = swap[s].sourceTransactionId
       /\ job[s].arg >= 2
       /\ Deep(s, job[s].arg - 1)
       /\ run[s].stage = "completed" /\ Processable(run[s].result)
            => Deep(s, job[s].arg)
  /\ job[s].name \in {"mint", "getMint", "fee"} =>
       Backed(s) /\ Deep(s, TotalConfirmations)

\* Mints belong to swaps whose confirm job is over for good.
MintInv ==
  \A i \in 1..Len(mints), s \in Swaps :
    mints[i].swap = s =>
      /\ job[s].name \notin {"none", "confirm", "wait"}
      /\ Backed(s)
      /\ Deep(s, TotalConfirmations)
      /\ mints[i].to = RecipientOf[s]
      /\ mints[i].amount = swap[s].destinationAmount

SwapInv(s) == RequestInv(s) /\ ExitInv(s) /\ ConfirmInv(s) /\ PipelineInv(s)

\* Type correctness and the backing of mints, made inductive (createSwap,
\* EthSourceSwapsProcessor, TonDestinationSwapsProcessor).
IInv == TypeOK /\ (\A s \in Swaps : SwapInv(s)) /\ MintInv

\* The swap reads completed, was charged, or is about to be.
Concluded(s) ==
  \/ swap[s].status = "completed"
  \/ fees[s] > 0
  \/ job[s].name = "fee"
  \/ At(s, "getMint", "completed") /\ Processable(run[s].result)

\* The call of its mint job has returned.
Conveyed(s) ==
  \/ Concluded(s)
  \/ job[s].name = "getMint"
  \/ At(s, "mint", "completed") /\ Processable(run[s].result)

\* What the search for the mint and the fee rest on, made inductive for
\* ChargedAfterMint.
ConcludedInv ==
  \A s \in Swaps :
    /\ Conveyed(s) => Sent(s)
    /\ Concluded(s) => swap[s].status # "none" /\ Arrived(s)

-----------------------------------------------------------------------------
(* Liveness.                                                                 *)

\* Workers, listeners and requests take their steps, the blocks of Ethereum come
\* and time passes.  Nothing is fair about faults: MaxFaults says they end.
Fairness ==
  /\ WF_vars(MineBlock)
  /\ \A s \in Swaps :
       /\ WF_vars(Tick(s) /\ UNCHANGED world)
       /\ WF_vars(\/ Create(s) /\ ~RequestAt(s, "new")
                  \/ (FailSwap(s) \/ ReleaseRequested(s)) /\ UNCHANGED world)
       /\ WF_vars(CancelWrite(s) /\ UNCHANGED world)
       /\ WF_vars(Confirm(s) \/ Wait(s) \/ Mint(s) \/ Fee(s) \/ Settle(s))

FairSpec == Spec /\ Fairness
=============================================================================
