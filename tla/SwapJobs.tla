------------------------------ MODULE SwapJobs ------------------------------
(* What the two directions of the bridge share: the request that creates a   *)
(* swap and the one that cancels it (SwapsController), the rows of the swap  *)
(* and wallet tables, the life of a Bull job and of the handler at work on   *)
(* it, the helpers that end a swap (SwapsHelper), and the failures.          *)
(*                                                                           *)
(* A handler is cut at every await whose neighbours another handler can      *)
(* observe: each action is the code between two such awaits.  What a handler *)
(* holds in memory meanwhile is run[s], which a crash of the process loses;  *)
(* job[s] is the job in Redis and survives it.                               *)
(*                                                                           *)
(* One swap has at most one job at a time: createSwap adds the first one and *)
(* every other is added by the listener of the job that has just finished.   *)
(*                                                                           *)
(* The chains belong to the modules that extend this one: no action here     *)
(* mentions them.                                                            *)
EXTENDS SwapAmounts, Sequences, FiniteSets

CONSTANTS Swaps,                \* swap identifiers, one POST /swaps each
          Wallets,              \* source wallets: enabled transferers
          NoWallet,
          Recipients,           \* destination addresses
          RecipientOf,          \* swap.destinationAddress
          Asked,                \* CreateSwapDto.sourceAmount, in grains
          Transferred,          \* amounts of the transfers of users, in grains
          NormalAttempts,       \* ATTEMPT_COUNT_NORMAL
          ExtendedAttempts,     \* ATTEMPT_COUNT_EXTENDED
          UltimateAttempts,     \* ATTEMPT_COUNT_ULTIMATE
          MaxStalls,            \* Bull's maxStalledCount
          MaxTransfers,         \* bound: user transfers
          MaxFaults,            \* bound: crashes and failing calls
          MaxAge                \* bound: deadlines that pass, 3 being all

ASSUME WalletAssumption == NoWallet \notin Wallets
ASSUME RecipientAssumption == RecipientOf \in [Swaps -> Recipients]
\* A transfer is a whole number of base units, so nothing of it is rounded off.
ASSUME AmountAssumption ==
  /\ Asked \subseteq Nat
  /\ Transferred \subseteq Nat
  /\ \A amount \in Transferred : StoredSource(amount) = amount
ASSUME AttemptAssumption ==
  /\ NormalAttempts \in Nat \ {0}
  /\ ExtendedAttempts \in Nat \ {0}
  /\ UltimateAttempts \in Nat \ {0}
  /\ MaxStalls \in Nat
  /\ MaxTransfers \in Nat
  /\ MaxFaults \in Nat
  /\ MaxAge \in 0..3

VARIABLES
  swap,     \* the swap table
  wallet,   \* the wallet table
  job,      \* Redis: the job of each swap
  run,      \* memory: the handler or listener at work for each swap
  request,  \* memory: the POST /swaps that creates each swap
  cancel,   \* memory: the DELETE /swaps/{id} of each swap
  age,      \* the clock: how many of the swap's deadlines have passed
  faults    \* how many crashes and failing calls there were

-----------------------------------------------------------------------------
Statuses == {"none", "pending", "confirmed", "completed",
             "expired", "canceled", "failed"}

\* The statuses after which nobody is meant to touch a swap.
Settled == {"completed", "expired", "canceled", "failed"}

JobNames == {"none", "confirm", "wait", "mint", "getMint", "pay", "fee",
             "getFee", "burn", "getBurn",
             "ended",     \* the last handler has finished
             "lost"}      \* no attempt is left, or a crash cut the chain

Listening == {"completed", "failed"}

\* The deadlines of a swap: expiresAt, extendedExpiresAt, ultimateExpiresAt.
Expired(s) == age[s] >= 1
ExtendedExpired(s) == age[s] >= 2
UltimateExpired(s) == age[s] >= 3

NoSwap == [status |-> "none", confirmations |-> 0, sourceAmount |-> 0,
           destinationAmount |-> 0, fee |-> 0, sourceWallet |-> NoWallet,
           sourceTransactionId |-> 0, collected |-> FALSE, burned |-> FALSE,
           createdAt |-> 0]

NewJob(name, arg, tx, attempts) ==
  [name |-> name, arg |-> arg, tx |-> tx, left |-> attempts, stalls |-> 0]
NoJob == NewJob("none", 0, 0, 0)
EndedJob == NewJob("ended", 0, 0, 0)
LostJob == NewJob("lost", 0, 0, 0)

NewRun(stage, tx, balance, result) ==
  [stage |-> stage, tx |-> tx, balance |-> balance, result |-> result]
Idle == NewRun("idle", 0, 0, "none")

NewRequest == [stage |-> "new", wallet |-> NoWallet, amount |-> 0, block |-> 0]

\* Empty tables and queues: no request has come yet.
InitTables ==
  /\ swap = [s \in Swaps |-> NoSwap]
  /\ wallet = [w \in Wallets |-> [balance |-> 0, inUse |-> FALSE]]
  /\ job = [s \in Swaps |-> NoJob]
  /\ run = [s \in Swaps |-> Idle]
  /\ request = [s \in Swaps |-> NewRequest]
  /\ cancel = [s \in Swaps |-> "idle"]
  /\ age = [s \in Swaps |-> 0]
  /\ faults = 0

-----------------------------------------------------------------------------
(* Steps that several handlers share.                                        *)

\* Something the program depends on fails, or the program does.
Fault == faults < MaxFaults /\ faults' = faults + 1

\* Mutant: the list of isSwapProcessable lacks SwapStatus.Expired.
ProcessableExpired(status) == status \notin {"failed", "canceled"}

\* isSwapProcessable
Processable(status) == status \notin {"expired", "failed", "canceled"}

\* A worker takes the waiting job of s.
Takes(s, name) == job[s].name = name /\ run[s].stage = "idle"

\* The handler of the job of s is at the given stage.
At(s, name, stage) == job[s].name = name /\ run[s].stage = stage

\* The handler goes on to its next await.
Goto(s, stage) ==
  /\ run' = [run EXCEPT ![s].stage = stage]
  /\ UNCHANGED job

\* The handler goes on and keeps the balance its join of the wallet table read.
GotoWithBalance(s, stage) ==
  /\ run' = [run EXCEPT ![s] =
               NewRun(stage, 0, wallet[swap[s].sourceWallet].balance, "none")]
  /\ UNCHANGED job

\* The handler returns a result; the completed listener is next.
Return(s, result) ==
  /\ run' = [run EXCEPT ![s] = NewRun("completed", run[s].tx, 0, result)]
  /\ UNCHANGED job

\* Mutant: the helper is handed the error in place of a status.
ExitWithError(s, result) ==
  /\ run' = [run EXCEPT ![s] = NewRun("exitRow", 0, 0, "error")]
  /\ UNCHANGED job

\* The handler goes into one of the helpers that settle a swap.
Exit(s, result) ==
  /\ run' = [run EXCEPT ![s] = NewRun("exitRow", 0, 0, result)]
  /\ UNCHANGED job

\* Mutant: an attempt is not counted.
FailsForever(s, why) ==
  /\ run' = [run EXCEPT ![s] = IF job[s].name = "confirm"
                               THEN NewRun("failed", 0, 0, why) ELSE Idle]
  /\ UNCHANGED job

\* The handler throws.  Bull retries the job while attempts are left; after
\* that only the confirm job has a failed listener.
Fails(s, why) ==
  IF job[s].left > 1
  THEN /\ job' = [job EXCEPT ![s].left = @ - 1]
       /\ run' = [run EXCEPT ![s] = Idle]
  ELSE IF job[s].name = "confirm"
       THEN /\ run' = [run EXCEPT ![s] = NewRun("failed", 0, 0, why)]
            /\ UNCHANGED job
       ELSE /\ job' = [job EXCEPT ![s] = LostJob]
            /\ run' = [run EXCEPT ![s] = Idle]

\* Mutant: the wallet is not given back.
ReleaseForgotten(w) == UNCHANGED wallet

\* walletsRepository.update(sourceWallet.id, { inUse: false })
Release(w) == wallet' = [wallet EXCEPT ![w].inUse = FALSE]

\* A listener, or a handler nobody listens to, leaves the queue with this job.
Enqueue(s, new) ==
  /\ job' = [job EXCEPT ![s] = new]
  /\ run' = [run EXCEPT ![s] = Idle]

-----------------------------------------------------------------------------
(* POST /swaps: createSwap.                                                  *)

RequestAt(s, stage) == request[s].stage = stage

RequestGoto(s, stage) == request' = [request EXCEPT ![s].stage = stage]

\* What findBestMatchedOne({..., inUse: false}) may return: a free wallet of
\* the least balance.
BestMatched ==
  LET free == {w \in Wallets : ~wallet[w].inUse}
  IN  {w \in free : \A v \in free : wallet[w].balance <= wallet[v].balance}

\* The checks of the request pass and a source wallet is read from the table.
PickWallet(s) ==
  /\ RequestAt(s, "new")
  /\ \E w \in BestMatched, amount \in Asked :
       /\ Acceptable(amount)
       /\ request' = [request EXCEPT ![s] =
                  [stage |-> "mark", wallet |-> w, amount |-> amount, block |-> 0]]
  /\ UNCHANGED <<swap, wallet, job, run, cancel, age, faults>>

MarkWallet(s) ==
  /\ RequestAt(s, "mark")
  /\ wallet' = [wallet EXCEPT ![request[s].wallet].inUse = TRUE]
  /\ RequestGoto(s, "insert")
  /\ UNCHANGED <<swap, job, run, cancel, age, faults>>

\* The row is inserted, with the moment of its creation as the TON chain sees it.
InsertSwap(s, now) ==
  /\ RequestAt(s, "insert")
  /\ LET amount == request[s].amount
     IN  swap' = [swap EXCEPT ![s] =
                    [NoSwap EXCEPT !.status = "pending",
                                   !.sourceAmount = StoredSource(amount),
                                   !.destinationAmount = StoredDestination(amount),
                                   !.fee = StoredFee(amount),
                                   !.sourceWallet = request[s].wallet,
                                   !.createdAt = now]]
  /\ RequestGoto(s, "addJob")
  /\ UNCHANGED <<wallet, job, run, cancel, age, faults>>

InsertFails(s) ==
  /\ RequestAt(s, "insert")
  /\ Fault
  /\ RequestGoto(s, "rollback")
  /\ UNCHANGED <<swap, wallet, job, run, cancel, age>>

\* runConfirmEthSwapJob and runConfirmTonSwapJob: the job is added with the number
\* of the latest block.
AddConfirmJob(s, block) ==
  /\ RequestAt(s, "addJob")
  /\ Enqueue(s, NewJob("confirm", block, 0, 1))
  /\ request' = [request EXCEPT ![s].stage = "done", ![s].block = block]
  /\ UNCHANGED <<swap, wallet, cancel, age, faults>>

\* They throw: the block was not read, the job was not added, or it was added and
\* the answer of Redis was lost.
AddConfirmJobFails(s, block) ==
  /\ RequestAt(s, "addJob")
  /\ \/ UNCHANGED <<job, run>>
     \/ Enqueue(s, NewJob("confirm", block, 0, 1))
  /\ Fault
  /\ request' = [request EXCEPT ![s].stage = "failRow", ![s].block = block]
  /\ UNCHANGED <<swap, wallet, cancel, age>>

FailSwap(s) ==
  /\ RequestAt(s, "failRow")
  /\ swap' = [swap EXCEPT ![s].status = "failed"]
  /\ RequestGoto(s, "failWallet")
  /\ UNCHANGED <<wallet, job, run, cancel, age, faults>>

\* Both error paths of the request end by releasing the wallet.
ReleaseRequested(s) ==
  /\ request[s].stage \in {"rollback", "failWallet"}
  /\ Release(request[s].wallet)
  /\ RequestGoto(s, "done")
  /\ UNCHANGED <<swap, job, run, cancel, age, faults>>

\* A database error inside an error path leaves the rest of it undone.
RequestThrows(s) ==
  /\ request[s].stage \in {"mark", "rollback", "failRow", "failWallet"}
  /\ Fault
  /\ RequestGoto(s, IF RequestAt(s, "mark") THEN "done" ELSE "aborted")
  /\ UNCHANGED <<swap, wallet, job, run, cancel, age>>

-----------------------------------------------------------------------------
(* DELETE /swaps/{id}: cancelSwap reads the row, then writes it.             *)

CancelRead(s) ==
  /\ cancel[s] = "idle"
  /\ swap[s].status = "pending"
  /\ cancel' = [cancel EXCEPT ![s] = "write"]
  /\ UNCHANGED <<swap, wallet, job, run, request, age, faults>>

CancelWrite(s) ==
  /\ cancel[s] = "write"
  /\ swap' = [swap EXCEPT ![s].status = "canceled"]
  /\ cancel' = [cancel EXCEPT ![s] = "idle"]
  /\ UNCHANGED <<wallet, job, run, request, age, faults>>

-----------------------------------------------------------------------------
(* swapCanceled, swapExpired, swapNotRecalculated and                        *)
(* jettonMinterAdminWalletNotFound: the row first, then the source wallet.   *)

ExitRow(s) ==
  /\ run[s].stage = "exitRow"
  /\ swap' = [swap EXCEPT ![s].status = run[s].result]
  /\ Goto(s, "exitWallet")
  /\ UNCHANGED <<wallet, request, cancel, age, faults>>

ExitWallet(s) ==
  /\ run[s].stage = "exitWallet"
  /\ Release(swap[s].sourceWallet)
  /\ Return(s, run[s].result)
  /\ UNCHANGED <<swap, request, cancel, age, faults>>

-----------------------------------------------------------------------------
(* Steps of the handlers that confirm a transfer and collect the fee, alike  *)
(* in both directions.                                                       *)

\* findById and the two checks of the confirm handlers on the row it returned;
\* the handler goes on at the given stage.
ConfirmReads(s, stage) ==
  /\ Takes(s, "confirm")
  /\ IF swap[s].status = "canceled" THEN Exit(s, "canceled")
     ELSE IF Expired(s) THEN Exit(s, "expired")
     ELSE GotoWithBalance(s, stage)
  /\ UNCHANGED <<swap, wallet, request, cancel, age, faults>>

\* The row of a swap after the transfer of an amount was found: the amounts stay
\* those of the request unless another amount arrived.
ConfirmedRow(s, amount, tx) ==
  LET row == swap[s]
      asked == amount = row.sourceAmount
  IN  [row EXCEPT
        !.sourceAmount = IF asked THEN row.sourceAmount ELSE StoredSource(amount),
        !.destinationAmount =
          IF asked THEN row.destinationAmount ELSE StoredDestination(amount),
        !.fee = IF asked THEN row.fee ELSE StoredFee(amount),
        !.sourceTransactionId = tx,
        !.status = "confirmed",
        !.confirmations = 1]

\* The balance written is the one read with the row, plus the amount.
ConfirmCredit(s) ==
  /\ At(s, "confirm", "credit")
  /\ wallet' = [wallet EXCEPT ![swap[s].sourceWallet] =
                  [balance |-> run[s].balance + swap[s].sourceAmount,
                   inUse |-> FALSE]]
  /\ Return(s, "confirmed")
  /\ UNCHANGED <<swap, request, cancel, age, faults>>

\* The balance read with the row is written less an amount, unless that is
\* negative: the table refuses it.
Debit(s, amount) ==
  /\ run[s].balance >= amount
  /\ wallet' = [wallet EXCEPT ![swap[s].sourceWallet].balance =
                  run[s].balance - amount]

DebitRefused(s, amount) ==
  /\ run[s].balance < amount
  /\ UNCHANGED wallet
  /\ Fails(s, "error")

-----------------------------------------------------------------------------
(* Failures.                                                                 *)

\* A database, Redis, Infura or TON call of a handler throws.
HandlerThrows(s) ==
  /\ run[s].stage \notin {"idle"} \cup Listening
  /\ Fault
  /\ Fails(s, "error")
  /\ UNCHANGED <<swap, wallet, request, cancel, age>>

\* A job that was active when the process died is stalled.  Bull gives it to a
\* worker again, at most MaxStalls times, and then calls the failed listener.
Redelivered(j) ==
  IF j.stalls < MaxStalls THEN [j EXCEPT !.stalls = @ + 1]
  ELSE IF j.name = "confirm" THEN NewJob("confirm", j.arg, 0, 1)
  ELSE LostJob

\* A job Redis has as finished is not delivered again: what its listener had
\* yet to add is never added.
Orphaned(s) ==
  IF run[s].stage = "completed" /\ ~Processable(run[s].result)
  THEN EndedJob
  ELSE LostJob

InMemory(s) ==
  \/ run[s].stage # "idle"
  \/ request[s].stage \notin {"new", "done", "aborted"}
  \/ cancel[s] # "idle"

\* The process dies and starts again.  finished are the jobs whose end Redis
\* had recorded before it died.
Crash ==
  /\ Fault
  /\ \E s \in Swaps : InMemory(s)
  /\ \E finished \in SUBSET {s \in Swaps : run[s].stage \in Listening} :
       job' = [s \in Swaps |-> IF run[s].stage = "idle" THEN job[s]
                               ELSE IF s \in finished THEN Orphaned(s)
                               ELSE Redelivered(job[s])]
  /\ run' = [s \in Swaps |-> Idle]
  /\ request' = [s \in Swaps |->
       IF request[s].stage \in {"new", "done", "aborted"} THEN request[s]
       ELSE [request[s] EXCEPT !.stage = "aborted"]]
  /\ cancel' = [s \in Swaps |-> "idle"]
  /\ UNCHANGED <<swap, wallet, age>>

\* A deadline of the swap passes; they count from the moment its row is created.
Tick(s) ==
  /\ swap[s].status # "none"
  /\ age[s] < MaxAge
  /\ age' = [age EXCEPT ![s] = @ + 1]
  /\ UNCHANGED <<swap, wallet, job, run, request, cancel, faults>>

-----------------------------------------------------------------------------
(* Properties of both directions.                                            *)

Rows == [status : Statuses, confirmations : Nat, sourceAmount : Nat,
         destinationAmount : Nat, fee : Nat, sourceWallet : Wallets \cup {NoWallet},
         sourceTransactionId : Nat, collected : BOOLEAN, burned : BOOLEAN,
         createdAt : Nat]

Jobs == [name : JobNames, arg : Nat, tx : Nat, left : Nat, stalls : Nat]

Stages == {"idle", "scan", "outgoing", "row", "credit", "await", "send", "find",
           "record", "collect", "debit", "exitRow", "exitWallet", "completed",
           "failed"}

Runs == [stage : Stages, tx : Nat, balance : Nat,
         result : Statuses \cup {"error", "notFound"}]

Requests == [stage : {"new", "mark", "insert", "addJob", "rollback", "failRow",
                      "failWallet", "done", "aborted"},
             wallet : Wallets \cup {NoWallet}, amount : Nat, block : Nat]

\* The tables, the queue and the memory of the process hold values of the kinds
\* the entities, DTOs and handlers declare.
TablesOK ==
  /\ swap \in [Swaps -> Rows]
  /\ wallet \in [Wallets -> [balance : Nat, inUse : BOOLEAN]]
  /\ job \in [Swaps -> Jobs]
  /\ run \in [Swaps -> Runs]
  /\ request \in [Swaps -> Requests]
  /\ cancel \in [Swaps -> {"idle", "write"}]
  /\ age \in [Swaps -> 0..MaxAge]
  /\ faults \in Nat

\* A swap that may yet be asked for any amount, and one that may yet be recalculated to
\* any: its row is pending until a transfer was found.
MayAsk(s) == RequestAt(s, "new")
MayTransfer(s) == swap[s].status = "pending"

\* calculateDestinationAmountAndFee creates no value: no fee and destination amount
\* of a row exceed the amount they are computed from, for all the rounding between,
\* whichever amount is asked for or transferred next.
NoValueCreated ==
  \A s \in Swaps :
    (MayAsk(s) \/ MayTransfer(s)) => \A amount \in Amounts : NothingCreated(amount)

\* createSwap computes the fee and the destination amount from the amount as asked,
\* but stores the source amount rounded: a user who transfers what the row says is
\* paid for less than one source unit he did not send, never more.
QuoteOverpaysBelowUnit ==
  \A s \in Swaps : MayAsk(s) => \A amount \in Amounts : OverpaidBelowUnit(amount)

\* recalculateSwap throws where no fee would be left
\* (ERROR_SWAP_NOT_RECACULATED_ZERO_FEE): of what it takes, something is kept as fee
\* or rounded off, whichever amount arrives for a swap that waits.
RecalculatedIsCharged ==
  \A s \in Swaps : MayTransfer(s) => \A amount \in Amounts : ChargedOnce(amount)

\* Who has yet to release the source wallet w.
Holds(s, w) ==
  \/ /\ request[s].wallet = w
     /\ request[s].stage \in {"insert", "addJob", "rollback", "failRow",
                              "failWallet", "aborted"}
  \/ /\ swap[s].sourceWallet = w
     /\ \/ job[s].name = "confirm" /\ run[s].stage # "completed"
        \/ job[s].name = "lost"

\* No path through the code forgets a wallet: one that is marked in use belongs
\* to a request or to a confirm job that still has to release it, or to one that a
\* crash cut off before it could.
InUseIsHeld ==
  \A w \in Wallets : wallet[w].inUse => \E s \in Swaps : Holds(s, w)

\* Work that a crash cut off or whose attempts ran out.
CutOff(s) == job[s].name = "lost" \/ RequestAt(s, "aborted")

\* Who has yet to settle s: the request that is to add its first job or to write
\* that this failed, or a job from which the chain leads to one that completes it.
Attended(s) ==
  \/ request[s].stage \in {"addJob", "failRow"}
  \/ job[s].name \in {"confirm", "wait", "mint", "getMint", "pay"}

\* A chain of jobs that reads no status but canceled, and whose listeners go by what
\* the handler returned, ends with no swap left open: one that reads pending or
\* confirmed has a request or a job to settle it, or its work was cut off.
NoSwapIsForgotten ==
  \A s \in Swaps :
    swap[s].status \in {"pending", "confirmed"} => Attended(s) \/ CutOff(s)

\* Every swap is settled in the end, completed or not, unless its chain of jobs
\* was cut off (every listener that has a job to add adds it).
EverySwapSettles ==
  \A s \in Swaps :
    swap[s].status \in {"pending", "confirmed"}
      ~> swap[s].status \in Settled \/ CutOff(s)

\* Every wallet taken for a swap returns to the pool, unless the swap was cut off
\* (the confirm handlers, SwapsHelper and the error paths of createSwap).
EveryWalletReturns ==
  \A w \in Wallets :
    wallet[w].inUse
      ~> ~wallet[w].inUse \/ \E s \in Swaps : Holds(s, w) /\ CutOff(s)

-----------------------------------------------------------------------------
(* The part of the inductive invariants that both directions need.           *)

\* The amounts of the row were computed from one amount.
Quoted(s) ==
  \E amount \in Asked \cup Transferred :
    /\ swap[s].sourceAmount = StoredSource(amount)
    /\ swap[s].destinationAmount = StoredDestination(amount)
    /\ swap[s].fee = StoredFee(amount)

\* What the bridge pays for what.
Quotes == {[source |-> StoredSource(amount), destination |-> StoredDestination(amount)]
             : amount \in Asked \cup Transferred}

\* The row exists once the request has inserted it, the job once it was added.
RequestInv(s) ==
  /\ request[s].stage # "new" =>
       request[s].wallet \in Wallets /\ request[s].amount \in Asked
  /\ request[s].stage \in {"new", "mark", "insert", "rollback"}
       => swap[s].status = "none"
  /\ request[s].stage \in {"addJob", "failRow"} => swap[s].status # "none"
  /\ request[s].stage = "addJob" => job[s].name = "none"
  /\ swap[s].status = "none" => job[s].name = "none"
  /\ swap[s].status # "none" => swap[s].sourceWallet \in Wallets /\ Quoted(s)
  /\ cancel[s] = "write" => swap[s].status # "none"
  /\ job[s].name = "none" => run[s].stage = "idle"

\* A handler that is past its write, and will have no job after it that settles the
\* swap, has settled it; and no swap is forgotten.
SettledInv(s) ==
  /\ \/ run[s].stage = "exitWallet"
     \/ /\ run[s].stage = "completed"
        /\ ~Processable(run[s].result) \/ job[s].name \in {"getMint", "pay"}
     => swap[s].status \in Settled
  /\ swap[s].status \in {"pending", "confirmed"} => Attended(s) \/ CutOff(s)

\* The helpers that settle a swap hold one of three statuses.
ExitInv(s) ==
  run[s].stage \in {"exitRow", "exitWallet"}
    => run[s].result \in {"expired", "failed", "canceled"}
=============================================================================
