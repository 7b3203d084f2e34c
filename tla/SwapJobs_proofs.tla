--------------------------- MODULE SwapJobs_proofs ---------------------------
(* What the amounts of a swap keep to, and what each step of SwapJobs does   *)
(* to the tables, the queue and the memory, for the proofs about both        *)
(* directions of the bridge.                                                 *)
EXTENDS SwapJobs, FiniteSetTheorems, TLAPS

-----------------------------------------------------------------------------
(* What SwapAmounts promises, for every fee, every pair of units and every   *)
(* amount.                                                                   *)

\* The quotient and the remainder of a division, as the SMT solver needs them.
LEMMA Division ==
  ASSUME NEW num \in Nat, NEW d \in Nat \ {0}
  PROVE  /\ num \div d \in Nat
         /\ d * (num \div d) <= num
         /\ num < d * (num \div d) + d
  OBVIOUS

\* A multiple of a unit has no remainder.
LEMMA MultipleHasNoRemainder ==
  ASSUME NEW unit \in Nat \ {0}, NEW q \in Nat
  PROVE  (unit * q) % unit = 0
  OBVIOUS

\* toFixed under ROUND_DOWN rounds down, to a whole number of units, by less
\* than a unit (Quantity.toString).
THEOREM ToFixedRoundsDown ==
  ASSUME NEW num \in Nat, NEW unit \in Nat \ {0}
  PROVE  ToFixed(num, unit) \in Nat /\ RoundsDown(num, unit)
<1> DEFINE d == FeeDen * unit
           q == num \div d
<1>1. d \in Nat \ {0}
  BY SwapFeeAssumption
<1>2. q \in Nat /\ d * q <= num /\ num < d * q + d
  BY <1>1, Division
<1>3. ToFixed(num, unit) = unit * q
  BY DEF ToFixed
<1> HIDE DEF q
<1>4. unit * q \in Nat
  BY <1>2
<1>5. (unit * q) * FeeDen = d * q /\ (unit * q + unit) * FeeDen = d * q + d
  BY <1>2, SwapFeeAssumption
<1>6. (unit * q) % unit = 0
  BY <1>2, MultipleHasNoRemainder
<1> QED
  BY <1>2, <1>3, <1>4, <1>5, <1>6 DEF RoundsDown

\* The exact fee and destination amount are shares of the amount.
LEMMA SharesAreNat ==
  ASSUME NEW amount \in Nat
  PROVE  /\ ExactFee(amount) \in Nat
         /\ ExactDestination(amount) \in Nat
         /\ amount * FeeDen \in Nat
         /\ ExactFee(amount) + ExactDestination(amount) = amount * FeeDen
<1>1. amount * FeeNum \in Nat /\ amount * FeeDen \in Nat
  BY SwapFeeAssumption
<1>2. amount * FeeNum <= amount * FeeDen
  BY SwapFeeAssumption
<1> QED
  BY <1>1, <1>2 DEF ExactFee, ExactDestination

\* The three stored amounts are natural numbers and rounded down.
LEMMA StoredAmounts ==
  ASSUME NEW amount \in Nat
  PROVE  /\ StoredSource(amount) \in Nat
         /\ StoredFee(amount) \in Nat
         /\ StoredDestination(amount) \in Nat
         /\ RoundsDown(amount * FeeDen, SourceUnit)
         /\ RoundsDown(ExactFee(amount), SourceUnit)
         /\ RoundsDown(ExactDestination(amount), DestinationUnit)
  BY SharesAreNat, ToFixedRoundsDown, UnitAssumption
     DEF StoredSource, StoredFee, StoredDestination

\* Cancelling the denominator of the fee.
LEMMA CancelFactor ==
  ASSUME NEW a \in Int, NEW b \in Int
  PROVE  /\ a * FeeDen <= b * FeeDen => a <= b
         /\ a * FeeDen < b * FeeDen => a < b
  BY SwapFeeAssumption

\* For every swapFee, every pair of decimals and every amount, the fee and the
\* destination amount of a row are within the amount they were computed from, and
\* lose less than a unit of each token (calculateDestinationAmountAndFee).
THEOREM AmountsAreConserved ==
  ASSUME NEW amount \in Nat
  PROVE  NothingCreated(amount)
<1> DEFINE fee == StoredFee(amount)
           dest == StoredDestination(amount)
<1>1. fee \in Nat /\ dest \in Nat
  BY StoredAmounts
<1>2. /\ fee * FeeDen <= ExactFee(amount)
      /\ ExactFee(amount) < (fee + SourceUnit) * FeeDen
      /\ dest * FeeDen <= ExactDestination(amount)
      /\ ExactDestination(amount) < (dest + DestinationUnit) * FeeDen
  BY StoredAmounts DEF RoundsDown, StoredFee, StoredDestination
<1> HIDE DEF fee, dest
<1>3. /\ ExactFee(amount) \in Nat
      /\ ExactDestination(amount) \in Nat
      /\ ExactFee(amount) + ExactDestination(amount) = amount * FeeDen
  BY SharesAreNat
<1>4. (fee + dest) * FeeDen <= amount * FeeDen
  BY <1>1, <1>2, <1>3, SwapFeeAssumption
<1>5. amount * FeeDen < (fee + dest + SourceUnit + DestinationUnit) * FeeDen
  BY <1>1, <1>2, <1>3, SwapFeeAssumption, UnitAssumption
<1>6. fee + dest <= amount
  BY <1>1, <1>4, CancelFactor
<1>7. amount < fee + dest + SourceUnit + DestinationUnit
  BY <1>1, <1>5, CancelFactor, UnitAssumption
<1> QED
  BY <1>1, <1>6, <1>7, UnitAssumption DEF NothingCreated, fee, dest

\* Whatever amount a user asks for, the rounded source amount of the row falls short
\* of fee and destination amount by less than one source unit (createSwap).
THEOREM QuoteOverpaidBelowUnit ==
  ASSUME NEW amount \in Nat
  PROVE  OverpaidBelowUnit(amount)
<1> DEFINE source == StoredSource(amount)
<1>1. source \in Nat /\ StoredFee(amount) \in Nat /\ StoredDestination(amount) \in Nat
  BY StoredAmounts
<1>2. amount * FeeDen < (source + SourceUnit) * FeeDen
  BY StoredAmounts DEF RoundsDown, StoredSource
<1> HIDE DEF source
<1>3. amount < source + SourceUnit
  BY <1>1, <1>2, CancelFactor, UnitAssumption
<1>4. StoredFee(amount) + StoredDestination(amount) <= amount
  BY AmountsAreConserved DEF NothingCreated
<1> QED
  BY <1>1, <1>3, <1>4, UnitAssumption DEF OverpaidBelowUnit, source

\* Whatever a user transfers, if recalculateSwap takes it, it is not paid out in full.
THEOREM RecalculationsAreCharged ==
  ASSUME NEW amount \in Nat
  PROVE  ChargedOnce(amount)
<1> SUFFICES ASSUME ExactFee(amount) > 0
             PROVE  StoredDestination(amount) < amount
  BY DEF ChargedOnce, Recalculable
<1> DEFINE dest == StoredDestination(amount)
<1>1. dest \in Nat /\ dest * FeeDen <= ExactDestination(amount)
  BY StoredAmounts DEF RoundsDown, StoredDestination
<1>2. /\ ExactFee(amount) \in Nat /\ ExactDestination(amount) \in Nat
      /\ ExactFee(amount) + ExactDestination(amount) = amount * FeeDen
  BY SharesAreNat
<1> HIDE DEF dest
<1>3. dest * FeeDen < amount * FeeDen
  BY <1>1, <1>2, SwapFeeAssumption
<1>4. dest < amount
  BY <1>1, <1>3, CancelFactor
<1> QED
  BY <1>4 DEF dest

-----------------------------------------------------------------------------
(* In every state, of every amount that may be asked for or transferred.     *)

\* calculateDestinationAmountAndFee creates no value, for every fee, every pair of
\* units and every limit of the amounts.
THEOREM NoAmountGrows == NoValueCreated
  BY AmountsAreConserved, LimitAssumption DEF NoValueCreated, Amounts

\* The quote of createSwap overpays by less than a unit, for every fee, every pair of
\* units and every limit of the amounts.
THEOREM NoQuoteOverpaysAUnit == QuoteOverpaysBelowUnit
  BY QuoteOverpaidBelowUnit, LimitAssumption DEF QuoteOverpaysBelowUnit, Amounts

\* No transfer that recalculateSwap takes is paid out in full, for every fee, every
\* pair of units and every limit of the amounts.
THEOREM NoRecalculationIsFree == RecalculatedIsCharged
  BY RecalculationsAreCharged, LimitAssumption DEF RecalculatedIsCharged, Amounts

-----------------------------------------------------------------------------
(* What the shared steps do, field by field.                                 *)

\* The job and the handler of s have changed, to values of their types.
JobTyped(s) ==
  /\ job' \in [Swaps -> Jobs]
  /\ run' \in [Swaps -> Runs]
  /\ \A t \in Swaps \ {s} : job'[t] = job[t] /\ run'[t] = run[t]

\* The row keeps what a payment rests on.
KeepsRow(s) ==
  /\ swap'[s].sourceTransactionId = swap[s].sourceTransactionId
  /\ swap'[s].sourceWallet = swap[s].sourceWallet
  /\ swap'[s].sourceAmount = swap[s].sourceAmount
  /\ swap'[s].destinationAmount = swap[s].destinationAmount
  /\ swap'[s].fee = swap[s].fee
  /\ swap'[s].createdAt = swap[s].createdAt

\* The row of s has changed, in none of those fields.
RowTyped(s) ==
  /\ swap' \in [Swaps -> Rows]
  /\ \A t \in Swaps \ {s} : swap'[t] = swap[t]
  /\ KeepsRow(s)

\* The request of s goes on to a stage, with its wallet and its amount.
RequestMoves(s, stage) ==
  /\ request' \in [Swaps -> Requests]
  /\ \A t \in Swaps \ {s} : request'[t] = request[t]
  /\ request'[s].stage = stage
  /\ request'[s].wallet = request[s].wallet
  /\ request'[s].amount = request[s].amount

\* The wallet table is well typed after the step.
WalletTyped == wallet' \in [Wallets -> [balance : Nat, inUse : BOOLEAN]]

\* A job made with NewJob has the fields it was made with (the options that
\* queue.add is called with).
LEMMA NewJobFields ==
  ASSUME NEW name \in JobNames, NEW arg \in Nat, NEW tx \in Nat,
         NEW attempts \in Nat
  PROVE  /\ NewJob(name, arg, tx, attempts) \in Jobs
         /\ NewJob(name, arg, tx, attempts).name = name
         /\ NewJob(name, arg, tx, attempts).arg = arg
         /\ NewJob(name, arg, tx, attempts).tx = tx
         /\ NewJob(name, arg, tx, attempts).left = attempts
         /\ NewJob(name, arg, tx, attempts).stalls = 0
  BY DEF NewJob, Jobs

\* A handler's memory made with NewRun has the fields it was made with.
LEMMA NewRunFields ==
  ASSUME NEW stage \in Stages, NEW tx \in Nat, NEW balance \in Nat,
         NEW result \in Statuses \cup {"error", "notFound"}
  PROVE  /\ NewRun(stage, tx, balance, result) \in Runs
         /\ NewRun(stage, tx, balance, result).stage = stage
         /\ NewRun(stage, tx, balance, result).tx = tx
         /\ NewRun(stage, tx, balance, result).result = result
  BY DEF NewRun, Runs

\* An idle worker holds nothing, and the two last jobs ask for nothing.
LEMMA RestFields ==
  /\ Idle \in Runs /\ Idle.stage = "idle"
  /\ EndedJob \in Jobs /\ EndedJob.name = "ended"
  /\ LostJob \in Jobs /\ LostJob.name = "lost"
  BY DEF Idle, NewRun, Runs, Stages, Statuses, EndedJob, LostJob, NewJob, Jobs,
         JobNames

\* A handler that goes on to its next await keeps what it holds.
LEMMA GotoFields ==
  ASSUME TablesOK, NEW s \in Swaps, NEW stage \in Stages, Goto(s, stage)
  PROVE  /\ JobTyped(s)
         /\ job' = job
         /\ run'[s].stage = stage
         /\ run'[s].tx = run[s].tx
         /\ run'[s].result = run[s].result
  BY DEF TablesOK, Goto, JobTyped, Runs

\* A handler that returns hands its result to the completed listener.
LEMMA ReturnFields ==
  ASSUME TablesOK, NEW s \in Swaps,
         NEW result \in Statuses \cup {"error", "notFound"}, Return(s, result)
  PROVE  /\ JobTyped(s)
         /\ job' = job
         /\ run'[s].stage = "completed"
         /\ run'[s].tx = run[s].tx
         /\ run'[s].result = result
<1>1. run[s].tx \in Nat /\ "completed" \in Stages /\ 0 \in Nat
  BY DEF TablesOK, Runs, Stages
<1> QED
  BY <1>1, NewRunFields DEF TablesOK, Return, JobTyped

\* A handler that settles its swap holds the status to write.
LEMMA ExitFields ==
  ASSUME TablesOK, NEW s \in Swaps, NEW result \in Statuses, Exit(s, result)
  PROVE  /\ JobTyped(s)
         /\ job' = job
         /\ run'[s].stage = "exitRow"
         /\ run'[s].result = result
<1>1. "exitRow" \in Stages /\ 0 \in Nat
  BY DEF Stages
<1> QED
  BY <1>1, NewRunFields DEF TablesOK, Exit, JobTyped

\* A listener leaves the job it adds and an idle worker.
LEMMA EnqueueFields ==
  ASSUME TablesOK, NEW s \in Swaps, NEW new \in Jobs, Enqueue(s, new)
  PROVE  JobTyped(s) /\ job'[s] = new /\ run'[s] = Idle
  BY RestFields DEF TablesOK, Enqueue, JobTyped

\* A handler that throws leaves its job to be retried, to its failed listener, or
\* lost when no attempt is left and nobody listens.
LEMMA FailsFields ==
  ASSUME TablesOK, NEW s \in Swaps, NEW why \in {"error", "notFound"}, Fails(s, why)
  PROVE  /\ JobTyped(s)
         /\ \/ /\ job'[s].name = job[s].name
               /\ job'[s].arg = job[s].arg
               /\ job'[s].tx = job[s].tx
               /\ job'[s].stalls = job[s].stalls
               /\ run'[s].stage = "idle"
            \/ /\ job'[s] = job[s]
               /\ job[s].name = "confirm"
               /\ run'[s].stage = "failed"
               /\ run'[s].result = why
            \/ /\ job[s].name # "confirm"
               /\ job'[s].name = "lost"
               /\ run'[s].stage = "idle"
<1>1. CASE job[s].left > 1
  <2>1. job' = [job EXCEPT ![s].left = @ - 1] /\ run' = [run EXCEPT ![s] = Idle]
    BY <1>1 DEF Fails
  <2>2. job[s].left - 1 \in Nat
    BY <1>1 DEF TablesOK, Jobs
  <2> QED
    BY <2>1, <2>2, RestFields DEF TablesOK, JobTyped, Jobs
<1>2. CASE ~(job[s].left > 1) /\ job[s].name = "confirm"
  <2>1. run' = [run EXCEPT ![s] = NewRun("failed", 0, 0, why)] /\ job' = job
    BY <1>2 DEF Fails
  <2>2. "failed" \in Stages /\ 0 \in Nat
    BY DEF Stages
  <2> QED
    BY <1>2, <2>1, <2>2, NewRunFields DEF TablesOK, JobTyped
<1>3. CASE ~(job[s].left > 1) /\ job[s].name # "confirm"
  BY <1>3, RestFields DEF Fails, TablesOK, JobTyped
<1> QED
  BY <1>1, <1>2, <1>3

\* A request that goes on to its next await keeps its wallet and its amount.
LEMMA RequestGotoFields ==
  ASSUME TablesOK, NEW s \in Swaps,
         NEW stage \in {"new", "mark", "insert", "addJob", "rollback", "failRow",
                        "failWallet", "done", "aborted"},
         RequestGoto(s, stage)
  PROVE  RequestMoves(s, stage)
  BY DEF TablesOK, RequestGoto, RequestMoves, Requests

\* It keeps the block its job was added with, too.
LEMMA RequestGotoKeepsBlock ==
  ASSUME TablesOK, NEW s \in Swaps, NEW stage, RequestGoto(s, stage)
  PROVE  request'[s].block = request[s].block
  BY DEF TablesOK, RequestGoto, Requests

\* A request that has read the latest block keeps its wallet and its amount.
LEMMA RequestBlockFields ==
  ASSUME TablesOK, NEW s \in Swaps, NEW stage \in {"done", "failRow"},
         NEW block \in Nat,
         request' = [request EXCEPT ![s].stage = stage, ![s].block = block]
  PROVE  RequestMoves(s, stage)
<1> DEFINE new == [request[s] EXCEPT !.stage = stage, !.block = block]
<1>1. request \in [Swaps -> Requests]
  BY DEF TablesOK
<1>2. request' = [request EXCEPT ![s] = new]
  BY <1>1
<1>3. /\ new \in Requests
      /\ new.stage = stage
      /\ new.wallet = request[s].wallet
      /\ new.amount = request[s].amount
  BY <1>1 DEF Requests
<1> HIDE DEF new
<1> QED
  BY <1>1, <1>2, <1>3 DEF RequestMoves

\* A handler that writes the status alone keeps the rest of the row.
LEMMA StatusFields ==
  ASSUME TablesOK, NEW s \in Swaps, NEW status \in Statuses,
         swap' = [swap EXCEPT ![s].status = status]
  PROVE  RowTyped(s) /\ swap'[s].status = status
  BY DEF TablesOK, RowTyped, KeepsRow, Rows

\* Counting the confirmations keeps what a payment rests on.
LEMMA ConfirmationsFields ==
  ASSUME TablesOK, NEW s \in Swaps, NEW n \in Nat,
         swap' = [swap EXCEPT ![s].status = "confirmed", ![s].confirmations = n]
  PROVE  RowTyped(s) /\ swap'[s].status = "confirmed"
<1> DEFINE new == [swap[s] EXCEPT !.status = "confirmed", !.confirmations = n]
<1>1. swap \in [Swaps -> Rows] /\ "confirmed" \in Statuses
  BY DEF TablesOK, Statuses
<1>2. swap' = [swap EXCEPT ![s] = new]
  BY <1>1
<1>3. /\ new \in Rows
      /\ new.status = "confirmed"
      /\ new.sourceTransactionId = swap[s].sourceTransactionId
      /\ new.sourceWallet = swap[s].sourceWallet
      /\ new.sourceAmount = swap[s].sourceAmount
      /\ new.destinationAmount = swap[s].destinationAmount
      /\ new.fee = swap[s].fee
      /\ new.createdAt = swap[s].createdAt
  BY <1>1 DEF Rows
<1> HIDE DEF new
<1> QED
  BY <1>1, <1>2, <1>3 DEF RowTyped, KeepsRow

\* Marking the fee collected keeps what a payment rests on.
LEMMA CollectedFields ==
  ASSUME TablesOK, NEW s \in Swaps, swap' = [swap EXCEPT ![s].collected = TRUE]
  PROVE  RowTyped(s) /\ swap'[s].status = swap[s].status
<1> DEFINE new == [swap[s] EXCEPT !.collected = TRUE]
<1>1. swap \in [Swaps -> Rows]
  BY DEF TablesOK
<1>2. swap' = [swap EXCEPT ![s] = new]
  BY <1>1
<1>3. /\ new \in Rows
      /\ new.status = swap[s].status
      /\ new.sourceTransactionId = swap[s].sourceTransactionId
      /\ new.sourceWallet = swap[s].sourceWallet
      /\ new.sourceAmount = swap[s].sourceAmount
      /\ new.destinationAmount = swap[s].destinationAmount
      /\ new.fee = swap[s].fee
      /\ new.createdAt = swap[s].createdAt
  BY <1>1 DEF Rows
<1> HIDE DEF new
<1> QED
  BY <1>1, <1>2, <1>3 DEF RowTyped, KeepsRow

\* Marking the jettons burned keeps what a payment rests on.
LEMMA BurnedFields ==
  ASSUME TablesOK, NEW s \in Swaps, swap' = [swap EXCEPT ![s].burned = TRUE]
  PROVE  RowTyped(s) /\ swap'[s].status = swap[s].status
<1> DEFINE new == [swap[s] EXCEPT !.burned = TRUE]
<1>1. swap \in [Swaps -> Rows]
  BY DEF TablesOK
<1>2. swap' = [swap EXCEPT ![s] = new]
  BY <1>1
<1>3. /\ new \in Rows
      /\ new.status = swap[s].status
      /\ new.sourceTransactionId = swap[s].sourceTransactionId
      /\ new.sourceWallet = swap[s].sourceWallet
      /\ new.sourceAmount = swap[s].sourceAmount
      /\ new.destinationAmount = swap[s].destinationAmount
      /\ new.fee = swap[s].fee
      /\ new.createdAt = swap[s].createdAt
  BY <1>1 DEF Rows
<1> HIDE DEF new
<1> QED
  BY <1>1, <1>2, <1>3 DEF RowTyped, KeepsRow

\* Giving a wallet back keeps its balance.
LEMMA ReleaseTyped ==
  ASSUME TablesOK, NEW w, Release(w)
  PROVE  WalletTyped
  BY DEF TablesOK, Release, WalletTyped

\* A handler that keeps the balance it has read goes on to its next await.
LEMMA GotoWithBalanceFields ==
  ASSUME TablesOK, NEW s \in Swaps, NEW stage \in Stages,
         swap[s].sourceWallet \in Wallets, GotoWithBalance(s, stage)
  PROVE  JobTyped(s) /\ job' = job /\ run'[s].stage = stage
<1> DEFINE balance == wallet[swap[s].sourceWallet].balance
<1>1. balance \in Nat /\ 0 \in Nat /\ "none" \in Statuses
  BY DEF TablesOK, Statuses
<1>2. run' = [run EXCEPT ![s] = NewRun(stage, 0, balance, "none")] /\ job' = job
  BY DEF GotoWithBalance
<1> HIDE DEF balance
<1> QED
  BY <1>1, <1>2, NewRunFields DEF TablesOK, JobTyped

\* A debit that the table accepts leaves a balance.
LEMMA DebitTyped ==
  ASSUME TablesOK, NEW s \in Swaps, NEW amount \in Nat,
         Debit(s, amount) \/ DebitRefused(s, amount)
  PROVE  WalletTyped
<1>1. run[s].balance \in Nat
  BY DEF TablesOK, Runs
<1>2. CASE Debit(s, amount)
  <2>1. run[s].balance - amount \in Nat
    BY <1>1, <1>2 DEF Debit
  <2> QED
    BY <1>2, <2>1 DEF TablesOK, Debit, WalletTyped
<1>3. CASE DebitRefused(s, amount)
  BY <1>3 DEF TablesOK, DebitRefused, WalletTyped
<1> QED
  BY <1>2, <1>3


\* The row of a swap whose transfer was found holds the amount of the transfer and
\* what was computed from it, whether it was recalculated or not (recalculateSwap
\* and the update in the confirm handlers).
LEMMA ConfirmedRowFields ==
  ASSUME TablesOK, NEW s \in Swaps, NEW amount \in Transferred, NEW tx \in Nat,
         Quoted(s), swap' = [swap EXCEPT ![s] = ConfirmedRow(s, amount, tx)]
  PROVE  /\ swap' \in [Swaps -> Rows]
         /\ \A t \in Swaps \ {s} : swap'[t] = swap[t]
         /\ swap'[s].status = "confirmed"
         /\ swap'[s].sourceTransactionId = tx
         /\ swap'[s].sourceWallet = swap[s].sourceWallet
         /\ swap'[s].createdAt = swap[s].createdAt
         /\ swap'[s].sourceAmount = amount
         /\ swap'[s].collected = swap[s].collected
         /\ swap'[s].burned = swap[s].burned
         /\ Quoted(s)'
<1> DEFINE row == swap[s]
           source == IF amount = row.sourceAmount
                     THEN row.sourceAmount ELSE StoredSource(amount)
           destination == IF amount = row.sourceAmount
                          THEN row.destinationAmount ELSE StoredDestination(amount)
           fee == IF amount = row.sourceAmount THEN row.fee ELSE StoredFee(amount)
<1>1. /\ StoredSource(amount) = amount
      /\ amount \in Nat
      /\ StoredDestination(amount) \in Nat
      /\ StoredFee(amount) \in Nat
  BY AmountAssumption, StoredAmounts
<1> DEFINE new == [row EXCEPT !.sourceAmount = source,
                              !.destinationAmount = destination,
                              !.fee = fee,
                              !.sourceTransactionId = tx,
                              !.status = "confirmed",
                              !.confirmations = 1]
<1>2. swap' = [swap EXCEPT ![s] = new]
  BY DEF ConfirmedRow
<1>3. row \in Rows
  BY DEF TablesOK
<1>4. /\ source = amount
      /\ destination \in Nat
      /\ fee \in Nat
      /\ \/ /\ row.sourceAmount = amount
            /\ destination = row.destinationAmount
            /\ fee = row.fee
         \/ /\ destination = StoredDestination(amount)
            /\ fee = StoredFee(amount)
  BY <1>1, <1>3 DEF Rows
<1> HIDE DEF source, destination, fee
<1>7. /\ new \in Rows
      /\ new.status = "confirmed"
      /\ new.sourceTransactionId = tx
      /\ new.sourceWallet = row.sourceWallet
      /\ new.createdAt = row.createdAt
      /\ new.collected = row.collected
      /\ new.burned = row.burned
      /\ new.sourceAmount = source
      /\ new.destinationAmount = destination
      /\ new.fee = fee
  <2> HIDE DEF row
  <2> QED
    BY <1>1, <1>3, <1>4 DEF Rows, Statuses
<1> HIDE DEF new
<1>5. /\ swap' \in [Swaps -> Rows]
      /\ \A t \in Swaps \ {s} : swap'[t] = swap[t]
      /\ swap'[s].status = "confirmed"
      /\ swap'[s].sourceTransactionId = tx
      /\ swap'[s].sourceWallet = swap[s].sourceWallet
      /\ swap'[s].createdAt = swap[s].createdAt
      /\ swap'[s].collected = swap[s].collected
      /\ swap'[s].burned = swap[s].burned
      /\ swap'[s].sourceAmount = amount
      /\ swap'[s].destinationAmount = destination
      /\ swap'[s].fee = fee
  BY <1>2, <1>4, <1>7 DEF TablesOK
<1>6. Quoted(s)'
  BY <1>1, <1>4, <1>5 DEF Quoted
<1> QED
  BY <1>5, <1>6

\* A handler or listener of a job goes on with a job, and the row stays: what the
\* request relies on stays with it.
LEMMA HandlerKeepsRequest ==
  ASSUME NEW s \in Swaps, RequestInv(s), KeepsRow(s),
         job[s].name # "none", job'[s].name # "none",
         swap'[s].status \in {swap[s].status, "confirmed", "completed"},
         UNCHANGED <<request, cancel>>
  PROVE  RequestInv(s)'
<1>1. swap[s].status # "none" /\ swap'[s].status # "none"
  BY DEF RequestInv
<1>2. Quoted(s)'
  BY <1>1 DEF RequestInv, KeepsRow, Quoted
<1> QED
  BY <1>1, <1>2 DEF RequestInv, KeepsRow

\* A step that leaves the row leaves it typed.
LEMMA SameRow ==
  ASSUME TablesOK, NEW s \in Swaps, swap' = swap
  PROVE  RowTyped(s) /\ swap'[s].status = swap[s].status
  BY DEF TablesOK, RowTyped, KeepsRow

\* A confirm job whose row is read settles its swap or goes on (confirmEthTransfer,
\* conifrmTonTransfer).
LEMMA ConfirmReadsFields ==
  ASSUME TablesOK, NEW s \in Swaps, RequestInv(s), NEW stage \in Stages,
         ConfirmReads(s, stage)
  PROVE  /\ job[s].name = "confirm"
         /\ JobTyped(s)
         /\ job' = job
         /\ \/ /\ run'[s].stage = "exitRow"
               /\ run'[s].result \in {"canceled", "expired"}
            \/ run'[s].stage = stage
<1>1. job[s].name = "confirm" /\ swap[s].sourceWallet \in Wallets
  BY DEF ConfirmReads, Takes, RequestInv
<1>2. "canceled" \in Statuses /\ "expired" \in Statuses
  BY DEF Statuses
<1>3. CASE Exit(s, "canceled") \/ Exit(s, "expired")
  BY <1>1, <1>2, <1>3, ExitFields
<1>4. CASE GotoWithBalance(s, stage)
  BY <1>1, <1>4, GotoWithBalanceFields
<1> QED
  BY <1>3, <1>4 DEF ConfirmReads

\* A confirm job ends with the credit of its wallet (confirmEthTransfer,
\* conifrmTonTransfer).
LEMMA ConfirmCreditFields ==
  ASSUME TablesOK, NEW s \in Swaps, ConfirmCredit(s)
  PROVE  /\ WalletTyped
         /\ JobTyped(s)
         /\ job' = job
         /\ run'[s].stage = "completed"
         /\ run'[s].tx = run[s].tx
         /\ run'[s].result = "confirmed"
<1>1. "confirmed" \in Statuses
  BY DEF Statuses
<1>2. run[s].balance + swap[s].sourceAmount \in Nat
  BY DEF TablesOK, Runs, Rows
<1>3. WalletTyped
  BY <1>2 DEF TablesOK, ConfirmCredit, WalletTyped
<1> QED
  BY <1>1, <1>3, ReturnFields DEF ConfirmCredit

-----------------------------------------------------------------------------
(* What an action of SwapJobs on one swap does.                              *)

\* The action leaves every other swap alone.
OnlyOf(s) ==
  \A t \in Swaps \ {s} :
    /\ swap'[t] = swap[t]
    /\ job'[t] = job[t]
    /\ run'[t] = run[t]
    /\ request'[t] = request[t]
    /\ cancel'[t] = cancel[t]

\* The job of s is the one before or over, and its handler no further than before.
JobEffect(s) ==
  \/ job'[s] = job[s] /\ run'[s] = run[s]
  \/ /\ job[s].name = "none"
     /\ job'[s].name = "confirm"
     /\ run'[s].stage = "idle"
  \/ /\ job'[s] = job[s]
     /\ \/ run'[s].stage = "exitWallet"
        \/ run'[s].stage = "completed" /\ ~Processable(run'[s].result)
        \/ job[s].name = "confirm" /\ run'[s].stage = "failed"
  \/ /\ job'[s].name = job[s].name
     /\ job'[s].arg = job[s].arg
     /\ job'[s].tx = job[s].tx
     /\ run'[s].stage = "idle"
  \/ /\ job[s].name \notin {"none", "confirm"}
     /\ job'[s].name = "lost"
     /\ run'[s].stage = "idle"

\* All a direction has to know of an action of SwapJobs.
Effect(s) ==
  /\ TablesOK'
  /\ OnlyOf(s)
  /\ RequestInv(s)' /\ ExitInv(s)'
  /\ swap[s].status # "none" => KeepsRow(s)
  /\ JobEffect(s)

\* What a crash leaves of the job of t.
CrashedJob(t) ==
  \/ /\ job'[t].name = job[t].name
     /\ job'[t].arg = job[t].arg
     /\ job'[t].tx = job[t].tx
  \/ /\ job[t].name \notin {"none", "confirm"}
     /\ job'[t].name = "lost"
  \/ /\ run[t].stage # "idle"
     /\ job'[t].name \in {"confirm", "ended", "lost"}
     /\ job'[t].name = "confirm" =>
          job[t].name = "confirm" /\ job'[t].arg = job[t].arg

\* An action that leaves jobs and handlers alone (createSwap but for its last
\* step, cancelSwap, the clock) has shown all when it has shown the rest.
LEMMA QuietEffect ==
  ASSUME NEW s \in Swaps, ExitInv(s), TablesOK', RequestInv(s)', OnlyOf(s),
         swap[s].status # "none" => KeepsRow(s), job' = job, run' = run
  PROVE  Effect(s)
  BY DEF Effect, JobEffect, ExitInv

\* A request that has read a free wallet goes on to mark it (createSwap).
LEMMA PickWalletEffect ==
  ASSUME TablesOK, NEW s \in Swaps, RequestInv(s), ExitInv(s), PickWallet(s)
  PROVE  Effect(s)
<1>1. /\ request' \in [Swaps -> Requests]
      /\ \A t \in Swaps \ {s} : request'[t] = request[t]
      /\ request[s].stage = "new"
      /\ request'[s].stage = "mark"
      /\ request'[s].wallet \in Wallets
      /\ request'[s].amount \in Asked
  BY AmountAssumption DEF TablesOK, PickWallet, RequestAt, BestMatched, Requests
<1>2. TablesOK'
  BY <1>1 DEF TablesOK, PickWallet
<1>3. RequestInv(s)'
  BY <1>1 DEF PickWallet, RequestInv, Quoted
<1>4. OnlyOf(s) /\ (swap[s].status # "none" => KeepsRow(s))
  BY <1>1 DEF PickWallet, OnlyOf, KeepsRow
<1> QED
  BY <1>2, <1>3, <1>4, QuietEffect DEF PickWallet

\* A request marks the wallet it has read (createSwap).
LEMMA MarkWalletEffect ==
  ASSUME TablesOK, NEW s \in Swaps, RequestInv(s), ExitInv(s), MarkWallet(s)
  PROVE  Effect(s)
<1>1. request[s].stage = "mark" /\ RequestMoves(s, "insert") /\ WalletTyped
  BY RequestGotoFields DEF TablesOK, MarkWallet, RequestAt, WalletTyped
<1>2. TablesOK'
  BY <1>1 DEF TablesOK, MarkWallet, RequestMoves, WalletTyped
<1>3. RequestInv(s)'
  BY <1>1 DEF MarkWallet, RequestMoves, WalletTyped, RequestInv, Quoted
<1>4. OnlyOf(s) /\ (swap[s].status # "none" => KeepsRow(s))
  BY <1>1 DEF MarkWallet, RequestMoves, WalletTyped, OnlyOf, KeepsRow
<1> QED
  BY <1>2, <1>3, <1>4, QuietEffect DEF MarkWallet

\* The row of a new swap holds amounts computed from the one asked (createSwap).
LEMMA InsertSwapEffect ==
  ASSUME TablesOK, NEW s \in Swaps, RequestInv(s), ExitInv(s), NEW now \in Nat,
         InsertSwap(s, now)
  PROVE  Effect(s)
<1>1. request[s].stage = "insert" /\ RequestMoves(s, "addJob")
  BY RequestGotoFields DEF InsertSwap, RequestAt
<1>5. /\ request[s].wallet \in Wallets
      /\ request[s].amount \in Asked
      /\ swap[s].status = "none"
      /\ job[s].name = "none"
      /\ run[s].stage = "idle"
  BY <1>1 DEF RequestInv
<1>6. /\ StoredSource(request[s].amount) \in Nat
      /\ StoredDestination(request[s].amount) \in Nat
      /\ StoredFee(request[s].amount) \in Nat
  BY <1>5, StoredAmounts, AmountAssumption
<1>7. /\ swap' \in [Swaps -> Rows]
      /\ \A t \in Swaps \ {s} : swap'[t] = swap[t]
      /\ swap'[s].status = "pending"
      /\ swap'[s].sourceWallet = request[s].wallet
      /\ swap'[s].sourceAmount = StoredSource(request[s].amount)
      /\ swap'[s].destinationAmount = StoredDestination(request[s].amount)
      /\ swap'[s].fee = StoredFee(request[s].amount)
  BY <1>5, <1>6 DEF TablesOK, InsertSwap, NoSwap, Rows, Statuses
<1>8. Quoted(s)'
  BY <1>5, <1>7 DEF Quoted
<1>2. TablesOK'
  BY <1>1, <1>7 DEF TablesOK, InsertSwap, RequestMoves
<1>3. RequestInv(s)'
  BY <1>1, <1>5, <1>7, <1>8 DEF InsertSwap, RequestMoves, RequestInv
<1>4. OnlyOf(s)
  BY <1>1, <1>7 DEF InsertSwap, RequestMoves, OnlyOf
<1> QED
  BY <1>2, <1>3, <1>4, <1>5, QuietEffect DEF InsertSwap

\* A request whose row is not inserted goes on to release its wallet (createSwap).
LEMMA InsertFailsEffect ==
  ASSUME TablesOK, NEW s \in Swaps, RequestInv(s), ExitInv(s), InsertFails(s)
  PROVE  Effect(s)
<1>1. /\ request[s].stage = "insert"
      /\ RequestMoves(s, "rollback")
      /\ faults' \in Nat
  BY RequestGotoFields DEF TablesOK, InsertFails, RequestAt, Fault
<1>2. TablesOK'
  BY <1>1 DEF TablesOK, InsertFails, RequestMoves
<1>3. RequestInv(s)'
  BY <1>1 DEF InsertFails, RequestMoves, RequestInv, Quoted
<1>4. OnlyOf(s) /\ (swap[s].status # "none" => KeepsRow(s))
  BY <1>1 DEF InsertFails, RequestMoves, OnlyOf, KeepsRow
<1> QED
  BY <1>2, <1>3, <1>4, QuietEffect DEF InsertFails

\* The first job of a swap is a confirm job.
LEMMA FirstJob ==
  ASSUME TablesOK, NEW s \in Swaps, NEW block \in Nat,
         Enqueue(s, NewJob("confirm", block, 0, 1))
  PROVE  JobTyped(s) /\ job'[s].name = "confirm" /\ run'[s].stage = "idle"
<1>1. "confirm" \in JobNames /\ 0 \in Nat /\ 1 \in Nat
  BY DEF JobNames
<1>2. /\ NewJob("confirm", block, 0, 1) \in Jobs
      /\ NewJob("confirm", block, 0, 1).name = "confirm"
  BY <1>1, NewJobFields
<1> QED
  BY <1>2, RestFields, EnqueueFields

\* A request that adds the first job of its swap ends (runConfirmEthSwapJob,
\* runConfirmTonSwapJob).
LEMMA AddConfirmJobEffect ==
  ASSUME TablesOK, NEW s \in Swaps, RequestInv(s), ExitInv(s), NEW block \in Nat,
         AddConfirmJob(s, block)
  PROVE  Effect(s)
<1>1. request[s].stage = "addJob" /\ job[s].name = "none"
  BY DEF AddConfirmJob, RequestAt, RequestInv
<1>5. RequestMoves(s, "done")
  BY RequestBlockFields DEF AddConfirmJob
<1>6. /\ JobTyped(s)
      /\ job'[s].name = "confirm"
      /\ run'[s].stage = "idle"
  BY FirstJob DEF AddConfirmJob
<1>2. TablesOK'
  BY <1>5, <1>6 DEF TablesOK, AddConfirmJob, JobTyped, RequestMoves
<1>3. RequestInv(s)' /\ ExitInv(s)'
  BY <1>1, <1>5, <1>6 DEF AddConfirmJob, RequestMoves, RequestInv, Quoted, ExitInv
<1>4. OnlyOf(s) /\ KeepsRow(s)
  BY <1>5, <1>6 DEF AddConfirmJob, JobTyped, RequestMoves, OnlyOf, KeepsRow
<1> QED
  BY <1>1, <1>2, <1>3, <1>4, <1>6 DEF Effect, JobEffect

\* A request whose queue call throws goes on to fail its swap, whether the job was
\* added or not (createSwap).
LEMMA AddConfirmJobFailsEffect ==
  ASSUME TablesOK, NEW s \in Swaps, RequestInv(s), ExitInv(s), NEW block \in Nat,
         AddConfirmJobFails(s, block)
  PROVE  Effect(s)
<1>1. request[s].stage = "addJob" /\ job[s].name = "none" /\ run[s].stage = "idle"
  BY DEF AddConfirmJobFails, RequestAt, RequestInv
<1>5. RequestMoves(s, "failRow")
  BY RequestBlockFields DEF AddConfirmJobFails
<1>7. faults' \in Nat
  BY DEF TablesOK, AddConfirmJobFails, Fault
<1>6. /\ JobTyped(s)
      /\ \/ job' = job /\ run' = run
         \/ job'[s].name = "confirm" /\ run'[s].stage = "idle"
  <2>1. CASE UNCHANGED <<job, run>>
    BY <2>1 DEF TablesOK, JobTyped
  <2>2. CASE Enqueue(s, NewJob("confirm", block, 0, 1))
    BY <2>2, FirstJob
  <2> QED
    BY <2>1, <2>2 DEF AddConfirmJobFails
<1>2. TablesOK'
  BY <1>5, <1>6, <1>7 DEF TablesOK, AddConfirmJobFails, JobTyped, RequestMoves
<1>3. RequestInv(s)' /\ ExitInv(s)'
  BY <1>1, <1>5, <1>6 DEF AddConfirmJobFails, RequestMoves, RequestInv, Quoted, ExitInv
<1>4. OnlyOf(s) /\ KeepsRow(s)
  BY <1>5, <1>6 DEF AddConfirmJobFails, JobTyped, RequestMoves, OnlyOf, KeepsRow
<1> QED
  BY <1>1, <1>2, <1>3, <1>4, <1>6 DEF Effect, JobEffect

\* Failing a swap writes its status alone (createSwap).
LEMMA FailSwapEffect ==
  ASSUME TablesOK, NEW s \in Swaps, RequestInv(s), ExitInv(s), FailSwap(s)
  PROVE  Effect(s)
<1>5. request[s].stage = "failRow" /\ RequestMoves(s, "failWallet")
  BY RequestGotoFields DEF FailSwap, RequestAt
<1>6. RowTyped(s) /\ swap'[s].status = "failed"
  BY StatusFields DEF FailSwap, Statuses
<1>1. /\ request[s].stage = "failRow"
      /\ RequestMoves(s, "failWallet")
      /\ RowTyped(s)
      /\ swap'[s].status = "failed"
  BY <1>5, <1>6
<1>2. TablesOK'
  BY <1>1 DEF TablesOK, FailSwap, RequestMoves, RowTyped
<1>3. RequestInv(s)'
  BY <1>1 DEF FailSwap, RequestMoves, RowTyped, KeepsRow, RequestInv, Quoted
<1>4. OnlyOf(s) /\ (swap[s].status # "none" => KeepsRow(s))
  BY <1>1 DEF FailSwap, RequestMoves, RowTyped, OnlyOf, KeepsRow
<1> QED
  BY <1>2, <1>3, <1>4, QuietEffect DEF FailSwap

\* A failed request gives its wallet back (createSwap).
LEMMA ReleaseRequestedEffect ==
  ASSUME TablesOK, NEW s \in Swaps, RequestInv(s), ExitInv(s), ReleaseRequested(s)
  PROVE  Effect(s)
<1>1. RequestMoves(s, "done") /\ WalletTyped
  BY RequestGotoFields, ReleaseTyped DEF ReleaseRequested
<1>5. request[s].stage \in {"rollback", "failWallet"}
  BY DEF ReleaseRequested
<1>2. TablesOK'
  BY <1>1, <1>5 DEF TablesOK, ReleaseRequested, RequestMoves, WalletTyped
<1>3. RequestInv(s)'
  BY <1>1, <1>5 DEF ReleaseRequested, RequestMoves, WalletTyped, RequestInv, Quoted
<1>4. OnlyOf(s) /\ (swap[s].status # "none" => KeepsRow(s))
  BY <1>1, <1>5 DEF ReleaseRequested, RequestMoves, WalletTyped, OnlyOf, KeepsRow
<1> QED
  BY <1>2, <1>3, <1>4, QuietEffect DEF ReleaseRequested

\* A request that throws leaves its row and its wallet as they are (createSwap).
LEMMA RequestThrowsEffect ==
  ASSUME TablesOK, NEW s \in Swaps, RequestInv(s), ExitInv(s), RequestThrows(s)
  PROVE  Effect(s)
<1>1. /\ request[s].stage \in {"mark", "rollback", "failRow", "failWallet"}
      /\ RequestMoves(s, "done") \/ RequestMoves(s, "aborted")
      /\ faults' \in Nat
  BY RequestGotoFields DEF TablesOK, RequestThrows, Fault
<1>2. TablesOK'
  BY <1>1 DEF TablesOK, RequestThrows, RequestMoves
<1>3. RequestInv(s)'
  BY <1>1 DEF RequestThrows, RequestMoves, RequestInv, Quoted
<1>4. OnlyOf(s) /\ (swap[s].status # "none" => KeepsRow(s))
  BY <1>1 DEF RequestThrows, RequestMoves, OnlyOf, KeepsRow
<1> QED
  BY <1>2, <1>3, <1>4, QuietEffect DEF RequestThrows

\* A DELETE that has read its row pending goes on to write it (cancelSwap).
LEMMA CancelReadEffect ==
  ASSUME TablesOK, NEW s \in Swaps, RequestInv(s), ExitInv(s), CancelRead(s)
  PROVE  Effect(s)
<1>1. /\ cancel' \in [Swaps -> {"idle", "write"}]
      /\ \A t \in Swaps \ {s} : cancel'[t] = cancel[t]
      /\ swap[s].status # "none"
  BY DEF TablesOK, CancelRead
<1>2. TablesOK'
  BY <1>1 DEF TablesOK, CancelRead
<1>3. RequestInv(s)'
  BY <1>1 DEF CancelRead, RequestInv, Quoted
<1>4. OnlyOf(s) /\ (swap[s].status # "none" => KeepsRow(s))
  BY <1>1 DEF CancelRead, OnlyOf, KeepsRow
<1> QED
  BY <1>2, <1>3, <1>4, QuietEffect DEF CancelRead

\* A DELETE writes the status alone (cancelSwap).
LEMMA CancelWriteEffect ==
  ASSUME TablesOK, NEW s \in Swaps, RequestInv(s), ExitInv(s), CancelWrite(s)
  PROVE  Effect(s)
<1>1. /\ cancel' \in [Swaps -> {"idle", "write"}]
      /\ \A t \in Swaps \ {s} : cancel'[t] = cancel[t]
      /\ cancel[s] = "write"
      /\ cancel'[s] = "idle"
      /\ RowTyped(s)
      /\ swap'[s].status = "canceled"
  BY StatusFields DEF TablesOK, CancelWrite, Statuses
<1>2. TablesOK'
  BY <1>1 DEF TablesOK, CancelWrite, RowTyped
<1>3. RequestInv(s)'
  BY <1>1 DEF CancelWrite, RowTyped, KeepsRow, RequestInv, Quoted
<1>4. OnlyOf(s) /\ (swap[s].status # "none" => KeepsRow(s))
  BY <1>1 DEF CancelWrite, RowTyped, OnlyOf, KeepsRow
<1> QED
  BY <1>2, <1>3, <1>4, QuietEffect DEF CancelWrite

\* The helpers that settle a swap write its status alone (SwapsHelper).
LEMMA ExitRowEffect ==
  ASSUME TablesOK, NEW s \in Swaps, RequestInv(s), ExitInv(s), ExitRow(s)
  PROVE  Effect(s)
<1>1. /\ run[s].result \in {"expired", "failed", "canceled"}
      /\ run[s].result \in Statuses
      /\ "exitWallet" \in Stages
  BY DEF ExitRow, ExitInv, Statuses, Stages
<1>5. RowTyped(s) /\ swap'[s].status = run[s].result
  BY <1>1, StatusFields DEF ExitRow
<1>6. /\ JobTyped(s)
      /\ job' = job
      /\ run'[s].stage = "exitWallet"
      /\ run'[s].result = run[s].result
  BY <1>1, GotoFields DEF ExitRow
<1>7. job[s].name # "none" /\ swap[s].status # "none"
  BY DEF ExitRow, RequestInv
<1>2. TablesOK'
  BY <1>5, <1>6 DEF TablesOK, ExitRow, RowTyped, JobTyped
<1>3. RequestInv(s)' /\ ExitInv(s)'
  BY <1>1, <1>5, <1>6, <1>7 DEF ExitRow, RowTyped, KeepsRow, RequestInv, Quoted, ExitInv
<1>4. OnlyOf(s)
  BY <1>5, <1>6 DEF ExitRow, RowTyped, JobTyped, OnlyOf
<1> QED
  BY <1>2, <1>3, <1>4, <1>5, <1>6 DEF Effect, JobEffect, RowTyped

\* They end by giving the wallet back, with a result no listener goes on from
\* (SwapsHelper, isSwapProcessable).
LEMMA ExitWalletEffect ==
  ASSUME TablesOK, NEW s \in Swaps, RequestInv(s), ExitInv(s), ExitWallet(s)
  PROVE  Effect(s)
<1>1. /\ run[s].result \in {"expired", "failed", "canceled"}
      /\ run[s].result \in Statuses
      /\ job[s].name # "none"
  BY DEF ExitWallet, ExitInv, RequestInv, Statuses
<1>5. WalletTyped
  BY ReleaseTyped DEF ExitWallet
<1>6. /\ JobTyped(s)
      /\ job' = job
      /\ run'[s].stage = "completed"
      /\ ~Processable(run'[s].result)
  BY <1>1, ReturnFields DEF ExitWallet, Processable
<1>2. TablesOK'
  BY <1>5, <1>6 DEF TablesOK, ExitWallet, WalletTyped, JobTyped
<1>3. RequestInv(s)' /\ ExitInv(s)'
  BY <1>1, <1>6 DEF ExitWallet, RequestInv, Quoted, ExitInv
<1>4. OnlyOf(s) /\ KeepsRow(s)
  BY <1>6 DEF ExitWallet, JobTyped, OnlyOf, KeepsRow
<1> QED
  BY <1>2, <1>3, <1>4, <1>6 DEF Effect, JobEffect

\* A handler that throws leaves rows and wallets as they are (the attempts of each
\* queue.add).
LEMMA HandlerThrowsEffect ==
  ASSUME TablesOK, NEW s \in Swaps, RequestInv(s), ExitInv(s), HandlerThrows(s)
  PROVE  Effect(s)
<1>1. run[s].stage # "idle" /\ job[s].name # "none" /\ faults' \in Nat
  BY DEF TablesOK, HandlerThrows, Fault, RequestInv
<1>5. /\ JobTyped(s)
      /\ \/ /\ job'[s].name = job[s].name
            /\ job'[s].arg = job[s].arg
            /\ job'[s].tx = job[s].tx
            /\ run'[s].stage = "idle"
         \/ /\ job'[s] = job[s]
            /\ job[s].name = "confirm"
            /\ run'[s].stage = "failed"
         \/ /\ job[s].name # "confirm"
            /\ job'[s].name = "lost"
            /\ run'[s].stage = "idle"
  BY FailsFields DEF HandlerThrows
<1>2. TablesOK'
  BY <1>1, <1>5 DEF TablesOK, HandlerThrows, JobTyped
<1>3. RequestInv(s)' /\ ExitInv(s)'
  BY <1>1, <1>5 DEF HandlerThrows, RequestInv, Quoted, ExitInv
<1>4. OnlyOf(s) /\ KeepsRow(s)
  BY <1>5 DEF HandlerThrows, JobTyped, OnlyOf, KeepsRow
<1> QED
  BY <1>1, <1>2, <1>3, <1>4, <1>5 DEF Effect, JobEffect

\* The passing of a deadline changes no row and no job.
LEMMA TickEffect ==
  ASSUME TablesOK, NEW s \in Swaps, RequestInv(s), ExitInv(s), Tick(s)
  PROVE  Effect(s)
<1>1. age' \in [Swaps -> 0..MaxAge]
  <2>1. age[s] + 1 \in 0..MaxAge
    BY AttemptAssumption DEF TablesOK, Tick
  <2> QED
    BY <2>1 DEF TablesOK, Tick
<1>2. TablesOK'
  BY <1>1 DEF TablesOK, Tick
<1>3. RequestInv(s)'
  BY <1>1 DEF Tick, RequestInv, Quoted
<1>4. OnlyOf(s) /\ (swap[s].status # "none" => KeepsRow(s))
  BY <1>1 DEF Tick, OnlyOf, KeepsRow
<1> QED
  BY <1>2, <1>3, <1>4, QuietEffect DEF Tick

\* No action of SwapJobs completes a swap or records a charge.
GainsNothing(s) ==
  /\ swap'[s].status = "completed" => swap[s].status = "completed"
  /\ swap'[s].collected => swap[s].collected
  /\ swap'[s].burned => swap[s].burned

\* What requests, cancellations and SwapsHelper write of a status is never that the
\* swap completed (createSwap, cancelSwap, SwapsHelper).
LEMMA SharedGainsNothing ==
  ASSUME TablesOK, NEW s \in Swaps, ExitInv(s),
         \/ UNCHANGED swap
         \/ \E now \in Nat : InsertSwap(s, now)
         \/ FailSwap(s) \/ CancelWrite(s) \/ ExitRow(s)
  PROVE  GainsNothing(s)
<1>1. swap \in [Swaps -> Rows]
  BY DEF TablesOK
<1>2. CASE UNCHANGED swap
  BY <1>2 DEF GainsNothing
<1>3. ASSUME NEW now \in Nat, InsertSwap(s, now)
      PROVE  GainsNothing(s)
  <2>1. /\ swap'[s].status = "pending"
        /\ swap'[s].collected = FALSE
        /\ swap'[s].burned = FALSE
    BY <1>1, <1>3 DEF InsertSwap, NoSwap
  <2> QED
    BY <2>1 DEF GainsNothing
<1>4. ASSUME NEW status \in {"failed", "canceled", "expired"},
             swap' = [swap EXCEPT ![s].status = status]
      PROVE  GainsNothing(s)
  BY <1>1, <1>4 DEF GainsNothing, Rows
<1>5. CASE FailSwap(s) \/ CancelWrite(s)
  BY <1>4, <1>5 DEF FailSwap, CancelWrite
<1>6. CASE ExitRow(s)
  BY <1>4, <1>6 DEF ExitRow, ExitInv
<1> QED
  BY <1>2, <1>3, <1>5, <1>6

\* A crash loses what the handlers hold and leaves the rows; the job Redis keeps of
\* a swap is the job it was, or is over (Bull's stalled jobs).
LEMMA CrashEffect ==
  ASSUME TablesOK, Crash
  PROVE  /\ TablesOK'
         /\ UNCHANGED <<swap, wallet>>
         /\ \A t \in Swaps :
              /\ RequestInv(t) => RequestInv(t)'
              /\ run'[t].stage = "idle"
              /\ CrashedJob(t)
              /\ request'[t].block = request[t].block
<1>1. PICK finished : job' = [s \in Swaps |->
                 IF run[s].stage = "idle" THEN job[s]
                 ELSE IF s \in finished THEN Orphaned(s) ELSE Redelivered(job[s])]
  BY DEF Crash
<1>2. ASSUME NEW t \in Swaps
      PROVE  job'[t] \in Jobs /\ CrashedJob(t)
  <2>1. job[t] \in Jobs
    BY DEF TablesOK
  <2>2. CASE run[t].stage = "idle"
    BY <1>1, <2>1, <2>2 DEF CrashedJob
  <2>3. CASE run[t].stage # "idle" /\ t \in finished
    <3>1. job'[t] = Orphaned(t)
      BY <1>1, <2>3
    <3> QED
      BY <2>3, <3>1, RestFields DEF Orphaned, CrashedJob
  <2>4. CASE run[t].stage # "idle" /\ t \notin finished
    <3>1. job'[t] = Redelivered(job[t])
      BY <1>1, <2>4
    <3>2. CASE job[t].stalls < MaxStalls
      <4>1. job'[t] = [job[t] EXCEPT !.stalls = @ + 1]
        BY <3>1, <3>2 DEF Redelivered
      <4> QED
        BY <2>1, <4>1 DEF Jobs, CrashedJob
    <3>3. CASE ~(job[t].stalls < MaxStalls) /\ job[t].name = "confirm"
      <4> DEFINE block == job[t].arg
      <4>1. job'[t] = NewJob("confirm", block, 0, 1)
        BY <3>1, <3>3 DEF Redelivered
      <4>2. block \in Nat /\ "confirm" \in JobNames /\ 0 \in Nat /\ 1 \in Nat
        BY <2>1 DEF Jobs, JobNames
      <4> HIDE DEF block
      <4>3. /\ NewJob("confirm", block, 0, 1) \in Jobs
            /\ NewJob("confirm", block, 0, 1).name = "confirm"
            /\ NewJob("confirm", block, 0, 1).arg = block
        BY <4>2, NewJobFields
      <4> QED
        BY <2>4, <3>3, <4>1, <4>3 DEF CrashedJob, block
    <3>4. CASE ~(job[t].stalls < MaxStalls) /\ job[t].name # "confirm"
      <4>1. job'[t] = LostJob
        BY <3>1, <3>4 DEF Redelivered
      <4> QED
        BY <2>4, <3>4, <4>1, RestFields DEF CrashedJob
    <3> QED
      BY <3>2, <3>3, <3>4
  <2> QED
    BY <2>2, <2>3, <2>4
<1>3. /\ run' = [s \in Swaps |-> Idle]
      /\ cancel' = [s \in Swaps |-> "idle"]
      /\ faults' \in Nat
      /\ UNCHANGED <<swap, wallet, age>>
  BY DEF Crash, Fault, TablesOK
<1>4. ASSUME NEW t \in Swaps
      PROVE  /\ request'[t] \in Requests
             /\ request'[t].wallet = request[t].wallet
             /\ request'[t].amount = request[t].amount
             /\ request'[t].block = request[t].block
             /\ \/ /\ request'[t] = request[t]
                   /\ request[t].stage \in {"new", "done", "aborted"}
                \/ request'[t].stage = "aborted" /\ request[t].stage # "new"
  <2>1. request[t] \in Requests
    BY DEF TablesOK
  <2>2. request'[t] = IF request[t].stage \in {"new", "done", "aborted"}
                      THEN request[t]
                      ELSE [request[t] EXCEPT !.stage = "aborted"]
    BY DEF Crash
  <2>3. CASE request[t].stage \in {"new", "done", "aborted"}
    BY <2>1, <2>2, <2>3
  <2>4. CASE request[t].stage \notin {"new", "done", "aborted"}
    BY <2>1, <2>2, <2>4 DEF Requests
  <2> QED
    BY <2>3, <2>4
<1>5. TablesOK'
  <2>1. job' \in [Swaps -> Jobs]
    BY <1>1, <1>2
  <2>2. request' \in [Swaps -> Requests]
    BY <1>4 DEF Crash
  <2>3. run' \in [Swaps -> Runs] /\ cancel' \in [Swaps -> {"idle", "write"}]
    BY <1>3, RestFields
  <2> QED
    BY <1>3, <2>1, <2>2, <2>3 DEF TablesOK
<1>6. ASSUME NEW t \in Swaps
      PROVE  run'[t].stage = "idle" /\ cancel'[t] = "idle"
  BY <1>3, RestFields
<1>7. ASSUME NEW t \in Swaps, RequestInv(t)
      PROVE  RequestInv(t)'
  BY <1>2, <1>3, <1>4, <1>6, <1>7 DEF RequestInv, Quoted, CrashedJob
<1> QED
  BY <1>2, <1>3, <1>4, <1>5, <1>6, <1>7

\* Before any request the tables are empty.
LEMMA InitTablesOK ==
  ASSUME InitTables
  PROVE  TablesOK /\ \A t \in Swaps : RequestInv(t) /\ run[t].stage = "idle"
<1>1. NoSwap \in Rows
  BY DEF NoSwap, Rows, Statuses
<1>2. NoJob \in Jobs
  BY DEF NoJob, NewJob, Jobs, JobNames
<1>3. NewRequest \in Requests
  BY DEF NewRequest, Requests
<1>4. age \in [Swaps -> 0..MaxAge]
  BY AttemptAssumption DEF InitTables
<1>5. TablesOK
  BY <1>1, <1>2, <1>3, <1>4, RestFields DEF InitTables, TablesOK
<1> QED
  BY <1>5, RestFields DEF InitTables, NoSwap, NoJob, NewJob, NewRequest, RequestInv

-----------------------------------------------------------------------------
(* Where and since when a swap receives, for the refinements.                *)

\* A swap that was created exists for good, with its source wallet and the moment
\* it was created at (nothing deletes a row of the table or writes these columns).
KeepsOrigin(t) ==
  swap[t].status # "none" =>
    /\ swap'[t].status # "none"
    /\ swap'[t].sourceWallet = swap[t].sourceWallet
    /\ swap'[t].createdAt = swap[t].createdAt

\* A step that writes columns of the row of s, and leaves it existing.
LEMMA RowKeepsOrigin ==
  ASSUME NEW s \in Swaps, RowTyped(s), swap'[s].status # "none"
  PROVE  \A t \in Swaps : KeepsOrigin(t)
  BY DEF RowTyped, KeepsRow, KeepsOrigin

\* A step that writes no row.
LEMMA SameRowsKeepOrigin ==
  ASSUME UNCHANGED swap
  PROVE  \A t \in Swaps : KeepsOrigin(t)
  BY DEF KeepsOrigin

\* What requests and the helpers write (createSwap, cancelSwap, SwapsHelper).
LEMMA SharedKeepsOrigin ==
  ASSUME TablesOK, NEW s \in Swaps, RequestInv(s), ExitInv(s), NEW now,
         \/ UNCHANGED swap \/ InsertSwap(s, now)
         \/ FailSwap(s) \/ CancelWrite(s) \/ ExitRow(s)
  PROVE  \A t \in Swaps : KeepsOrigin(t)
<1>1. CASE UNCHANGED swap
  BY <1>1, SameRowsKeepOrigin
<1>2. CASE InsertSwap(s, now)
  <2>1. swap[s].status = "none"
    BY <1>2 DEF InsertSwap, RequestAt, RequestInv
  <2>2. \A t \in Swaps \ {s} : swap'[t] = swap[t]
    BY <1>2 DEF InsertSwap, TablesOK
  <2> QED
    BY <2>1, <2>2 DEF KeepsOrigin
<1>3. ASSUME NEW status \in Statuses \ {"none"}, swap' = [swap EXCEPT ![s].status = status]
      PROVE  \A t \in Swaps : KeepsOrigin(t)
  <2>1. RowTyped(s) /\ swap'[s].status = status
    BY <1>3, StatusFields
  <2> QED
    BY <2>1, RowKeepsOrigin
<1>4. CASE FailSwap(s) \/ CancelWrite(s)
  <2>1. {"failed", "canceled"} \subseteq Statuses \ {"none"}
    BY DEF Statuses
  <2> QED
    BY <1>3, <1>4, <2>1 DEF FailSwap, CancelWrite
<1>5. CASE ExitRow(s)
  <2>1. run[s].result \in Statuses \ {"none"}
    BY <1>5 DEF ExitRow, ExitInv, Statuses
  <2> QED
    BY <1>3, <1>5, <2>1 DEF ExitRow
<1> QED
  BY <1>1, <1>2, <1>4, <1>5

\* The row of a swap whose transfer was found is confirmed, and keeps its origin
\* (the update in the confirm handlers).
LEMMA ConfirmedRowStatus ==
  ASSUME TablesOK, NEW s \in Swaps, NEW amount, NEW tx
  PROVE  /\ ConfirmedRow(s, amount, tx).status = "confirmed"
         /\ ConfirmedRow(s, amount, tx).sourceWallet = swap[s].sourceWallet
         /\ ConfirmedRow(s, amount, tx).createdAt = swap[s].createdAt
         /\ ConfirmedRow(s, amount, tx).sourceTransactionId = tx
<1> DEFINE row == swap[s]
           source == IF amount = row.sourceAmount
                     THEN row.sourceAmount ELSE StoredSource(amount)
           destination == IF amount = row.sourceAmount
                          THEN row.destinationAmount ELSE StoredDestination(amount)
           fee == IF amount = row.sourceAmount THEN row.fee ELSE StoredFee(amount)
           new == [row EXCEPT !.sourceAmount = source,
                              !.destinationAmount = destination,
                              !.fee = fee,
                              !.sourceTransactionId = tx,
                              !.status = "confirmed",
                              !.confirmations = 1]
<1>1. ConfirmedRow(s, amount, tx) = new
  BY DEF ConfirmedRow
<1>2. row \in Rows
  BY DEF TablesOK
<1> HIDE DEF row, source, destination, fee
<1>3. /\ new.status = "confirmed"
      /\ new.sourceWallet = row.sourceWallet
      /\ new.createdAt = row.createdAt
      /\ new.sourceTransactionId = tx
  BY <1>2 DEF Rows
<1> HIDE DEF new
<1> QED
  BY <1>1, <1>3 DEF row

\* A row that is confirmed again with the amount it has keeps its amounts
\* (recalculateSwap is called only for another amount).
LEMMA ConfirmedRowAgain ==
  ASSUME TablesOK, NEW s \in Swaps, NEW amount, NEW tx
  PROVE  /\ ConfirmedRow(s, amount, tx).confirmations = 1
         /\ amount = swap[s].sourceAmount =>
              /\ ConfirmedRow(s, amount, tx).sourceAmount = swap[s].sourceAmount
              /\ ConfirmedRow(s, amount, tx).destinationAmount = swap[s].destinationAmount
              /\ ConfirmedRow(s, amount, tx).fee = swap[s].fee
<1> DEFINE row == swap[s]
           source == IF amount = row.sourceAmount
                     THEN row.sourceAmount ELSE StoredSource(amount)
           destination == IF amount = row.sourceAmount
                          THEN row.destinationAmount ELSE StoredDestination(amount)
           fee == IF amount = row.sourceAmount THEN row.fee ELSE StoredFee(amount)
           new == [row EXCEPT !.sourceAmount = source,
                              !.destinationAmount = destination,
                              !.fee = fee,
                              !.sourceTransactionId = tx,
                              !.status = "confirmed",
                              !.confirmations = 1]
<1>1. ConfirmedRow(s, amount, tx) = new
  BY DEF ConfirmedRow
<1>2. row \in Rows
  BY DEF TablesOK
<1>3. amount = row.sourceAmount =>
        source = row.sourceAmount /\ destination = row.destinationAmount /\ fee = row.fee
  OBVIOUS
<1> HIDE DEF row, source, destination, fee
<1>4. /\ new.confirmations = 1
      /\ new.sourceAmount = source
      /\ new.destinationAmount = destination
      /\ new.fee = fee
  BY <1>2 DEF Rows
<1> HIDE DEF new
<1> QED
  BY <1>1, <1>3, <1>4 DEF row

\* Such a step keeps every origin.
LEMMA ConfirmedRowKeepsOrigin ==
  ASSUME TablesOK, NEW s \in Swaps, NEW amount, NEW tx,
         swap' = [swap EXCEPT ![s] = ConfirmedRow(s, amount, tx)]
  PROVE  \A t \in Swaps : KeepsOrigin(t)
<1>1. swap \in [Swaps -> Rows]
  BY DEF TablesOK
<1>2. /\ ConfirmedRow(s, amount, tx).status = "confirmed"
      /\ ConfirmedRow(s, amount, tx).sourceWallet = swap[s].sourceWallet
      /\ ConfirmedRow(s, amount, tx).createdAt = swap[s].createdAt
  BY ConfirmedRowStatus
<1>3. /\ swap'[s] = ConfirmedRow(s, amount, tx)
      /\ \A t \in Swaps \ {s} : swap'[t] = swap[t]
  BY <1>1
<1> HIDE DEF ConfirmedRow
<1> QED
  BY <1>2, <1>3 DEF KeepsOrigin

-----------------------------------------------------------------------------
(* Wallets in use are held: the parts of the invariant behind InUseIsHeld.   *)

\* The row that a request has just inserted names the wallet it has marked.
MarkedInv(s) ==
  request[s].stage = "addJob" => swap[s].sourceWallet = request[s].wallet

\* A job that is lost has no handler.
LostInv(s) == job[s].name = "lost" => run[s].stage = "idle"

HeldInv ==
  /\ InUseIsHeld
  /\ \A s \in Swaps : MarkedInv(s) /\ LostInv(s)

\* What an action on s has to show: it marks no wallet but one that s holds then, and
\* s lets go of no wallet that stays marked.
KeepsHold(s) ==
  /\ \A w \in Wallets : wallet'[w].inUse => wallet[w].inUse \/ Holds(s, w)'
  /\ \A w \in Wallets : wallet'[w].inUse /\ Holds(s, w) => Holds(s, w)'
  /\ MarkedInv(s)' /\ LostInv(s)'

\* It preserves HeldInv then.
LEMMA HeldStep ==
  ASSUME HeldInv, NEW s \in Swaps, OnlyOf(s), KeepsHold(s)
  PROVE  HeldInv'
<1>1. ASSUME NEW t \in Swaps \ {s}
      PROVE  /\ \A w \in Wallets : Holds(t, w) => Holds(t, w)'
             /\ MarkedInv(t)' /\ LostInv(t)'
  BY DEF HeldInv, OnlyOf, Holds, MarkedInv, LostInv
<1>2. ASSUME NEW w \in Wallets, wallet'[w].inUse
      PROVE  \E t \in Swaps : Holds(t, w)'
  <2>1. CASE wallet[w].inUse
    <3>1. PICK t \in Swaps : Holds(t, w)
      BY <2>1 DEF HeldInv, InUseIsHeld
    <3> QED
      BY <1>1, <1>2, <3>1 DEF KeepsHold
  <2>2. CASE ~wallet[w].inUse
    BY <1>2, <2>2 DEF KeepsHold
  <2> QED
    BY <2>1, <2>2
<1> QED
  BY <1>1, <1>2 DEF HeldInv, InUseIsHeld, KeepsHold

\* A wallet that is released is free, and no other is touched.
LEMMA ReleaseFrees ==
  ASSUME TablesOK, NEW w, Release(w)
  PROVE  \A v \in Wallets : wallet'[v].inUse <=> wallet[v].inUse /\ v # w
  BY DEF TablesOK, Release

\* A handler of a job after the confirmation has no wallet to release: whatever it
\* does, it takes none and loses none (the processors from the first confirmation on).
LEMMA LateHolds ==
  ASSUME NEW s \in Swaps, RequestInv(s), LostInv(s)',
         job[s].name \notin {"none", "confirm", "lost"}, UNCHANGED request,
         \A w \in Wallets : wallet'[w].inUse => wallet[w].inUse
  PROVE  KeepsHold(s)
  BY DEF KeepsHold, Holds, MarkedInv, RequestInv

\* A handler of the confirm job keeps the wallet until it returns.
LEMMA ConfirmHolds ==
  ASSUME NEW s \in Swaps, RequestInv(s), job[s].name = "confirm", UNCHANGED request,
         swap'[s].sourceWallet = swap[s].sourceWallet,
         \/ /\ job'[s].name = "confirm" /\ run'[s].stage # "completed"
            /\ \A w \in Wallets : wallet'[w].inUse => wallet[w].inUse
         \/ /\ job'[s].name = "confirm"
            /\ \A w \in Wallets :
                 wallet'[w].inUse => wallet[w].inUse /\ w # swap[s].sourceWallet
         \/ /\ run[s].stage = "completed" /\ job'[s].name # "lost"
            /\ \A w \in Wallets : wallet'[w].inUse => wallet[w].inUse
  PROVE  KeepsHold(s)
  BY DEF KeepsHold, Holds, MarkedInv, LostInv, RequestInv

\* A request holds its wallet from the moment it has marked it to the moment its job
\* does (createSwap).
LEMMA CreateHolds ==
  ASSUME TablesOK, NEW s \in Swaps, RequestInv(s), MarkedInv(s), LostInv(s),
         NEW now \in Nat, NEW block \in Nat,
         \/ PickWallet(s) \/ MarkWallet(s) \/ InsertSwap(s, now)
         \/ AddConfirmJob(s, block)
  PROVE  KeepsHold(s)
<1>1. CASE PickWallet(s)
  <2>1. request[s].stage = "new" /\ request'[s].stage = "mark"
    BY <1>1 DEF TablesOK, PickWallet, RequestAt
  <2> QED
    BY <1>1, <2>1 DEF PickWallet, KeepsHold, Holds, MarkedInv, LostInv
<1>2. CASE MarkWallet(s)
  <2>1. RequestMoves(s, "insert") /\ request[s].stage = "mark"
    BY <1>2, RequestGotoFields DEF MarkWallet, RequestAt
  <2>2. \A w \in Wallets :
          wallet'[w].inUse <=> wallet[w].inUse \/ w = request[s].wallet
    BY <1>2 DEF TablesOK, MarkWallet
  <2> QED
    BY <1>2, <2>1, <2>2 DEF MarkWallet, RequestMoves, KeepsHold, Holds, MarkedInv,
       LostInv
<1>3. CASE InsertSwap(s, now)
  <2>1. RequestMoves(s, "addJob") /\ request[s].stage = "insert"
    BY <1>3, RequestGotoFields DEF InsertSwap, RequestAt
  <2>2. swap'[s].sourceWallet = request[s].wallet /\ job[s].name = "none"
    BY <1>3, <2>1 DEF TablesOK, InsertSwap, NoSwap, RequestInv
  <2> QED
    BY <1>3, <2>1, <2>2 DEF InsertSwap, RequestMoves, KeepsHold, Holds, MarkedInv,
       LostInv
<1>4. CASE AddConfirmJob(s, block)
  <2>1. /\ RequestMoves(s, "done") /\ request[s].stage = "addJob"
        /\ job[s].name = "none"
    BY <1>4, RequestBlockFields DEF AddConfirmJob, RequestAt, RequestInv
  <2>2. job'[s].name = "confirm" /\ run'[s].stage = "idle"
    BY <1>4, FirstJob DEF AddConfirmJob
  <2> QED
    BY <1>4, <2>1, <2>2 DEF AddConfirmJob, RequestMoves, KeepsHold, Holds, MarkedInv,
       LostInv
<1> QED
  BY <1>1, <1>2, <1>3, <1>4

\* Its error paths give the wallet back in the end (createSwap).
LEMMA CreateFailsHolds ==
  ASSUME TablesOK, NEW s \in Swaps, RequestInv(s), MarkedInv(s), LostInv(s),
         NEW block \in Nat,
         \/ InsertFails(s) \/ AddConfirmJobFails(s, block) \/ FailSwap(s)
         \/ ReleaseRequested(s) \/ RequestThrows(s)
  PROVE  KeepsHold(s)
<1>1. CASE InsertFails(s)
  <2>1. RequestMoves(s, "rollback") /\ request[s].stage = "insert"
    BY <1>1, RequestGotoFields DEF InsertFails, RequestAt
  <2> QED
    BY <1>1, <2>1 DEF InsertFails, RequestMoves, KeepsHold, Holds, MarkedInv, LostInv
<1>2. CASE AddConfirmJobFails(s, block)
  <2>1. /\ RequestMoves(s, "failRow") /\ request[s].stage = "addJob"
        /\ job[s].name = "none"
    BY <1>2, RequestBlockFields DEF AddConfirmJobFails, RequestAt, RequestInv
  <2>2. job'[s].name \in {"none", "confirm"}
    BY <1>2, <2>1, FirstJob DEF AddConfirmJobFails
  <2> QED
    BY <1>2, <2>1, <2>2 DEF AddConfirmJobFails, RequestMoves, KeepsHold, Holds,
       MarkedInv, LostInv
<1>3. CASE FailSwap(s)
  <2>1. RequestMoves(s, "failWallet") /\ request[s].stage = "failRow"
    BY <1>3, RequestGotoFields DEF FailSwap, RequestAt
  <2>2. RowTyped(s)
    BY <1>3, StatusFields DEF FailSwap, Statuses
  <2> QED
    BY <1>3, <2>1, <2>2 DEF FailSwap, RequestMoves, RowTyped, KeepsRow, KeepsHold,
       Holds, MarkedInv, LostInv
<1>4. CASE ReleaseRequested(s)
  <2>1. RequestMoves(s, "done")
    BY <1>4, RequestGotoFields DEF ReleaseRequested
  <2>2. \A w \in Wallets :
          wallet'[w].inUse <=> wallet[w].inUse /\ w # request[s].wallet
    BY <1>4, ReleaseFrees DEF ReleaseRequested
  <2> QED
    BY <1>4, <2>1, <2>2 DEF ReleaseRequested, RequestMoves, KeepsHold, Holds,
       MarkedInv, LostInv
<1>5. CASE RequestThrows(s)
  <2>1. \/ RequestMoves(s, "done") /\ request[s].stage = "mark"
        \/ RequestMoves(s, "aborted")
    BY <1>5, RequestGotoFields DEF RequestThrows, RequestAt
  <2> QED
    BY <1>5, <2>1 DEF RequestThrows, RequestMoves, KeepsHold, Holds, MarkedInv,
       LostInv
<1> QED
  BY <1>1, <1>2, <1>3, <1>4, <1>5

\* A cancellation and the clock have nothing to do with wallets (cancelSwap).
LEMMA CancelHolds ==
  ASSUME TablesOK, NEW s \in Swaps, MarkedInv(s), LostInv(s),
         CancelRead(s) \/ CancelWrite(s) \/ Tick(s)
  PROVE  KeepsHold(s)
<1>1. swap'[s].sourceWallet = swap[s].sourceWallet
  BY StatusFields DEF CancelRead, CancelWrite, Tick, Statuses, RowTyped, KeepsRow
<1> QED
  BY <1>1 DEF CancelRead, CancelWrite, Tick, KeepsHold, Holds, MarkedInv, LostInv

\* The helpers write the row before they release the wallet it names (SwapsHelper),
\* and a handler that throws keeps it until its job is over.
LEMMA SettleHolds ==
  ASSUME TablesOK, NEW s \in Swaps, RequestInv(s), ExitInv(s), LostInv(s),
         ExitRow(s) \/ ExitWallet(s) \/ HandlerThrows(s)
  PROVE  KeepsHold(s)
<1>0. /\ job[s].name \notin {"none", "lost"}
      /\ "failed" \in Statuses /\ "exitWallet" \in Stages
  BY DEF ExitRow, ExitWallet, HandlerThrows, RequestInv, LostInv, Statuses, Stages
<1>1. CASE ExitRow(s)
  <2>1. run[s].result \in Statuses
    BY <1>1 DEF ExitRow, ExitInv, Statuses
  <2>2. RowTyped(s)
    BY <1>1, <2>1, StatusFields DEF ExitRow
  <2>3. job' = job /\ run'[s].stage = "exitWallet"
    BY <1>0, <1>1, GotoFields DEF ExitRow
  <2> QED
    BY <1>0, <1>1, <2>2, <2>3, LateHolds, ConfirmHolds
       DEF ExitRow, RowTyped, KeepsRow, LostInv
<1>2. CASE ExitWallet(s)
  <2>1. \A w \in Wallets :
          wallet'[w].inUse <=> wallet[w].inUse /\ w # swap[s].sourceWallet
    BY <1>2, ReleaseFrees DEF ExitWallet
  <2>2. job' = job
    BY <1>2 DEF ExitWallet, Return
  <2> QED
    BY <1>0, <1>2, <2>1, <2>2, LateHolds, ConfirmHolds DEF ExitWallet, LostInv
<1>3. CASE HandlerThrows(s)
  <2>1. \/ job'[s].name = job[s].name /\ run'[s].stage = "idle"
        \/ /\ job'[s] = job[s] /\ job[s].name = "confirm"
           /\ run'[s].stage = "failed"
        \/ /\ job[s].name # "confirm" /\ job'[s].name = "lost"
           /\ run'[s].stage = "idle"
    BY <1>3, FailsFields DEF HandlerThrows
  <2> QED
    BY <1>0, <1>3, <2>1, LateHolds, ConfirmHolds DEF HandlerThrows, LostInv
<1> QED
  BY <1>1, <1>2, <1>3

\* A crash cuts requests and jobs off, and what they held they hold for good.
LEMMA CrashHolds ==
  ASSUME TablesOK, HeldInv, Crash
  PROVE  HeldInv'
<1>1. PICK finished \in SUBSET {s \in Swaps : run[s].stage \in Listening} :
        job' = [s \in Swaps |->
                 IF run[s].stage = "idle" THEN job[s]
                 ELSE IF s \in finished THEN Orphaned(s) ELSE Redelivered(job[s])]
  BY DEF Crash
<1>2. UNCHANGED <<swap, wallet>> /\ \A t \in Swaps : run'[t].stage = "idle"
  BY CrashEffect
<1>3. ASSUME NEW t \in Swaps, job[t].name \in {"confirm", "lost"},
             job[t].name = "confirm" => run[t].stage # "completed"
      PROVE  job'[t].name \in {"confirm", "lost"}
  <2>1. CASE run[t].stage = "idle"
    BY <1>1, <1>3, <2>1
  <2>2. CASE run[t].stage # "idle"
    <3>1. job[t].name = "confirm" /\ run[t].stage # "completed"
      BY <1>3, <2>2 DEF HeldInv, LostInv
    <3>2. CASE t \in finished
      BY <1>1, <2>2, <3>1, <3>2, RestFields DEF Orphaned
    <3>3. CASE t \notin finished
      <4>1. job'[t] = Redelivered(job[t])
        BY <1>1, <2>2, <3>3
      <4>2. NewJob("confirm", job[t].arg, 0, 1).name = "confirm"
        BY DEF NewJob
      <4> QED
        BY <3>1, <4>1, <4>2 DEF Redelivered, TablesOK, Jobs
    <3> QED
      BY <3>2, <3>3
  <2> QED
    BY <2>1, <2>2
<1>4. ASSUME NEW t \in Swaps
      PROVE  /\ request'[t].wallet = request[t].wallet
             /\ \/ request'[t].stage = request[t].stage
                   /\ request[t].stage \in {"new", "done", "aborted"}
                \/ request'[t].stage = "aborted"
  BY DEF Crash, TablesOK, Requests
<1>5. ASSUME NEW t \in Swaps, NEW w \in Wallets, Holds(t, w)
      PROVE  Holds(t, w)'
  BY <1>2, <1>3, <1>4, <1>5 DEF Holds
<1>6. InUseIsHeld'
  BY <1>2, <1>5 DEF HeldInv, InUseIsHeld
<1> QED
  BY <1>2, <1>4, <1>6 DEF HeldInv, MarkedInv, LostInv

\* Before any request no wallet is marked.
LEMMA InitHeld == InitTables => HeldInv
BY DEF InitTables, HeldInv, InUseIsHeld, MarkedInv, LostInv, NewRequest, NoJob, NewJob

-----------------------------------------------------------------------------
(* Attempts and stalls are a budget: the part behind RepeatsAreBounded.      *)

\* What a job has done `count` times it does at most once more for every attempt it
\* has left, but for the current one when that has `spent` its turn.
Within(count, attempts, j, spent) ==
  /\ j.left >= 1 /\ j.stalls <= MaxStalls
  /\ count + j.left <= attempts + j.stalls + (IF spent THEN 1 ELSE 0)

\* So its attempts and the stalls it may have bound what it does.
LEMMA WithinBound ==
  ASSUME NEW count \in Nat, NEW attempts \in Nat, NEW j \in Jobs, NEW spent \in BOOLEAN,
         Within(count, attempts, j, spent)
  PROVE  count <= attempts + MaxStalls
<1>1. j.left \in Nat /\ j.stalls \in Nat /\ MaxStalls \in Nat
  BY AttemptAssumption DEF Jobs
<1> QED
  BY <1>1 DEF Within

\* A job that has just been added has done nothing yet (queue.add).
LEMMA NewWithin ==
  ASSUME NEW name \in JobNames, NEW attempts \in Nat \ {0}, NEW spent \in BOOLEAN
  PROVE  Within(0, attempts, NewJob(name, 0, 0, attempts), spent)
<1>1. /\ NewJob(name, 0, 0, attempts).left = attempts
      /\ NewJob(name, 0, 0, attempts).stalls = 0
  BY NewJobFields
<1> QED
  BY <1>1, AttemptAssumption DEF Within

\* An attempt that fails has done it at most once, and is one less that is left.
LEMMA FailsWithin ==
  ASSUME TablesOK, NEW s \in Swaps, NEW why, NEW count \in Nat, NEW more \in Nat,
         NEW attempts \in Nat, NEW spent \in BOOLEAN,
         job[s].name # "confirm", Fails(s, why),
         Within(count, attempts, job[s], spent),
         more = count \/ (more <= count + 1 /\ ~spent)
  PROVE  /\ more <= attempts + MaxStalls
         /\ job'[s].name = "lost" \/ Within(more, attempts, job'[s], FALSE)
<1>1. /\ job \in [Swaps -> Jobs] /\ MaxStalls \in Nat
      /\ job[s].left \in Nat /\ job[s].stalls \in Nat
  BY AttemptAssumption DEF TablesOK, Jobs
<1>2. more <= attempts + MaxStalls
  BY <1>1 DEF Within
<1>3. CASE job[s].left > 1
  <2>1. /\ job'[s].left = job[s].left - 1
        /\ job'[s].stalls = job[s].stalls
    BY <1>1, <1>3 DEF Fails, Jobs
  <2> QED
    BY <1>1, <1>2, <1>3, <2>1 DEF Within
<1>4. CASE ~(job[s].left > 1)
  BY <1>1, <1>2, <1>4, RestFields DEF Fails
<1> QED
  BY <1>3, <1>4

\* A job that a crash has stalled and that is delivered again has one more stall.
LEMMA CrashWithin ==
  ASSUME TablesOK, Crash, NEW t \in Swaps, NEW count \in Nat, NEW attempts \in Nat,
         NEW spent \in BOOLEAN, Within(count, attempts, job[t], spent),
         spent => run[t].stage # "idle",
         job[t].name \notin {"confirm", "ended", "lost"}, job'[t].name = job[t].name
  PROVE  Within(count, attempts, job'[t], FALSE)
<1>1. /\ job[t] \in Jobs /\ MaxStalls \in Nat
      /\ job[t].left \in Nat /\ job[t].stalls \in Nat
  BY AttemptAssumption DEF TablesOK, Jobs
<1>2. CASE run[t].stage = "idle"
  <2>1. job'[t] = job[t]
    BY <1>2 DEF Crash
  <2> QED
    BY <1>2, <2>1
<1>3. CASE run[t].stage # "idle"
  <2>1. job'[t] \in {Orphaned(t), Redelivered(job[t])}
    BY <1>3 DEF Crash
  <2>2. job'[t] = [job[t] EXCEPT !.stalls = @ + 1] /\ job[t].stalls < MaxStalls
    BY <2>1, RestFields DEF Orphaned, Redelivered
  <2>3. job'[t].left = job[t].left /\ job'[t].stalls = job[t].stalls + 1
    BY <1>1, <2>2 DEF Jobs
  <2> QED
    BY <1>1, <2>2, <2>3 DEF Within
<1> QED
  BY <1>2, <1>3

\* A job that was being handled has one more stall then (Redelivered, Orphaned).
LEMMA CrashStalls ==
  ASSUME TablesOK, Crash, NEW t \in Swaps,
         job[t].name \notin {"confirm", "ended", "lost"}, job'[t].name = job[t].name
  PROVE  \/ run[t].stage = "idle" /\ job'[t].stalls = job[t].stalls
         \/ job'[t].stalls = job[t].stalls + 1
<1>1. job[t] \in Jobs
  BY DEF TablesOK
<1>2. CASE run[t].stage = "idle"
  BY <1>2 DEF Crash
<1>3. CASE run[t].stage # "idle"
  <2>1. job'[t] \in {Orphaned(t), Redelivered(job[t])}
    BY <1>3 DEF Crash
  <2>2. job'[t] = [job[t] EXCEPT !.stalls = @ + 1]
    BY <2>1, RestFields DEF Orphaned, Redelivered
  <2> QED
    BY <1>1, <2>2 DEF Jobs
<1> QED
  BY <1>2, <1>3

\* Entries of a log are counted by their places: one entry more, at most one place
\* more of any kind.
LEMMA OneMore ==
  ASSUME NEW n \in Nat, NEW S \in SUBSET (1..n), NEW T, T \subseteq S \cup {n + 1}
  PROVE  /\ Cardinality(S) \in Nat
         /\ Cardinality(T) \in Nat
         /\ Cardinality(T) <= Cardinality(S) + 1
<1>1. IsFiniteSet(1..n)
  BY FS_Interval
<1>2. IsFiniteSet(S)
  BY <1>1, FS_Subset
<1>3. Cardinality(S) \in Nat
  BY <1>2, FS_CardinalityType
<1>4. /\ IsFiniteSet(S \cup {n + 1})
      /\ Cardinality(S \cup {n + 1}) \in {Cardinality(S), Cardinality(S) + 1}
  BY <1>2, FS_AddElement
<1>5. IsFiniteSet(T) /\ Cardinality(T) <= Cardinality(S \cup {n + 1})
  BY <1>4, FS_Subset
<1>6. Cardinality(T) \in Nat
  BY <1>5, FS_CardinalityType
<1> QED
  BY <1>3, <1>4, <1>5, <1>6
-----------------------------------------------------------------------------
(* No swap is forgotten: what a step of either direction does to SettledInv. *)

\* The jobs from which the chain leads to one that completes the swap.
Attending == {"confirm", "wait", "mint", "getMint", "pay"}

\* A swap that reads settled needs nobody.
LEMMA SettledRow ==
  ASSUME NEW s \in Swaps, swap'[s].status \in Settled
  PROVE  SettledInv(s)'
  BY DEF SettledInv, Settled

\* A job that settles the swap, or is followed by one that does, is still there.
LEMMA AttendedJob ==
  ASSUME NEW s \in Swaps, job'[s].name \in Attending, run'[s].stage # "exitWallet",
         run'[s].stage = "completed" =>
           Processable(run'[s].result) /\ job'[s].name \notin {"getMint", "pay"}
  PROVE  SettledInv(s)'
  BY DEF SettledInv, Attended, Attending, Processable

\* A handler throws: its job stays, or is lost and the swap cut off.
LEMMA FailsSettles ==
  ASSUME TablesOK, NEW s \in Swaps, SettledInv(s), NEW why \in {"error", "notFound"},
         Fails(s, why), UNCHANGED <<swap, request>>
  PROVE  SettledInv(s)'
<1>1. /\ job'[s].name = job[s].name \/ job'[s].name = "lost"
      /\ run'[s].stage \in {"idle", "failed"}
  BY FailsFields
<1> QED
  BY <1>1 DEF SettledInv, Attended, CutOff, RequestAt

\* A completed listener ends the chain, or adds a job that settles the swap.
LEMMA ListenerSettles ==
  ASSUME TablesOK, NEW s \in Swaps, SettledInv(s), UNCHANGED swap,
         run[s].stage = "completed", run'[s].stage = "idle",
         job'[s].name \in Attending \/ ~Processable(run[s].result)
           \/ job[s].name \in {"getMint", "pay"}
  PROVE  SettledInv(s)'
<1>1. CASE job'[s].name \in Attending
  BY <1>1, AttendedJob
<1>2. CASE job'[s].name \notin Attending
  <2>1. swap'[s].status \in Settled
    BY <1>2 DEF SettledInv
  <2> QED
    BY <2>1, SettledRow
<1> QED
  BY <1>1, <1>2

\* The jobs after the payment write no status.
LEMMA LateJobSettles ==
  ASSUME NEW s \in Swaps, SettledInv(s), swap'[s].status = swap[s].status,
         UNCHANGED request, job[s].name \notin Attending \cup {"lost"},
         job'[s].name \notin {"getMint", "pay"}, run'[s].stage # "exitWallet",
         run'[s].stage = "completed" => Processable(run'[s].result)
  PROVE  SettledInv(s)'
  BY DEF SettledInv, Attended, CutOff, RequestAt, Attending

\* A job, a handler and a row left alone: only the request of s moves on, and not
\* from a stage at which it is to settle s.
LEMMA RequestSettles ==
  ASSUME TablesOK, NEW s \in Swaps, RequestInv(s), SettledInv(s),
         UNCHANGED <<swap, job, run>>,
         \/ request' = request
         \/ request[s].stage \notin {"addJob", "failRow", "aborted"}
         \/ request'[s].stage = "aborted"
  PROVE  SettledInv(s)'
BY DEF SettledInv, Attended, CutOff, RequestAt

\* createSwap but for its writes of the row and of the job, cancelSwap before its
\* write, and the clock.
LEMMA QuietSettles ==
  ASSUME TablesOK, NEW s \in Swaps, RequestInv(s), SettledInv(s),
         \/ PickWallet(s) \/ MarkWallet(s) \/ InsertFails(s) \/ ReleaseRequested(s)
         \/ RequestThrows(s) \/ CancelRead(s) \/ Tick(s)
  PROVE  SettledInv(s)'
<1>1. UNCHANGED <<swap, job, run>>
  BY DEF PickWallet, MarkWallet, InsertFails, ReleaseRequested, RequestThrows,
     CancelRead, Tick
<1>2. CASE PickWallet(s) \/ MarkWallet(s) \/ InsertFails(s) \/ ReleaseRequested(s)
  <2>1. request[s].stage \in {"new", "mark", "insert", "rollback", "failWallet"}
    BY <1>2 DEF PickWallet, MarkWallet, InsertFails, ReleaseRequested, RequestAt
  <2> QED
    BY <1>1, <2>1, RequestSettles
<1>3. CASE RequestThrows(s)
  <2>1. request[s].stage = "mark" \/ request'[s].stage = "aborted"
    BY <1>3 DEF RequestThrows, RequestGoto, RequestAt, TablesOK, Requests
  <2> QED
    BY <1>1, <2>1, RequestSettles
<1>4. CASE CancelRead(s) \/ Tick(s)
  BY <1>1, <1>4, RequestSettles DEF CancelRead, Tick
<1> QED
  BY <1>2, <1>3, <1>4

\* The writes of a request: each leaves the request, or the job it added, to settle
\* the swap, or settles it (createSwap).
LEMMA RequestWriteSettles ==
  ASSUME TablesOK, NEW s \in Swaps, RequestInv(s), SettledInv(s), NEW n \in Nat,
         \/ InsertSwap(s, n) \/ AddConfirmJob(s, n) \/ AddConfirmJobFails(s, n)
         \/ FailSwap(s) \/ CancelWrite(s)
  PROVE  SettledInv(s)'
<1>1. CASE InsertSwap(s, n)
  <2>1. run'[s].stage = "idle" /\ request'[s].stage = "addJob"
    <3>1. request[s].stage = "insert" /\ run' = run /\ RequestMoves(s, "addJob")
      BY <1>1, RequestGotoFields DEF InsertSwap, RequestAt
    <3> QED
      BY <3>1 DEF RequestInv, RequestMoves
  <2> QED
    BY <2>1 DEF SettledInv, Attended
<1>2. CASE AddConfirmJob(s, n)
  <2>1. job'[s].name = "confirm" /\ run'[s].stage = "idle"
    BY <1>2, FirstJob DEF AddConfirmJob
  <2> QED
    BY <2>1, AttendedJob DEF Attending
<1>3. CASE AddConfirmJobFails(s, n)
  <2>1. request'[s].stage = "failRow"
    BY <1>3 DEF AddConfirmJobFails, TablesOK, Requests
  <2>2. run'[s].stage = "idle"
    <3>1. CASE UNCHANGED <<job, run>>
      BY <1>3, <3>1 DEF AddConfirmJobFails, RequestAt, RequestInv
    <3>2. CASE Enqueue(s, NewJob("confirm", n, 0, 1))
      BY <3>2, FirstJob
    <3> QED
      BY <1>3, <3>1, <3>2 DEF AddConfirmJobFails
  <2> QED
    BY <2>1, <2>2 DEF SettledInv, Attended
<1>4. CASE FailSwap(s) \/ CancelWrite(s)
  <2>1. swap'[s].status \in Settled
    BY <1>4 DEF FailSwap, CancelWrite, TablesOK, Rows, Settled
  <2> QED
    BY <2>1, SettledRow
<1> QED
  BY <1>1, <1>2, <1>3, <1>4

\* The helpers settle the swap with their first write (SwapsHelper).
LEMMA ExitSettles ==
  ASSUME TablesOK, NEW s \in Swaps, ExitInv(s), SettledInv(s),
         ExitRow(s) \/ ExitWallet(s)
  PROVE  SettledInv(s)'
<1>1. swap'[s].status \in Settled
  <2>1. CASE ExitRow(s)
    BY <2>1 DEF ExitRow, ExitInv, TablesOK, Rows, Settled
  <2>2. CASE ExitWallet(s)
    BY <2>2 DEF ExitWallet, SettledInv
  <2> QED
    BY <2>1, <2>2
<1> QED
  BY <1>1, SettledRow

\* The steps of the confirm job that both directions share.
LEMMA ConfirmSharedSettles ==
  ASSUME TablesOK, NEW s \in Swaps, RequestInv(s), SettledInv(s),
         ConfirmReads(s, "scan") \/ ConfirmCredit(s)
  PROVE  SettledInv(s)'
<1>1. CASE ConfirmReads(s, "scan")
  <2>1. job'[s].name = "confirm" /\ run'[s].stage \in {"exitRow", "scan"}
    BY <1>1, ConfirmReadsFields DEF Stages
  <2> QED
    BY <2>1, AttendedJob DEF Attending
<1>2. CASE ConfirmCredit(s)
  <2>1. /\ job'[s].name = "confirm" /\ run'[s].stage = "completed"
        /\ run'[s].result = "confirmed"
    BY <1>2, ConfirmCreditFields DEF ConfirmCredit, At
  <2> QED
    BY <2>1, AttendedJob DEF Attending, Processable
<1> QED
  BY <1>1, <1>2

\* A handler that throws (any call of a handler).
LEMMA ThrowSettles ==
  ASSUME TablesOK, NEW s \in Swaps, SettledInv(s), HandlerThrows(s)
  PROVE  SettledInv(s)'
BY FailsSettles DEF HandlerThrows

\* A crash leaves an open swap its job, or cuts it off: it ends only a chain whose
\* handler had settled the swap.
LEMMA CrashSettles ==
  ASSUME TablesOK, NEW s \in Swaps, SettledInv(s), Crash
  PROVE  SettledInv(s)'
<1>1. swap' = swap /\ run'[s].stage = "idle"
  BY CrashEffect DEF Crash
<1>2. ASSUME swap[s].status \in {"pending", "confirmed"}
      PROVE  Attended(s)' \/ CutOff(s)'
  <2>1. CASE request[s].stage \in {"addJob", "failRow", "aborted"}
    <3>1. request'[s].stage = "aborted"
      BY <2>1 DEF Crash, TablesOK, Requests
    <3> QED
      BY <3>1 DEF CutOff, RequestAt
  <2>2. CASE job[s].name \in Attending \cup {"lost"}
    <3>1. job'[s] \in {job[s], Redelivered(job[s])} \/ job'[s] = Orphaned(s)
      BY DEF Crash
    <3>2. CASE job'[s] \in {job[s], Redelivered(job[s])}
      <4>1. job'[s].name \in {job[s].name, "lost"}
        BY <3>2, RestFields DEF Redelivered, NewJob, TablesOK, Jobs
      <4> QED
        BY <2>2, <4>1 DEF Attending, Attended, CutOff
    <3>3. CASE job'[s] = Orphaned(s)
      <4>1. ~(run[s].stage = "completed" /\ ~Processable(run[s].result))
        BY <1>2 DEF SettledInv, Settled
      <4>2. job'[s].name = "lost"
        BY <3>3, <4>1, RestFields DEF Orphaned
      <4> QED
        BY <4>2 DEF CutOff
    <3> QED
      BY <3>1, <3>2, <3>3
  <2> QED
    BY <1>2, <2>1, <2>2 DEF SettledInv, Attended, Attending, CutOff, RequestAt
<1> QED
  BY <1>1, <1>2 DEF SettledInv

\* An action on s leaves the row, the job, the handler and the request of t.
LEMMA SettledKept ==
  ASSUME NEW t \in Swaps, SettledInv(t), swap'[t] = swap[t], job'[t] = job[t],
         run'[t] = run[t], request'[t] = request[t]
  PROVE  SettledInv(t)'
BY DEF SettledInv, Attended, CutOff, RequestAt

Settling == \A s \in Swaps : SettledInv(s)

\* An action on s alone leaves those of the other swaps.
LEMMA SettledStep ==
  ASSUME Settling, NEW s \in Swaps, SettledInv(s)',
         \A t \in Swaps \ {s} : /\ swap'[t] = swap[t] /\ job'[t] = job[t]
                               /\ run'[t] = run[t] /\ request'[t] = request[t]
  PROVE  Settling'
<1>1. ASSUME NEW t \in Swaps \ {s}
      PROVE  SettledInv(t)'
  BY SettledKept DEF Settling
<1> QED
  BY <1>1 DEF Settling

\* Before any request there is no swap to forget.
LEMMA SettledInit == InitTables => Settling
BY DEF InitTables, Settling, SettledInv, NoSwap, Idle, NewRun
=============================================================================
